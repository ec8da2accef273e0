--------------------------- MODULE ServiceProofs ---------------------------
(***************************************************************************)
(* Proofs about the tasks of the service and the state they share.         *)
(*                                                                         *)
(* 1. The life of a device: an acknowledged deletion and an acknowledged   *)
(* hostname hold, for every set of names, leases and concurrent requests,  *)
(* however often the interface is created again and the service restarted. *)
(* The argument: a save holds the runtime's read lock, so what a task has  *)
(* exported is still the registry when it is renamed into place, and a     *)
(* deletion that passed a store has emptied it for good, at the ifindex it *)
(* concerns, unless a tick under way still carries the device towards that *)
(* store.                                                                  *)
(*                                                                         *)
(* 2. The locks: no tasks wait for one another, for every mix of them.     *)
(* The argument: a lock is awaited while none is held or while only        *)
(* runtime is.                                                             *)
(*                                                                         *)
(* 3. The conntrack view: its index finds every flow it shows, for every   *)
(* set of connections and ids and every capacity.                          *)
(*                                                                         *)
(* The three share no variable: each theorem is about its own module's     *)
(* specification.                                                          *)
(***************************************************************************)
EXTENDS DeviceLifecycle, LockOrder, Conntrack, FiniteSetTheorems, SequenceTheorems, WellFoundedInduction, TLAPS

-----------------------------------------------------------------------------
(* 1. The life of a device *)

\* A request knows what it is about.
RequestsTyped ==
  /\ delete.pc # "idle" => delete.at \in Indexes
  /\ \A r \in Requests : put[r].pc # "idle" => put[r].name \in Names /\ put[r].at \in Indexes

\* A task between its export and its rename, and only such a task, has a
\* state to put in place.
SaversSaving ==
  /\ saving["tick"] # NotSaving <=> tick.pc = "saving"
  /\ saving["delete"] # NotSaving <=> delete.pc = "saving"
  /\ \A r \in Requests : saving[r] # NotSaving <=> put[r].pc = "saving"

\* What was exported is the registry as it is now.
SavedIsCurrent == \A s \in Savers : saving[s] # NotSaving => saving[s] = registry

\* A deletion that reached the registry is still in hand, or was acknowledged.
DeletionInHand ==
  /\ gone.stage = "removed" =>
       /\ delete.pc \in {"history", "histogram", "disk", "persist", "saving"}
       /\ delete.at = gone.at
  /\ gone.stage # "no" => gone.at \in Indexes /\ gone.at \notin gone.left

\* It holds there, but for the entries of other ifindexes.
RemovedFromRegistry == gone.stage # "no" => Entries(registry) \subseteq gone.left

\* The deletion in hand, or the one acknowledged, is past the given stages.
Past(stages) ==
  /\ ~gone.carried
  /\ gone.stage = "deleted" \/ (gone.stage = "removed" /\ delete.pc \in stages)

\* A store that the deletion has emptied stays empty: no tick brings the
\* device to it.
HistoryEmptied ==
  Past({"histogram", "disk", "persist", "saving"}) =>
    gone.at \notin history /\ ~(tick.pc = "history" /\ tick.items[gone.at].online)
HistogramEmptied ==
  Past({"disk", "persist", "saving"}) =>
    /\ histogram[gone.at] = {}
    /\ ~(tick.pc \in {"history", "histogram"} /\ tick.items[gone.at].online)
\* The ring has the interface's name and takes what other ifindexes complete.
RingEmptied ==
  Past({"persist", "saving"}) /\ gone.left = {} =>
    /\ ~ring /\ ~(tick.pc = "append" /\ tick.completed)
    /\ tick.pc \in {"history", "histogram"} =>
         \A i \in Indexes \ {gone.at} : ~tick.items[i].listed

TypeInv == TypeOK /\ RequestsTyped /\ SaversSaving
RegistryInv ==
  /\ SavedIsCurrent /\ DeletionInHand /\ RemovedFromRegistry /\ DeletedOffDisk
  /\ AckedNameKept
TrafficInv == HistoryEmptied /\ HistogramEmptied /\ RingEmptied
-----------------------------------------------------------------------------
(* Types.                                                                  *)

AllNames == Names \cup Leases \cup {NoName}

LEMMA IndexFacts ==
  /\ NoIndex \notin Indexes /\ 1 \in Indexes /\ NoIndex = 0 /\ Indexes \subseteq Nat
  /\ \A i \in Indexes : i + 1 \in Nat
BY BoundsAssumption DEF NoIndex, Indexes

LEMMA KnownFacts ==
  /\ Absent \notin Known /\ Absent.name = NoName /\ Absent.seen = "never"
  /\ \A k \in Known : k.name \in AllNames /\ k.seen \in {"recently", "long_ago"}
  /\ \A n \in AllNames, w \in {"recently", "long_ago"} :
       LET k == [name |-> n, seen |-> w] IN k \in Known /\ k.name = n /\ k.seen = w
  /\ \A k \in Known, n \in AllNames :
       LET j == [k EXCEPT !.name = n] IN j \in Known /\ j.name = n
  /\ \A k \in Known :
       LET j == [k EXCEPT !.seen = "long_ago"] IN j \in Known /\ j.name = k.name
BY DEF Absent, Known, AllNames

LEMMA RegistryFacts ==
  /\ NoEntries \in Registries /\ NotSaving \notin Registries
  /\ \A reg \in Registries :
       /\ Entries(reg) \subseteq Indexes
       /\ \A i \in Indexes : /\ reg[i] \in Known \cup {Absent} /\ reg[i].name \in AllNames
                             /\ i \in Entries(reg) <=> reg[i] \in Known
                             /\ i \notin Entries(reg) <=> reg[i] = Absent
  /\ \A reg \in Registries : Entries(reg) = {} <=> reg = NoEntries
  /\ Entries(NoEntries) = {}
  /\ \A at \in Indexes, k \in Known :
       Only(at, k) \in Registries /\ Entries(Only(at, k)) = {at} /\ Only(at, k)[at] = k
<1>1. NoEntries \in Registries
  BY DEF NoEntries, Registries
<1>2. NotSaving \notin Registries
  <2>1. NotSaving[1] \notin Known \cup {Absent}
    BY IndexFacts DEF NotSaving, Known, Absent
  <2> QED BY <2>1, IndexFacts DEF Registries
<1>3. ASSUME NEW reg \in Registries
      PROVE  /\ Entries(reg) \subseteq Indexes
             /\ \A i \in Indexes : /\ reg[i] \in Known \cup {Absent} /\ reg[i].name \in AllNames
                                   /\ i \in Entries(reg) <=> reg[i] \in Known
                                   /\ i \notin Entries(reg) <=> reg[i] = Absent
  BY KnownFacts DEF Registries, Entries, AllNames
<1>4. ASSUME NEW reg \in Registries PROVE Entries(reg) = {} <=> reg = NoEntries
  BY DEF Registries, Entries, NoEntries
<1>5. Entries(NoEntries) = {}
  BY DEF Entries, NoEntries
<1>6. ASSUME NEW at \in Indexes, NEW k \in Known
      PROVE  Only(at, k) \in Registries /\ Entries(Only(at, k)) = {at} /\ Only(at, k)[at] = k
  BY KnownFacts DEF Only, Registries, Entries
<1> QED BY <1>1, <1>2, <1>3, <1>4, <1>5, <1>6

LEMMA ListingFacts ==
  /\ Unlisted \in Listings /\ ~Unlisted.listed
  /\ \A n \in AllNames : Listed(n) \in Listings /\ Listed(n).listed
  /\ \A l \in Listings : l.listed \in BOOLEAN
  /\ \A reg \in Registries : Recovered(reg) \in [Indexes -> Listings]
<1>1. /\ Unlisted \in Listings /\ ~Unlisted.listed
      /\ \A n \in AllNames : Listed(n) \in Listings /\ Listed(n).listed
      /\ \A l \in Listings : l.listed \in BOOLEAN
  <2>1. Unlisted \in Listings /\ ~Unlisted.listed
    BY DEF Unlisted, Listings
  <2>2. ASSUME NEW n \in AllNames PROVE Listed(n) \in Listings /\ Listed(n).listed
    BY DEF Listed, Listings, AllNames
  <2>3. ASSUME NEW l \in Listings PROVE l.listed \in BOOLEAN
    <3>1. CASE l = Unlisted
      BY <3>1, <2>1 DEF Unlisted
    <3>2. CASE l \in [name : AllNames, listed : {TRUE}]
      BY <3>2
    <3> QED BY <3>1, <3>2 DEF Listings, AllNames
  <2> QED BY <2>1, <2>2, <2>3
<1>2. ASSUME NEW reg \in Registries PROVE Recovered(reg) \in [Indexes -> Listings]
  BY <1>1, RegistryFacts DEF Recovered
<1> QED BY <1>1, <1>2

TickSteps == {"idle", "collect", "history", "histogram", "append", "publish",
              "persist", "saving", "hour"}

LEMMA TickFacts ==
  /\ NoItem \in Items /\ ~NoItem.online /\ ~NoItem.listed
  /\ \A n \in AllNames, o \in BOOLEAN :
       LET i == [name |-> n, online |-> o, listed |-> TRUE] IN
       i \in Items /\ i.listed /\ i.name = n /\ i.online = o
  /\ \A i \in Items : i.name \in AllNames /\ i.online \in BOOLEAN /\ i.listed \in BOOLEAN
  /\ \A t \in Ticks : /\ t.items \in [Indexes -> Items] /\ t.completed \in BOOLEAN
                      /\ t.topo \in Indexes \cup {NoIndex} /\ t.pc \in TickSteps
  /\ NoTick \in Ticks /\ NoTick.pc = "idle"
  /\ LET t == [NoTick EXCEPT !.pc = "persist"] IN t \in Ticks /\ t.pc = "persist"
<1>1. /\ NoItem \in Items /\ ~NoItem.online /\ ~NoItem.listed
      /\ \A n \in AllNames, o \in BOOLEAN :
           LET i == [name |-> n, online |-> o, listed |-> TRUE] IN
           i \in Items /\ i.listed /\ i.name = n /\ i.online = o
      /\ \A i \in Items : i.name \in AllNames /\ i.online \in BOOLEAN /\ i.listed \in BOOLEAN
  BY DEF NoItem, Items, AllNames
<1>2. NoItems \in [Indexes -> Items]
  BY <1>1 DEF NoItems
<1>3. /\ NoTick \in Ticks /\ NoTick.pc = "idle"
      /\ LET t == [NoTick EXCEPT !.pc = "persist"] IN t \in Ticks /\ t.pc = "persist"
  BY <1>2 DEF NoTick, Ticks
<1>4. \A t \in Ticks : /\ t.items \in [Indexes -> Items] /\ t.completed \in BOOLEAN
                       /\ t.topo \in Indexes \cup {NoIndex} /\ t.pc \in TickSteps
  BY DEF Ticks, TickSteps
<1> QED BY <1>1, <1>3, <1>4

Stages == {"no", "removed", "deleted"}
Deletions == [stage : Stages, at : Indexes \cup {NoIndex}, left : SUBSET Indexes,
              carried : BOOLEAN]

LEMMA DeletionFacts ==
  /\ NoDeletion \in Deletions /\ NoDeletion.stage = "no"
  /\ NoDelete \in Deletes /\ NoDelete.pc = "idle"
  /\ NoPut \in Puts /\ NoPut.pc = "idle"
  /\ NoCleanup \in Cleanups /\ NoCleanup.pc = "idle"
  /\ NoAck.at = NoIndex /\ NoAck.name = NoName
  /\ \A g \in Deletions : /\ g.stage \in Stages /\ g.left \subseteq Indexes
                          /\ g.at \in Indexes \cup {NoIndex} /\ g.carried \in BOOLEAN
  /\ \A d \in Deletes : d.at \in Indexes \cup {NoIndex}
  /\ \A p \in Puts : /\ p.at \in Indexes \cup {NoIndex} /\ p.name \in Names \cup {NoName}
                     /\ p.known \in BOOLEAN
  /\ \A c \in Cleanups : c.keys \subseteq Indexes /\ c.named \in BOOLEAN
BY DEF NoDeletion, Deletions, Stages, NoDelete, Deletes, NoPut, Puts, NoCleanup, Cleanups,
       NoAck

LEMMA CarriedStep ==
  ASSUME NEW g \in Deletions, NEW b \in BOOLEAN, NEW h, h = [g EXCEPT !.carried = b]
  PROVE  h \in Deletions /\ h.stage = g.stage /\ h.at = g.at /\ h.left = g.left /\ h.carried = b
BY DEF Deletions, Stages

LEMMA AcknowledgedStep ==
  ASSUME NEW g \in Deletions, NEW h, h = [g EXCEPT !.stage = "deleted"]
  PROVE  /\ h \in Deletions /\ h.stage = "deleted" /\ h.at = g.at /\ h.left = g.left
         /\ h.carried = g.carried
BY DEF Deletions, Stages

LEMMA TypeInit == Init => TypeInv
<1> SUFFICES ASSUME Init PROVE TypeInv
  OBVIOUS
<1>1. file \in Registries /\ ring \in BOOLEAN
  <2>1. ASSUME NEW n \in Leases PROVE Only(1, [name |-> n, seen |-> "recently"]) \in Registries
    BY KnownFacts, RegistryFacts, IndexFacts DEF AllNames
  <2>2. CASE link = 1 /\ file = NoEntries /\ ring = FALSE
    BY <2>2, RegistryFacts
  <2>3. CASE /\ link \in Indexes /\ ring = TRUE
             /\ file \in {Only(1, [name |-> n, seen |-> "recently"]) : n \in Leases}
    <3>1. PICK n \in Leases : file = Only(1, [name |-> n, seen |-> "recently"])
      BY <2>3, Zenon
    <3> QED BY <2>1, <2>3, <3>1
  <2> QED BY <2>2, <2>3, Zenon DEF Init
<1>2. registry \in Registries /\ snapshot \in [Indexes -> Listings]
  BY <1>1, ListingFacts DEF Init
<1>3. histogram \in [Indexes -> SUBSET {"current", "completed"}]
  BY DEF Init
<1>4. /\ tick \in Ticks /\ tick.pc = "idle" /\ delete \in Deletes /\ delete.pc = "idle"
      /\ cleanup \in Cleanups /\ put \in [Requests -> Puts]
      /\ \A r \in Requests : put[r].pc = "idle"
  BY TickFacts, DeletionFacts DEF Init
<1>5. /\ link \in Indexes \cup {NoIndex} /\ last_link \in Indexes
      /\ selected \in BOOLEAN /\ topology \in Indexes \cup {NoIndex}
      /\ unread \subseteq Indexes /\ present \in BOOLEAN /\ history \subseteq Indexes
      /\ hour_file \in BOOLEAN
  BY IndexFacts DEF Init
<1>6. saving \in [Savers -> Registries \cup {NotSaving}] /\ \A s \in Savers : saving[s] = NotSaving
  BY DEF Init
<1>7. events \in 0..MaxEvents /\ gone \in Deletions /\ acked = NoAck
  BY BoundsAssumption, DeletionFacts DEF Init
<1> QED BY <1>1, <1>2, <1>3, <1>4, <1>5, <1>6, <1>7
           DEF TypeInv, TypeOK, RequestsTyped, SaversSaving, Savers, Deletions, Stages

LEMMA TypeNext == TypeInv /\ [Next]_vars => TypeInv'
<1> SUFFICES ASSUME TypeInv, [Next]_vars PROVE TypeInv'
  OBVIOUS
<1> USE DEF TypeInv, TypeOK, RequestsTyped, SaversSaving, linkVars, memVars, fileVars,
            taskVars, ghostVars
<1>0. /\ gone \in Deletions /\ tick.pc \in TickSteps /\ NotSaving \notin Registries
      /\ tick.items \in [Indexes -> Items] /\ tick.completed \in BOOLEAN
      /\ "tick" \in Savers /\ "delete" \in Savers /\ \A r \in Requests : r \in Savers
      /\ \A r \in Requests : r # "tick" /\ r # "delete"
  BY TickFacts, RegistryFacts, RequestsAssumption DEF Deletions, Stages, Savers
<1>1. CASE BeginTick
  <2>1. tick' \in Ticks /\ tick'.pc = "collect"
    BY <1>1, TickFacts DEF BeginTick, Ticks
  <2> QED BY <1>1, <2>1 DEF BeginTick
<1>2. CASE Collect
  <2>1. PICK traffic \in SUBSET Countable, lease \in Leases :
          LET items == [i \in Indexes |-> Collected(i, traffic, lease)]
              online == {i \in Indexes : items[i].online}
          IN  /\ tick' = [pc |-> "history", topo |-> NoIndex, items |-> items,
                          completed |-> FALSE]
              /\ registry' = [i \in Indexes |->
                   IF i \in online THEN [name |-> items[i].name, seen |-> "recently"]
                   ELSE registry[i]]
              /\ gone' = AfterRegistration(online)
    BY <1>2 DEF Collect
  <2> DEFINE items == [i \in Indexes |-> Collected(i, traffic, lease)]
  <2>2. ASSUME NEW i \in Indexes PROVE Collected(i, traffic, lease) \in Items
    <3>1. registry[i].name \in AllNames /\ lease \in AllNames /\ NoName \in AllNames
      BY RegistryFacts DEF AllNames
    <3>2. OnlineItem(i, lease) \in Items
      BY <3>1, TickFacts DEF OnlineItem, Hostname
    <3> QED BY <3>1, <3>2, TickFacts DEF Collected
  <2>3. items \in [Indexes -> Items]
    BY <2>2
  <2> HIDE DEF items
  <2>4. tick' \in Ticks /\ tick'.pc = "history"
    BY <2>1, <2>3, TickFacts DEF items, Ticks
  <2>5. registry' \in Registries
    <3>1. \A i \in Indexes : items[i].name \in AllNames
      BY <2>3, TickFacts
    <3>2. \A i \in Indexes : [name |-> items[i].name, seen |-> "recently"] \in Known
      BY <3>1, KnownFacts
    <3> QED BY <2>1, <3>2 DEF items, Registries
  <2>6. gone' \in Deletions
    BY <1>0, <2>1, DeletionFacts DEF AfterRegistration
  <2> QED BY <1>2, <2>4, <2>5, <2>6 DEF Collect, Deletions, Stages
<1>3. CASE RecordHistory
  <2>1. tick' \in Ticks /\ tick'.pc = "histogram"
    BY <1>3, TickFacts DEF RecordHistory, Ticks
  <2> QED BY <1>3, <2>1 DEF RecordHistory
<1>4. CASE RecordHistogram
  <2>1. PICK flushed \in SUBSET {i \in Indexes :
                            tick.items[i].listed /\ "current" \in histogram[i]} :
          Aggregated(flushed)
    BY <1>4 DEF RecordHistogram
  <2>2. tick' \in Ticks /\ tick'.pc = "append"
    <3>1. PICK c \in BOOLEAN : tick' = [tick EXCEPT !.pc = "append", !.completed = c]
      BY <2>1, Zenon DEF Aggregated
    <3> QED BY <3>1 DEF Ticks
  <2>3. histogram' \in [Indexes -> SUBSET {"current", "completed"}]
    BY <2>1 DEF Aggregated
  <2> QED BY <1>4, <2>2, <2>3 DEF RecordHistogram
<1>5. CASE AppendToRing
  <2>1. tick' \in Ticks /\ tick'.pc = "publish"
    BY <1>5, TickFacts DEF AppendToRing, Ticks
  <2>2. ring' \in BOOLEAN
    BY <1>0, <1>5, Zenon DEF AppendToRing
  <2> QED BY <1>5, <2>1, <2>2 DEF AppendToRing
<1>6. CASE Publish
  <2>1. tick' \in Ticks /\ tick'.pc # "saving"
    BY <1>6, TickFacts DEF Publish
  <2>2. snapshot' \in [Indexes -> Listings]
    <3>1. \A i \in Indexes : tick.items[i].name \in AllNames
      BY <1>0, TickFacts
    <3> QED BY <1>6, <3>1, ListingFacts DEF Publish
  <2> QED BY <1>6, <2>1, <2>2 DEF Publish
<1>7. CASE PersistRegistry
  <2>1. tick' \in Ticks /\ tick'.pc = "saving"
    BY <1>7, TickFacts DEF PersistRegistry, Ticks
  <2> QED BY <1>0, <1>7, <2>1 DEF PersistRegistry, BeginSave
<1>8. CASE RegistryPersisted
  <2>1. tick' \in Ticks /\ tick'.pc = "hour"
    BY <1>8, TickFacts DEF RegistryPersisted, Ticks
  <2> QED BY <1>0, <1>8, <2>1 DEF RegistryPersisted, EndSave, FailSave
<1>9. CASE PersistHour
  <2>1. tick' \in Ticks /\ tick'.pc = "idle"
    BY <1>9, TickFacts DEF PersistHour
  <2>2. hour_file' \in BOOLEAN
    <3>1. PICK h \in {\E i \in Indexes : i = tick.topo /\ "current" \in histogram[i],
                      hour_file} : hour_file' = h
      BY <1>9, Zenon DEF PersistHour
    <3>2. CASE h = (\E i \in Indexes : i = tick.topo /\ "current" \in histogram[i])
      <4>1. (\E i \in Indexes : i = tick.topo /\ "current" \in histogram[i]) \in BOOLEAN
        OBVIOUS
      <4> QED BY <3>1, <3>2, <4>1, Zenon
    <3>3. CASE h = hour_file
      BY <3>1, <3>3
    <3> QED BY <3>1, <3>2, <3>3, Zenon
  <2> QED BY <1>9, <2>1, <2>2 DEF PersistHour
<1>10. CASE ResolveDelete
  <2>1. /\ delete' \in Deletes /\ delete'.pc = "snapshot" /\ delete'.at \in Indexes
    BY <1>10 DEF ResolveDelete, Deletes
  <2> QED BY <1>10, <2>1, BoundsAssumption DEF ResolveDelete, Event
<1>11. ASSUME NEW p \in {"runtime", "history", "histogram", "disk", "persist", "saving"},
              delete.pc # "idle"
       PROVE  LET d == [delete EXCEPT !.pc = p] IN
              d \in Deletes /\ d.pc = p /\ d.at = delete.at /\ d.at \in Indexes
  BY <1>11 DEF Deletes
<1>12. CASE DeleteFromSnapshot
  <2>1. delete' \in Deletes /\ delete'.pc = "runtime" /\ delete'.at \in Indexes
    BY <1>11, <1>12 DEF DeleteFromSnapshot
  <2> QED BY <1>12, <2>1, ListingFacts DEF DeleteFromSnapshot
<1>13. CASE DeleteFromRuntime
  <2>1. delete' \in Deletes /\ delete'.pc = "history" /\ delete'.at \in Indexes
        /\ delete.at \in Indexes
    BY <1>11, <1>13 DEF DeleteFromRuntime
  <2>2. gone' \in Deletions
    BY <1>13, <2>1, RegistryFacts DEF DeleteFromRuntime, Deletions, Stages
  <2>3. registry' \in Registries /\ acked' \in {NoAck} \cup [name : Names, at : Indexes]
    BY <1>13 DEF DeleteFromRuntime, Deregistered, Registries
  <2> QED BY <1>13, <2>1, <2>2, <2>3 DEF DeleteFromRuntime, Deletions, Stages
<1>14. ASSUME NEW across \in BOOLEAN PROVE Carried(across) \in Deletions
  BY <1>0, <1>14, CarriedStep DEF Carried
<1>15. CASE DeleteFromHistory
  <2>1. delete' \in Deletes /\ delete'.pc = "histogram" /\ delete'.at \in Indexes
    BY <1>11, <1>15 DEF DeleteFromHistory
  <2>2. gone' \in Deletions
    BY <1>14, <1>15 DEF DeleteFromHistory, Carries
  <2> QED BY <1>15, <2>1, <2>2 DEF DeleteFromHistory, Deletions, Stages
<1>16. CASE DeleteFromHistogram
  <2>1. delete' \in Deletes /\ delete'.pc = "disk" /\ delete'.at \in Indexes
    BY <1>11, <1>16 DEF DeleteFromHistogram
  <2>2. gone' \in Deletions
    BY <1>14, <1>16 DEF DeleteFromHistogram, Carries
  <2>3. histogram' \in [Indexes -> SUBSET {"current", "completed"}]
    BY <1>16 DEF DeleteFromHistogram, HistogramAfterRemove
  <2> QED BY <1>16, <2>1, <2>2, <2>3 DEF DeleteFromHistogram, Deletions, Stages
<1>17. CASE DeleteFromDisk
  <2>1. CASE ring' = FALSE /\ gone' = Carried(Appends) /\ delete' = [delete EXCEPT !.pc = "persist"]
    <3>1. delete' \in Deletes /\ delete'.pc = "persist" /\ delete'.at \in Indexes
      BY <1>11, <1>17, <2>1 DEF DeleteFromDisk
    <3>2. gone' \in Deletions
      BY <1>14, <2>1 DEF Appends
    <3> QED BY <1>17, <2>1, <3>1, <3>2 DEF DeleteFromDisk, Deletions, Stages
  <2>2. CASE ring' = ring /\ gone' = NoDeletion /\ delete' = NoDelete
    BY <1>17, <2>2, DeletionFacts DEF DeleteFromDisk, Deletions, Stages
  <2> QED BY <1>17, <2>1, <2>2 DEF DeleteFromDisk
<1>18. CASE PersistDeletion
  <2>1. delete' \in Deletes /\ delete'.pc = "saving" /\ delete'.at \in Indexes
    BY <1>11, <1>18 DEF PersistDeletion
  <2> QED BY <1>0, <1>18, <2>1 DEF PersistDeletion, BeginSave
<1>19. CASE DeletionPersisted
  <2>1. gone' \in Deletions
    BY <1>0, <1>19, DeletionFacts, AcknowledgedStep DEF DeletionPersisted
  <2>2. delete' \in Deletes /\ delete'.pc = "idle"
    BY <1>19, DeletionFacts DEF DeletionPersisted
  <2>3. saving["delete"] \in Registries
    BY <1>0, <1>19 DEF DeletionPersisted
  <2> QED BY <1>0, <1>19, <2>1, <2>2, <2>3
             DEF DeletionPersisted, EndSave, FailSave, Deletions, Stages
<1>20. CASE FindStale
  <2>1. cleanup' \in Cleanups
    BY <1>20 DEF FindStale, Cleanups
  <2> QED BY <1>20, <2>1 DEF FindStale
<1>21. CASE NameStale
  <2>1. (topology \in cleanup.keys) \in BOOLEAN
    OBVIOUS
  <2>2. cleanup' \in Cleanups
    BY <1>21, <2>1 DEF NameStale, Cleanups
  <2> QED BY <1>21, <2>2 DEF NameStale
<1>22. CASE RemoveStale
  <2>1. registry' \in Registries /\ acked' \in {NoAck} \cup [name : Names, at : Indexes]
    BY <1>22 DEF RemoveStale, Deregistered, Registries
  <2>2. cleanup' \in Cleanups
    BY <1>22 DEF RemoveStale, Cleanups
  <2> QED BY <1>22, <2>1, <2>2 DEF RemoveStale
<1>23. CASE RemoveStaleTraffic
  <2>1. history' \subseteq Indexes
    BY <1>23 DEF RemoveStaleTraffic
  <2>2. ring' \in BOOLEAN
    <3>1. (ring /\ ~cleanup.named) \in BOOLEAN
      OBVIOUS
    <3> QED BY <1>23, <3>1, Zenon DEF RemoveStaleTraffic
  <2>3. histogram' \in [Indexes -> SUBSET {"current", "completed"}]
    BY <1>23 DEF RemoveStaleTraffic, HistogramAfterRemove
  <2>4. cleanup' \in Cleanups
    BY <1>23, DeletionFacts DEF RemoveStaleTraffic, Cleanups
  <2>5. UNCHANGED <<linkVars, topology, registry, snapshot, hour_file, file, tick, delete,
                    put, saving, events, ghostVars>>
    BY <1>23 DEF RemoveStaleTraffic
  <2> QED BY <2>1, <2>2, <2>3, <2>4, <2>5
<1>24. CASE NeighborChange
  <2>1. present' \in BOOLEAN
    BY <1>24, Zenon DEF NeighborChange
  <2> QED BY <1>24, <2>1, BoundsAssumption DEF NeighborChange, Event
<1>25. CASE LinkDown
  <2>1. unread' \subseteq Indexes
    BY <1>25 DEF LinkDown
  <2> QED BY <1>25, <2>1, BoundsAssumption DEF LinkDown, Event
<1>26. CASE LinkUp
  <2>1. link' \in Indexes /\ last_link' \in Indexes
    BY <1>26, BoundsAssumption DEF LinkUp, Indexes
  <2> QED BY <1>26, <2>1 DEF LinkUp
<1>27. CASE RefreshTopology
  BY <1>27 DEF RefreshTopology
<1>28. CASE DaysPass
  <2>1. registry' \in Registries
    <3>1. PICK unseen \in SUBSET Entries(registry) :
            registry' = [i \in Indexes |->
              IF i \in unseen THEN [registry[i] EXCEPT !.seen = "long_ago"] ELSE registry[i]]
      BY <1>28 DEF DaysPass
    <3>2. \A i \in unseen : registry[i] \in Known
      BY RegistryFacts
    <3> QED BY <3>1, <3>2, KnownFacts DEF Registries
  <2> QED BY <1>28, <2>1, BoundsAssumption DEF DaysPass, Event
<1>29. CASE Restart
  <2>1. PICK loads \in SUBSET {"devices", "ring", "hour"} : LoadsFiles(loads)
    BY <1>29 DEF Restart
  <2>2. topology' \in Indexes \cup {NoIndex} /\ selected' \in BOOLEAN
    BY <1>29 DEF Restart
  <2>3. Imported(file, topology') \subseteq Registries
    BY <2>2, RegistryFacts DEF Imported
  <2>4. registry' \in Registries /\ file' \in Registries
    BY <2>1, <2>3, RegistryFacts DEF LoadsFiles
  <2>5. hour_file' \in BOOLEAN /\ ring' \in BOOLEAN
    BY <2>1, Zenon DEF LoadsFiles
  <2>6. histogram' \in [Indexes -> SUBSET {"current", "completed"}]
    BY <2>1 DEF LoadsFiles
  <2>7. snapshot' \in [Indexes -> Listings]
    BY <1>29, <2>4, ListingFacts DEF Restart
  <2>8. acked' \in {NoAck} \cup [name : Names, at : Indexes]
    <3>1. registry' # NoEntries => topology' \in Indexes
      BY <2>1, <2>2 DEF LoadsFiles, Imported
    <3> QED BY <1>29, <3>1 DEF Restart, AckAfterRestart
  <2>9. gone' \in Deletions
    <3>1. (\/ gone.carried
           \/ \E i \in Indexes : "current" \in histogram'[i]
           \/ gone.left # {} /\ \E i \in Indexes : histogram'[i] # {}) \in BOOLEAN
      OBVIOUS
    <3> QED BY <1>0, <1>29, <3>1, DeletionFacts, CarriedStep DEF Restart, DeletionAfterRestart
  <2>10. /\ tick' \in Ticks /\ tick'.pc = "idle" /\ delete' \in Deletes /\ delete'.pc = "idle"
         /\ cleanup' \in Cleanups /\ put' \in [Requests -> Puts]
         /\ \A r \in Requests : put'[r].pc = "idle"
    BY <1>29, TickFacts, DeletionFacts DEF Restart
  <2>11. /\ saving' \in [Savers -> Registries \cup {NotSaving}]
         /\ \A s \in Savers : saving'[s] = NotSaving
    BY <1>29 DEF Restart
  <2>12. UNCHANGED <<link, last_link, present>> /\ history' = {} /\ unread' = {}
         /\ events' \in 0..MaxEvents
    BY <1>29, BoundsAssumption DEF Restart, Event
  <2> QED BY <1>0, <2>2, <2>4, <2>5, <2>6, <2>7, <2>8, <2>9, <2>10, <2>11, <2>12
             DEF Deletions, Stages
<1>30. ASSUME NEW r \in Requests, Put(r) PROVE TypeInv'
  <2>0. /\ put[r] \in Puts
        /\ \A q \in Puts : /\ put' = [put EXCEPT ![r] = q]
                           /\ q.pc # "idle" => q.name \in Names /\ q.at \in Indexes
                           => /\ put' \in [Requests -> Puts] /\ put'[r] = q
                              /\ \A o \in Requests \ {r} : put'[o] = put[o]
                              /\ \A o \in Requests : put'[o].pc # "idle" =>
                                   put'[o].name \in Names /\ put'[o].at \in Indexes
    OBVIOUS
  <2>1. CASE ResolvePut(r)
    <3>1. PICK n \in Names :
            put' = [put EXCEPT ![r] =
                     [pc |-> "snapshot", at |-> topology, name |-> n, known |-> FALSE]]
      BY <2>1 DEF ResolvePut
    <3> DEFINE q == [pc |-> "snapshot", at |-> topology, name |-> n, known |-> FALSE]
    <3>2. q \in Puts /\ q.pc = "snapshot" /\ q.name \in Names /\ q.at \in Indexes
      BY <2>1 DEF ResolvePut, Puts
    <3> HIDE DEF q
    <3>3. put' = [put EXCEPT ![r] = q]
      BY <3>1 DEF q
    <3>4. events' \in 0..MaxEvents
      BY <2>1, BoundsAssumption DEF ResolvePut, Event
    <3>5. /\ put[r].pc = "idle"
          /\ UNCHANGED <<linkVars, topology, memVars, fileVars, tick, delete, cleanup,
                         saving, ghostVars>>
      BY <2>1 DEF ResolvePut
    <3>6. /\ put' \in [Requests -> Puts] /\ put'[r].pc = "snapshot"
          /\ \A o \in Requests \ {r} : put'[o] = put[o]
          /\ \A o \in Requests : put'[o].pc # "idle" =>
               put'[o].name \in Names /\ put'[o].at \in Indexes
      BY <2>0, <3>2, <3>3
    <3> QED BY <3>4, <3>5, <3>6
  <2>2. CASE RenameInSnapshot(r)
    <3>1. snapshot' \in [Indexes -> Listings] /\ snapshot[put[r].at].listed \in BOOLEAN
      <4>1. put[r].at \in Indexes /\ put[r].name \in AllNames
        BY <2>2 DEF RenameInSnapshot, AllNames
      <4> QED BY <2>2, <4>1, ListingFacts DEF RenameInSnapshot
    <3> DEFINE q == [put[r] EXCEPT !.pc = "runtime", !.known = snapshot[put[r].at].listed]
    <3>2. put' = [put EXCEPT ![r] = q]
      BY <2>2 DEF RenameInSnapshot
    <3>3. q \in Puts /\ q.pc = "runtime" /\ q.name \in Names /\ q.at \in Indexes
      BY <2>0, <2>2, <3>1 DEF RenameInSnapshot, Puts
    <3> HIDE DEF q
    <3> QED BY <2>0, <2>2, <3>1, <3>2, <3>3 DEF RenameInSnapshot
  <2>3. CASE RenameInRuntime(r)
    <3>1. /\ put' \in [Requests -> Puts] /\ put'[r].pc # "saving"
          /\ \A o \in Requests \ {r} : put'[o] = put[o]
          /\ \A o \in Requests : put'[o].pc # "idle" =>
               put'[o].name \in Names /\ put'[o].at \in Indexes
      <4>1. PICK q \in {NoPut, [put[r] EXCEPT !.pc = "persist"]} :
              put' = [put EXCEPT ![r] = q]
        BY <2>3 DEF RenameInRuntime, Renamed
      <4>2. q \in Puts /\ q.pc # "saving" /\ (q.pc # "idle" => q.name \in Names /\ q.at \in Indexes)
        BY <2>0, <2>3, DeletionFacts DEF RenameInRuntime, Puts
      <4> QED BY <2>0, <4>1, <4>2
    <3>2. registry' \in Registries
      <4>1. put[r].name \in AllNames /\ put[r].at \in Indexes
        BY <2>3 DEF RenameInRuntime, AllNames
      <4>2. registry[put[r].at] # Absent => [registry[put[r].at] EXCEPT !.name = put[r].name] \in Known
        BY <4>1, KnownFacts DEF Registries
      <4>3. [name |-> put[r].name, seen |-> "recently"] \in Known
        BY <4>1, KnownFacts
      <4> QED BY <2>3, <4>1, <4>2, <4>3 DEF RenameInRuntime, Renamed, Registries
    <3>3. gone' \in Deletions
      BY <1>0, <2>3, DeletionFacts DEF RenameInRuntime, Renamed, AfterRegistration
    <3>4. acked' \in {NoAck} \cup [name : Names, at : Indexes]
      BY <2>3 DEF RenameInRuntime
    <3> QED BY <2>3, <3>1, <3>2, <3>3, <3>4 DEF RenameInRuntime, Deletions, Stages
  <2>4. CASE PersistRename(r)
    <3> DEFINE q == [put[r] EXCEPT !.pc = "saving"]
    <3>1. put' = [put EXCEPT ![r] = q]
      BY <2>4 DEF PersistRename
    <3>2. q \in Puts /\ q.pc = "saving" /\ q.name \in Names /\ q.at \in Indexes
      BY <2>0, <2>4 DEF PersistRename, Puts
    <3> HIDE DEF q
    <3> QED BY <1>0, <2>0, <2>4, <3>1, <3>2 DEF PersistRename, BeginSave
  <2>5. CASE RenamePersisted(r)
    <3>1. put' = [put EXCEPT ![r] = NoPut] /\ NoPut \in Puts /\ NoPut.pc = "idle"
      BY <2>5, DeletionFacts DEF RenamePersisted
    <3>2. acked' \in {NoAck} \cup [name : Names, at : Indexes]
      BY <2>5 DEF RenamePersisted
    <3>3. saving[r] \in Registries
      BY <1>0, <2>5 DEF RenamePersisted
    <3> QED BY <1>0, <2>0, <2>5, <3>1, <3>2, <3>3 DEF RenamePersisted, EndSave, FailSave
  <2> QED BY <1>30, <2>1, <2>2, <2>3, <2>4, <2>5 DEF Put
<1>31. CASE UNCHANGED vars
  BY <1>31 DEF vars
<1> QED BY <1>1, <1>2, <1>3, <1>4, <1>5, <1>6, <1>7, <1>8, <1>9, <1>10, <1>12, <1>13,
           <1>15, <1>16, <1>17, <1>18, <1>19, <1>20, <1>21, <1>22, <1>23, <1>24, <1>25,
           <1>26, <1>27, <1>28, <1>29, <1>30, <1>31
           DEF Next, Tick, Delete, Cleanup

-----------------------------------------------------------------------------
(* The registry and its file.                                              *)

LEMMA RegistryInit == Init => RegistryInv
BY DEF Init, RegistryInv, SavedIsCurrent, DeletionInHand, RemovedFromRegistry,
       DeletedOffDisk, AckedNameKept, Savers, NoDeletion

\* Most steps touch neither the registry nor its file, nor end a request.
registryVars == <<registry, file, saving, gone, acked, delete>>

LEMMA RegistryKept ==
  ASSUME RegistryInv, UNCHANGED registryVars
  PROVE  RegistryInv'
BY DEF RegistryInv, SavedIsCurrent, DeletionInHand, RemovedFromRegistry, DeletedOffDisk,
       AckedNameKept, Savers, registryVars

\* An acknowledged name is that of an entry.
LEMMA AckedEntry ==
  ASSUME TypeInv, AckedNameKept, acked # NoAck
  PROVE  /\ acked.at \in Indexes /\ acked.name \in Names /\ acked.name # NoName
         /\ acked.at \in Entries(registry)
<1>1. acked.at \in Indexes /\ acked.name \in Names /\ acked.name # NoName
  BY NamesAssumption DEF TypeInv, TypeOK
<1>2. registry[acked.at].name = acked.name
  BY DEF AckedNameKept
<1> QED BY <1>1, <1>2, KnownFacts, RegistryFacts DEF TypeInv, TypeOK

LEMMA RegistryNext == TypeInv /\ RegistryInv /\ [Next]_vars => RegistryInv'
<1> SUFFICES ASSUME TypeInv, RegistryInv, [Next]_vars PROVE RegistryInv'
  OBVIOUS
<1> USE DEF RegistryInv, SavedIsCurrent, DeletionInHand, RemovedFromRegistry,
            DeletedOffDisk, AckedNameKept
<1>1. /\ saving \in [Savers -> Registries \cup {NotSaving}]
      /\ "tick" \in Savers /\ "delete" \in Savers /\ \A r \in Requests : r \in Savers
      /\ registry \in Registries /\ file \in Registries /\ gone \in Deletions
      /\ delete \in Deletes /\ put \in [Requests -> Puts]
      /\ delete.pc # "idle" => delete.at \in Indexes
      /\ acked \in {NoAck} \cup [name : Names, at : Indexes]
  BY DEF TypeInv, TypeOK, Savers, RequestsTyped, Deletions, Stages
<1>2. acked # NoAck => /\ acked.at \in Indexes /\ acked.at \in Entries(registry)
                       /\ acked.name # NoName
  BY AckedEntry
\* A rename puts the registry in place.
<1>3. ASSUME NEW s \in Savers, saving[s] # NotSaving, EndSave(s), UNCHANGED <<registry, acked>>
      PROVE  /\ file' = registry /\ AckedNameKept'
             /\ \A o \in Savers : saving'[o] # NotSaving => saving'[o] = registry
  <2>1. file' = registry
    BY <1>3 DEF EndSave
  <2>2. \A o \in Savers : saving'[o] # NotSaving => saving'[o] = registry
    BY <1>1, <1>3 DEF EndSave
  <2>3. AckedNameKept'
    BY <1>2, <1>3, <2>1
  <2> QED BY <1>3, <2>1, <2>2, <2>3
<1>4. ASSUME NEW s \in Savers, FailSave(s), UNCHANGED <<registry, acked>>
      PROVE  /\ file' = file /\ AckedNameKept'
             /\ \A o \in Savers : saving'[o] # NotSaving => saving'[o] = registry
  BY <1>1, <1>4 DEF FailSave
<1>5. ASSUME NEW s \in Savers, BeginSave(s)
      PROVE  \A o \in Savers : saving'[o] # NotSaving => saving'[o] = registry
  BY <1>1, <1>5 DEF BeginSave
<1>6. CASE Collect
  <2>1. PICK traffic \in SUBSET Countable, lease \in Leases :
          LET items == [i \in Indexes |-> Collected(i, traffic, lease)]
              online == {i \in Indexes : items[i].online}
          IN  /\ registry' = [i \in Indexes |->
                   IF i \in online THEN [name |-> items[i].name, seen |-> "recently"]
                   ELSE registry[i]]
              /\ gone' = AfterRegistration(online)
    BY <1>6 DEF Collect
  <2> DEFINE items == [i \in Indexes |-> Collected(i, traffic, lease)]
             online == {i \in Indexes : items[i].online}
  <2>2. RuntimeFree /\ UNCHANGED <<file, saving, acked, delete>>
    BY <1>6 DEF Collect, fileVars
  <2>3. \A i \in Indexes : items[i].online /\ registry[i].name # NoName =>
                             items[i].name = registry[i].name
    BY TickFacts DEF Collected, OnlineItem, Hostname
  <2> HIDE DEF items
  <2>4. /\ registry' = [i \in Indexes |->
             IF i \in online THEN [name |-> items[i].name, seen |-> "recently"]
             ELSE registry[i]]
        /\ gone' = AfterRegistration(online)
    BY <2>1 DEF items
  <2>5. \A i \in Indexes : registry[i].name # NoName => registry'[i].name = registry[i].name
    BY <2>3, <2>4
  <2>6. AckedNameKept'
    BY <1>2, <2>2, <2>5
  <2>7. gone'.stage # "no" => online \subseteq gone.left /\ gone' = gone
    BY <2>4, DeletionFacts DEF AfterRegistration
  <2>8. Entries(registry') \subseteq Entries(registry) \cup online
    BY <2>4 DEF Entries
  <2> QED BY <2>2, <2>6, <2>7, <2>8 DEF RuntimeFree
<1>7. CASE PersistRegistry
  BY <1>1, <1>5, <1>7 DEF PersistRegistry, memVars, fileVars, ghostVars
<1>8. CASE RegistryPersisted
  <2>1. UNCHANGED <<registry, gone, acked, delete>> /\ saving["tick"] # NotSaving
    BY <1>8 DEF RegistryPersisted, memVars, ghostVars, TypeInv, SaversSaving
  <2>2. CASE EndSave("tick")
    BY <1>1, <1>3, <2>1, <2>2
  <2>3. CASE FailSave("tick")
    BY <1>1, <1>4, <2>1, <2>3
  <2> QED BY <1>8, <2>2, <2>3 DEF RegistryPersisted
<1>9. CASE ResolveDelete
  <2>1. UNCHANGED <<registry, file, saving, gone, acked>> /\ delete.pc = "idle"
    BY <1>9 DEF ResolveDelete, memVars, fileVars, ghostVars
  <2> QED BY <2>1
<1>10. CASE DeleteFromRuntime
  <2>1. /\ RuntimeFree /\ UNCHANGED <<file, saving>> /\ Deregistered({delete.at})
        /\ delete'.pc = "history" /\ delete'.at = delete.at
        /\ gone'.stage = "removed" /\ gone'.at = delete.at
        /\ gone'.left = Entries(registry) \ {delete.at} /\ delete.at \in Indexes
    BY <1>1, <1>10 DEF DeleteFromRuntime, fileVars, Deletes
  <2>2. Entries(registry') \subseteq gone'.left
    BY <2>1 DEF Deregistered, Entries
  <2>3. AckedNameKept'
    BY <1>2, <2>1 DEF Deregistered
  <2> QED BY <2>1, <2>2, <2>3 DEF RuntimeFree
<1>11. CASE DeleteFromSnapshot \/ DeleteFromHistory \/ DeleteFromHistogram
  <2>1. UNCHANGED <<registry, file, saving, acked>>
    BY <1>11 DEF DeleteFromSnapshot, DeleteFromHistory, DeleteFromHistogram, fileVars, ghostVars
  <2>2. gone'.stage = gone.stage /\ gone'.at = gone.at /\ gone'.left = gone.left
    <3>1. gone' = [gone EXCEPT !.carried = TRUE] \/ gone' = gone
      BY <1>11 DEF DeleteFromSnapshot, DeleteFromHistory, DeleteFromHistogram, Carried, ghostVars
    <3> QED BY <1>1, <3>1, CarriedStep
  <2>3. /\ delete'.at = delete.at
        /\ gone.stage = "removed" => delete'.pc \in {"histogram", "disk"}
    BY <1>1, <1>11 DEF DeleteFromSnapshot, DeleteFromHistory, DeleteFromHistogram, Deletes
  <2> QED BY <2>1, <2>2, <2>3
<1>12. CASE DeleteFromDisk
  <2>1. UNCHANGED <<registry, file, saving, acked>>
    BY <1>12 DEF DeleteFromDisk, memVars
  <2>2. CASE gone' = NoDeletion
    BY <2>1, <2>2, DeletionFacts
  <2>3. CASE gone' = Carried(Appends) /\ delete' = [delete EXCEPT !.pc = "persist"]
    <3>1. gone'.stage = gone.stage /\ gone'.at = gone.at /\ gone'.left = gone.left
      BY <1>1, <2>3, CarriedStep DEF Carried
    <3>2. delete'.pc = "persist" /\ delete'.at = delete.at
      BY <1>1, <2>3 DEF Deletes
    <3> QED BY <2>1, <3>1, <3>2
  <2> QED BY <1>12, <2>2, <2>3 DEF DeleteFromDisk
<1>13. CASE PersistDeletion
  <2>1. delete'.pc = "saving" /\ delete'.at = delete.at
    BY <1>1, <1>13 DEF PersistDeletion, Deletes
  <2>2. UNCHANGED <<registry, file, gone, acked>>
    BY <1>13 DEF PersistDeletion, memVars, fileVars, ghostVars
  <2> QED BY <1>1, <1>5, <1>13, <2>1, <2>2 DEF PersistDeletion
<1>14. CASE DeletionPersisted
  <2>1. UNCHANGED <<registry, acked>> /\ saving["delete"] # NotSaving /\ delete.pc = "saving"
    BY <1>14 DEF DeletionPersisted, memVars, TypeInv, SaversSaving
  <2>2. CASE /\ EndSave("delete")
             /\ gone' = IF gone.stage = "removed" THEN [gone EXCEPT !.stage = "deleted"]
                        ELSE gone
    <3>1. /\ gone'.stage # "removed" /\ gone'.at = gone.at /\ gone'.left = gone.left
          /\ gone'.stage # "no" => gone.stage # "no"
      BY <1>1, <2>2, AcknowledgedStep
    <3> QED BY <1>1, <1>3, <2>1, <2>2, <3>1
  <2>3. CASE FailSave("delete") /\ gone' = NoDeletion
    BY <1>1, <1>4, <2>1, <2>3, DeletionFacts
  <2> QED BY <1>14, <2>2, <2>3 DEF DeletionPersisted
<1>15. CASE RemoveStale
  <2>1. RuntimeFree /\ UNCHANGED <<file, saving, gone, delete>> /\ Deregistered(cleanup.keys)
    BY <1>15 DEF RemoveStale, fileVars
  <2>2. Entries(registry') \subseteq Entries(registry)
    BY <2>1 DEF Deregistered, Entries
  <2>3. AckedNameKept'
    BY <1>2, <2>1 DEF Deregistered
  <2> QED BY <2>1, <2>2, <2>3 DEF RuntimeFree
<1>16. CASE DaysPass
  <2>1. PICK unseen \in SUBSET Entries(registry) :
          registry' = [i \in Indexes |->
            IF i \in unseen THEN [registry[i] EXCEPT !.seen = "long_ago"] ELSE registry[i]]
    BY <1>16 DEF DaysPass
  <2>2. \A i \in unseen : registry[i] \in Known
    BY <1>1, RegistryFacts
  <2>3. /\ Entries(registry') \subseteq Entries(registry)
        /\ \A i \in Indexes : registry'[i].name = registry[i].name
    BY <2>1, <2>2, KnownFacts DEF Entries
  <2>4. \A s \in Savers : saving[s] = NotSaving
    BY <1>16 DEF DaysPass, Quiet, Savers, TypeInv, SaversSaving
  <2>5. UNCHANGED <<file, saving, gone, acked, delete>>
    BY <1>16 DEF DaysPass, fileVars, taskVars, ghostVars
  <2>6. AckedNameKept'
    BY <1>2, <2>3, <2>5
  <2> QED BY <2>3, <2>4, <2>5, <2>6
<1>17. CASE Restart
  <2>1. PICK loads \in SUBSET {"devices", "ring", "hour"} : LoadsFiles(loads)
    BY <1>17 DEF Restart
  <2>2. /\ \A s \in Savers : saving'[s] = NotSaving
        /\ acked' = AckAfterRestart /\ gone' = DeletionAfterRestart
        /\ topology' \in Indexes \cup {NoIndex}
    BY <1>17 DEF Restart, TypeInv, TypeOK
  <2>3. registry' # NoEntries =>
          /\ file' = file /\ topology' \in Indexes
          /\ \E i \in Entries(file) : registry' = Only(topology', file[i])
    BY <2>1, <2>2 DEF LoadsFiles, Imported
  <2>4. file' \in {file, NoEntries}
    BY <2>1 DEF LoadsFiles
  <2>5. AckedNameKept'
    <3>1. SUFFICES ASSUME acked' # NoAck PROVE AckedNameKept'
      BY DEF AckedNameKept
    <3>2. /\ acked # NoAck /\ registry' # NoEntries
          /\ \A i \in Entries(file) : file[i].name = acked.name
          /\ acked' = [acked EXCEPT !.at = topology']
      BY <2>2, <3>1 DEF AckAfterRestart
    <3>3. acked'.name = acked.name /\ acked'.at = topology'
      BY <1>1, <3>2
    <3>4. PICK i \in Entries(file) : registry' = Only(topology', file[i])
      BY <2>3, <3>2
    <3>5. registry'[topology'] = file[i]
      BY <1>1, <2>3, <3>2, <3>4, RegistryFacts
    <3> QED BY <2>3, <3>2, <3>3, <3>4, <3>5
  <2>6. gone'.stage # "no" =>
          /\ gone'.stage = "deleted" /\ gone.stage = "deleted" /\ registry' = NoEntries
          /\ gone'.at = gone.at /\ gone'.left = gone.left
    <3>1. (\/ gone.carried
           \/ \E i \in Indexes : "current" \in histogram'[i]
           \/ gone.left # {} /\ \E i \in Indexes : histogram'[i] # {}) \in BOOLEAN
      OBVIOUS
    <3> QED BY <1>1, <2>2, <3>1, DeletionFacts, CarriedStep DEF DeletionAfterRestart
  <2>7. DeletedOffDisk'
    BY <2>4, <2>6, RegistryFacts
  <2> QED BY <2>2, <2>5, <2>6, <2>7, RegistryFacts
<1>18. ASSUME NEW r \in Requests, Put(r) PROVE RegistryInv'
  <2>1. CASE ResolvePut(r) \/ RenameInSnapshot(r)
    <3>1. UNCHANGED registryVars
      BY <2>1 DEF ResolvePut, RenameInSnapshot, registryVars, memVars, fileVars, ghostVars
    <3> QED BY <3>1, RegistryKept
  <2>2. CASE RenameInRuntime(r)
    <3>1. /\ RuntimeFree /\ UNCHANGED <<file, saving, delete>> /\ Renamed(r)
          /\ acked' = IF registry'[put[r].at] # registry[put[r].at] /\ acked.at = put[r].at
                      THEN NoAck ELSE acked
      BY <2>2 DEF RenameInRuntime, fileVars
    <3>2. put[r].at \in Indexes /\ put[r].name \in AllNames
      BY <2>2 DEF RenameInRuntime, TypeInv, RequestsTyped, AllNames
    <3>3. /\ \A i \in Indexes \ {put[r].at} : registry'[i] = registry[i]
          /\ Entries(registry') \subseteq Entries(registry) \cup {put[r].at}
          /\ gone'.stage # "no" => gone' = gone /\ Entries(registry') \subseteq gone.left
      BY <1>1, <3>1, <3>2, DeletionFacts DEF Renamed, AfterRegistration, Entries, Registries
    <3>4. AckedNameKept'
      BY <1>2, <3>1, <3>2, <3>3
    <3> QED BY <3>1, <3>3, <3>4 DEF RuntimeFree
  <2>3. CASE PersistRename(r)
    BY <1>1, <1>5, <2>3 DEF PersistRename, memVars, fileVars, ghostVars
  <2>4. CASE RenamePersisted(r)
    <3>1. UNCHANGED <<registry, gone, delete>> /\ saving[r] # NotSaving /\ put[r].pc = "saving"
      BY <2>4 DEF RenamePersisted, memVars, TypeInv, SaversSaving
    <3>2. put[r].at \in Indexes /\ put[r].name \in Names
      BY <3>1 DEF TypeInv, RequestsTyped
    <3>3. CASE FailSave(r) /\ acked' = acked
      BY <1>1, <1>4, <3>1, <3>3
    <3>4. CASE /\ EndSave(r)
               /\ acked' = IF registry[put[r].at].name = put[r].name
                           THEN [name |-> put[r].name, at |-> put[r].at] ELSE acked
      <4>1. file' = registry /\ \A o \in Savers : saving'[o] # NotSaving => saving'[o] = registry
        BY <1>1, <3>1, <3>4 DEF EndSave
      <4>2. AckedNameKept'
        <5>1. CASE registry[put[r].at].name = put[r].name
          <6>1. put[r].at \in Entries(registry)
            BY <1>1, <3>2, <5>1, NamesAssumption, RegistryFacts, KnownFacts
          <6> QED BY <3>1, <3>4, <4>1, <5>1, <6>1
        <5>2. CASE registry[put[r].at].name # put[r].name
          BY <1>2, <3>1, <3>4, <4>1, <5>2
        <5> QED BY <5>1, <5>2
      <4> QED BY <1>1, <3>1, <4>1, <4>2
    <3> QED BY <2>4, <3>3, <3>4 DEF RenamePersisted
  <2> QED BY <1>18, <2>1, <2>2, <2>3, <2>4 DEF Put
<1>19. CASE \/ BeginTick \/ RecordHistory \/ RecordHistogram \/ AppendToRing \/ Publish
            \/ PersistHour \/ FindStale \/ NameStale \/ RemoveStaleTraffic
            \/ NeighborChange \/ LinkDown \/ LinkUp \/ RefreshTopology \/ UNCHANGED vars
  <2>1. UNCHANGED registryVars
    BY <1>19
       DEF registryVars, BeginTick, RecordHistory, RecordHistogram, AppendToRing, Publish,
           PersistHour, FindStale, NameStale, RemoveStaleTraffic, NeighborChange, LinkDown,
           LinkUp, RefreshTopology, vars, memVars, fileVars, taskVars, ghostVars
  <2> QED BY <2>1, RegistryKept
<1> QED BY <1>6, <1>7, <1>8, <1>9, <1>10, <1>11, <1>12, <1>13, <1>14, <1>15, <1>16,
           <1>17, <1>18, <1>19 DEF Next, Tick, Delete, Cleanup

-----------------------------------------------------------------------------
(* The traffic.                                                            *)

LEMMA TrafficInit == Init => TrafficInv
BY DEF Init, TrafficInv, HistoryEmptied, HistogramEmptied, RingEmptied, Past, NoDeletion

\* The steps that matter are those of the tick, of the deletion and of the
\* cleanup; a registration ends the claim.
trafficVars == <<history, histogram, ring, tick, delete, gone>>

LEMMA TrafficKept ==
  ASSUME TrafficInv, UNCHANGED trafficVars
  PROVE  TrafficInv'
BY DEF TrafficInv, HistoryEmptied, HistogramEmptied, RingEmptied, Past, trafficVars

LEMMA TrafficNext == TypeInv /\ RegistryInv /\ TrafficInv /\ [Next]_vars => TrafficInv'
<1> SUFFICES ASSUME TypeInv, RegistryInv, TrafficInv, [Next]_vars PROVE TrafficInv'
  OBVIOUS
<1> USE DEF TrafficInv, HistoryEmptied, HistogramEmptied, RingEmptied, Past
<1>1. /\ tick \in Ticks /\ gone \in Deletions /\ history \subseteq Indexes
      /\ histogram \in [Indexes -> SUBSET {"current", "completed"}] /\ ring \in BOOLEAN
      /\ tick.items \in [Indexes -> Items] /\ tick.completed \in BOOLEAN
      /\ registry \in Registries /\ delete \in Deletes
      /\ delete.pc # "idle" => delete.at \in Indexes
  BY TickFacts DEF TypeInv, TypeOK, RequestsTyped, Deletions, Stages
<1>2. /\ gone.stage = "removed" =>
           /\ delete.pc \in {"history", "histogram", "disk", "persist", "saving"}
           /\ delete.at = gone.at
      /\ gone.stage # "no" => /\ gone.at \in Indexes /\ gone.at \notin gone.left
                              /\ Entries(registry) \subseteq gone.left
  BY DEF RegistryInv, DeletionInHand, RemovedFromRegistry
\* A deletion in hand that marks what a tick carries.
<1>3. ASSUME NEW across, gone' = Carried(across)
      PROVE  /\ gone'.stage = gone.stage /\ gone'.at = gone.at /\ gone'.left = gone.left
             /\ ~gone'.carried => ~gone.carried /\ (gone.stage = "removed" => ~across)
  BY <1>1, <1>3, CarriedStep DEF Carried
<1>4. CASE BeginTick
  <2>1. tick.pc = "idle" /\ tick'.pc = "collect"
    BY <1>1, <1>4 DEF BeginTick, Ticks
  <2>2. UNCHANGED <<history, histogram, ring, delete, gone>>
    BY <1>4 DEF BeginTick, memVars, fileVars, ghostVars
  <2> QED BY <2>1, <2>2
<1>5. CASE Collect
  <2>1. PICK traffic \in SUBSET Countable, lease \in Leases :
          LET items == [i \in Indexes |-> Collected(i, traffic, lease)]
              online == {i \in Indexes : items[i].online}
          IN  /\ tick' = [pc |-> "history", topo |-> NoIndex, items |-> items,
                          completed |-> FALSE]
              /\ gone' = AfterRegistration(online)
    BY <1>5 DEF Collect
  <2> DEFINE items == [i \in Indexes |-> Collected(i, traffic, lease)]
             online == {i \in Indexes : items[i].online}
  <2>2. \A i \in Indexes : ~items[i].online /\ registry[i] = Absent => ~items[i].listed
    BY TickFacts DEF Collected, OnlineItem
  <2> HIDE DEF items
  <2>3. tick'.pc = "history" /\ tick'.items = items /\ gone' = AfterRegistration(online)
    BY <2>1 DEF items
  <2>4. UNCHANGED <<history, histogram, ring, delete>>
    BY <1>5 DEF Collect, fileVars
  <2>5. CASE online \subseteq gone.left
    <3>1. gone' = gone
      BY <2>3, <2>5 DEF AfterRegistration
    <3>2. gone.stage # "no" => ~items[gone.at].online
      BY <1>2, <2>5
    <3>3. gone.stage # "no" /\ gone.left = {} => \A i \in Indexes : ~items[i].listed
      BY <1>1, <1>2, <2>2, <2>5, RegistryFacts
    <3> QED BY <1>1, <1>2, <2>3, <2>4, <3>1, <3>2, <3>3, DeletionFacts DEF Stages
  <2>6. CASE ~(online \subseteq gone.left)
    <3>1. gone'.stage = "no"
      BY <2>3, <2>6, DeletionFacts DEF AfterRegistration
    <3> QED BY <3>1
  <2> QED BY <2>5, <2>6
<1>6. CASE RecordHistory
  <2>1. /\ tick.pc = "history" /\ tick'.pc = "histogram" /\ tick'.items = tick.items
        /\ history' = history \cup {i \in Indexes : tick.items[i].online}
    BY <1>1, <1>6 DEF RecordHistory, Ticks
  <2>2. UNCHANGED <<histogram, ring, delete, gone>>
    BY <1>6 DEF RecordHistory, fileVars, ghostVars
  <2> QED BY <1>1, <1>2, <2>1, <2>2
<1>7. CASE RecordHistogram
  <2>1. PICK flushed \in SUBSET {i \in Indexes :
                            tick.items[i].listed /\ "current" \in histogram[i]} :
          Aggregated(flushed)
    BY <1>7 DEF RecordHistogram
  <2>2. tick.pc = "histogram" /\ tick'.pc = "append"
        /\ (flushed = {} => tick'.completed = FALSE)
    BY <1>1, <1>7, <2>1 DEF RecordHistogram, Aggregated, Ticks
  <2>3. \A i \in Indexes : histogram[i] = {} /\ ~tick.items[i].online => histogram'[i] = {}
    BY <1>1, <2>1 DEF Aggregated
  <2>4. UNCHANGED <<history, ring, delete, gone>>
    BY <1>7 DEF RecordHistogram, fileVars, ghostVars
  <2>5. HistoryEmptied' /\ HistogramEmptied'
    BY <1>2, <2>2, <2>3, <2>4
  <2>6. Past({"persist", "saving"}) /\ gone.left = {} => flushed = {}
    BY <1>2, <2>2
  <2> QED BY <1>2, <2>2, <2>4, <2>5, <2>6
<1>8. CASE AppendToRing
  <2>1. tick.pc = "append" /\ tick'.pc = "publish"
        /\ (ring' = (ring \/ tick.completed) \/ ring' = ring)
    BY <1>1, <1>8 DEF AppendToRing, Ticks
  <2>2. UNCHANGED <<history, histogram, delete, gone>>
    BY <1>8 DEF AppendToRing, memVars, ghostVars
  <2> QED BY <1>1, <2>1, <2>2
<1>9. CASE Publish \/ PersistRegistry \/ RegistryPersisted \/ PersistHour
  <2>1. tick'.pc \in {"idle", "persist", "saving", "hour"}
    BY <1>1, <1>9, TickFacts DEF Publish, PersistRegistry, RegistryPersisted, PersistHour, Ticks
  <2>2. UNCHANGED <<history, histogram, ring, delete, gone>>
    BY <1>9 DEF Publish, PersistRegistry, RegistryPersisted, PersistHour, memVars, fileVars,
                ghostVars
  <2> QED BY <2>1, <2>2
<1>10. CASE ResolveDelete \/ DeleteFromSnapshot
  <2>1. UNCHANGED <<history, histogram, ring, tick, gone>> /\ gone.stage # "removed"
    BY <1>2, <1>10 DEF ResolveDelete, DeleteFromSnapshot, memVars, fileVars, ghostVars
  <2> QED BY <2>1
<1>11. CASE DeleteFromRuntime
  <2>1. gone'.stage = "removed" /\ delete'.pc = "history"
    BY <1>1, <1>11 DEF DeleteFromRuntime, Deletes
  <2> QED BY <2>1
<1>12. CASE DeleteFromHistory
  <2>1. /\ delete.pc = "history" /\ delete'.pc = "histogram"
        /\ history' = history \ {delete.at} /\ UNCHANGED <<histogram, ring, tick>>
        /\ gone' = Carried(Carries({"history"}))
    BY <1>1, <1>12 DEF DeleteFromHistory, fileVars, Deletes
  <2>2. ~gone'.carried /\ gone.stage = "removed" =>
          ~(tick.pc = "history" /\ tick.items[gone.at].online)
    BY <1>2, <1>3, <2>1 DEF Carries
  <2> QED BY <1>2, <1>3, <2>1, <2>2
<1>13. CASE DeleteFromHistogram
  <2>1. /\ delete.pc = "histogram" /\ delete'.pc = "disk"
        /\ histogram' = HistogramAfterRemove({delete.at}) /\ UNCHANGED <<history, ring, tick>>
        /\ gone' = Carried(Carries({"history", "histogram"}))
    BY <1>1, <1>13 DEF DeleteFromHistogram, fileVars, Deletes
  <2>2. ~gone'.carried /\ gone.stage = "removed" =>
          ~(tick.pc \in {"history", "histogram"} /\ tick.items[gone.at].online)
    BY <1>2, <1>3, <2>1 DEF Carries
  <2>3. /\ gone.stage = "removed" => histogram'[gone.at] = {}
        /\ \A i \in Indexes : histogram[i] = {} => histogram'[i] = {}
    BY <1>2, <2>1 DEF HistogramAfterRemove
  <2> QED BY <1>2, <1>3, <2>1, <2>2, <2>3
<1>14. CASE DeleteFromDisk
  <2>1. delete.pc = "disk" /\ UNCHANGED <<history, histogram, tick>>
    BY <1>14 DEF DeleteFromDisk, memVars
  <2>2. CASE ring' = FALSE /\ gone' = Carried(Appends) /\ delete' = [delete EXCEPT !.pc = "persist"]
    <3>1. delete'.pc = "persist"
      BY <1>1, <2>2 DEF Deletes
    <3>2. ~gone'.carried /\ gone.stage = "removed" =>
            /\ ~(tick.pc = "append" /\ tick.completed)
            /\ tick.pc \in {"history", "histogram"} =>
                 \A i \in Indexes \ {gone.at} : ~tick.items[i].listed
      BY <1>2, <1>3, <2>2 DEF Appends
    <3> QED BY <1>2, <1>3, <2>1, <2>2, <3>1, <3>2
  <2>3. CASE gone' = NoDeletion
    BY <2>3, DeletionFacts
  <2> QED BY <1>14, <2>2, <2>3 DEF DeleteFromDisk
<1>15. CASE PersistDeletion
  <2>1. delete.pc = "persist" /\ delete'.pc = "saving"
    BY <1>1, <1>15 DEF PersistDeletion, Deletes
  <2>2. UNCHANGED <<history, histogram, ring, tick, gone>>
    BY <1>15 DEF PersistDeletion, memVars, fileVars, ghostVars
  <2> QED BY <2>1, <2>2
<1>16. CASE DeletionPersisted
  <2>1. delete.pc = "saving" /\ UNCHANGED <<history, histogram, ring, tick>>
    BY <1>16 DEF DeletionPersisted, memVars
  <2>2. \/ gone' = NoDeletion
        \/ gone' = gone /\ gone.stage # "removed"
        \/ gone' = [gone EXCEPT !.stage = "deleted"] /\ gone.stage = "removed"
    BY <1>16 DEF DeletionPersisted
  <2>3. \/ gone'.stage = "no"
        \/ gone' = gone /\ gone.stage # "removed"
        \/ /\ gone.stage = "removed" /\ gone'.at = gone.at /\ gone'.left = gone.left
           /\ gone'.carried = gone.carried /\ gone'.stage = "deleted"
    BY <1>1, <2>2, DeletionFacts, AcknowledgedStep
  <2> QED BY <2>1, <2>3
<1>17. CASE RemoveStaleTraffic
  <2>1. /\ history' \subseteq history
        /\ \A i \in Indexes : histogram[i] = {} => histogram'[i] = {}
        /\ ring' => ring
    BY <1>1, <1>17 DEF RemoveStaleTraffic, HistogramAfterRemove
  <2>2. UNCHANGED <<tick, delete, gone>>
    BY <1>17 DEF RemoveStaleTraffic, ghostVars
  <2> QED BY <1>1, <1>2, <2>1, <2>2
<1>18. CASE Restart
  <2>1. PICK loads \in SUBSET {"devices", "ring", "hour"} : LoadsFiles(loads)
    BY <1>18 DEF Restart
  <2>2. tick'.pc = "idle" /\ history' = {} /\ (ring' => ring) /\ gone' = DeletionAfterRestart
    BY <1>1, <1>18, <2>1, TickFacts DEF Restart, LoadsFiles
  <2>3. \A i \in Indexes : ~ring /\ "current" \notin histogram'[i] => histogram'[i] = {}
    BY <2>1 DEF LoadsFiles
  <2>4. CASE gone'.stage = "no"
    BY <2>4
  <2>5. CASE gone'.stage # "no"
    <3> DEFINE back == \/ gone.carried
                       \/ \E i \in Indexes : "current" \in histogram'[i]
                       \/ gone.left # {} /\ \E i \in Indexes : histogram'[i] # {}
    <3>1. back \in BOOLEAN
      OBVIOUS
    <3>2. gone.stage = "deleted" /\ gone' = [gone EXCEPT !.carried = back]
      BY <2>2, <2>5, DeletionFacts DEF DeletionAfterRestart
    <3>3. gone'.carried = back /\ gone'.at = gone.at /\ gone'.left = gone.left
          /\ gone'.stage = "deleted"
      BY <1>1, <3>1, <3>2, CarriedStep
    <3>4. ~gone'.carried /\ gone.left = {} => ~ring
      BY <3>2, <3>3
    <3>5. ~gone'.carried => histogram'[gone.at] = {}
      BY <1>2, <2>3, <3>2, <3>3, <3>4
    <3> QED BY <2>2, <3>3, <3>4, <3>5
  <2> QED BY <2>4, <2>5
<1>19. ASSUME NEW r \in Requests, Put(r) PROVE TrafficInv'
  <2>1. CASE RenameInRuntime(r)
    <3>1. gone'.stage = "no" \/ gone' = gone
      BY <2>1, DeletionFacts DEF RenameInRuntime, Renamed, AfterRegistration
    <3>2. UNCHANGED <<history, histogram, ring, tick, delete>>
      BY <2>1 DEF RenameInRuntime, fileVars
    <3> QED BY <3>1, <3>2
  <2>2. CASE ResolvePut(r) \/ RenameInSnapshot(r) \/ PersistRename(r) \/ RenamePersisted(r)
    <3>1. UNCHANGED trafficVars
      BY <2>2 DEF trafficVars, ResolvePut, RenameInSnapshot, PersistRename, RenamePersisted,
                  memVars, fileVars, ghostVars
    <3> QED BY <3>1, TrafficKept
  <2> QED BY <1>19, <2>1, <2>2 DEF Put
<1>20. CASE \/ FindStale \/ NameStale \/ RemoveStale \/ NeighborChange \/ LinkDown
            \/ LinkUp \/ RefreshTopology \/ DaysPass \/ UNCHANGED vars
  <2>1. UNCHANGED trafficVars
    BY <1>20 DEF trafficVars, FindStale, NameStale, RemoveStale, NeighborChange, LinkDown,
                 LinkUp, RefreshTopology, DaysPass, vars, memVars, fileVars, taskVars,
                 ghostVars
  <2> QED BY <2>1, TrafficKept
<1> QED BY <1>4, <1>5, <1>6, <1>7, <1>8, <1>9, <1>10, <1>11, <1>12, <1>13, <1>14, <1>15,
           <1>16, <1>17, <1>18, <1>19, <1>20 DEF Next, Tick, Delete, Cleanup

-----------------------------------------------------------------------------
(* Every reachable state of every instance has the right type.             *)
THEOREM TypeCorrect == Spec => []TypeOK
<1>1. Spec => []TypeInv
  BY TypeInit, TypeNext, PTL DEF Spec
<1> QED BY <1>1, PTL DEF TypeInv

LEMMA AlwaysTraffic == Spec => []RegistryInv /\ []TrafficInv
<1>1. Spec => []TypeInv
  BY TypeInit, TypeNext, PTL DEF Spec
<1>2. Spec => []RegistryInv
  BY <1>1, RegistryInit, RegistryNext, PTL DEF Spec
<1> QED BY <1>1, <1>2, TrafficInit, TrafficNext, PTL DEF Spec

(* A deletion of DELETE /api/devices that was answered OK stays off        *)
(* devices_state.json and out of the registry until something registers    *)
(* the device again, however the saves of the collector and of other       *)
(* requests are interleaved and across any number of restarts; only what   *)
(* was registered under another ifindex of the interface may be left.      *)
THEOREM DeletedOffDiskHolds == Spec => []DeletedOffDisk
<1>1. RegistryInv => DeletedOffDisk
  BY DEF RegistryInv
<1> QED BY <1>1, AlwaysTraffic, PTL

(* A hostname of PUT /api/devices/hostname that was answered OK is in the  *)
(* registry, at the ifindex the request concerned, and in the file until   *)
(* it is replaced, the device removed or a start does not restore it.      *)
THEOREM AckedNameKeptHolds == Spec => []AckedNameKept
<1>1. RegistryInv => AckedNameKept
  BY DEF RegistryInv
<1> QED BY <1>1, AlwaysTraffic, PTL

(* A deletion answered OK leaves no traffic in memory at the ifindex it    *)
(* concerns, nor in the ring file when no entry of another ifindex was     *)
(* left, but for what a tick under way carried past the removal and what   *)
(* the current-hour file brings back at a restart.                         *)
THEOREM DeletedTrafficGoneHolds == Spec => []DeletedTrafficGone
<1>1. TrafficInv => DeletedTrafficGone
  BY DEF TrafficInv, HistoryEmptied, HistogramEmptied, RingEmptied, Past, DeletedTrafficGone
<1> QED BY <1>1, AlwaysTraffic, PTL

-----------------------------------------------------------------------------
(* 2. The locks *)


\* A set of natural numbers that is not empty has a least element.
LEMMA LeastNumber ==
  ASSUME NEW T \in SUBSET Nat, T # {}
  PROVE  \E x \in T : \A y \in T : x <= y
<1> DEFINE R == OpToRel(<, Nat)
<1>1. IsWellFoundedOn(R, Nat)
  BY NatLessThanWellFounded
<1> HIDE DEF R
<1>2. PICK x \in T : \A y \in T : ~(<<y, x>> \in R)
  BY <1>1, WFMin
<1>3. \A y \in T : y < x => <<y, x>> \in R
  BY DEF R, OpToRel
<1>4. \A y \in T : ~(y < x)
  BY <1>2, <1>3
<1> QED BY ONLY <1>4, x \in T, T \in SUBSET Nat

\* A step of a program; a request for a lock.
Step == [op : {"read", "write", "drop"}, lock : Locks]
Request == [task : Tasks, op : {"read", "write"}]

\* The locks that a program holds before its step i: those it drops before it
\* takes them again.
HoldsFrom(s, i) ==
  {m \in Locks : \E j \in i..Len(s) :
     /\ s[j].op = "drop" /\ s[j].lock = m
     /\ \A n \in i..(j - 1) : s[n].lock # m}

\* Every lock that is taken is dropped, and a lock is taken while none is held,
\* or while only runtime is and it is another one.
Disciplined(s) ==
  \A i \in 1..Len(s) : s[i].op # "drop" =>
     /\ s[i].lock \in HoldsFrom(s, i + 1)
     /\ \A m \in HoldsFrom(s, i) : m = "runtime" /\ s[i].lock # "runtime"

\* Programs that take their locks in that way and start with none held.
Whole == {s \in Seq(Step) : Disciplined(s) /\ HoldsFrom(s, 1) = {}}

LEMMA WholeEmpty == <<>> \in Whole
BY DEF Whole, Disciplined, HoldsFrom

LEMMA WholePair ==
  ASSUME NEW l \in Locks, NEW op \in {"read", "write"}, NEW s,
         s = <<[op |-> op, lock |-> l], [op |-> "drop", lock |-> l]>>
  PROVE  s \in Whole
<1>1. s \in Seq(Step) /\ Len(s) = 2
  BY DEF Step
<1>2. s[1] = [op |-> op, lock |-> l] /\ s[2] = [op |-> "drop", lock |-> l]
  OBVIOUS
<1>3. HoldsFrom(s, 1) = {}
  BY <1>1, <1>2 DEF HoldsFrom
<1>4. l \in HoldsFrom(s, 2)
  BY <1>1, <1>2 DEF HoldsFrom
<1>5. Disciplined(s)
  BY <1>1, <1>2, <1>3, <1>4 DEF Disciplined
<1> QED BY <1>1, <1>3, <1>5 DEF Whole

LEMMA WholeNested ==
  ASSUME NEW m \in Locks, m # "runtime"
  PROVE  NestedRead("runtime", m) \in Whole
<1> DEFINE s == NestedRead("runtime", m)
<1>1. "runtime" \in Locks
  BY DEF Locks
<1>2. s \in Seq(Step) /\ Len(s) = 4
  BY <1>1 DEF Step, NestedRead, Read, Drop
<1>3. /\ s[1] = [op |-> "read", lock |-> "runtime"] /\ s[2] = [op |-> "read", lock |-> m]
      /\ s[3] = [op |-> "drop", lock |-> m] /\ s[4] = [op |-> "drop", lock |-> "runtime"]
  BY DEF NestedRead, Read, Drop
<1> HIDE DEF s
<1>4. HoldsFrom(s, 1) = {}
  BY <1>2, <1>3 DEF HoldsFrom
<1>5. HoldsFrom(s, 2) \subseteq {"runtime"} /\ "runtime" \in HoldsFrom(s, 2)
  BY <1>1, <1>2, <1>3 DEF HoldsFrom
<1>6. m \in HoldsFrom(s, 3)
  BY <1>2, <1>3 DEF HoldsFrom
<1>7. Disciplined(s)
  <2> SUFFICES ASSUME NEW i \in 1..Len(s), s[i].op # "drop"
               PROVE  /\ s[i].lock \in HoldsFrom(s, i + 1)
                      /\ \A n \in HoldsFrom(s, i) : n = "runtime" /\ s[i].lock # "runtime"
    BY DEF Disciplined
  <2>1. i = 1 \/ i = 2
    BY <1>2, <1>3
  <2> QED BY <1>3, <1>4, <1>5, <1>6, <2>1
<1> QED BY <1>2, <1>4, <1>7 DEF Whole, s

\* One program after another.
LEMMA WholeConcat ==
  ASSUME NEW s \in Whole, NEW r \in Whole
  PROVE  s \o r \in Whole
<1> DEFINE c == s \o r
           k == Len(s)
<1>1. s \in Seq(Step) /\ r \in Seq(Step) /\ c \in Seq(Step)
  BY DEF Whole
<1>2. k \in Nat /\ Len(r) \in Nat /\ Len(c) = k + Len(r)
  BY <1>1
<1>3. \A i \in 1..k : c[i] = s[i]
  BY <1>1
<1>4. \A i \in 1..Len(r) : c[i + k] = r[i]
  BY <1>1
<1> HIDE DEF c, k
<1>5. \A i \in (k + 1)..Len(c) : i - k \in 1..Len(r) /\ c[i] = r[i - k]
  <2> SUFFICES ASSUME NEW i \in (k + 1)..Len(c) PROVE i - k \in 1..Len(r) /\ c[i] = r[i - k]
    OBVIOUS
  <2>1. i - k \in 1..Len(r) /\ (i - k) + k = i
    BY <1>2
  <2> QED BY <1>4, <2>1
<1>6. ASSUME NEW i \in Nat, i >= 1, i <= k + 1, NEW m \in HoldsFrom(c, i)
      PROVE  m \in HoldsFrom(s, i)
  <2>1. PICK j \in i..Len(c) : /\ c[j].op = "drop" /\ c[j].lock = m
                               /\ \A n \in i..(j - 1) : c[n].lock # m
    BY DEF HoldsFrom
  <2>2. CASE j <= k
    <3>1. j \in i..k /\ \A n \in i..j : n \in 1..k
      BY <1>2, <1>6, <2>2
    <3>2. j \in i..Len(s) /\ s[j].op = "drop" /\ s[j].lock = m
      BY <1>2, <1>3, <2>1, <3>1 DEF k
    <3>3. ASSUME NEW n \in i..(j - 1) PROVE s[n].lock # m
      <4>1. n \in 1..k
        BY <1>2, <3>1
      <4> QED BY <1>3, <2>1, <4>1
    <3>4. m \in Locks
      BY DEF HoldsFrom
    <3> QED BY <3>2, <3>3, <3>4 DEF HoldsFrom
  <2>3. CASE j > k
    <3>1. j - k \in 1..Len(r) /\ c[j] = r[j - k]
      BY <1>2, <1>5, <1>6, <2>3
    <3>2. ASSUME NEW n \in 1..(j - k - 1) PROVE r[n].lock # m
      <4>1. n + k \in i..(j - 1) /\ n \in 1..Len(r)
        BY <1>2, <1>6, <2>3, <3>1
      <4> QED BY <1>4, <2>1, <4>1
    <3>3. m \in HoldsFrom(r, 1)
      BY <2>1, <3>1, <3>2 DEF HoldsFrom
    <3> QED BY <3>3 DEF Whole
  <2> QED BY <1>2, <2>2, <2>3
<1>7. ASSUME NEW i \in 1..k, NEW m \in HoldsFrom(s, i + 1) PROVE m \in HoldsFrom(c, i + 1)
  <2>1. PICK j \in (i + 1)..k : /\ s[j].op = "drop" /\ s[j].lock = m
                               /\ \A n \in (i + 1)..(j - 1) : s[n].lock # m
    BY DEF HoldsFrom, k
  <2>2. j \in (i + 1)..Len(c) /\ \A n \in (i + 1)..j : n \in 1..k
    BY <1>2
  <2> QED BY <1>3, <2>1, <2>2 DEF HoldsFrom
<1>8. ASSUME NEW i \in 1..(Len(r) + 1), NEW m
      PROVE  m \in HoldsFrom(c, i + k) <=> m \in HoldsFrom(r, i)
  <2>1. ASSUME m \in HoldsFrom(c, i + k) PROVE m \in HoldsFrom(r, i)
    <3>1. PICK j \in (i + k)..Len(c) : /\ c[j].op = "drop" /\ c[j].lock = m
                                      /\ \A n \in (i + k)..(j - 1) : c[n].lock # m
      BY <2>1 DEF HoldsFrom
    <3>2. j - k \in i..Len(r) /\ c[j] = r[j - k]
      BY <1>2, <1>5
    <3>3. ASSUME NEW n \in i..(j - k - 1) PROVE r[n].lock # m
      <4>1. n + k \in (i + k)..(j - 1) /\ n \in 1..Len(r)
        BY <1>2, <3>2
      <4> QED BY <1>4, <3>1, <4>1
    <3> QED BY <2>1, <3>1, <3>2, <3>3 DEF HoldsFrom
  <2>2. ASSUME m \in HoldsFrom(r, i) PROVE m \in HoldsFrom(c, i + k)
    <3>1. PICK j \in i..Len(r) : /\ r[j].op = "drop" /\ r[j].lock = m
                                 /\ \A n \in i..(j - 1) : r[n].lock # m
      BY <2>2 DEF HoldsFrom
    <3>2. j + k \in (i + k)..Len(c) /\ c[j + k] = r[j]
      BY <1>2, <1>4
    <3>3. ASSUME NEW n \in (i + k)..(j + k - 1) PROVE c[n].lock # m
      <4>1. n - k \in i..(j - 1) /\ c[n] = r[n - k]
        BY <1>2, <1>5, <3>2
      <4> QED BY <3>1, <4>1
    <3>4. m \in Locks
      BY <2>2 DEF HoldsFrom
    <3> DEFINE x == j + k
    <3>5. /\ x \in (i + k)..Len(c) /\ c[x].op = "drop" /\ c[x].lock = m
          /\ \A n \in (i + k)..(x - 1) : c[n].lock # m
      BY <1>2, <3>1, <3>2, <3>3
    <3> HIDE DEF x
    <3> QED BY <3>4, <3>5 DEF HoldsFrom
  <2> QED BY <2>1, <2>2
<1>9. HoldsFrom(c, 1) = {}
  <2>1. HoldsFrom(s, 1) = {}
    BY DEF Whole
  <2> QED BY <1>2, <1>6, <2>1
<1>10. Disciplined(c)
  <2> SUFFICES ASSUME NEW i \in 1..Len(c), c[i].op # "drop"
               PROVE  /\ c[i].lock \in HoldsFrom(c, i + 1)
                      /\ \A m \in HoldsFrom(c, i) : m = "runtime" /\ c[i].lock # "runtime"
    BY DEF Disciplined
  <2>1. Disciplined(s) /\ Disciplined(r)
    BY DEF Whole
  <2>2. CASE i <= k
    <3>1. i \in 1..k /\ c[i] = s[i] /\ i \in Nat /\ i >= 1 /\ i <= k + 1
      BY <1>2, <1>3, <2>2
    <3>2. /\ s[i].lock \in HoldsFrom(s, i + 1)
          /\ \A m \in HoldsFrom(s, i) : m = "runtime" /\ s[i].lock # "runtime"
      BY <2>1, <3>1 DEF Disciplined, k
    <3> QED BY <1>6, <1>7, <3>1, <3>2
  <2>3. CASE i > k
    <3> DEFINE q == i - k
    <3>1. q \in 1..Len(r) /\ c[i] = r[q] /\ q + 1 \in 1..(Len(r) + 1) /\ q \in 1..(Len(r) + 1)
      BY <1>2, <1>5, <2>3
    <3>2. /\ r[q].lock \in HoldsFrom(r, q + 1)
          /\ \A m \in HoldsFrom(r, q) : m = "runtime" /\ r[q].lock # "runtime"
      BY <2>1, <3>1 DEF Disciplined
    <3>3. q + k = i /\ (q + 1) + k = i + 1
      BY <1>2
    <3> HIDE DEF q
    <3>4. /\ HoldsFrom(c, q + k) = HoldsFrom(r, q)
          /\ HoldsFrom(c, (q + 1) + k) = HoldsFrom(r, q + 1)
      BY <1>8, <3>1
    <3>5. HoldsFrom(c, i) = HoldsFrom(r, q) /\ HoldsFrom(c, i + 1) = HoldsFrom(r, q + 1)
      BY <3>3, <3>4, Zenon
    <3> QED BY <3>1, <3>2, <3>5
  <2> QED BY <1>2, <2>2, <2>3
<1> QED BY <1>1, <1>9, <1>10 DEF Whole, c

\* A lock taken and dropped.
LEMMA WholeReading ==
  ASSUME NEW l \in Locks
  PROVE  Reading(l) \in Whole /\ Writing(l) \in Whole
BY WholePair DEF Reading, Writing, Read, Write, Drop

\* Every program of every task keeps the discipline.
LEMMA ProgramsWhole ==
  ASSUME NEW p \in DOMAIN Programs
  PROVE  Programs[p] \subseteq Whole
<1>1. /\ \A l \in Locks : Reading(l) \in Whole /\ Writing(l) \in Whole
      /\ \A s, r \in Whole : s \o r \in Whole
  BY WholeReading, WholeConcat
<1>2. /\ "topology" \in Locks /\ "runtime" \in Locks /\ "snapshot" \in Locks
      /\ "history" \in Locks /\ "histogram" \in Locks /\ "dns" \in Locks
      /\ "conntrack" \in Locks
  BY DEF Locks
<1>3. NestedRead("runtime", "topology") \in Whole /\ NestedRead("runtime", "histogram") \in Whole
  BY <1>2, WholeNested
<1>4. collector \subseteq Whole
  <2>1. PeriodicPersist \in Whole /\ CollectLocks \in Whole
    BY <1>1, <1>2, Zenon DEF PeriodicPersist, CollectLocks
  <2> DEFINE publish == Writing("history") \o Writing("histogram") \o Writing("snapshot")
  <2>2. publish \in Whole
    BY <1>1, <1>2, Zenon
  <2>3. collector = {CollectLocks, CollectLocks \o publish,
                       CollectLocks \o publish \o PeriodicPersist}
    BY DEF collector
  <2> HIDE DEF publish
  <2>4. CollectLocks \o publish \in Whole /\ CollectLocks \o publish \o PeriodicPersist \in Whole
    BY <1>1, <2>1, <2>2, Zenon
  <2> QED BY <2>1, <2>3, <2>4, Zenon
<1>5. topology_updater \subseteq Whole /\ dns_access \subseteq Whole
  BY <1>1, <1>2, Zenon DEF topology_updater, dns_access
<1>6. ttl_cleanup \subseteq Whole
  <2>1. Reading("runtime") \o Reading("topology") \o Writing("runtime")
          \o Writing("history") \o Writing("histogram") \in Whole
    BY <1>1, <1>2, Zenon
  <2> QED BY <1>1, <1>2, <2>1, Zenon DEF ttl_cleanup
<1>7. persist_monitor_runtime_state \in Whole
  BY <1>3 DEF persist_monitor_runtime_state
<1>8. set_device_hostname \subseteq Whole
  <2>1. Reading("topology") \o Writing("snapshot") \o Writing("runtime") \in Whole
    BY <1>1, <1>2, Zenon
  <2>2. Reading("topology") \o Writing("snapshot") \o Writing("runtime")
          \o persist_monitor_runtime_state \in Whole
    BY <1>1, <1>7, <2>1, Zenon
  <2> QED BY <1>1, <1>2, <2>1, <2>2, Zenon DEF set_device_hostname
<1>9. delete_device \subseteq Whole
  <2> DEFINE removed == Reading("topology") \o Writing("snapshot") \o Writing("runtime")
                          \o Writing("history") \o Writing("histogram")
  <2>1. delete_device = {Reading("topology"), removed,
                           removed \o persist_monitor_runtime_state}
    BY DEF delete_device
  <2>2. removed \in Whole
    BY <1>1, <1>2, Zenon
  <2> HIDE DEF removed
  <2> QED BY <1>1, <1>2, <1>7, <2>1, <2>2, Zenon
<1>10. resolve_query_iface \subseteq Whole
  <2>1. Reading("topology") \o Reading("snapshot") \in Whole
    BY <1>1, <1>2, Zenon
  <2> QED BY <1>1, <1>2, <2>1, Zenon DEF resolve_query_iface
<1>11. usage_ranking \subseteq Whole
  BY <1>1, <1>3, <1>10, WholeEmpty, Zenon DEF usage_ranking
<1>12. aggregate \subseteq Whole
  BY <1>1, <1>2, <1>10, Zenon DEF aggregate
<1>13. history_request \subseteq Whole
  BY <1>1, <1>2, <1>10, Zenon DEF history_request
<1>14. overview \subseteq Whole
  BY <1>1, <1>2, Zenon DEF overview
<1>15. dns_reader \subseteq Whole
  BY <1>1, <1>2, <1>3, Zenon DEF dns_reader
<1>16. /\ conntrack_stats \subseteq Whole /\ conntrack_update \subseteq Whole
       /\ conntrack_request \subseteq Whole
  <2>1. Reading("runtime") \o Writing("conntrack") \in Whole
    BY <1>1, <1>2, Zenon
  <2> QED BY <1>1, <1>2, <2>1, Zenon
             DEF conntrack_stats, conntrack_update, conntrack_request
<1> HIDE DEF Whole
<1> QED BY <1>4, <1>5, <1>6, <1>8, <1>9, <1>11, <1>12, <1>13, <1>14, <1>15, <1>16
        DEF Programs

-----------------------------------------------------------------------------

\* A task holds only what the rest of its program drops, it waits for the
\* lock its program takes next, and it waits once.
LocksOK ==
  /\ kind \in Mixes
  /\ todo \in [Tasks -> Seq(Step)] /\ \A t \in Tasks : Disciplined(todo[t])
  /\ held \in [Locks -> SUBSET Request] /\ queue \in [Locks -> Seq(Request)]
  /\ \A l \in Locks : \A h \in held[l] : l \in HoldsFrom(todo[h.task], 1)
  /\ \A l \in Locks : \A i \in DOMAIN queue[l] :
       /\ todo[queue[l][i].task] # <<>>
       /\ Head(todo[queue[l][i].task]) = [op |-> queue[l][i].op, lock |-> l]
  /\ \A l \in Locks : \A i, j \in DOMAIN queue[l] :
       queue[l][i].task = queue[l][j].task => i = j

LEMMA DisciplinedTail ==
  ASSUME NEW s \in Seq(Step), s # <<>>, Disciplined(s)
  PROVE  /\ Tail(s) \in Seq(Step) /\ Disciplined(Tail(s)) /\ Head(s) \in Step /\ Head(s) = s[1]
         /\ HoldsFrom(Tail(s), 1) = HoldsFrom(s, 2)
<1> DEFINE r == Tail(s)
           k == Len(r)
<1>1. r \in Seq(Step) /\ Len(s) \in Nat /\ Len(s) >= 1 /\ k = Len(s) - 1 /\ k \in Nat
      /\ Head(s) \in Step /\ Head(s) = s[1]
  OBVIOUS
<1>2. \A i \in 1..k : r[i] = s[i + 1]
  OBVIOUS
<1> HIDE DEF r
<1>3. ASSUME NEW i \in 1..(k + 1), NEW m PROVE m \in HoldsFrom(r, i) <=> m \in HoldsFrom(s, i + 1)
  <2>1. ASSUME m \in HoldsFrom(r, i) PROVE m \in HoldsFrom(s, i + 1)
    <3>1. PICK j \in i..k : /\ r[j].op = "drop" /\ r[j].lock = m
                            /\ \A n \in i..(j - 1) : r[n].lock # m
      BY <2>1 DEF HoldsFrom
    <3> DEFINE x == j + 1
    <3>2. x \in (i + 1)..Len(s) /\ s[x] = r[j]
      BY <1>1, <1>2
    <3>3. ASSUME NEW n \in (i + 1)..(x - 1) PROVE s[n].lock # m
      <4>1. n - 1 \in i..(j - 1) /\ n - 1 \in 1..k /\ (n - 1) + 1 = n
        BY <1>1
      <4>2. r[n - 1] = s[n]
        BY <1>2, <4>1
      <4> QED BY <3>1, <4>1, <4>2
    <3>4. m \in Locks
      BY <2>1 DEF HoldsFrom
    <3> HIDE DEF x
    <3> QED BY <3>1, <3>2, <3>3, <3>4 DEF HoldsFrom
  <2>2. ASSUME m \in HoldsFrom(s, i + 1) PROVE m \in HoldsFrom(r, i)
    <3>1. PICK j \in (i + 1)..Len(s) : /\ s[j].op = "drop" /\ s[j].lock = m
                                      /\ \A n \in (i + 1)..(j - 1) : s[n].lock # m
      BY <2>2 DEF HoldsFrom
    <3> DEFINE x == j - 1
    <3>2. x \in i..k /\ x + 1 = j /\ x \in 1..k
      BY <1>1
    <3>3. r[x] = s[j]
      BY <1>2, <3>2
    <3>4. ASSUME NEW n \in i..(x - 1) PROVE r[n].lock # m
      <4>1. n + 1 \in (i + 1)..(j - 1) /\ n \in 1..k
        BY <1>1, <3>2
      <4> QED BY <1>2, <3>1, <4>1
    <3>5. m \in Locks
      BY <2>2 DEF HoldsFrom
    <3> HIDE DEF x
    <3> QED BY <3>1, <3>2, <3>3, <3>4, <3>5 DEF HoldsFrom
  <2> QED BY <2>1, <2>2
<1>4. Disciplined(r)
  <2> SUFFICES ASSUME NEW i \in 1..k, r[i].op # "drop"
               PROVE  /\ r[i].lock \in HoldsFrom(r, i + 1)
                      /\ \A m \in HoldsFrom(r, i) : m = "runtime" /\ r[i].lock # "runtime"
    BY DEF Disciplined
  <2>1. i + 1 \in 1..Len(s) /\ r[i] = s[i + 1] /\ i \in 1..(k + 1) /\ i + 1 \in 1..(k + 1)
    BY <1>1, <1>2
  <2>2. /\ s[i + 1].lock \in HoldsFrom(s, (i + 1) + 1)
        /\ \A m \in HoldsFrom(s, i + 1) : m = "runtime" /\ s[i + 1].lock # "runtime"
    BY <2>1 DEF Disciplined
  <2>3. HoldsFrom(r, i) = HoldsFrom(s, i + 1) /\ HoldsFrom(r, i + 1) = HoldsFrom(s, (i + 1) + 1)
    BY <1>3, <2>1
  <2> QED BY <2>1, <2>2, <2>3
<1>5. HoldsFrom(r, 1) = HoldsFrom(s, 2)
  <2>1. 1 \in 1..(k + 1)
    BY <1>1
  <2>2. HoldsFrom(r, 1) = HoldsFrom(s, 1 + 1)
    BY <1>3, <2>1
  <2> QED BY <2>2
<1> QED BY <1>1, <1>4, <1>5 DEF r

\* After a lock is taken it is held, and what was held still is; after a lock
\* is dropped the others are held.
LEMMA HoldsAfter ==
  ASSUME NEW s \in Seq(Step), s # <<>>, Disciplined(s)
  PROVE  /\ Head(s).op # "drop" =>
              /\ HoldsFrom(s, 1) \cup {Head(s).lock} \subseteq HoldsFrom(Tail(s), 1)
              /\ \A m \in HoldsFrom(s, 1) : m = "runtime" /\ Head(s).lock # "runtime"
         /\ HoldsFrom(s, 1) \ {Head(s).lock} \subseteq HoldsFrom(Tail(s), 1)
<1>1. Head(s) = s[1] /\ HoldsFrom(Tail(s), 1) = HoldsFrom(s, 2) /\ Len(s) \in Nat /\ Len(s) >= 1
  BY DisciplinedTail
<1>2. ASSUME NEW m \in HoldsFrom(s, 1), m # s[1].lock PROVE m \in HoldsFrom(s, 2)
  <2>1. PICK j \in 1..Len(s) : /\ s[j].op = "drop" /\ s[j].lock = m
                               /\ \A n \in 1..(j - 1) : s[n].lock # m
    BY DEF HoldsFrom
  <2>2. j \in 2..Len(s) /\ \A n \in 2..(j - 1) : n \in 1..(j - 1)
    BY <1>1, <1>2, <2>1
  <2> QED BY <2>1, <2>2 DEF HoldsFrom
<1>3. ASSUME s[1].op # "drop"
      PROVE  /\ s[1].lock \in HoldsFrom(s, 2)
             /\ \A m \in HoldsFrom(s, 1) : m = "runtime" /\ s[1].lock # "runtime"
  <2>1. 1 \in 1..Len(s) /\ 1 + 1 = 2
    BY <1>1
  <2> QED BY <1>3, <2>1 DEF Disciplined
<1> QED BY <1>1, <1>2, <1>3

\* The steps of LockOrder keep that.
LEMMA LocksInit == LockInit => LocksOK
<1> SUFFICES ASSUME LockInit PROVE LocksOK
  OBVIOUS
<1>1. <<>> \in Seq(Step) /\ <<>> \in Seq(Request) /\ Disciplined(<<>>)
  BY DEF Disciplined
<1>2. todo \in [Tasks -> Seq(Step)] /\ \A t \in Tasks : Disciplined(todo[t])
  BY <1>1 DEF LockInit
<1>3. held \in [Locks -> SUBSET Request] /\ \A l \in Locks : held[l] = {}
  BY DEF LockInit
<1>4. queue \in [Locks -> Seq(Request)] /\ \A l \in Locks : DOMAIN queue[l] = {}
  BY <1>1 DEF LockInit
<1>5. kind \in Mixes
  BY DEF LockInit
<1> QED BY <1>2, <1>3, <1>4, <1>5, Zenon DEF LocksOK

LEMMA LocksStart ==
  ASSUME LocksOK, NEW t \in Tasks, Start(t)
  PROVE  LocksOK'
<1>1. PICK p \in Programs[kind[t]] : todo' = [todo EXCEPT ![t] = p]
  BY DEF Start
<1>2. t \in DOMAIN kind /\ todo[t] = <<>> /\ UNCHANGED <<kind, held, queue>>
  BY DEF Start
<1>3. kind[t] \in DOMAIN Programs
  BY <1>2, MixesAssumption DEF LocksOK
<1>4. p \in Seq(Step) /\ Disciplined(p)
  BY <1>1, <1>3, ProgramsWhole DEF Whole
<1>5. todo' \in [Tasks -> Seq(Step)] /\ \A u \in Tasks : todo'[u] = IF u = t THEN p ELSE todo[u]
  BY <1>1, <1>4 DEF LocksOK
<1>6. HoldsFrom(<<>>, 1) = {}
  BY WholeEmpty DEF Whole
<1>7. ASSUME NEW l \in Locks, NEW h \in held[l] PROVE h.task \in Tasks /\ h.task # t
  BY <1>2, <1>6 DEF LocksOK, Request
<1>8. ASSUME NEW l \in Locks, NEW i \in DOMAIN queue[l]
      PROVE  queue[l][i].task \in Tasks /\ queue[l][i].task # t
  <2>1. queue[l] \in Seq(Request)
    BY DEF LocksOK
  <2>2. queue[l][i] \in Request
    BY <2>1
  <2> QED BY <1>2, <2>2 DEF LocksOK, Request
<1>9. \A u \in Tasks : Disciplined(todo'[u])
  BY <1>4, <1>5 DEF LocksOK
<1>10. \A l \in Locks : \A h \in held[l] : l \in HoldsFrom(todo'[h.task], 1)
  BY <1>5, <1>7 DEF LocksOK
<1>11. \A l \in Locks : \A i \in DOMAIN queue[l] :
         /\ todo'[queue[l][i].task] # <<>>
         /\ Head(todo'[queue[l][i].task]) = [op |-> queue[l][i].op, lock |-> l]
  BY <1>5, <1>8 DEF LocksOK
<1> QED BY <1>2, <1>5, <1>9, <1>10, <1>11 DEF LocksOK

\* Who is in a queue.
LEMMA InQueue ==
  ASSUME LocksOK, NEW l \in Locks, NEW i \in DOMAIN queue[l]
  PROVE  /\ queue[l][i] \in Request /\ queue[l][i].task \in Tasks
         /\ queue[l] \in Seq(Request) /\ DOMAIN queue[l] = 1..Len(queue[l]) /\ Len(queue[l]) \in Nat
         /\ todo[queue[l][i].task] # <<>>
         /\ Head(todo[queue[l][i].task]).lock = l
         /\ Head(todo[queue[l][i].task]).op = queue[l][i].op
         /\ Head(todo[queue[l][i].task]).op # "drop"
<1>1. queue[l] \in Seq(Request)
  BY DEF LocksOK
<1>2. queue[l][i] \in Request /\ DOMAIN queue[l] = 1..Len(queue[l]) /\ Len(queue[l]) \in Nat
  BY <1>1
<1>3. queue[l][i].task \in Tasks /\ queue[l][i].op # "drop"
  BY <1>2 DEF Request
<1>4. /\ todo[queue[l][i].task] # <<>>
      /\ Head(todo[queue[l][i].task]) = [op |-> queue[l][i].op, lock |-> l]
  BY DEF LocksOK
<1> QED BY <1>1, <1>2, <1>3, <1>4

LEMMA LocksAwait ==
  ASSUME LocksOK, NEW t \in Tasks, Await(t)
  PROVE  LocksOK'
<1> DEFINE next == Head(todo[t])
           k == next.lock
           request == [task |-> t, op |-> next.op]
<1>1. todo[t] # <<>> /\ next.op # "drop" /\ ~Queued(t) /\ UNCHANGED <<kind, todo, held>>
  BY DEF Await
<1>2. queue' = [queue EXCEPT ![k] = Append(@, request)]
  BY DEF Await
<1>3. todo[t] \in Seq(Step) /\ Disciplined(todo[t])
  BY DEF LocksOK
<1>4. next \in Step
  BY <1>1, <1>3
<1>5. k \in Locks /\ request \in Request /\ next = [op |-> next.op, lock |-> k]
  BY <1>1, <1>4 DEF Step, Request
<1> HIDE DEF next, k
<1>6. queue[k] \in Seq(Request) /\ Len(queue[k]) \in Nat
  BY <1>5 DEF LocksOK
<1>7. queue'[k] = Append(queue[k], request) /\ \A l \in Locks \ {k} : queue'[l] = queue[l]
  BY <1>2, <1>5 DEF LocksOK
<1>8. queue' \in [Locks -> Seq(Request)]
  BY <1>2, <1>5, <1>6 DEF LocksOK
<1>9. /\ DOMAIN queue'[k] = 1..(Len(queue[k]) + 1) /\ DOMAIN queue[k] = 1..Len(queue[k])
      /\ \A i \in DOMAIN queue[k] : queue'[k][i] = queue[k][i]
      /\ queue'[k][Len(queue[k]) + 1] = request
  BY <1>5, <1>6, <1>7
<1>10. \A i \in DOMAIN queue[k] : queue[k][i].task # t
  BY <1>1, <1>5 DEF Queued
<1>11. ASSUME NEW l \in Locks, NEW i \in DOMAIN queue'[l]
       PROVE  /\ todo[queue'[l][i].task] # <<>>
              /\ Head(todo[queue'[l][i].task]) = [op |-> queue'[l][i].op, lock |-> l]
  <2>1. CASE l = k /\ i = Len(queue[k]) + 1
    <3>1. queue'[l][i] = request
      BY <1>9, <2>1
    <3>2. queue'[l][i].task = t /\ queue'[l][i].op = next.op
      BY <3>1
    <3> QED BY <1>1, <1>5, <2>1, <3>2 DEF next
  <2>2. CASE ~(l = k /\ i = Len(queue[k]) + 1)
    <3>1. i \in DOMAIN queue[l] /\ queue'[l][i] = queue[l][i]
      BY <1>6, <1>7, <1>9, <2>2
    <3> QED BY <3>1 DEF LocksOK
  <2> QED BY <2>1, <2>2
<1>12. ASSUME NEW l \in Locks, NEW i \in DOMAIN queue'[l], NEW j \in DOMAIN queue'[l],
              queue'[l][i].task = queue'[l][j].task
       PROVE  i = j
  <2>1. CASE l # k
    BY <1>7, <1>12, <2>1 DEF LocksOK
  <2>2. CASE l = k
    <3>1. \A n \in DOMAIN queue'[k] : n = Len(queue[k]) + 1 \/ n \in DOMAIN queue[k]
      BY <1>6, <1>9
    <3>2. queue'[k][Len(queue[k]) + 1].task = t
      BY <1>9
    <3>3. \A n \in DOMAIN queue[k] : queue'[k][n].task = queue[k][n].task
      BY <1>9
    <3> HIDE DEF request
    <3> QED BY <1>10, <1>12, <2>2, <3>1, <3>2, <3>3 DEF LocksOK
  <2> QED BY <2>1, <2>2
<1>13. kind' \in Mixes /\ held' \in [Locks -> SUBSET Request]
       /\ todo' \in [Tasks -> Seq(Step)] /\ \A u \in Tasks : Disciplined(todo'[u])
  BY <1>1 DEF LocksOK
<1>14. \A l \in Locks : \A h \in held'[l] : l \in HoldsFrom(todo'[h.task], 1)
  BY <1>1 DEF LocksOK
<1> QED BY <1>1, <1>8, <1>11, <1>12, <1>13, <1>14 DEF LocksOK

LEMMA LocksRelease ==
  ASSUME LocksOK, NEW t \in Tasks, Release(t)
  PROVE  LocksOK'
<1> DEFINE s == todo[t]
           k == Head(s).lock
<1>1. s # <<>> /\ Head(s).op = "drop" /\ UNCHANGED <<kind, queue>>
  BY DEF Release
<1>2. /\ held' = [held EXCEPT ![k] = {h \in @ : h.task # t}]
      /\ todo' = [todo EXCEPT ![t] = Tail(@)]
  BY DEF Release
<1>3. s \in Seq(Step) /\ Disciplined(s)
  BY DEF LocksOK
<1>4. Tail(s) \in Seq(Step) /\ Disciplined(Tail(s)) /\ Head(s) \in Step
  BY <1>1, <1>3, DisciplinedTail
<1>5. HoldsFrom(s, 1) \ {k} \subseteq HoldsFrom(Tail(s), 1)
  BY <1>1, <1>3, HoldsAfter
<1>6. k \in Locks
  BY <1>4 DEF Step
<1>7. /\ todo' \in [Tasks -> Seq(Step)]
      /\ \A u \in Tasks : todo'[u] = IF u = t THEN Tail(s) ELSE todo[u]
  BY <1>2, <1>4 DEF LocksOK
<1>8. /\ held' \in [Locks -> SUBSET Request]
      /\ \A l \in Locks : held'[l] = IF l = k THEN {h \in held[k] : h.task # t} ELSE held[l]
  BY <1>2, <1>6 DEF LocksOK
<1>9. \A u \in Tasks : Disciplined(todo'[u])
  BY <1>4, <1>7 DEF LocksOK
<1>10. ASSUME NEW l \in Locks, NEW h \in held'[l] PROVE l \in HoldsFrom(todo'[h.task], 1)
  <2>1. h \in held[l] /\ (l = k => h.task # t)
    BY <1>8
  <2>2. h.task \in Tasks /\ l \in HoldsFrom(todo[h.task], 1)
    BY <2>1 DEF LocksOK, Request
  <2>3. CASE h.task = t
    <3>1. l \in HoldsFrom(s, 1) \ {k}
      BY <2>1, <2>2, <2>3
    <3>2. todo'[h.task] = Tail(s)
      BY <1>7, <2>2, <2>3
    <3> QED BY <1>5, <3>1, <3>2
  <2>4. CASE h.task # t
    BY <1>7, <2>2, <2>4
  <2> QED BY <2>3, <2>4
<1>11. ASSUME NEW l \in Locks, NEW i \in DOMAIN queue[l]
       PROVE  /\ todo'[queue[l][i].task] # <<>>
              /\ Head(todo'[queue[l][i].task]) = [op |-> queue[l][i].op, lock |-> l]
  <2>1. queue[l][i].task \in Tasks /\ queue[l][i].task # t
    BY <1>1, InQueue
  <2>2. todo'[queue[l][i].task] = todo[queue[l][i].task]
    BY <1>7, <2>1
  <2> QED BY <2>2 DEF LocksOK
<1> QED BY <1>1, <1>7, <1>8, <1>9, <1>10, <1>11 DEF LocksOK

LEMMA WithoutFirst ==
  ASSUME NEW q \in Seq(Request), q # <<>>, NEW r, r = SubSeq(q, 1, 1 - 1) \o SubSeq(q, 1 + 1, Len(q))
  PROVE  /\ r \in Seq(Request) /\ Len(q) \in Nat /\ Len(q) >= 1
         /\ DOMAIN r = 1..(Len(q) - 1) /\ \A i \in DOMAIN r : r[i] = q[i + 1]
<1>1. Len(q) \in Nat /\ Len(q) >= 1
  OBVIOUS
<1>2. PICK n \in Nat : n = Len(q)
  BY <1>1
<1> DEFINE u == SubSeq(q, 2, n)
<1>3. n >= 1 /\ \A i \in 2..n : q[i] \in Request
  BY <1>1, <1>2
<1>4. /\ u \in Seq(Request) /\ Len(u) = IF 2 <= n THEN n - 2 + 1 ELSE 0
      /\ \A i \in 1..(n - 2 + 1) : u[i] = q[2 + i - 1]
  BY <1>3, SubSeqProperties
<1>5. r = u
  <2>1. SubSeq(q, 1, 0) = <<>>
    BY SubSeqEmpty
  <2>2. r = <<>> \o u
    BY <1>2, <2>1
  <2> HIDE DEF u
  <2> QED BY <1>4, <2>2
<1> HIDE DEF u
<1>6. PICK k : k = Len(u)
  OBVIOUS
<1>7. k = n - 1
  BY <1>3, <1>4, <1>6
<1>8. \A i \in 1..(n - 1) : i \in 1..(n - 2 + 1) /\ 2 + i - 1 = i + 1
  BY <1>3
<1>9. DOMAIN u = 1..(n - 1) /\ \A i \in 1..(n - 1) : u[i] = q[i + 1]
  BY <1>4, <1>6, <1>7, <1>8
<1> QED BY <1>1, <1>2, <1>4, <1>5, <1>9

LEMMA LocksGrant ==
  ASSUME LocksOK, NEW k \in Locks, Grant(k)
  PROVE  LocksOK'
<1> DEFINE request == queue[k][1]
           t == request.task
           s == todo[t]
           q == queue[k]
           r == SubSeq(q, 1, 1 - 1) \o SubSeq(q, 1 + 1, Len(q))
<1>1. /\ 1 \in DOMAIN queue[k] /\ kind' = kind
      /\ held' = [held EXCEPT ![k] = @ \cup {request}]
      /\ queue' = [queue EXCEPT ![k] = SubSeq(@, 1, 1 - 1) \o SubSeq(@, 1 + 1, Len(@))]
      /\ todo' = [todo EXCEPT ![t] = Tail(@)]
  BY DEF Grant, Servable
<1>2. /\ request \in Request /\ t \in Tasks /\ s # <<>> /\ Head(s).lock = k /\ Head(s).op # "drop"
      /\ q \in Seq(Request) /\ DOMAIN q = 1..Len(q)
  BY <1>1, InQueue
<1>3. s \in Seq(Step) /\ Disciplined(s) /\ q # <<>>
  BY <1>1, <1>2 DEF LocksOK
<1>4. Tail(s) \in Seq(Step) /\ Disciplined(Tail(s))
  BY <1>2, <1>3, DisciplinedTail
<1>5. HoldsFrom(s, 1) \cup {k} \subseteq HoldsFrom(Tail(s), 1)
  BY <1>2, <1>3, HoldsAfter
<1>6. /\ r \in Seq(Request) /\ Len(q) \in Nat /\ Len(q) >= 1
      /\ DOMAIN r = 1..(Len(q) - 1) /\ \A i \in DOMAIN r : r[i] = q[i + 1]
  BY <1>2, <1>3, WithoutFirst
<1>7. /\ todo' \in [Tasks -> Seq(Step)]
      /\ \A u \in Tasks : todo'[u] = IF u = t THEN Tail(s) ELSE todo[u]
  <2> HIDE DEF t
  <2> QED BY <1>1, <1>2, <1>4 DEF LocksOK
<1> HIDE DEF r
<1>8. queue' \in [Locks -> Seq(Request)] /\ \A l \in Locks : queue'[l] = IF l = k THEN r ELSE queue[l]
  BY <1>1, <1>6 DEF LocksOK, r
<1>9. /\ held' \in [Locks -> SUBSET Request]
      /\ \A l \in Locks : held'[l] = IF l = k THEN held[k] \cup {request} ELSE held[l]
  <2> HIDE DEF request
  <2> QED BY <1>1, <1>2 DEF LocksOK
<1> HIDE DEF request
<1>10. \A u \in Tasks : Disciplined(todo'[u])
  BY <1>4, <1>7 DEF LocksOK
<1>11. ASSUME NEW l \in Locks, NEW h \in held'[l] PROVE l \in HoldsFrom(todo'[h.task], 1)
  <2>1. h \in Request /\ h.task \in Tasks
    BY <1>9 DEF Request
  <2>2. CASE h.task = t
    <3>1. l \in HoldsFrom(s, 1) \cup {k}
      <4>1. CASE h \in held[l]
        BY <2>2, <4>1 DEF LocksOK
      <4>2. CASE l = k
        BY <4>2
      <4> QED BY <1>9, <4>1, <4>2
    <3>2. todo'[h.task] = Tail(s)
      BY <1>7, <2>1, <2>2
    <3> QED BY <1>5, <3>1, <3>2
  <2>3. CASE h.task # t
    <3>1. h \in held[l]
      BY <1>9, <2>3
    <3>2. todo'[h.task] = todo[h.task]
      BY <1>7, <2>1, <2>3
    <3> QED BY <3>1, <3>2 DEF LocksOK
  <2> QED BY <2>2, <2>3
<1>12. ASSUME NEW l \in Locks, NEW i \in DOMAIN queue'[l]
       PROVE  /\ queue'[l][i].task # t
              /\ \E j \in DOMAIN queue[l] : /\ queue'[l][i] = queue[l][j]
                                            /\ j = IF l = k THEN i + 1 ELSE i
  <2>1. CASE l = k
    <3>1. i \in 1..(Len(q) - 1) /\ queue'[l][i] = q[i + 1]
      BY <1>6, <1>8, <2>1
    <3>2. i + 1 \in DOMAIN q /\ i + 1 # 1
      BY <1>2, <1>6, <3>1
    <3>3. q[i + 1].task # q[1].task
      BY <1>1, <3>2 DEF LocksOK
    <3> QED BY <2>1, <3>1, <3>2, <3>3 DEF request
  <2>2. CASE l # k
    <3>1. i \in DOMAIN queue[l] /\ queue'[l][i] = queue[l][i]
      BY <1>8, <2>2
    <3>2. Head(todo[queue[l][i].task]).lock = l
      BY <3>1, InQueue
    <3> QED BY <1>2, <2>2, <3>1, <3>2
  <2> QED BY <2>1, <2>2
<1>13. ASSUME NEW l \in Locks, NEW i \in DOMAIN queue'[l]
       PROVE  /\ todo'[queue'[l][i].task] # <<>>
              /\ Head(todo'[queue'[l][i].task]) = [op |-> queue'[l][i].op, lock |-> l]
  <2>1. PICK j \in DOMAIN queue[l] : queue'[l][i] = queue[l][j]
    BY <1>12
  <2>2. queue[l][j].task \in Tasks /\ queue[l][j].task # t
    BY <1>12, <2>1, InQueue
  <2>3. todo'[queue[l][j].task] = todo[queue[l][j].task]
    BY <1>7, <2>2
  <2> QED BY <2>1, <2>3 DEF LocksOK
<1>14. ASSUME NEW l \in Locks, NEW i \in DOMAIN queue'[l], NEW j \in DOMAIN queue'[l],
              queue'[l][i].task = queue'[l][j].task
       PROVE  i = j
  <2>1. PICK x \in DOMAIN queue[l] : queue'[l][i] = queue[l][x] /\ x = IF l = k THEN i + 1 ELSE i
    BY <1>12
  <2>2. PICK y \in DOMAIN queue[l] : queue'[l][j] = queue[l][y] /\ y = IF l = k THEN j + 1 ELSE j
    BY <1>12
  <2>3. x = y
    BY <1>14, <2>1, <2>2 DEF LocksOK
  <2>4. CASE l = k
    <3>1. i \in Int /\ j \in Int
      BY <1>6, <1>8, <2>4
    <3> QED BY <2>1, <2>2, <2>3, <2>4, <3>1
  <2> QED BY <2>1, <2>2, <2>3, <2>4
<1> QED BY <1>1, <1>7, <1>8, <1>9, <1>10, <1>11, <1>13, <1>14 DEF LocksOK

LEMMA LocksStep ==
  ASSUME LocksOK, [LockNext]_lockVars
  PROVE  LocksOK'
<1>1. CASE UNCHANGED lockVars
  BY <1>1 DEF LocksOK, lockVars
<1>2. ASSUME NEW t \in Tasks, Start(t) \/ Await(t) \/ Release(t) PROVE LocksOK'
  BY <1>2, LocksStart, LocksAwait, LocksRelease
<1> QED BY <1>1, <1>2, LocksGrant DEF LockNext



\* A task that waits while it holds a lock holds runtime and waits for another
\* lock.
LEMMA HolderWaits ==
  ASSUME LocksOK, NEW k \in Locks, NEW h \in held[k],
         NEW l \in Locks, NEW i \in DOMAIN queue[l], queue[l][i].task = h.task
  PROVE  k = "runtime" /\ l # "runtime"
<1> DEFINE s == todo[h.task]
<1>1. h.task \in Tasks /\ s \in Seq(Step) /\ Disciplined(s) /\ k \in HoldsFrom(s, 1)
  BY DEF LocksOK, Request
<1>2. s # <<>> /\ Head(s).lock = l /\ Head(s).op # "drop"
  BY InQueue
<1> HIDE DEF s
<1>3. \A m \in HoldsFrom(s, 1) : m = "runtime" /\ Head(s).lock # "runtime"
  BY <1>1, <1>2, HoldsAfter
<1> QED BY <1>1, <1>2, <1>3

\* Of the tasks in S that wait for l the first in the queue is blocked by none
\* of S, unless a task of S holds l.
LEMMA FirstOfQueue ==
  ASSUME LocksOK, NEW S, NEW l \in Locks,
         \E i \in DOMAIN queue[l] : queue[l][i].task \in S,
         \A h \in held[l] : h.task \notin S
  PROVE  \E t \in S : Blockers(t) \cap S = {}
<1> DEFINE Places == {i \in DOMAIN queue[l] : queue[l][i].task \in S}
<1>1. Places \in SUBSET Nat /\ Places # {}
  <2>1. DOMAIN queue[l] \subseteq Nat
    BY InQueue
  <2> QED BY <2>1
<1>2. PICK i \in Places : \A j \in Places : i <= j
  <2> HIDE DEF Places
  <2> QED BY <1>1, LeastNumber
<1> DEFINE t == queue[l][i].task
<1>3. i \in DOMAIN queue[l] /\ t \in S /\ i \in Nat /\ DOMAIN queue[l] = 1..Len(queue[l])
      /\ Len(queue[l]) \in Nat
  BY <1>1, <1>2, InQueue
<1>4. ASSUME NEW m \in Locks, NEW n \in DOMAIN queue[m], queue[m][n].task = t
      PROVE  m = l /\ n = i
  <2>1. m = l
    BY <1>3, <1>4, InQueue
  <2> QED BY <1>3, <1>4, <2>1 DEF LocksOK
<1>5. ASSUME NEW j \in 1..(i - 1) PROVE queue[l][j].task \notin S
  <2>1. j \in DOMAIN queue[l] /\ ~(i <= j)
    BY <1>3
  <2> QED BY <1>2, <2>1
<1>6. Ahead(l, i) \cap S = {}
  BY <1>5 DEF Ahead
<1>7. Blockers(t) \subseteq Ahead(l, i)
  <2> SUFFICES ASSUME NEW b \in Blockers(t) PROVE b \in Ahead(l, i)
    OBVIOUS
  <2> HIDE DEF t
  <2> HIDE DEF Ahead
  <2>1. PICK m \in Locks :
          b \in UNION {Ahead(m, n) : n \in {n \in DOMAIN queue[m] : queue[m][n].task = t}}
    BY DEF Blockers
  <2>2. \E n \in DOMAIN queue[m] : queue[m][n].task = t /\ b \in Ahead(m, n)
    BY <2>1
  <2> QED BY <1>4, <2>2
<1> QED BY <1>3, <1>6, <1>7

\* So no tasks wait for one another.
LEMMA NoCycle == LocksOK => NoWaitCycle
<1> SUFFICES ASSUME LocksOK, NEW S \in SUBSET Waiting, S # {}
             PROVE  \E t \in S : Blockers(t) \cap S = {}
  BY DEF NoWaitCycle
<1>1. ASSUME NEW t \in S
      PROVE  \E l \in Locks : \E i \in DOMAIN queue[l] : queue[l][i].task = t
  BY DEF Waiting, Queued
<1>2. CASE \E l \in Locks : l # "runtime" /\ \E i \in DOMAIN queue[l] : queue[l][i].task \in S
  <2>1. PICK l \in Locks : l # "runtime" /\ \E i \in DOMAIN queue[l] : queue[l][i].task \in S
    BY <1>2
  <2>2. ASSUME NEW h \in held[l], h.task \in S PROVE FALSE
    <3>1. PICK m \in Locks : \E i \in DOMAIN queue[m] : queue[m][i].task = h.task
      BY <1>1, <2>2
    <3> QED BY <2>1, <3>1, HolderWaits
  <2> QED BY <2>1, <2>2, FirstOfQueue
<1>3. CASE \A l \in Locks : \A i \in DOMAIN queue[l] : queue[l][i].task \in S => l = "runtime"
  <2>1. PICK t : t \in S
    OBVIOUS
  <2>2. "runtime" \in Locks /\ \E i \in DOMAIN queue["runtime"] : queue["runtime"][i].task \in S
    BY <1>1, <1>3, <2>1
  <2>3. ASSUME NEW h \in held["runtime"], h.task \in S PROVE FALSE
    <3>1. PICK m \in Locks : \E i \in DOMAIN queue[m] : queue[m][i].task = h.task
      BY <1>1, <2>3
    <3>2. m = "runtime"
      BY <1>3, <2>3, <3>1
    <3> QED BY <2>2, <3>1, <3>2, HolderWaits
  <2> QED BY <2>2, <2>3, FirstOfQueue
<1> QED BY <1>2, <1>3

(***************************************************************************)
(* Whatever tasks run together, however many and however often, no set of  *)
(* them wait for one another at the tokio RwLocks: the collector, the      *)
(* topology updater, the cleanup, the DNS reader, the conntrack workers    *)
(* and any number of API requests.  Of the tasks of a set, the first in    *)
(* the queue of a lock other than runtime can go on, and if all wait for   *)
(* runtime the first of them can.                                          *)
(***************************************************************************)
THEOREM TasksNeverDeadlock == LockSpec => []NoWaitCycle
<1>1. LocksOK /\ [LockNext]_lockVars => LocksOK'
  BY LocksStep
<1> QED BY <1>1, LocksInit, NoCycle, PTL DEF LockSpec

-----------------------------------------------------------------------------
(* 3. The conntrack view *)

\* Maps from some of D to R.
Maps(D, R) == UNION {[X -> R] : X \in SUBSET D}

\* Flows f, with their ids, and an index g: within the capacity, and the index
\* finds every flow that has an id.
Sound(f, g) ==
  /\ f \in Maps(Keys, Ids \cup {NoId}) /\ g \in Maps(Ids, Keys)
  /\ IsFiniteSet(DOMAIN f) /\ Cardinality(DOMAIN f) <= MaxTracked
  /\ \A k \in DOMAIN f : f[k] # NoId => f[k] \in DOMAIN g /\ g[f[k]] = k

Views ==
  {v \in [flows : Maps(Keys, Ids \cup {NoId}), flow_ids : Maps(Ids, Keys)] :
     Sound(v.flows, v.flow_ids)}

\* What a map is, and that it stays one.
LEMMA MapsAre ==
  ASSUME NEW D, NEW R, NEW f
  PROVE  f \in Maps(D, R) <=> /\ f = [x \in DOMAIN f |-> f[x]] /\ DOMAIN f \subseteq D
                              /\ \A x \in DOMAIN f : f[x] \in R
<1>1. ASSUME f \in Maps(D, R)
      PROVE  /\ f = [x \in DOMAIN f |-> f[x]] /\ DOMAIN f \subseteq D
             /\ \A x \in DOMAIN f : f[x] \in R
  <2>1. PICK X \in SUBSET D : f \in [X -> R]
    BY <1>1 DEF Maps
  <2> QED BY <2>1
<1>2. ASSUME /\ f = [x \in DOMAIN f |-> f[x]] /\ DOMAIN f \subseteq D
             /\ \A x \in DOMAIN f : f[x] \in R
      PROVE  f \in Maps(D, R)
  <2>1. f \in [DOMAIN f -> R]
    BY <1>2
  <2> QED BY <1>2, <2>1 DEF Maps
<1> QED BY <1>1, <1>2

LEMMA MapsWithout ==
  ASSUME NEW D, NEW R, NEW f \in Maps(D, R), NEW x
  PROVE  Without(f, x) \in Maps(D, R)
<1>1. DOMAIN f \subseteq D /\ \A y \in DOMAIN f : f[y] \in R
  BY MapsAre
<1>2. Without(f, x) \in [DOMAIN f \ {x} -> R]
  BY <1>1 DEF Without
<1> QED BY <1>1, <1>2 DEF Maps

LEMMA MapsWith ==
  ASSUME NEW D, NEW R, NEW f \in Maps(D, R), NEW x \in D, NEW v \in R
  PROVE  With(f, x, v) \in Maps(D, R)
<1>1. DOMAIN f \subseteq D /\ \A y \in DOMAIN f : f[y] \in R
  BY MapsAre
<1>2. With(f, x, v) \in [DOMAIN f \cup {x} -> R]
  BY <1>1 DEF With
<1> QED BY <1>1, <1>2 DEF Maps

LEMMA ViewsAre ==
  /\ \A v \in Views : Sound(v.flows, v.flow_ids) /\ v = [flows |-> v.flows, flow_ids |-> v.flow_ids]
  /\ \A f, g : Sound(f, g) => [flows |-> f, flow_ids |-> g] \in Views
<1>1. ASSUME NEW v \in Views
      PROVE  Sound(v.flows, v.flow_ids) /\ v = [flows |-> v.flows, flow_ids |-> v.flow_ids]
  BY DEF Views
<1>2. ASSUME NEW f, NEW g, Sound(f, g) PROVE [flows |-> f, flow_ids |-> g] \in Views
  <2>1. f \in Maps(Keys, Ids \cup {NoId}) /\ g \in Maps(Ids, Keys)
    BY <1>2 DEF Sound
  <2> QED BY <1>2, <2>1 DEF Views
<1> QED BY <1>1, <1>2

\* A flow goes; the index may forget the ids of flows that are not there.
LEMMA SoundWithout ==
  ASSUME MaxTracked \in Nat, NEW f, NEW g, Sound(f, g), NEW k, NEW h \in Maps(Ids, Keys),
         \A j \in DOMAIN f \ {k} : f[j] # NoId => f[j] \in DOMAIN h /\ h[f[j]] = g[f[j]]
  PROVE  Sound(Without(f, k), h)
<1> DEFINE e == Without(f, k)
<1>1. /\ f \in Maps(Keys, Ids \cup {NoId}) /\ IsFiniteSet(DOMAIN f)
      /\ Cardinality(DOMAIN f) <= MaxTracked
      /\ \A j \in DOMAIN f : f[j] # NoId => f[j] \in DOMAIN g /\ g[f[j]] = j
  BY DEF Sound
<1>2. /\ e \in Maps(Keys, Ids \cup {NoId}) /\ DOMAIN e = DOMAIN f \ {k}
      /\ \A j \in DOMAIN f \ {k} : e[j] = f[j]
  <2>1. e \in Maps(Keys, Ids \cup {NoId})
    BY <1>1, MapsWithout
  <2>2. DOMAIN e = DOMAIN f \ {k} /\ \A j \in DOMAIN f \ {k} : e[j] = f[j]
    BY DEF Without
  <2> QED BY <2>1, <2>2
<1> HIDE DEF e
<1>3. IsFiniteSet(DOMAIN e) /\ Cardinality(DOMAIN e) <= Cardinality(DOMAIN f)
      /\ Cardinality(DOMAIN e) \in Nat /\ Cardinality(DOMAIN f) \in Nat
  <2>1. DOMAIN e \in SUBSET DOMAIN f
    BY <1>2
  <2> QED BY <1>1, <2>1, FS_Subset, FS_CardinalityType
<1>4. \A j \in DOMAIN e : e[j] # NoId => e[j] \in DOMAIN h /\ h[e[j]] = j
  BY <1>1, <1>2
<1>5. Cardinality(DOMAIN e) <= MaxTracked
  BY <1>1, <1>3
<1> QED BY <1>1, <1>2, <1>3, <1>4, <1>5 DEF Sound, e

\* A flow comes, under an id the index has for it or under none.
LEMMA SoundWith ==
  ASSUME MaxTracked \in Nat, NEW f, NEW g, Sound(f, g), NEW k \in Keys, NEW id \in Ids \cup {NoId},
         id # NoId => /\ id \in DOMAIN g /\ g[id] = k,
         Cardinality(DOMAIN f) < MaxTracked \/ k \in DOMAIN f
  PROVE  Sound(With(f, k, id), g)
<1> DEFINE e == With(f, k, id)
<1>1. /\ f \in Maps(Keys, Ids \cup {NoId}) /\ IsFiniteSet(DOMAIN f) /\ g \in Maps(Ids, Keys)
      /\ Cardinality(DOMAIN f) <= MaxTracked
      /\ \A j \in DOMAIN f : f[j] # NoId => f[j] \in DOMAIN g /\ g[f[j]] = j
  BY DEF Sound
<1>2. /\ e \in Maps(Keys, Ids \cup {NoId}) /\ DOMAIN e = DOMAIN f \cup {k} /\ e[k] = id
      /\ \A j \in DOMAIN f \ {k} : e[j] = f[j]
  <2>1. e \in Maps(Keys, Ids \cup {NoId})
    BY <1>1, MapsWith
  <2>2. DOMAIN e = DOMAIN f \cup {k} /\ e[k] = id /\ \A j \in DOMAIN f \ {k} : e[j] = f[j]
    BY DEF With
  <2> QED BY <2>1, <2>2
<1> HIDE DEF e
<1>3. IsFiniteSet(DOMAIN e) /\ Cardinality(DOMAIN f) \in Nat
      /\ Cardinality(DOMAIN e) = IF k \in DOMAIN f THEN Cardinality(DOMAIN f)
                                 ELSE Cardinality(DOMAIN f) + 1
  BY <1>1, <1>2, FS_AddElement, FS_CardinalityType
<1>4. Cardinality(DOMAIN e) <= MaxTracked
  BY <1>1, <1>3
<1>5. \A j \in DOMAIN e : e[j] # NoId => e[j] \in DOMAIN g /\ g[e[j]] = j
  BY <1>1, <1>2
<1> QED BY <1>1, <1>2, <1>3, <1>4, <1>5 DEF Sound, e

LEMMA FlowParts ==
  ASSUME NEW x \in Flow
  PROVE  x.id \in Ids \cup {NoId} /\ x.key \in Keys /\ (x.id # NoId => x.id \in Ids)
BY DEF Flow

\* The index takes the flow's id, and the flow it stood for goes.
LEMMA IndexedSound ==
  ASSUME MaxTracked \in Nat, NEW v \in Views, NEW x \in Flow
  PROVE  LET w == Indexed(v, x) IN
         /\ Sound(w.flows, w.flow_ids) /\ w = [flows |-> w.flows, flow_ids |-> w.flow_ids]
         /\ x.id # NoId => x.id \in DOMAIN w.flow_ids /\ w.flow_ids[x.id] = x.key
<1> DEFINE f == v.flows
           g == v.flow_ids
           h == With(g, x.id, x.key)
<1>1. Sound(f, g) /\ v = [flows |-> f, flow_ids |-> g]
  BY ViewsAre
<1>2. x.id \in Ids \cup {NoId} /\ x.key \in Keys /\ (x.id # NoId => x.id \in Ids)
  BY FlowParts
<1>3. CASE x.id = NoId
  BY <1>1, <1>3 DEF Indexed
<1>4. CASE x.id # NoId
  <2>1. g \in Maps(Ids, Keys) /\ x.id \in Ids
    BY <1>1, <1>2, <1>4 DEF Sound
  <2>2. /\ h \in Maps(Ids, Keys) /\ DOMAIN h = DOMAIN g \cup {x.id} /\ h[x.id] = x.key
        /\ \A y \in DOMAIN g \ {x.id} : h[y] = g[y]
    <3> HIDE DEF f, g
    <3>1. h \in Maps(Ids, Keys)
      BY <1>2, <2>1, MapsWith
    <3>2. DOMAIN h = DOMAIN g \cup {x.id} /\ h[x.id] = x.key /\ \A y \in DOMAIN g \ {x.id} : h[y] = g[y]
      BY DEF With
    <3> QED BY <3>1, <3>2
  <2> HIDE DEF h
  <2>3. \A j \in DOMAIN f : f[j] # NoId => f[j] \in DOMAIN g /\ g[f[j]] = j
    BY <1>1 DEF Sound
  <2>4. CASE x.id \in DOMAIN g
    <3> DEFINE k == g[x.id]
    <3>1. Indexed(v, x) = [flows |-> Without(f, k), flow_ids |-> h]
      BY <1>4, <2>4 DEF Indexed, h
    <3>2. \A j \in DOMAIN f \ {k} : f[j] # NoId => f[j] \in DOMAIN h /\ h[f[j]] = g[f[j]]
      BY <2>2, <2>3
    <3> HIDE DEF f, g, k
    <3>3. Sound(Without(f, k), h)
      BY <1>1, <2>2, <3>2, SoundWithout
    <3> QED BY <2>2, <3>1, <3>3
  <2>5. CASE x.id \notin DOMAIN g
    <3>1. Indexed(v, x) = [flows |-> f, flow_ids |-> h]
      BY <1>4, <2>5 DEF Indexed, h
    <3>2. \A j \in DOMAIN f : f[j] # NoId => f[j] \in DOMAIN h /\ h[f[j]] = j
      BY <2>2, <2>3, <2>5
    <3> HIDE DEF f, g
    <3>3. Sound(f, h)
      BY <1>1, <2>2, <3>2 DEF Sound
    <3> QED BY <2>2, <3>1, <3>3
  <2> QED BY <2>4, <2>5
<1> QED BY <1>3, <1>4

\* insert_flow and remove_flow keep a view sound.
LEMMA InsertSound ==
  ASSUME MaxTracked \in Nat, NEW v \in Views, NEW x \in Flow
  PROVE  insert_flow(v, x) \in Views
<1> DEFINE w == Indexed(v, x)
           f == w.flows
           g == w.flow_ids
<1>1. /\ Sound(f, g) /\ w = [flows |-> f, flow_ids |-> g]
      /\ x.id # NoId => x.id \in DOMAIN g /\ g[x.id] = x.key
  BY IndexedSound
<1>2. x.id \in Ids \cup {NoId} /\ x.key \in Keys
  BY FlowParts
<1>4. CASE Cardinality(DOMAIN f) >= MaxTracked /\ x.key \notin DOMAIN f
  <2>1. insert_flow(v, x) = w
    BY <1>4 DEF insert_flow
  <2> HIDE DEF f, g, w
  <2> QED BY <1>1, <2>1, ViewsAre
<1>5. CASE ~(Cardinality(DOMAIN f) >= MaxTracked /\ x.key \notin DOMAIN f)
  <2>1. insert_flow(v, x) = [w EXCEPT !.flows = With(f, x.key, x.id)]
    BY <1>5 DEF insert_flow
  <2> HIDE DEF w
  <2>2. insert_flow(v, x) = [flows |-> With(f, x.key, x.id), flow_ids |-> g]
    BY <1>1, <2>1
  <2> HIDE DEF f, g
  <2>3. Cardinality(DOMAIN f) < MaxTracked \/ x.key \in DOMAIN f
    <3>1. Cardinality(DOMAIN f) \in Nat
      BY <1>1, FS_CardinalityType DEF Sound
    <3> QED BY <1>5, <3>1
  <2>4. Sound(With(f, x.key, x.id), g)
    BY <1>1, <1>2, <2>3, SoundWith, Zenon
  <2> QED BY <2>2, <2>4, ViewsAre
<1> QED BY <1>4, <1>5

LEMMA RemoveSound ==
  ASSUME MaxTracked \in Nat, NEW v \in Views, NEW x
  PROVE  remove_flow(v, x) \in Views
<1> DEFINE f == v.flows
           g == v.flow_ids
<1>1. Sound(f, g) /\ v = [flows |-> f, flow_ids |-> g]
  BY ViewsAre
<1>2. g \in Maps(Ids, Keys) /\ \A j \in DOMAIN f : f[j] # NoId => f[j] \in DOMAIN g /\ g[f[j]] = j
  BY <1>1 DEF Sound
<1>3. CASE x.id \in DOMAIN g
  <2> DEFINE k == g[x.id]
             h == Without(g, x.id)
  <2>1. remove_flow(v, x) = [flows |-> Without(f, k), flow_ids |-> h]
    BY <1>3 DEF remove_flow
  <2>2. /\ h \in Maps(Ids, Keys) /\ DOMAIN h = DOMAIN g \ {x.id}
        /\ \A y \in DOMAIN g \ {x.id} : h[y] = g[y]
    <3> HIDE DEF f, g
    <3>1. h \in Maps(Ids, Keys)
      BY <1>2, MapsWithout
    <3>2. DOMAIN h = DOMAIN g \ {x.id} /\ \A y \in DOMAIN g \ {x.id} : h[y] = g[y]
      BY DEF Without
    <3> QED BY <3>1, <3>2
  <2> HIDE DEF h
  <2>3. \A j \in DOMAIN f \ {k} : f[j] # NoId => f[j] \in DOMAIN h /\ h[f[j]] = g[f[j]]
    BY <1>2, <2>2
  <2> HIDE DEF f, g, k
  <2>4. Sound(Without(f, k), h)
    BY <1>1, <2>2, <2>3, SoundWithout
  <2> QED BY <2>1, <2>4, ViewsAre
<1>4. CASE x.id \notin DOMAIN g
  <2>1. remove_flow(v, x) = [v EXCEPT !.flows = Without(f, x.key)]
    BY <1>4 DEF remove_flow
  <2>2. remove_flow(v, x) = [flows |-> Without(f, x.key), flow_ids |-> g]
    BY <1>1, <2>1
  <2>3. \A j \in DOMAIN f \ {x.key} : f[j] # NoId => f[j] \in DOMAIN g /\ g[f[j]] = g[f[j]]
    BY <1>2
  <2> HIDE DEF f, g
  <2>4. Sound(Without(f, x.key), g)
    BY <1>1, <1>2, <2>3, SoundWithout
  <2> QED BY <2>2, <2>4, ViewsAre
<1> QED BY <1>3, <1>4

\* Induction over the subsets of a finite set: P holds for T when it holds
\* for T without any one of its elements.
Inherits(P, S) == \A T \in SUBSET S : (\A x \in T : T \ {x} \in P) => T \in P

LEMMA SubsetInduction ==
  ASSUME NEW S, IsFiniteSet(S), NEW P, Inherits(P, S)
  PROVE  \A T \in SUBSET S : T \in P
<1> SUFFICES ASSUME NEW U \in SUBSET S, U \notin P PROVE FALSE
  OBVIOUS
<1> DEFINE Bad == {T \in SUBSET S : T \notin P}
           Ns == {Cardinality(T) : T \in Bad}
<1>1. \A T \in SUBSET S : IsFiniteSet(T) /\ Cardinality(T) \in Nat
  BY FS_Subset, FS_CardinalityType
<1>2. Ns \in SUBSET Nat /\ Ns # {}
  BY <1>1
<1>3. PICK n \in Ns : \A m \in Ns : n <= m
  <2> HIDE DEF Ns
  <2> QED BY <1>2, LeastNumber
<1>4. PICK T \in Bad : n = Cardinality(T)
  OBVIOUS
<1>5. ASSUME NEW x \in T PROVE T \ {x} \in P
  <2>1. Cardinality(T \ {x}) = Cardinality(T) - 1
    BY <1>1, <1>4, FS_RemoveElement
  <2>2. CASE T \ {x} \in Bad
    <3>1. Cardinality(T \ {x}) \in Ns
      BY <2>2
    <3> HIDE DEF Ns, Bad
    <3> QED BY <3>1, <1>2, <1>3, <1>4, <2>1
  <2> QED BY <2>2, <1>4
<1> QED BY <1>4, <1>5 DEF Inherits

\* The last of some places.
LEMMA LastPlace ==
  ASSUME NEW n \in Nat, NEW T \in SUBSET (1..n), T # {}
  PROVE  Max(T) \in T
<1> DEFINE R == {n - x : x \in T}
<1>1. R \in SUBSET Nat /\ R # {}
  <2>1. \A x \in 1..n : n - x \in Nat
    OBVIOUS
  <2>2. \A x \in T : n - x \in Nat
    BY <2>1
  <2>3. PICK x \in T : TRUE
    OBVIOUS
  <2>4. n - x \in R
    BY <2>3
  <2> QED BY <2>2, <2>4
<1>2. PICK r \in R : \A q \in R : r <= q
  <2> HIDE DEF R
  <2> QED BY <1>1, LeastNumber
<1>3. PICK x \in T : r = n - x
  OBVIOUS
<1>4. ASSUME NEW y \in T PROVE x >= y
  <2>1. n - y \in R
    OBVIOUS
  <2>2. r <= n - y
    BY <1>2, <2>1
  <2> QED BY <1>3, <2>2
<1> QED BY <1>4 DEF Max

Empty == [flows |-> NoFlows, flow_ids |-> NoFlows]

\* g[T] is the view after the flows at the places T of s, for every T in S.
ViewTable(g, s, S) ==
  /\ g \in [SUBSET S -> Views]
  /\ \A T \in SUBSET S :
       g[T] = IF T = {} THEN Empty ELSE insert_flow(g[T \ {Max(T)}], s[Max(T)])

\* The cleared view.
LEMMA EmptySound ==
  ASSUME MaxTracked \in Nat
  PROVE  Empty \in Views
<1>1. DOMAIN NoFlows = {}
  BY DEF NoFlows
<1>2. \A D, R : NoFlows \in Maps(D, R)
  <2> SUFFICES ASSUME NEW D, NEW R PROVE NoFlows \in Maps(D, R)
    OBVIOUS
  <2>1. NoFlows \in [{} -> R] /\ {} \in SUBSET D
    BY DEF NoFlows
  <2> QED BY <2>1 DEF Maps
<1>3. Sound(NoFlows, NoFlows)
  BY <1>1, <1>2, FS_EmptySet DEF Sound
<1> QED BY <1>3, ViewsAre DEF Empty

\* S is a set of places of a sequence.
SomePlaces(S) == \E k \in Nat : S \in SUBSET (1..k)

\* Two tables agree where both are defined.
LEMMA ViewTablesAgree ==
  ASSUME NEW g, NEW s, NEW S, NEW h, NEW R, ViewTable(g, s, S), ViewTable(h, s, R), SomePlaces(S)
  PROVE  \A T \in SUBSET S : T \in SUBSET R => g[T] = h[T]
<1>0. PICK n \in Nat : S \in SUBSET (1..n)
  BY DEF SomePlaces
<1> DEFINE P == {T \in SUBSET S : T \in SUBSET R => g[T] = h[T]}
<1>1. ASSUME NEW T \in SUBSET S, \A x \in T : T \ {x} \in P PROVE T \in P
  <2> SUFFICES ASSUME T \in SUBSET R PROVE g[T] = h[T]
    OBVIOUS
  <2>1. CASE T = {}
    BY <2>1 DEF ViewTable
  <2>2. CASE T # {}
    <3>1. Max(T) \in T
      <4>1. T \in SUBSET (1..n)
        BY <1>0
      <4> QED BY <2>2, <4>1, LastPlace
    <3>2. T \ {Max(T)} \in SUBSET R /\ g[T \ {Max(T)}] = h[T \ {Max(T)}]
      BY <1>1, <3>1
    <3> QED BY <2>2, <3>2 DEF ViewTable
  <2> QED BY <2>1, <2>2
<1> HIDE DEF P
<1>2. Inherits(P, S)
  BY <1>1 DEF Inherits
<1>3. IsFiniteSet(S)
  <2>1. IsFiniteSet(1..n)
    BY FS_Interval
  <2> QED BY <1>0, <2>1, FS_Subset
<1>4. \A T \in SUBSET S : T \in P
  BY <1>2, <1>3, SubsetInduction
<1> QED BY <1>4 DEF P

\* The table exists: that of a set is put together from those of its subsets.
LEMMA ViewTableExists ==
  ASSUME MaxTracked \in Nat, NEW n \in Nat, NEW s, \A i \in 1..n : s[i] \in Flow
  PROVE  \E g : ViewTable(g, s, 1..n)
<1> DEFINE S == 1..n
           P == {T \in SUBSET S : \E g : ViewTable(g, s, T)}
<1>1. ASSUME NEW T \in SUBSET S, \A x \in T : T \ {x} \in P PROVE T \in P
  <2> DEFINE Of(U) == CHOOSE g : ViewTable(g, s, U)
             Other(U) == CHOOSE x : x \in T \ U
  <2>1. ASSUME NEW x \in T PROVE ViewTable(Of(T \ {x}), s, T \ {x})
    BY <1>1, <2>1
  <2> HIDE DEF Of
  <2> DEFINE below(U) == Of(T \ {Other(U)})[U]
             m == Max(T)
             g == [U \in SUBSET T |-> IF U # T THEN below(U)
                     ELSE IF T = {} THEN Empty ELSE insert_flow(below(T \ {m}), s[m])]
  <2>2. ASSUME NEW U \in SUBSET T, U # T
        PROVE  Other(U) \in T /\ U \in SUBSET (T \ {Other(U)})
    <3>1. \E x : x \in T \ U
      BY <2>2
    <3>2. Other(U) \in T \ U
      BY <3>1
    <3> QED BY <3>2
  <2> HIDE DEF Other
  <2>3. ASSUME NEW U \in SUBSET T, U # T PROVE below(U) \in Views
    <3> DEFINE x == Other(U)
    <3>1. x \in T /\ U \in SUBSET (T \ {x})
      BY <2>2, <2>3
    <3> HIDE DEF x
    <3>2. Of(T \ {x}) \in [SUBSET (T \ {x}) -> Views]
      BY <2>1, <3>1 DEF ViewTable
    <3>3. Of(T \ {x})[U] \in Views
      BY <3>1, <3>2
    <3> QED BY <3>3 DEF x
  <2>4. ASSUME NEW U \in SUBSET T, U # T, U # {}
        PROVE  below(U) = insert_flow(below(U \ {Max(U)}), s[Max(U)])
    <3> DEFINE c == Max(U)
               V == U \ {c}
               x == Other(U)
               y == Other(V)
    <3>1. V \in SUBSET T /\ V # T /\ V \in SUBSET U
      BY <2>4
    <3>2. x \in T /\ U \in SUBSET (T \ {x})
      BY <2>2, <2>4
    <3>3. y \in T /\ V \in SUBSET (T \ {y})
      BY <2>2, <3>1
    <3> HIDE DEF x, y
    <3>4. Of(T \ {x})[U] = insert_flow(Of(T \ {x})[V], s[c])
      BY <2>1, <3>2, <2>4 DEF ViewTable
    <3>5. T \ {x} \in SUBSET (1..n)
      OBVIOUS
    <3>6. V \in SUBSET (T \ {x})
      BY <3>1, <3>2
    <3> DEFINE A == T \ {x}
               B == T \ {y}
               p == Of(A)
               q == Of(B)
    <3>7. ViewTable(p, s, A) /\ ViewTable(q, s, B)
      BY <2>1, <3>2, <3>3
    <3>8. A \in SUBSET (1..n) /\ V \in SUBSET A /\ V \in SUBSET B
      BY <3>3, <3>5, <3>6
    <3>9. p[V] = q[V]
      <4> HIDE DEF A, B, p, q, V
      <4>1. SomePlaces(A)
        BY <3>8 DEF SomePlaces
      <4>2. \A W \in SUBSET A : W \in SUBSET B => p[W] = q[W]
        BY ONLY <3>7, <4>1, ViewTablesAgree
      <4> QED BY <3>8, <4>2
    <3> QED BY <3>4, <3>9 DEF x, y
  <2>5. ASSUME NEW U \in SUBSET T, U = {}, T # {} PROVE below(U) = Empty
    BY <2>1, <2>2, <2>5 DEF ViewTable
  <2> HIDE DEF below
  <2>6. ASSUME T # {}
        PROVE  m \in T /\ s[m] \in Flow /\ T \ {m} \in SUBSET T /\ T \ {m} # T
    BY <2>6, LastPlace
  <2>7. ASSUME NEW U \in SUBSET T PROVE g[U] \in Views
    <3>1. CASE U # T
      BY <2>3, <3>1
    <3>2. CASE U = T /\ T = {}
      BY <3>2, EmptySound
    <3>3. CASE U = T /\ T # {}
      <4> HIDE DEF m
      <4>1. g[U] = insert_flow(below(T \ {m}), s[m])
        BY <3>3
      <4> QED BY <2>3, <2>6, <3>3, <4>1, InsertSound
    <3> QED BY <3>1, <3>2, <3>3
  <2>8. ASSUME NEW U \in SUBSET T
        PROVE  g[U] = IF U = {} THEN Empty ELSE insert_flow(g[U \ {Max(U)}], s[Max(U)])
    <3>1. CASE U # T /\ U = {}
      BY <2>5, <3>1
    <3>2. CASE U # T /\ U # {}
      <4>1. U \ {Max(U)} \in SUBSET T /\ U \ {Max(U)} # T
        BY <3>2
      <4> QED BY <2>4, <3>2, <4>1
    <3>3. CASE U = T /\ T = {}
      BY <3>3
    <3>4. CASE U = T /\ T # {}
      BY <2>6, <3>4
    <3> QED BY <3>1, <3>2, <3>3, <3>4
  <2> HIDE DEF g
  <2>9. g \in [SUBSET T -> Views]
    <3>1. g = [U \in SUBSET T |-> g[U]]
      BY DEF g
    <3> QED BY <3>1, <2>7
  <2>10. ViewTable(g, s, T)
    BY <2>8, <2>9 DEF ViewTable
  <2> QED BY <2>10
<1> HIDE DEF P
<1>2. Inherits(P, S)
  BY <1>1 DEF Inherits
<1>3. IsFiniteSet(S)
  BY FS_Interval
<1>4. S \in P
  BY <1>2, <1>3, SubsetInduction
<1> QED BY <1>4 DEF P

\* A dump is a sound view.
LEMMA DumpSound ==
  ASSUME MaxTracked \in Nat, NEW s \in Seq(Flow)
  PROVE  DumpedView(s) \in Views
<1>1. PICK n \in Nat : n = Len(s) /\ DOMAIN s = 1..n /\ \A i \in 1..n : s[i] \in Flow
  OBVIOUS
<1> DEFINE Is(h) == h = [T \in SUBSET (DOMAIN s) |->
                           IF T = {} THEN Empty
                           ELSE insert_flow(h[T \ {Max(T)}], s[Max(T)])]
           fold == CHOOSE h : Is(h)
<1>2. DumpedView(s) = fold[DOMAIN s]
  BY DEF DumpedView, FoldLeft, MapThenFoldSet, Empty
<1>3. PICK g : ViewTable(g, s, 1..n)
  BY <1>1, ViewTableExists
<1>4. Is(g)
  BY <1>1, <1>3 DEF ViewTable
<1>5. Is(fold)
  <2> HIDE DEF Is
  <2> QED BY <1>4
<1> HIDE DEF fold
<1> DEFINE P == {T \in SUBSET (1..n) : fold[T] \in Views}
<1>6. ASSUME NEW T \in SUBSET (1..n), \A x \in T : T \ {x} \in P PROVE T \in P
  <2>1. CASE T = {}
    BY <1>1, <1>5, <2>1, EmptySound
  <2>2. CASE T # {}
    <3>1. Max(T) \in T
      BY <2>2, LastPlace
    <3>2. fold[T \ {Max(T)}] \in Views /\ s[Max(T)] \in Flow
      BY <1>1, <1>6, <3>1
    <3>3. fold[T] = insert_flow(fold[T \ {Max(T)}], s[Max(T)])
      BY <1>1, <1>5, <2>2
    <3> QED BY <3>2, <3>3, InsertSound
  <2> QED BY <2>1, <2>2
<1> HIDE DEF P
<1>7. Inherits(P, 1..n)
  BY <1>6 DEF Inherits
<1>8. IsFiniteSet(1..n)
  BY FS_Interval
<1>9. (1..n) \in P
  BY <1>7, <1>8, SubsetInduction
<1> QED BY <1>1, <1>2, <1>9 DEF P

-----------------------------------------------------------------------------
(* The state *)

Messages == [kind : {"new", "delete"}, flow : Flow]
OneFlowPerKey(K) == \A f, g \in K : f.key = g.key => f = g

ConntrackOK ==
  /\ kernel \subseteq Flow /\ OneFlowPerKey(kernel)
  /\ messages \in Seq(Messages)
  /\ view \in Views
  /\ dump \in [busy : BOOLEAN, unvisited : SUBSET Keys, flows : Seq(Flow)]

LEMMA ConntrackStarts ==
  ASSUME MaxTracked \in Nat, ConntrackInit
  PROVE  ConntrackOK
<1>1. view \in Views
  BY EmptySound DEF ConntrackInit, Empty
<1>2. messages \in Seq(Messages) /\ dump = NoDump /\ kernel = {}
  BY DEF ConntrackInit
<1>3. NoDump \in [busy : BOOLEAN, unvisited : SUBSET Keys, flows : Seq(Flow)]
  BY DEF NoDump
<1> QED BY <1>1, <1>2, <1>3 DEF ConntrackOK, OneFlowPerKey

LEMMA EmitOK ==
  ASSUME messages \in Seq(Messages), NEW f \in Flow, NEW k \in {"new", "delete"},
         Emit(k, f)
  PROVE  messages' \in Seq(Messages)
<1>1. [kind |-> k, flow |-> f] \in Messages
  BY DEF Messages
<1> QED BY <1>1 DEF Emit

LEMMA KernelOK ==
  ASSUME ConntrackOK, Kernel
  PROVE  ConntrackOK'
<1>1. PICK f \in Flow : KernelNew(f) \/ KernelUpdate(f) \/ KernelDestroy(f)
  BY DEF Kernel
<1>2. UNCHANGED <<view, dump>>
  BY <1>1 DEF KernelNew, KernelUpdate, KernelDestroy, Changed
<1>3. messages' \in Seq(Messages)
  BY <1>1, EmitOK DEF KernelNew, KernelUpdate, KernelDestroy, ConntrackOK
<1>4. kernel' \subseteq Flow
  BY <1>1 DEF KernelNew, KernelUpdate, KernelDestroy, ConntrackOK
<1>5. OneFlowPerKey(kernel')
  <2>1. CASE KernelNew(f)
    BY <2>1 DEF KernelNew, ConntrackOK, OneFlowPerKey
  <2>2. CASE KernelUpdate(f) \/ KernelDestroy(f)
    BY <2>2 DEF KernelUpdate, KernelDestroy, ConntrackOK, OneFlowPerKey
  <2> QED BY <1>1, <2>1, <2>2
<1> QED BY <1>2, <1>3, <1>4, <1>5 DEF ConntrackOK

LEMMA EventThreadOK ==
  ASSUME MaxTracked \in Nat, ConntrackOK, EventThread
  PROVE  ConntrackOK'
<1>1. CASE RecvEvent
  <2>1. /\ UNCHANGED <<kernel, dump>>
        /\ messages # <<>> /\ messages' = Tail(messages)
        /\ view' = IF Head(messages).kind = "delete" THEN remove_flow(view, Head(messages).flow)
                   ELSE insert_flow(view, Head(messages).flow)
    BY <1>1 DEF RecvEvent, kernelVars
  <2>2. messages' \in Seq(Messages) /\ Head(messages) \in Messages
    BY <2>1 DEF ConntrackOK
  <2>3. Head(messages).flow \in Flow
    BY <2>2 DEF Messages
  <2>4. view \in Views
    BY DEF ConntrackOK
  <2>5. view' \in Views
    BY <2>1, <2>3, <2>4, InsertSound, RemoveSound
  <2> QED BY <2>1, <2>2, <2>5 DEF ConntrackOK
<1>2. CASE OpenSocket
  BY <1>2 DEF OpenSocket, kernelVars, ConntrackOK
<1>3. CASE RecvOverflow \/ RecvFails
  <2>1. <<>> \in Seq(Messages)
    OBVIOUS
  <2> QED BY <1>3, <2>1 DEF RecvOverflow, RecvFails, CloseSocket, kernelVars, ConntrackOK
<1> QED BY <1>1, <1>2, <1>3 DEF EventThread

\* What the dump reads for a key is a flow or nothing.
LEMMA FoundOK ==
  ASSUME kernel \subseteq Flow, OneFlowPerKey(kernel), NEW k
  PROVE  SetToSeq({f \in kernel : f.key = k}) \in Seq(Flow)
<1> DEFINE found == {f \in kernel : f.key = k}
<1>1. found \subseteq Flow
  OBVIOUS
<1>2. found = {} \/ \E f \in Flow : found = {f}
  BY DEF OneFlowPerKey
<1> HIDE DEF found
<1>3. \E n \in Nat : Cardinality(found) = n /\ \E e \in [1..n -> found] : IsInjective(e)
  <2>1. CASE found = {}
    <3>1. Cardinality(found) = 0
      BY <2>1, FS_EmptySet
    <3> DEFINE e == [i \in 1..0 |-> i]
    <3>2. e \in [1..0 -> found] /\ IsInjective(e)
      BY DEF IsInjective
    <3> HIDE DEF e
    <3>3. 0 \in Nat
      OBVIOUS
    <3> QED BY ONLY <3>1, <3>2, <3>3
  <2>2. CASE \E f \in Flow : found = {f}
    <3>1. PICK f \in Flow : found = {f}
      BY <2>2
    <3>2. Cardinality(found) = 1
      BY <3>1, FS_Singleton
    <3>3. <<f>> \in [1..1 -> found] /\ IsInjective(<<f>>)
      BY <3>1 DEF IsInjective
    <3> QED BY <3>2, <3>3
  <2> QED BY <1>2, <2>1, <2>2
<1>4. PICK n \in Nat : Cardinality(found) = n /\ \E e \in [1..n -> found] : IsInjective(e)
  BY <1>3
<1>5. SetToSeq(found) \in [1..n -> found]
  BY <1>4 DEF SetToSeq
<1>6. SetToSeq(found) \in [1..n -> Flow]
  BY <1>1, <1>5
<1>7. SetToSeq(found) \in Seq(Flow)
  BY <1>6
<1> QED BY <1>7 DEF found

LEMMA DumpTaskOK ==
  ASSUME MaxTracked \in Nat, ConntrackOK, DumpTask
  PROVE  ConntrackOK'
<1> DEFINE Dump == [busy : BOOLEAN, unvisited : SUBSET Keys, flows : Seq(Flow)]
<1>0. NoDump \in Dump
  BY DEF NoDump
<1>1. CASE DumpStart
  BY <1>1 DEF DumpStart, kernelVars, socketVars, ConntrackOK
<1>2. CASE \E k \in Keys : DumpVisit(k)
  <2>1. PICK k \in Keys : DumpVisit(k)
    BY <1>2
  <2> DEFINE more == SetToSeq({f \in kernel : f.key = k})
  <2>2. more \in Seq(Flow)
    BY FoundOK DEF ConntrackOK
  <2>3. dump' = [dump EXCEPT !.unvisited = @ \ {k},
                   !.flows = IF Len(@) < MaxTracked THEN @ \o more ELSE @]
    BY <2>1 DEF DumpVisit
  <2> HIDE DEF more
  <2>4. dump' \in Dump
    <3>1. /\ dump.busy \in BOOLEAN /\ dump.unvisited \in SUBSET Keys /\ dump.flows \in Seq(Flow)
          /\ dump = [busy |-> dump.busy, unvisited |-> dump.unvisited, flows |-> dump.flows]
      BY DEF ConntrackOK
    <3> DEFINE l == IF Len(dump.flows) < MaxTracked THEN dump.flows \o more ELSE dump.flows
    <3>2. l \in Seq(Flow)
      BY <2>2, <3>1
    <3>3. dump' = [busy |-> dump.busy, unvisited |-> dump.unvisited \ {k}, flows |-> l]
      BY <2>3, <3>1
    <3> HIDE DEF l
    <3> QED BY <3>1, <3>2, <3>3
  <2> QED BY <2>1, <2>4 DEF DumpVisit, kernelVars, socketVars, ConntrackOK
<1>3. CASE DumpFails
  BY <1>0, <1>3 DEF DumpFails, kernelVars, socketVars, ConntrackOK
<1>4. CASE replace_flows
  <2>1. dump.flows \in Seq(Flow)
    BY DEF ConntrackOK
  <2>2. view' \in Views
    BY <1>4, <2>1, DumpSound DEF replace_flows
  <2> QED BY <1>0, <1>4, <2>2 DEF replace_flows, kernelVars, socketVars, ConntrackOK
<1> QED BY <1>1, <1>2, <1>3, <1>4 DEF DumpTask

\* Every step keeps the view sound.
LEMMA ConntrackStep ==
  ASSUME MaxTracked \in Nat, ConntrackOK, [ConntrackNext]_conntrackVars
  PROVE  ConntrackOK'
<1>1. CASE RegistryChange \/ StatsTask \/ UNCHANGED conntrackVars
  BY <1>1 DEF RegistryChange, StatsTask, ReadIdentities, RefreshStats, conntrackVars,
              kernelVars, socketVars, ConntrackOK
<1> QED BY <1>1, KernelOK, EventThreadOK, DumpTaskOK DEF ConntrackNext

\* A sound view is what the property asks for.
LEMMA ViewsIndexed ==
  ASSUME view \in Views
  PROVE  IndexComplete
BY ViewsAre DEF Sound, IndexComplete

(***************************************************************************)
(* For every capacity, set of connections and set of ids: the view stays   *)
(* within MAX_TRACKED_FLOWS and the index finds every flow that has an id, *)
(* after any mixture of insert_flow, remove_flow, reused ids, lost events  *)
(* and replace_flows.                                                      *)
(***************************************************************************)
THEOREM ViewStaysIndexed == ConntrackSpec => []IndexComplete
<1>1. MaxTracked \in Nat
  BY TrackingAssumption
<1>2. ConntrackInit => ConntrackOK
  BY <1>1, ConntrackStarts
<1>3. ConntrackOK /\ [ConntrackNext]_conntrackVars => ConntrackOK'
  BY <1>1, ConntrackStep
<1>4. ConntrackOK => IndexComplete
  BY ViewsIndexed DEF ConntrackOK
<1> QED BY <1>2, <1>3, <1>4, PTL DEF ConntrackSpec
=============================================================================
