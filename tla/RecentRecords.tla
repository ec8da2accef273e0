--------------------------- MODULE RecentRecords ---------------------------
(***************************************************************************)
(* What a ring file promises its users: it keeps the newest records that   *)
(* were committed.  A record is dropped only when the ring is full and it  *)
(* is the oldest one, or when the configured capacity shrinks below the    *)
(* number of newer records.                                                *)
(***************************************************************************)
EXTENDS Integers, FiniteSets

CONSTANTS Capacities, Records

VARIABLES
  kept,      \* committed records that a reader finds, numbered by age
  capacity

vars == <<kept, capacity>>

\* The n newest members of S.
Newest(S, n) == {r \in S : Cardinality({q \in S : q > r}) < n}

Init == kept = {} /\ capacity \in Capacities

Commit(r) ==
  /\ Cardinality(kept) < capacity
  /\ \A q \in kept : q < r
  /\ kept' = kept \cup {r}
  /\ UNCHANGED capacity

DropOldest ==
  /\ Cardinality(kept) = capacity
  /\ kept' = Newest(kept, capacity - 1)
  /\ UNCHANGED capacity

Resize(c) ==
  /\ capacity' = c
  /\ kept' = Newest(kept, c)

Next ==
  \/ \E r \in Records : Commit(r)
  \/ DropOldest
  \/ \E c \in Capacities : Resize(c)

Spec == Init /\ [][Next]_vars
=============================================================================
