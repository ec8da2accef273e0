----------------------------- MODULE DnsQueries -----------------------------
(***************************************************************************)
(* The pages GET /api/dns/queries serves from the log (dns.rs, queries):   *)
(* the records that pass the filter, newest first, cut into pages.  A      *)
(* client reads page after page while the log goes on changing.            *)
(*                                                                         *)
(* The filters compare strings of the record that never change once it is  *)
(* logged (domain, device, server, type, interface, protocol); here one of *)
(* them picks the records of a key.  The filter on the result, which a     *)
(* response changes, is left out.                                          *)
(***************************************************************************)
EXTENDS DnsMonitor, SequencesExt

CONSTANT MaxPageSize   \* the clamp of page_size, 100 in the code

ASSUME PageSizeAssumption == MaxPageSize \in Nat \ {0}

NoFilter == "any"

Passes(filter, id) == filter \in {NoFilter, records[id].key}

\* Mutant: the pages start with the oldest record.
OldestFirst(filter) == SelectSeq(order, LAMBDA id : Passes(filter, id))

\* The records that pass, newest first.
Filtered(filter) ==
  LET found[n \in 0..Len(order)] ==
        IF n = 0 THEN <<>>
        ELSE IF Passes(filter, order[n]) THEN <<order[n]>> \o found[n - 1]
        ELSE found[n - 1]
  IN found[Len(order)]

\* A page that is asked for as 0 is the first one, a size is clamped.
queries(filter, page, page_size) ==
  LET size == IF page_size < 1 THEN 1
              ELSE IF page_size > MaxPageSize THEN MaxPageSize ELSE page_size
      start == (IF page < 1 THEN 0 ELSE page - 1) * size
      found == Filtered(filter)
  IN [queries |-> SubSeq(found, start + 1,
                         IF start + size < Len(found) THEN start + size ELSE Len(found)),
      total_pages |-> (Len(found) + size - 1) \div size]

\* All the pages that an answer announces, as sets of records.
Pages(filter, size) ==
  [p \in 1..queries(filter, 1, size).total_pages |->
     ToSet(queries(filter, p, size).queries)]

Passing(filter) == {id \in DOMAIN records : Passes(filter, id)}

OnOnePage(pages, ids) ==
  \A id \in ids : Cardinality({p \in DOMAIN pages : id \in pages[p]}) = 1

MovedBack(before, after) ==
  \A p \in DOMAIN before, q \in DOMAIN after : before[p] \cap after[q] # {} => p <= q

(* A client that reads page after page misses no record that stays logged: *)
(* every record that passes the filter is on exactly one of the pages the  *)
(* answer announces, and what is logged and evicted between two requests   *)
(* moves it to a later page, if at all.                                    *)
PagesMoveBack ==
  [][order' # order /\ restarts' = restarts =>
       \A filter \in {NoFilter, records'[Last(order')].key} :
         LET before == Pages(filter, MaxPageSize)
             after == Pages(filter, MaxPageSize)'
         IN OnOnePage(before, Passing(filter)) /\ MovedBack(before, after)]_vars
=============================================================================
