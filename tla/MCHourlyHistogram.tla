------------------------- MODULE MCHourlyHistogram -------------------------
(* Instances of HourlyHistogram for TLC, with the queries over its states. *)
EXTENDS HistogramQueries
=============================================================================
