---------------------------- MODULE MCStatsStore ----------------------------
(* Both counters of the service, or one of them. *)
EXTENDS StatsStore

CONSTANTS files_processed, thanks
=============================================================================
