--------------------------- MODULE MCStatsOutcome ---------------------------
(***************************************************************************)
(* Small instances of StatsOutcome for TLC.                                *)
(***************************************************************************)
EXTENDS StatsOutcome, TLC

(* Sessions, preparations and file names are interchangeable. *)
Symmetry == Permutations(Sessions) \cup Permutations(Preparations) \cup Permutations(Files)

=============================================================================
