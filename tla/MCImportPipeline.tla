-------------------------- MODULE MCImportPipeline --------------------------
(***************************************************************************)
(* Small instances of ImportPipeline for TLC.                              *)
(***************************************************************************)
EXTENDS ImportPipeline, TLC

(* Sessions, file names and contents are interchangeable. *)
Symmetry == Permutations(Sessions) \cup Permutations(Files) \cup Permutations(Bytes)

=============================================================================
