---------------------------- MODULE MCIngestTask ----------------------------
(***************************************************************************)
(* Model checking of IngestTask: uploads and processes are interchangeable.*)
(***************************************************************************)
EXTENDS IngestTask, TLC

Symmetry == Permutations(Uploads) \cup Permutations(Workers)
=============================================================================
