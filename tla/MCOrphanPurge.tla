---------------------------- MODULE MCOrphanPurge ----------------------------
(***************************************************************************)
(* Model checking of OrphanPurge on small instances, with the claim of its *)
(* documentation that the code does not keep.                              *)
(***************************************************************************)
EXTENDS OrphanPurge

(* "the old, complete version stays live until the new, complete version is    *)
(* live" (lines 15-16), with the sweep running as its docstring intends.       *)
ServedDespiteSweep == [][StaysServed]_allVars
=============================================================================
