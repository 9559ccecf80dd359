---------------------------- MODULE MCRiverQuene ----------------------------
(***************************************************************************)
(* Instances of RiverQuene for TLC.  The constants get their values in the *)
(* .cfg files; slots, groups and names are interchangeable.                *)
(***************************************************************************)
EXTENDS RiverQueneStore, TLC

SlotSymmetry == Permutations(Slots)
=============================================================================
