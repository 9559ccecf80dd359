----------------------------- MODULE MCAdminTx ------------------------------
(***************************************************************************)
(* Instances of AdminTx for TLC: sessions, rows and groups are             *)
(* interchangeable.                                                        *)
(***************************************************************************)
EXTENDS AdminTx, TLC

Symmetry == Permutations(Sess) \cup Permutations(Slots) \cup Permutations(Groups)
=============================================================================
