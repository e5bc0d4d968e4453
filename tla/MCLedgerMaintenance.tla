------------------------ MODULE MCLedgerMaintenance ------------------------
(***************************************************************************)
(* Small instances of LedgerMaintenance.                                   *)
(***************************************************************************)
EXTENDS LedgerMaintenance, TLC

Symmetry == Permutations(Payments) \cup Permutations(Events)
=============================================================================
