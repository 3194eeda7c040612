------------------------------ MODULE MCLedger ------------------------------
(***************************************************************************)
(* The TLC instance of the ledger and its totals.                          *)
(***************************************************************************)
EXTENDS LedgerTotals, TLC

Symmetry == Permutations(Requests) \cup Permutations(Symbols)
=============================================================================
