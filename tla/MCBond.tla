------------------------------- MODULE MCBond -------------------------------
(***************************************************************************)
(* Instances of BondEconomics for TLC.  Cases and receipts are             *)
(* interchangeable: no definition tells one from another.                  *)
(***************************************************************************)
EXTENDS BondEconomics, TLC

Interchangeable == Permutations(Cases) \cup Permutations(Receipts)
=============================================================================
