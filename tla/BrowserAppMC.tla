---------------------------- MODULE BrowserAppMC ----------------------------
(***************************************************************************)
(* BrowserApp for TLC: the accounts are interchangeable.                   *)
(***************************************************************************)
EXTENDS BrowserApp, TLC

Symmetry == Permutations(Accounts)
=============================================================================
