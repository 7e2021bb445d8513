----------------------------- MODULE MCAccounts -----------------------------
(***************************************************************************)
(* Accounts with symmetric requests and added accounts.                    *)
(***************************************************************************)
EXTENDS Accounts, TLC

Symmetry == Permutations(Request) \cup Permutations(Account \ {Root})
=============================================================================
