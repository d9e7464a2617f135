---------------------------- MODULE MCAccounts ----------------------------
(* Small instances of Accounts. *)
EXTENDS Accounts, TLC

Symmetry == Permutations(Serials) \cup Permutations(Uids)
===========================================================================
