----------------------------- MODULE MCAccounts -----------------------------
(* Instances of Accounts for model checking. *)
EXTENDS Accounts, TLC

Symmetry == Permutations(Peer) \cup Permutations(Attr)
=============================================================================
