--------------------------- MODULE MCWalletEngine ---------------------------
(* Instances of WalletEngine for TLC: two transfers, a wallet with at most one *)
(* stored block, balances of 0, 1 and 2 and a balance that wraps at 8.         *)
EXTENDS WalletEngine, TLC

CONSTANTS b1

MCStored == <<b1>>
Symmetry == Permutations(Xfers)
=============================================================================
