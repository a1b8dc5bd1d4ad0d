------------------------------ MODULE MCShell -------------------------------
(* The instance of Shell for TLC: its cards are alike.                     *)
EXTENDS Shell, TLC

Alike == Permutations(Cards)
=============================================================================
