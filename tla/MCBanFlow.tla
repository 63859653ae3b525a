------------------------------ MODULE MCBanFlow ------------------------------
(* Values of the constants of BanFlow for TLC. *)
EXTENDS BanFlow, TLC

CONSTANTS root, u

TwoUsers == {root, u}
OnlyRoot == {root}

(* Clicks are interchangeable. *)
ClickSymmetry == Permutations(Clicks)
=============================================================================
