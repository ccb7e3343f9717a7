------------------------------ MODULE MCStream ------------------------------
(* Instances of StreamClient for TLC.                                      *)
EXTENDS StreamClient, TLC

UserSymmetry == Permutations(Token)
=============================================================================
