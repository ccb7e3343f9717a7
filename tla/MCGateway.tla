------------------------------ MODULE MCGateway ------------------------------
(* Instances of Gateway for TLC.                                           *)
EXTENDS GatewayFeed, TLC

CONSTANTS c1, c2, w1, w2

WriterSymmetry == Permutations(Writer)
==============================================================================
