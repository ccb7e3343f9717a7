----------------------------- MODULE MCEphemeral -----------------------------
(* An instance of Ephemeral for TLC: one user with two connections, one of *)
(* which types twice and the other once.                                   *)
EXTENDS Ephemeral, TLC

CONSTANTS u1, c1, c2

TwoDevices == [c \in Conn |-> u1]
Starts == [c \in Conn |-> IF c = c1 THEN 2 ELSE 1]
=============================================================================
