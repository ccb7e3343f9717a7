----------------------------- MODULE GatewayWire -----------------------------
(* What a client sees on the socket of one connection, where the frames do *)
(* not say which subscription they belong to.                              *)
EXTENDS GatewayFeed

VARIABLE
  began        \* history: [Conn -> frames on the socket at its last subscribe]

WireInit == Init /\ began = [c \in Conn |-> 0]

WireNext ==
  /\ Next /\ AttachFirst /\ GentlePrune /\ InTurn
  /\ began' = [c \in Conn |-> IF asked'[c] = asked[c] THEN began[c] ELSE Len(out[c])]

WireSpec == WireInit /\ [][WireNext]_<<vars, began>>

(* ResumeBuffer.scala:9-11 and WsRoutes.scala:33-36: after a subscribe     *)
(* frame every event reaches the client once and in seq order.             *)
OnceAfterSubscribe ==
  \A c \in Conn : \A i, j \in (began[c] + 1) .. Len(out[c]) :
    i < j => out[c][i].seq < out[c][j].seq
==============================================================================
