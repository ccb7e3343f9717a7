------------------------------ MODULE StoreLog ------------------------------
(* The mapping under which the services implement ChannelLog.              *)
EXTENDS ChannelStore

TypeAt(n) == (CHOOSE e \in log : e.seq = n).type

Promise == INSTANCE ChannelLog WITH
  status <- db[Channel].status,
  log <- [n \in 1 .. db[Channel].seq |-> TypeAt(n)]

(* Each committed request appends one event in one step, and the channel's *)
(* status decides what may still be appended, though the code runs every   *)
(* request as several statements that interleave with others.              *)
ImplementsChannelLog == Promise!Spec
==============================================================================
