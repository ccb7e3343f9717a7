------------------------------- MODULE SeqFeed -------------------------------
(***************************************************************************)
(* What the gateway promises the subscribers of one channel: a log grows,  *)
(* and every subscriber moves through it one event at a time from its own  *)
(* resume point, skipping nothing, unless it is told to resync.            *)
(*                                                                         *)
(* wire is all a subscriber sees.  A subscriber that asks again on the     *)
(* same connection may find one event of its previous subscription, the    *)
(* one that was due next there, anywhere among those of the new one.       *)
(***************************************************************************)
EXTENDS Naturals, Sequences

CONSTANTS Conn, LastSeen

VARIABLES
  committed,   \* seq of the newest event
  pruned,      \* seq of the newest event retention has removed
  status,      \* [Conn -> "off", "exact" or "resync"]
  cursor,      \* [Conn -> seq of the last event delivered, or resume point]
  stray,       \* [Conn -> an earlier subscription's event, still to go out, or 0]
  wire         \* [Conn -> the seqs put on its socket, in order; 0 is a resync]

vars == <<committed, pruned, status, cursor, stray, wire>>

Init ==
  /\ committed = 0
  /\ pruned = 0
  /\ status = [c \in Conn |-> "off"]
  /\ cursor = [c \in Conn |-> 0]
  /\ stray = [c \in Conn |-> 0]
  /\ wire = [c \in Conn |-> <<>>]

Commit ==
  /\ committed' = committed + 1
  /\ UNCHANGED <<pruned, status, cursor, stray, wire>>

Prune ==
  /\ pruned' \in (pruned + 1) .. committed
  /\ UNCHANGED <<committed, status, cursor, stray, wire>>

(* The next event; a client with no resume point starts at what is left,   *)
(* and after a resync the stream picks up somewhere ahead.                 *)
Due(c) ==
  {s \in 1 .. committed :
     \/ status[c] = "exact" /\ (s = cursor[c] + 1 \/ (cursor[c] = 0 /\ s <= pruned + 1))
     \/ status[c] = "resync" /\ s > cursor[c]}

Ask(c) ==
  /\ status' = [status EXCEPT ![c] = "exact"]
  /\ \E from \in LastSeen : cursor' = [cursor EXCEPT ![c] = from]
  /\ \E s \in IF stray[c] = 0 THEN {0} \cup Due(c) ELSE {stray[c]} :
       stray' = [stray EXCEPT ![c] = s]
  /\ UNCHANGED <<committed, pruned, wire>>

(* Only a client that named a resume point, and lost events after it.      *)
Resync(c) ==
  /\ status[c] = "exact"
  /\ 0 < cursor[c] /\ cursor[c] < pruned
  /\ status' = [status EXCEPT ![c] = "resync"]
  /\ wire' = [wire EXCEPT ![c] = Append(@, 0)]
  /\ UNCHANGED <<committed, pruned, cursor, stray>>

Deliver(c) ==
  /\ \E s \in Due(c) :
       /\ cursor' = [cursor EXCEPT ![c] = s]
       /\ wire' = [wire EXCEPT ![c] = Append(@, s)]
  /\ status' = [status EXCEPT ![c] = "exact"]
  /\ UNCHANGED <<committed, pruned, stray>>

Stray(c) ==
  /\ stray[c] # 0
  /\ wire' = [wire EXCEPT ![c] = Append(@, stray[c])]
  /\ stray' = [stray EXCEPT ![c] = 0]
  /\ UNCHANGED <<committed, pruned, status, cursor>>

Leave(S) ==
  /\ status' = [c \in Conn |-> IF c \in S THEN "off" ELSE status[c]]
  /\ cursor' = [c \in Conn |-> IF c \in S THEN 0 ELSE cursor[c]]
  /\ stray' = [c \in Conn |-> IF c \in S THEN 0 ELSE stray[c]]
  /\ UNCHANGED <<committed, pruned, wire>>

Next ==
  \/ Commit
  \/ Prune
  \/ \E c \in Conn : Ask(c) \/ Resync(c) \/ Deliver(c) \/ Stray(c)
  \/ \E S \in SUBSET Conn : Leave(S)

Spec == Init /\ [][Next]_vars
==============================================================================
