----------------------------- MODULE ChannelLog -----------------------------
(***************************************************************************)
(* What the services promise of one channel, whatever runs at the same     *)
(* time: each request that changes the channel appends one event to a      *)
(* gapless log, in one indivisible step, and the channel's status is what  *)
(* the log says: no message enters a frozen or a deleted channel.          *)
(***************************************************************************)
EXTENDS Sequences

VARIABLES
  status,      \* "absent", "live", "frozen" or "deleted"
  log          \* the types of the channel's events, in seq order

Open == {"live", "frozen"}

OtherEvent == {"message.updated", "message.deleted", "member.added",
               "member.removed", "reaction.new", "reaction.deleted",
               "read.updated"}

Init ==
  /\ status \in {"absent", "live"}
  /\ log = <<>>

Create ==
  /\ status = "absent"
  /\ status' = "live"
  /\ UNCHANGED log

NewMessage ==
  /\ status = "live"
  /\ log' = Append(log, "message.new")
  /\ UNCHANGED status

UpdateChannel ==
  /\ status \in Open
  /\ status' \in Open
  /\ log' = Append(log, "channel.updated")

DeleteChannel ==
  /\ status \in Open
  /\ status' = "deleted"
  /\ log' = Append(log, "channel.deleted")

Other ==
  /\ status # "absent"
  /\ \E type \in OtherEvent : log' = Append(log, type)
  /\ UNCHANGED status

Next == Create \/ NewMessage \/ UpdateChannel \/ DeleteChannel \/ Other

Spec == Init /\ [][Next]_<<status, log>>
==============================================================================
