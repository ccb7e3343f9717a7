------------------------------ MODULE MCStore ------------------------------
(* Instances of ChannelStore for TLC: which requests clients issue.        *)
EXTENDS StoreLog, TLC

CONSTANTS t1, t2, t3, t4, m1, m2, u1, u2

TxSymmetry == Permutations(Tx)

Ask(op, m, u, p, n) == [op |-> op, m |-> m, u |-> u, p |-> p, n |-> n]

(* A message, a reply to it, and everything that can happen to both.       *)
MessageRequests ==
  {Ask("send", m1, u1, None, 0), Ask("send", m2, u1, m1, 0),
   Ask("edit", m1, None, None, 0), Ask("delete", m1, None, None, 0),
   Ask("delete", m2, None, None, 0), Ask("thumbnail", m1, None, None, 0),
   Ask("create", None, u1, None, 0), Ask("update", None, None, None, 1),
   Ask("update", None, None, None, 0), Ask("softDelete", None, None, None, 0)}

(* Members, receipts and reactions of two users, who are deleted and       *)
(* created again.                                                          *)
MemberRequests ==
  {Ask("send", m1, u1, None, 0), Ask("addMember", None, u2, None, 0),
   Ask("removeMember", None, u2, None, 0), Ask("markRead", None, u2, None, 0),
   Ask("markRead", None, u2, None, 2), Ask("react", m1, u2, None, 0),
   Ask("unreact", m1, u2, None, 0), Ask("deleteUser", None, u2, None, 0),
   Ask("deleteUser", None, u1, None, 0), Ask("upsertUser", None, u2, None, 0),
   Ask("upsertUser", None, u1, None, 0)}

AllRequests == MessageRequests \cup MemberRequests

ErasureRequests ==
  {Ask("send", m1, u1, None, 0), Ask("deleteUser", None, u1, None, 0)}
==============================================================================
