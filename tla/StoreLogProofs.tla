--------------------------- MODULE StoreLogProofs ---------------------------
(***************************************************************************)
(* Proofs about the channel row and its log: the committed events are      *)
(* numbered 1 to current_seq, and the services implement ChannelLog.       *)
(*                                                                         *)
(* The argument: whoever has changed the channel row is alone; its version *)
(* is one seq ahead of the committed one exactly when it has an event to   *)
(* commit, so a commit adds the event that comes next or none.             *)
(*                                                                         *)
(* Then about the rows, from their locks: no two transactions have changed *)
(* the same row, a key share keeps the user it refers to, and an erasure   *)
(* has changed every row that refers to the user, so a commit never leaves *)
(* a reference behind (RowInv).  And about messages: a transaction's       *)
(* version of one is never behind the committed row, and what its event    *)
(* says of the message still holds when it commits (MessageInv).           *)
(*                                                                         *)
(* Then about members, reactions and read pointers: what a transaction has *)
(* changed of them differs from the committed row exactly as its request   *)
(* says and is what its event reports (OwnInv), so a commit adds to the    *)
(* log what it does to the tables (SetInv).  Then about reply counts: a    *)
(* transaction's version of one is off by what its commit will add to or   *)
(* take from the messages that count (ReplyInv).  Last about erasure: once *)
(* a user's messages are scrubbed, every committed one is deleted, unless  *)
(* a send of theirs is under way (EraseInv).                               *)
(***************************************************************************)
EXTENDS StoreProofs, SequenceTheorems

-----------------------------------------------------------------------------
(* Exclusive: one transaction at a time has changed the row.  Ahead: what  *)
(* its version is.  Emits: which event goes with it.  Must: where it must  *)
(* have both.  Changes: the status an operation may give the channel.      *)
Held(t) == Channel \in DOMAIN draft[t]

Changes(op, before, after) ==
  /\ op = "create" => before = "absent" /\ after = "live"
  /\ op = "send" => before = "live" /\ after = "live"
  /\ op = "update" => before \in Open /\ after \in Open
  /\ op = "softDelete" => before \in Open /\ after = "deleted"
  /\ op \notin {"create", "send", "update", "softDelete"} => before # "absent" /\ after = before

Ahead(t) ==
  Held(t) =>
    /\ Running(t)
    /\ draft[t][Channel].seq =
         IF at[t] = "insertMessage" \/ emitted[t] # {} THEN db[Channel].seq + 1 ELSE db[Channel].seq
    /\ Changes(request[t].op, db[Channel].status, draft[t][Channel].status)

Emits(t) ==
  emitted[t] # {} =>
    /\ Held(t)
    /\ at[t] \in {"incrementReplyCount", "commit"}
    /\ request[t].op \notin {"create", "deleteUser"}
    /\ \E e \in emitted[t] : /\ emitted[t] = {e}
                             /\ e.seq = db[Channel].seq + 1
                             /\ e.type = EventName[request[t].op]

Must(t) ==
  /\ at[t] = "insertMessage" => Held(t)
  /\ at[t] = "incrementReplyCount" => emitted[t] # {}
  /\ at[t] = "commit" => emitted[t] # {} \/ request[t].op \in {"create", "deleteUser"}
  /\ at[t] = "persist" /\ request[t].op \in {"update", "softDelete"} => Held(t)

Turn(t) == Ahead(t) /\ Emits(t) /\ Must(t)

Exclusive == \A s, t \in Tx : s # t => ~(Held(s) /\ Held(t))

AbsentZero == db[Channel].status = "absent" => db[Channel].seq = 0 /\ db[Channel].creator = None

ChannelInv == TypeInv /\ Exclusive /\ AbsentZero /\ LogDense /\ \A t \in Tx : Turn(t)

-----------------------------------------------------------------------------
(* Another transaction's turn is not touched by a step that leaves the     *)
(* channel row, or that finds that transaction without a version of it.    *)
LEMMA TurnKept ==
  ASSUME NEW s \in Tx, Turn(s),
         draft'[s] = draft[s], at'[s] = at[s], request'[s] = request[s], emitted'[s] = emitted[s],
         db'[Channel] = db[Channel] \/ ~Held(s)
  PROVE  Turn(s)'
BY DEF Turn, Held, Ahead, Emits, Must, Running

LEMMA TurnAfterEnd ==
  ASSUME TypeInv, NEW t \in Tx, End(t)
  PROVE  Turn(t)' /\ ~Held(t)'
<1>1. draft'[t] = NoRow /\ at'[t] = "done" /\ emitted'[t] = {}
  BY DEF End, TypeInv, TypeOK
<1>. QED
  BY <1>1 DEF Turn, Held, Ahead, Emits, Must, NoRow

LEMMA EndKeepsOthers ==
  ASSUME TypeInv, NEW t \in Tx, End(t), NEW s \in Tx, s # t
  PROVE  /\ draft'[s] = draft[s] /\ at'[s] = at[s]
         /\ request'[s] = request[s] /\ emitted'[s] = emitted[s]
         /\ found'[s] = found[s]
BY DEF End, TypeInv, TypeOK

LEMMA OverTurn ==
  ASSUME ChannelInv, NEW t \in Tx, Over(t)
  PROVE  ChannelInv'
<1>1. TypeInv /\ TypeInv' /\ End(t) /\ db'[Channel] = db[Channel] /\ log' = log
  BY OverKeeps DEF ChannelInv
<1>3. \A s \in Tx : Turn(s)'
  BY <1>1, TurnAfterEnd, EndKeepsOthers, TurnKept DEF ChannelInv
<1>4. Exclusive'
  BY <1>1, TurnAfterEnd, EndKeepsOthers DEF ChannelInv, Exclusive, Held
<1>. QED
  BY <1>1, <1>3, <1>4 DEF ChannelInv, AbsentZero, LogDense

LEMMA QuitTurn ==
  ASSUME ChannelInv, NEW t \in Tx, Quit(t)
  PROVE  ChannelInv'
BY QuitOver, OverTurn

(* What a write leaves of t's version of the channel row.                  *)
LEMMA WriteHeld ==
  ASSUME TypeInv, NEW t \in Tx, NEW rows, NEW next, Write(t, rows, next)
  PROVE  /\ Held(t)' <=> Held(t) \/ Channel \in DOMAIN rows
         /\ Channel \in DOMAIN rows => draft'[t][Channel] = rows[Channel]
         /\ Channel \notin DOMAIN rows /\ Held(t) => draft'[t][Channel] = draft[t][Channel]
         /\ at'[t] = next /\ request' = request /\ db' = db /\ log' = log
         /\ \A s \in Tx : s # t => draft'[s] = draft[s] /\ at'[s] = at[s]
<1>1. draft'[t] = [r \in DOMAIN draft[t] \cup DOMAIN rows |->
                    IF r \in DOMAIN rows THEN rows[r] ELSE draft[t][r]]
  BY DEF Write, TypeInv, TypeOK
<1>2. /\ at'[t] = next /\ request' = request /\ db' = db /\ log' = log
      /\ \A s \in Tx : s # t => draft'[s] = draft[s] /\ at'[s] = at[s]
  BY DEF Write, TypeInv, TypeOK
<1>. QED
  BY <1>1, <1>2 DEF Held

(* A write of t keeps the invariant if t's own turn is right after it, and *)
(* nobody else has changed the channel row if this write does.             *)
LEMMA WriteTurn ==
  ASSUME ChannelInv, NEW t \in Tx, NEW rows, NEW next, Write(t, rows, next),
         TypeInv', Turn(t)',
         \A s \in Tx : s # t => emitted'[s] = emitted[s],
         Channel \in DOMAIN rows => \A s \in Tx : s # t => ~Held(s)
  PROVE  ChannelInv'
<1>1. TypeInv
  BY DEF ChannelInv
<1>2. \A s \in Tx : s # t => draft'[s] = draft[s] /\ at'[s] = at[s]
  BY <1>1, WriteHeld
<1>3. request' = request /\ db' = db /\ log' = log
  BY <1>1, WriteHeld
<1>4. \A s \in Tx : Turn(s)'
  BY <1>2, <1>3, TurnKept DEF ChannelInv
<1>5. Held(t)' <=> Held(t) \/ Channel \in DOMAIN rows
  BY <1>1, WriteHeld
<1>6. Exclusive'
  BY <1>2, <1>5 DEF ChannelInv, Exclusive, Held
<1>. QED
  BY <1>3, <1>4, <1>6 DEF ChannelInv, AbsentZero, LogDense

LEMMA NoEventYet ==
  ASSUME ChannelInv, NEW t \in Tx, at[t] \notin {"incrementReplyCount", "commit"}
  PROVE  emitted[t] = {}
BY DEF ChannelInv, Turn, Emits

LEMMA OtherWriteTurn ==
  ASSUME ChannelInv, NEW t \in Tx, NEW rows, NEW next, Write(t, rows, next),
         TypeInv', Channel \notin DOMAIN rows, emitted' = emitted,
         Running(t), at[t] # "insertMessage",
         next \notin {"idle", "done", "insertMessage", "incrementReplyCount"},
         next = "commit" => emitted[t] # {} \/ request[t].op \in {"create", "deleteUser"},
         next = "persist" => request[t].op \notin {"update", "softDelete"},
         emitted[t] # {} => next = "commit"
  PROVE  ChannelInv'
<1>1. TypeInv /\ Turn(t)
  BY DEF ChannelInv
<1>2. /\ Held(t)' <=> Held(t)
      /\ Held(t) => draft'[t][Channel] = draft[t][Channel]
      /\ at'[t] = next /\ request' = request /\ db' = db
  BY <1>1, WriteHeld
<1>3. Ahead(t)'
  BY <1>1, <1>2 DEF Turn, Ahead, Running
<1>4. Emits(t)'
  BY <1>1, <1>2 DEF Turn, Emits
<1>5. Must(t)'
  BY <1>2 DEF Must
<1>. QED
  BY <1>3, <1>4, <1>5, WriteTurn DEF Turn

LEMMA ReadTurn ==
  ASSUME ChannelInv, NEW t \in Tx, NEW next, Read(t, next), TypeInv',
         Running(t), at[t] # "insertMessage", emitted[t] = {},
         next \notin {"idle", "done", "insertMessage", "incrementReplyCount", "commit"},
         next = "persist" => request[t].op \notin {"update", "softDelete"}
  PROVE  ChannelInv'
<1>1. /\ at'[t] = next /\ request' = request /\ db' = db /\ log' = log
      /\ draft' = draft /\ emitted' = emitted
      /\ \A s \in Tx : s # t => at'[s] = at[s]
  BY DEF Read, ChannelInv, TypeInv, TypeOK
<1>2. Turn(t)'
  BY <1>1 DEF ChannelInv, Turn, Ahead, Emits, Must, Held, Running
<1>3. \A s \in Tx : Turn(s)'
  BY <1>1, <1>2, TurnKept DEF ChannelInv
<1>. QED
  BY <1>1, <1>3 DEF ChannelInv, Exclusive, Held, AbsentZero, LogDense

(* Waiting for the channel row ends with nobody else holding it.           *)
LEMMA Alone ==
  ASSUME NEW t \in Tx, NEW statement, Runs(t, statement), Channel \in Wants(t)
  PROVE  \A s \in Tx : s # t => ~Held(s)
BY DEF Runs, Blockers, Held

(* A first or next version of the channel row, before there is an event.   *)
LEMMA ChannelWriteTurn ==
  ASSUME ChannelInv, NEW t \in Tx, NEW row, NEW next, NEW statement,
         Runs(t, statement), Channel \in Wants(t),
         Write(t, One(Channel, row), next), TypeInv', emitted' = emitted, emitted[t] = {},
         next \notin {"idle", "done", "incrementReplyCount"},
         next = "commit" => request[t].op = "create",
         row.seq = IF next = "insertMessage" THEN db[Channel].seq + 1 ELSE db[Channel].seq,
         Changes(request[t].op, db[Channel].status, row.status)
  PROVE  ChannelInv'
<1>1. TypeInv /\ Channel \in DOMAIN One(Channel, row) /\ One(Channel, row)[Channel] = row
  BY DEF ChannelInv, One
<1>2. /\ Held(t)' /\ draft'[t][Channel] = row
      /\ at'[t] = next /\ request' = request /\ db' = db
  BY <1>1, WriteHeld
<1>3. Turn(t)'
  BY <1>2 DEF Turn, Ahead, Emits, Must, Running
<1>4. \A s \in Tx : s # t => ~Held(s)
  BY Alone
<1>. QED
  BY <1>3, <1>4, WriteTurn

LEMMA OneDomain ==
  /\ \A r, row : DOMAIN One(r, row) = {r} /\ One(r, row)[r] = row
  /\ \A m, row : Channel \notin DOMAIN One(Msg(m), row)
  /\ \A u, row : Channel \notin DOMAIN One(Member(u), row)
  /\ \A m, u, row : Channel \notin DOMAIN One(Reaction(m, u), row)
<1>1. \A r, row : DOMAIN One(r, row) = {r} /\ One(r, row)[r] = row
  BY DEF One
<1>2. ASSUME NEW m, NEW row PROVE Channel \notin DOMAIN One(Msg(m), row)
  <2>1. DOMAIN One(Msg(m), row) = {Msg(m)}
    BY <1>1
  <2>2. Channel # Msg(m)
    BY DEF Channel, Msg
  <2>. QED
    BY <2>1, <2>2
<1>3. ASSUME NEW u, NEW row PROVE Channel \notin DOMAIN One(Member(u), row)
  <2>1. DOMAIN One(Member(u), row) = {Member(u)}
    BY <1>1
  <2>2. Channel # Member(u)
    BY DEF Channel, Member
  <2>. QED
    BY <2>1, <2>2
<1>4. ASSUME NEW m, NEW u, NEW row PROVE Channel \notin DOMAIN One(Reaction(m, u), row)
  <2>1. DOMAIN One(Reaction(m, u), row) = {Reaction(m, u)}
    BY <1>1
  <2>2. Channel # Reaction(m, u)
    BY DEF Channel, Reaction
  <2>. QED
    BY <2>1, <2>2
<1>. QED
  BY <1>1, <1>2, <1>3, <1>4

-----------------------------------------------------------------------------
(* The statements.                                                         *)
LEMMA ChannelStatementTurn ==
  ASSUME ChannelInv, NEW t \in Tx, ChannelStatement(t)
  PROVE  ChannelInv'
<1>0. TypeInv /\ TypeInv' /\ db[Channel] \in ChannelRow
  BY ChannelStatementTyped, DbTyped DEF ChannelInv, TypeInv
<1>1. CASE InsertIfAbsent(t)
  <2>1. Running(t) /\ at[t] = "insertIfAbsent" /\ request[t].op = "create"
    BY <1>0, <1>1, OpAt, RunsRunning DEF InsertIfAbsent
  <2>2. CASE Quit(t)
    BY <2>2, QuitTurn
  <2>3. CASE ~Quit(t)
    <3> DEFINE row == [status |-> "live", seq |-> 0, creator |-> request[t].u]
               next == IF request[t].u = None THEN "commit" ELSE "addOwner"
    <3>1. /\ Write(t, One(Channel, row), next)
          /\ db[Channel].status = "absent"
          /\ emitted' = emitted
      BY <1>1, <2>3 DEF InsertIfAbsent
    <3>2. Runs(t, "insertIfAbsent") /\ Channel \in Wants(t)
      BY <1>1, <2>1, <3>1 DEF InsertIfAbsent, Wants
    <3>3. /\ row.seq = db[Channel].seq
          /\ Changes(request[t].op, db[Channel].status, row.status)
      BY <2>1, <3>1 DEF ChannelInv, AbsentZero, Changes
    <3>4. next \in {"commit", "addOwner"}
      OBVIOUS
    <3>5. emitted[t] = {}
      BY <2>1, NoEventYet
    <3> HIDE DEF row, next
    <3>. QED
      BY <1>0, <2>1, <3>1, <3>2, <3>3, <3>4, <3>5, ChannelWriteTurn
  <2>. QED
    BY <2>2, <2>3
<1>2. CASE AddOwner(t)
  <2>1. Running(t) /\ at[t] = "addOwner" /\ request[t].op = "create"
    BY <1>0, <1>2, OpAt, RunsRunning DEF AddOwner
  <2>2. PICK row : Write(t, One(Member(request[t].u), row), "commit") /\ emitted' = emitted
    BY <1>2 DEF AddOwner
  <2>. QED
    BY <1>0, <2>1, <2>2, NoEventYet, OneDomain, OtherWriteTurn
<1>3. CASE UpdateChannel(t)
  <2>1. Running(t) /\ at[t] = "updateChannel" /\ request[t].op = "update"
    BY <1>0, <1>3, OpAt, RunsRunning DEF UpdateChannel
  <2>2. CASE Quit(t)
    BY <2>2, QuitTurn
  <2>3. CASE ~Quit(t)
    <3>1. PICK row : /\ Write(t, One(Channel, row), "persist")
                     /\ row = [db[Channel] EXCEPT !.status =
                          CASE local[t] = 0 -> "live" [] local[t] = 1 -> "frozen" [] OTHER -> @]
                     /\ db[Channel].status \in Open
                     /\ emitted' = emitted
      BY <1>3, <2>3 DEF UpdateChannel
    <3>2. Runs(t, "updateChannel") /\ Channel \in Wants(t)
      BY <1>3, <2>1, <3>1 DEF UpdateChannel, Wants
    <3>3. row.seq = db[Channel].seq /\ row.status \in Open
      BY <1>0, <3>1 DEF ChannelRow, Open
    <3>4. Changes(request[t].op, db[Channel].status, row.status)
      BY <2>1, <3>1, <3>3 DEF Changes
    <3>5. emitted[t] = {}
      BY <2>1, NoEventYet
    <3>6. Write(t, One(Channel, row), "persist") /\ emitted' = emitted
      BY <3>1
    <3>. QED
      BY <1>0, <3>2, <3>3, <3>4, <3>5, <3>6, ChannelWriteTurn
  <2>. QED
    BY <2>2, <2>3
<1>4. CASE SoftDeleteChannel(t)
  <2>1. Running(t) /\ at[t] = "softDeleteChannel" /\ request[t].op = "softDelete"
    BY <1>0, <1>4, OpAt, RunsRunning DEF SoftDeleteChannel
  <2>2. CASE Quit(t)
    BY <2>2, QuitTurn
  <2>3. CASE ~Quit(t)
    <3>1. PICK row : /\ Write(t, One(Channel, row), "persist")
                     /\ row = [db[Channel] EXCEPT !.status = "deleted"]
                     /\ db[Channel].status \in Open
                     /\ emitted' = emitted
      BY <1>4, <2>3 DEF SoftDeleteChannel
    <3>2. Runs(t, "softDeleteChannel") /\ Channel \in Wants(t)
      BY <1>4, <2>1, <3>1 DEF SoftDeleteChannel, Wants
    <3>3. row.seq = db[Channel].seq /\ row.status = "deleted"
      BY <1>0, <3>1 DEF ChannelRow
    <3>4. Changes(request[t].op, db[Channel].status, row.status)
      BY <2>1, <3>1, <3>3 DEF Changes
    <3>5. emitted[t] = {}
      BY <2>1, NoEventYet
    <3>6. Write(t, One(Channel, row), "persist") /\ emitted' = emitted
      BY <3>1
    <3>. QED
      BY <1>0, <3>2, <3>3, <3>4, <3>5, <3>6, ChannelWriteTurn
  <2>. QED
    BY <2>2, <2>3
<1>. QED
  BY <1>1, <1>2, <1>3, <1>4 DEF ChannelStatement

LEMMA SendStatementTurn ==
  ASSUME ChannelInv, NEW t \in Tx,
         BumpSeqForMessage(t) \/ InsertMessage(t) \/ IncrementReplyCount(t)
  PROVE  ChannelInv'
<1>0. TypeInv /\ TypeInv' /\ db[Channel] \in ChannelRow
  BY SendStatementTyped, DbTyped DEF ChannelInv, TypeInv
<1>1. CASE BumpSeqForMessage(t)
  <2>1. Running(t) /\ at[t] = "bumpSeqForMessage" /\ request[t].op = "send"
    BY <1>0, <1>1, OpAt, RunsRunning DEF BumpSeqForMessage
  <2>2. CASE Quit(t)
    BY <2>2, QuitTurn
  <2>3. CASE ~Quit(t)
    <3>1. /\ Write(t, One(Channel, Bumped(t)), "insertMessage")
          /\ db[Channel].status = "live"
          /\ emitted' = emitted
      BY <1>1, <2>3 DEF BumpSeqForMessage, Sendable
    <3>2. Runs(t, "bumpSeqForMessage") /\ Channel \in Wants(t)
      BY <1>1, <2>1, <3>1 DEF BumpSeqForMessage, Wants, Sendable
    <3>3. emitted[t] = {}
      BY <2>1, NoEventYet
    <3>4. Held(t) => /\ draft[t][Channel].seq = db[Channel].seq
                     /\ draft[t][Channel].status = "live"
      BY <2>1, <3>3 DEF ChannelInv, Turn, Ahead, Changes
    <3>5. /\ Seen(t, Channel).seq = db[Channel].seq
          /\ Seen(t, Channel).status = "live"
      BY <3>1, <3>4 DEF Seen, Held
    <3>6. /\ Bumped(t).seq = db[Channel].seq + 1
          /\ Bumped(t).status = "live"
      BY <1>0, <3>5, BumpedTyped
    <3>7. Changes(request[t].op, db[Channel].status, Bumped(t).status)
      BY <2>1, <3>1, <3>6 DEF Changes
    <3>. QED
      BY <1>0, <3>1, <3>2, <3>3, <3>6, <3>7, ChannelWriteTurn
  <2>. QED
    BY <2>2, <2>3
<1>2. CASE InsertMessage(t)
  <2>1. Running(t) /\ at[t] = "insertMessage" /\ request[t].op = "send"
    BY <1>0, <1>2, OpAt, RunsRunning DEF InsertMessage
  <2>2. CASE Quit(t)
    BY <2>2, QuitTurn
  <2>3. CASE ~Quit(t)
    <3> DEFINE seq == Seen(t, Channel).seq
               next == IF request[t].p = None THEN "commit" ELSE "incrementReplyCount"
    <3>1. PICK row : /\ Write(t, One(Msg(request[t].m), row), next)
                     /\ emitted' = [emitted EXCEPT ![t] = {EventOf(t, seq)}]
      BY <1>2, <2>3 DEF InsertMessage
    <3>2. Held(t) /\ draft[t][Channel].seq = db[Channel].seq + 1
      BY <2>1 DEF ChannelInv, Turn, Must, Ahead
    <3>3. seq = db[Channel].seq + 1
      BY <3>2 DEF Seen, Held
    <3>4. EventOf(t, seq).seq = seq /\ EventOf(t, seq).type = EventName[request[t].op]
      BY DEF EventOf
    <3>5. next \in {"commit", "incrementReplyCount"}
      OBVIOUS
    <3> HIDE DEF seq, next
    <3>6. /\ emitted'[t] = {EventOf(t, seq)}
          /\ \A s \in Tx : s # t => emitted'[s] = emitted[s]
      BY <3>1 DEF ChannelInv, TypeInv, TypeOK
    <3>7. Channel \notin DOMAIN One(Msg(request[t].m), row)
      BY OneDomain
    <3>8. /\ Held(t)' /\ draft'[t][Channel] = draft[t][Channel]
          /\ at'[t] = next /\ request' = request /\ db' = db
      BY <1>0, <3>1, <3>2, <3>7, WriteHeld
    <3>9. Ahead(t)'
      BY <2>1, <3>2, <3>5, <3>6, <3>8 DEF ChannelInv, Turn, Ahead, Running
    <3>10. Emits(t)'
      BY <2>1, <3>3, <3>4, <3>5, <3>6, <3>8 DEF Emits
    <3>11. Must(t)'
      BY <3>5, <3>6, <3>8 DEF Must
    <3>. QED
      BY <1>0, <3>1, <3>6, <3>7, <3>9, <3>10, <3>11, WriteTurn DEF Turn
  <2>. QED
    BY <2>2, <2>3
<1>3. CASE IncrementReplyCount(t)
  <2>1. Running(t) /\ at[t] = "incrementReplyCount" /\ request[t].op = "send"
    BY <1>0, <1>3, OpAt, RunsRunning DEF IncrementReplyCount
  <2>2. PICK row : Write(t, One(Msg(request[t].p), row), "commit") /\ emitted' = emitted
    BY <1>3 DEF IncrementReplyCount
  <2>3. emitted[t] # {}
    BY <2>1 DEF ChannelInv, Turn, Must
  <2>. QED
    BY <1>0, <2>1, <2>2, <2>3, OneDomain, OtherWriteTurn
<1>. QED
  BY <1>1, <1>2, <1>3

LEMMA ChangeStatementTurn ==
  ASSUME ChannelInv, NEW t \in Tx,
         \/ UpdateMessage(t) \/ SoftDeleteMessage(t) \/ DecrementReplyCount(t)
         \/ WithAttachment(t) \/ SetAttachments(t)
  PROVE  ChannelInv'
<1>0. TypeInv /\ TypeInv'
  BY ChangeStatementTyped DEF ChannelInv
<1>1. CASE UpdateMessage(t)
  <2>1. Running(t) /\ at[t] = "updateMessage" /\ request[t].op = "edit"
    BY <1>0, <1>1, OpAt, RunsRunning DEF UpdateMessage
  <2>2. CASE Quit(t)
    BY <2>2, QuitTurn
  <2>3. CASE ~Quit(t)
    <3>1. PICK row : Write(t, One(Msg(request[t].m), row), "persist") /\ emitted' = emitted
      BY <1>1, <2>3 DEF UpdateMessage
    <3>. QED
      BY <1>0, <2>1, <3>1, NoEventYet, OneDomain, OtherWriteTurn
  <2>. QED
    BY <2>2, <2>3
<1>2. CASE SoftDeleteMessage(t)
  <2>1. Running(t) /\ at[t] = "softDeleteMessage" /\ request[t].op = "delete"
    BY <1>0, <1>2, OpAt, RunsRunning DEF SoftDeleteMessage
  <2>2. CASE Quit(t)
    BY <2>2, QuitTurn
  <2>3. CASE ~Quit(t)
    <3>1. PICK row, next : /\ Write(t, One(Msg(request[t].m), row), next)
                           /\ next \in {"persist", "decrementReplyCount"}
                           /\ emitted' = emitted
      BY <1>2, <2>3 DEF SoftDeleteMessage
    <3>2. Channel \notin DOMAIN One(Msg(request[t].m), row)
      BY OneDomain
    <3>3. emitted[t] = {}
      BY <2>1, NoEventYet
    <3>4. CASE next = "persist"
      BY <1>0, <2>1, <3>1, <3>2, <3>3, <3>4, OtherWriteTurn
    <3>5. CASE next = "decrementReplyCount"
      BY <1>0, <2>1, <3>1, <3>2, <3>3, <3>5, OtherWriteTurn
    <3>. QED
      BY <3>1, <3>4, <3>5
  <2>. QED
    BY <2>2, <2>3
<1>3. CASE DecrementReplyCount(t)
  <2>1. Running(t) /\ at[t] = "decrementReplyCount" /\ request[t].op = "delete"
    BY <1>0, <1>3, OpAt, RunsRunning DEF DecrementReplyCount
  <2>2. PICK p, row : Write(t, One(Msg(p), row), "persist") /\ emitted' = emitted
    BY <1>3 DEF DecrementReplyCount
  <2>. QED
    BY <1>0, <2>1, <2>2, NoEventYet, OneDomain, OtherWriteTurn
<1>4. CASE WithAttachment(t)
  <2>1. Running(t) /\ at[t] = "withAttachment" /\ request[t].op = "thumbnail"
    BY <1>0, <1>4, OpAt, RunsRunning DEF WithAttachment
  <2>2. CASE Quit(t)
    BY <2>2, QuitTurn
  <2>3. CASE ~Quit(t)
    <3>1. Read(t, "setAttachments")
      BY <1>4, <2>3 DEF WithAttachment
    <3>. QED
      BY <1>0, <2>1, <3>1, NoEventYet, ReadTurn
  <2>. QED
    BY <2>2, <2>3
<1>5. CASE SetAttachments(t)
  <2>1. Running(t) /\ at[t] = "setAttachments" /\ request[t].op = "thumbnail"
    BY <1>0, <1>5, OpAt, RunsRunning DEF SetAttachments
  <2>2. PICK row : Write(t, One(Msg(request[t].m), row), "persist") /\ emitted' = emitted
    BY <1>5 DEF SetAttachments
  <2>. QED
    BY <1>0, <2>1, <2>2, NoEventYet, OneDomain, OtherWriteTurn
<1>. QED
  BY <1>1, <1>2, <1>3, <1>4, <1>5


LEMMA MembershipTurn ==
  ASSUME ChannelInv, NEW t \in Tx,
         GetChannel(t) \/ AddMember(t) \/ RemoveMember(t) \/ TargetSeq(t) \/ MarkRead(t)
  PROVE  ChannelInv'
<1>0. TypeInv /\ TypeInv'
  BY MembershipTyped DEF ChannelInv
<1>1. CASE GetChannel(t)
  <2>1. Running(t) /\ at[t] = "getChannel" /\ request[t].op = "addMember"
    BY <1>0, <1>1, OpAt, RunsRunning DEF GetChannel
  <2>2. CASE Quit(t)
    BY <2>2, QuitTurn
  <2>3. CASE ~Quit(t)
    <3>1. Read(t, "addMember")
      BY <1>1, <2>3 DEF GetChannel
    <3>. QED
      BY <1>0, <2>1, <3>1, NoEventYet, ReadTurn
  <2>. QED
    BY <2>2, <2>3
<1>2. CASE AddMember(t)
  <2>1. Running(t) /\ at[t] = "addMember" /\ request[t].op = "addMember"
    BY <1>0, <1>2, OpAt, RunsRunning DEF AddMember
  <2>2. CASE Quit(t)
    BY <2>2, QuitTurn
  <2>3. CASE ~Quit(t)
    <3>1. PICK row : Write(t, One(Member(request[t].u), row), "persist") /\ emitted' = emitted
      BY <1>2, <2>3 DEF AddMember
    <3>. QED
      BY <1>0, <2>1, <3>1, NoEventYet, OneDomain, OtherWriteTurn
  <2>. QED
    BY <2>2, <2>3
<1>3. CASE RemoveMember(t)
  <2>1. Running(t) /\ at[t] = "removeMember" /\ request[t].op = "removeMember"
    BY <1>0, <1>3, OpAt, RunsRunning DEF RemoveMember
  <2>2. CASE Quit(t)
    BY <2>2, QuitTurn
  <2>3. CASE ~Quit(t)
    <3>1. PICK row : Write(t, One(Member(request[t].u), row), "persist") /\ emitted' = emitted
      BY <1>3, <2>3 DEF RemoveMember
    <3>. QED
      BY <1>0, <2>1, <3>1, NoEventYet, OneDomain, OtherWriteTurn
  <2>. QED
    BY <2>2, <2>3
<1>4. CASE TargetSeq(t)
  <2>1. Running(t) /\ at[t] = "targetSeq" /\ request[t].op = "markRead"
    BY <1>0, <1>4, OpAt, RunsRunning DEF TargetSeq
  <2>2. CASE Quit(t)
    BY <2>2, QuitTurn
  <2>3. CASE ~Quit(t)
    <3>1. Read(t, "markRead")
      BY <1>4, <2>3 DEF TargetSeq
    <3>. QED
      BY <1>0, <2>1, <3>1, NoEventYet, ReadTurn
  <2>. QED
    BY <2>2, <2>3
<1>5. CASE MarkRead(t)
  <2>1. Running(t) /\ at[t] = "markRead" /\ request[t].op = "markRead"
    BY <1>0, <1>5, OpAt, RunsRunning DEF MarkRead
  <2>2. CASE Quit(t)
    BY <2>2, QuitTurn
  <2>3. CASE ~Quit(t)
    <3>1. PICK row : Write(t, One(Member(request[t].u), row), "persist") /\ emitted' = emitted
      BY <1>5, <2>3 DEF MarkRead
    <3>. QED
      BY <1>0, <2>1, <3>1, NoEventYet, OneDomain, OtherWriteTurn
  <2>. QED
    BY <2>2, <2>3
<1>. QED
  BY <1>1, <1>2, <1>3, <1>4, <1>5


LEMMA ReactionTurn ==
  ASSUME ChannelInv, NEW t \in Tx,
         ExistsInChannel(t) \/ AddReaction(t) \/ RemoveReaction(t) \/ CountsByType(t)
  PROVE  ChannelInv'
<1>0. TypeInv /\ TypeInv'
  BY ReactionTyped DEF ChannelInv
<1>1. CASE ExistsInChannel(t)
  <2>1. Running(t) /\ at[t] = "existsInChannel" /\ request[t].op \in {"react", "unreact"}
    BY <1>0, <1>1, OpAt, RunsRunning DEF ExistsInChannel
  <2>2. CASE Quit(t)
    BY <2>2, QuitTurn
  <2>3. CASE ~Quit(t)
    <3>1. PICK next \in {"addReaction", "removeReaction"} : Read(t, next)
      BY <1>1, <2>3 DEF ExistsInChannel
    <3>. QED
      BY <1>0, <2>1, <3>1, NoEventYet, ReadTurn
  <2>. QED
    BY <2>2, <2>3
<1>2. CASE AddReaction(t)
  <2>1. Running(t) /\ at[t] = "addReaction" /\ request[t].op = "react"
    BY <1>0, <1>2, OpAt, RunsRunning DEF AddReaction
  <2>2. CASE Quit(t)
    BY <2>2, QuitTurn
  <2>3. CASE ~Quit(t)
    <3>1. PICK row : Write(t, One(Reaction(request[t].m, request[t].u), row), "countsByType") /\ emitted' = emitted
      BY <1>2, <2>3 DEF AddReaction
    <3>. QED
      BY <1>0, <2>1, <3>1, NoEventYet, OneDomain, OtherWriteTurn
  <2>. QED
    BY <2>2, <2>3
<1>3. CASE RemoveReaction(t)
  <2>1. Running(t) /\ at[t] = "removeReaction" /\ request[t].op = "unreact"
    BY <1>0, <1>3, OpAt, RunsRunning DEF RemoveReaction
  <2>2. CASE Quit(t)
    BY <2>2, QuitTurn
  <2>3. CASE ~Quit(t)
    <3>1. PICK row : Write(t, One(Reaction(request[t].m, request[t].u), row), "countsByType") /\ emitted' = emitted
      BY <1>3, <2>3 DEF RemoveReaction
    <3>. QED
      BY <1>0, <2>1, <3>1, NoEventYet, OneDomain, OtherWriteTurn
  <2>. QED
    BY <2>2, <2>3
<1>4. CASE CountsByType(t)
  <2>1. Running(t) /\ at[t] = "countsByType" /\ request[t].op \in {"react", "unreact"}
    BY <1>0, <1>4, OpAt, RunsRunning DEF CountsByType
  <2>2. Read(t, "persist")
    BY <1>4 DEF CountsByType
  <2>. QED
    BY <1>0, <2>1, <2>2, NoEventYet, ReadTurn
<1>. QED
  BY <1>1, <1>2, <1>3, <1>4


LEMMA UserStatementTurn ==
  ASSUME ChannelInv, NEW t \in Tx, UserStatement(t)
  PROVE  ChannelInv'
<1>0. TypeInv /\ TypeInv' /\ db[Channel] \in ChannelRow
  BY UserStatementTyped, DbTyped DEF ChannelInv, TypeInv
<1>1. CASE ScrubAuthored(t)
  <2>1. Running(t) /\ at[t] = "scrubAuthored" /\ request[t].op = "deleteUser"
    BY <1>0, <1>1, OpAt, RunsRunning DEF ScrubAuthored
  <2> DEFINE mine == {Msg(m) : m \in {k \in found[t] \cap Authored(request[t].u) : Live(k)}}
             rows == [r \in mine |-> [db[r] EXCEPT !.text = FALSE, !.deleted = TRUE]]
  <2>2. Write(t, rows, "deleteUser") /\ emitted' = emitted
    BY <1>1 DEF ScrubAuthored
  <2>3. Channel \notin DOMAIN rows
    BY RowsDistinct
  <2> HIDE DEF rows
  <2>. QED
    BY <1>0, <2>1, <2>2, <2>3, NoEventYet, OtherWriteTurn
<1>2. CASE DeleteUser(t)
  <2>1. Running(t) /\ at[t] = "deleteUser" /\ request[t].op = "deleteUser"
    BY <1>0, <1>2, OpAt, RunsRunning DEF DeleteUser
  <2>2. CASE Quit(t)
    BY <2>2, QuitTurn
  <2>3. CASE ~Quit(t)
    <3> DEFINE u == request[t].u
               cascaded == Cascaded(t, u)
               nulled == Nulled(t, u)
               rows == [r \in DOMAIN cascaded \cup DOMAIN nulled |->
                          IF r \in DOMAIN cascaded THEN cascaded[r] ELSE nulled[r]]
    <3>1. Write(t, rows, "commit") /\ emitted' = emitted /\ db[Account(u)]
      BY <1>2, <2>3 DEF DeleteUser
    <3>2. Channel \notin DOMAIN cascaded
      <4>1. DOMAIN cascaded = {Account(u), Member(u)} \cup {Reaction(m, u) : m \in Message}
        BY DEF Cascaded
      <4>. QED
        BY <4>1, RowsDistinct
    <3>3. Channel \in DOMAIN nulled =>
            /\ db[Channel].creator = u
            /\ nulled[Channel] = [db[Channel] EXCEPT !.creator = None]
      <4>1. DOMAIN nulled = {Msg(m) : m \in Authored(u)}
                              \cup (IF db[Channel].creator = u THEN {Channel} ELSE {})
        BY DEF Nulled
      <4>2. Channel \notin {Msg(m) : m \in Authored(u)}
        BY RowsDistinct
      <4>. QED
        BY <4>1, <4>2 DEF Nulled
    <3>4. Channel \in DOMAIN rows => Channel \in DOMAIN nulled /\ rows[Channel] = nulled[Channel]
      BY <3>2
    <3>5. emitted[t] = {}
      BY <2>1, NoEventYet
    <3>6. u \in User
      BY <2>1, RequestTyped DEF TypeInv, Positioned, ChannelInv
    <3> HIDE DEF cascaded, nulled, rows, u
    <3>7. CASE Channel \notin DOMAIN rows
      BY <1>0, <2>1, <3>1, <3>5, <3>7, OtherWriteTurn
    <3>8. CASE Channel \in DOMAIN rows
      <4>1. db[Channel].creator = u /\ rows[Channel] = [db[Channel] EXCEPT !.creator = None]
        BY <3>3, <3>4, <3>8
      <4>2. Channel \in Wants(t)
        BY <2>1, <3>1, <4>1 DEF Wants, u
      <4>3. \A s \in Tx : s # t => ~Held(s)
        BY <1>2, <4>2, Alone DEF DeleteUser
      <4>4. /\ rows[Channel].seq = db[Channel].seq
            /\ rows[Channel].status = db[Channel].status
        BY <1>0, <4>1 DEF ChannelRow
      <4>5. db[Channel].status # "absent"
        BY <3>6, <4>1, StoreAssumption DEF ChannelInv, AbsentZero
      <4>6. /\ Held(t)' /\ draft'[t][Channel] = rows[Channel]
            /\ at'[t] = "commit" /\ request' = request /\ db' = db
        BY <1>0, <3>1, <3>8, WriteHeld
      <4>7. Ahead(t)'
        BY <2>1, <3>1, <3>5, <4>4, <4>5, <4>6 DEF Ahead, Changes, Running
      <4>8. Emits(t)' /\ Must(t)'
        BY <2>1, <3>1, <3>5, <4>6 DEF Emits, Must
      <4>. QED
        BY <1>0, <3>1, <4>3, <4>7, <4>8, WriteTurn DEF Turn
    <3>. QED
      BY <3>7, <3>8
  <2>. QED
    BY <2>2, <2>3
<1>3. CASE FindAuthored(t)
  <2>1. Running(t) /\ at[t] = "findAuthored" /\ Read(t, "scrubAuthored")
    BY <1>0, <1>3, OpAt, RunsRunning DEF FindAuthored
  <2>. QED
    BY <1>0, <2>1, NoEventYet, ReadTurn
<1>4. CASE UpsertUser(t)
  BY <1>0, <1>4, UpsertOver, OverTurn
<1>. QED
  BY <1>1, <1>2, <1>3, <1>4 DEF UserStatement

LEMMA PersistTurn ==
  ASSUME ChannelInv, NEW t \in Tx, Persist(t)
  PROVE  ChannelInv'
<1>0. TypeInv /\ TypeInv' /\ db[Channel] \in ChannelRow
  BY PersistTyped, DbTyped DEF ChannelInv, TypeInv
<1>1. /\ Running(t) /\ at[t] = "persist"
      /\ request[t].op \notin {"create", "send", "deleteUser"}
  BY <1>0, OpAt, RunsRunning DEF Persist
<1>2. /\ Write(t, One(Channel, Bumped(t)), "commit")
      /\ emitted' = [emitted EXCEPT ![t] = {EventOf(t, Bumped(t).seq)}]
      /\ db[Channel].status # "absent"
  BY DEF Persist
<1>3. \A s \in Tx : s # t => ~Held(s)
  <2>1. Runs(t, "persist") /\ Channel \in Wants(t)
    BY <1>1, <1>2 DEF Persist, Wants
  <2>. QED
    BY <2>1, Alone
<1>4. emitted[t] = {}
  BY <1>1, NoEventYet
<1>5. /\ Seen(t, Channel).seq = db[Channel].seq
      /\ Changes(request[t].op, db[Channel].status, Seen(t, Channel).status)
  <2>1. CASE Held(t)
    BY <1>1, <1>4, <2>1 DEF ChannelInv, Turn, Ahead, Seen, Held
  <2>2. CASE ~Held(t)
    <3>1. request[t].op \notin {"update", "softDelete"}
      BY <1>1, <2>2 DEF ChannelInv, Turn, Must
    <3>. QED
      BY <1>1, <1>2, <2>2, <3>1 DEF Seen, Held, Changes
  <2>. QED
    BY <2>1, <2>2
<1>6. /\ Bumped(t).seq = db[Channel].seq + 1
      /\ Changes(request[t].op, db[Channel].status, Bumped(t).status)
  BY <1>0, <1>5, BumpedTyped
<1>7. /\ EventOf(t, Bumped(t).seq).seq = Bumped(t).seq
      /\ EventOf(t, Bumped(t).seq).type = EventName[request[t].op]
  BY DEF EventOf
<1>8. /\ emitted'[t] = {EventOf(t, Bumped(t).seq)}
      /\ \A s \in Tx : s # t => emitted'[s] = emitted[s]
  BY <1>2 DEF ChannelInv, TypeInv, TypeOK
<1>9. /\ Held(t)' /\ draft'[t][Channel] = Bumped(t)
      /\ at'[t] = "commit" /\ request' = request /\ db' = db
  <2>1. Channel \in DOMAIN One(Channel, Bumped(t)) /\ One(Channel, Bumped(t))[Channel] = Bumped(t)
    BY DEF One
  <2>. QED
    BY <1>0, <1>2, <2>1, WriteHeld
<1>10. Ahead(t)'
  BY <1>6, <1>8, <1>9 DEF Ahead, Running
<1>11. Emits(t)'
  BY <1>1, <1>6, <1>7, <1>8, <1>9 DEF Emits
<1>12. Must(t)'
  BY <1>8, <1>9 DEF Must
<1>. QED
  BY <1>0, <1>2, <1>3, <1>8, <1>10, <1>11, <1>12, WriteTurn DEF Turn

LEMMA BeginTurn ==
  ASSUME ChannelInv, NEW t \in Tx, Begin(t)
  PROVE  ChannelInv'
<1>1. PICK q \in Requests :
        /\ request' = [request EXCEPT ![t] = q]
        /\ at' = [at EXCEPT ![t] = FirstStatement[q.op]]
  BY DEF Begin
<1>2. UNCHANGED <<db, log, draft, emitted>> /\ at[t] = "idle"
  BY DEF Begin
<1>3. FirstStatement[q.op] \notin {"insertMessage", "incrementReplyCount", "commit", "persist"}
  BY RequestTyped DEF FirstStatement, Operation
<1>4. /\ at'[t] = FirstStatement[q.op]
      /\ \A s \in Tx : s # t => at'[s] = at[s] /\ request'[s] = request[s]
  BY <1>1 DEF ChannelInv, TypeInv, TypeOK
<1>5. ~Held(t) /\ emitted[t] = {}
  BY <1>2 DEF ChannelInv, Turn, Ahead, Emits, Running
<1>6. Turn(t)'
  BY <1>2, <1>3, <1>4, <1>5 DEF Turn, Ahead, Emits, Must, Held
<1>7. \A s \in Tx : Turn(s)'
  BY <1>2, <1>4, <1>6, TurnKept DEF ChannelInv
<1>8. TypeInv'
  BY BeginTyped DEF ChannelInv
<1>. QED
  BY <1>2, <1>7, <1>8 DEF ChannelInv, Exclusive, Held, AbsentZero, LogDense

(* A commit gives the channel the version t holds, if it holds one, and    *)
(* the log t's event, if there is one.                                     *)
LEMMA CommitRow ==
  ASSUME ChannelInv, NEW t \in Tx, Commit(t)
  PROVE  /\ Held(t) => db'[Channel] = draft[t][Channel]
         /\ ~Held(t) => db'[Channel] = db[Channel] /\ log' = log
         /\ emitted[t] = {} => log' = log
         /\ log' = log \cup emitted[t]
<1>1. db' = [r \in Row |-> Seen(t, r)] /\ log' = log \cup emitted[t]
  BY DEF Commit
<1>2. db'[Channel] = Seen(t, Channel)
  BY <1>1, InRow
<1>3. ~Held(t) => emitted[t] = {}
  BY DEF ChannelInv, Turn, Emits
<1>. QED
  BY <1>1, <1>2, <1>3 DEF Seen, Held

LEMMA CommitTurn ==
  ASSUME ChannelInv, NEW t \in Tx, Commit(t)
  PROVE  ChannelInv'
<1>0. TypeInv /\ TypeInv' /\ db[Channel] \in ChannelRow /\ End(t) /\ at[t] = "commit"
  BY CommitTyped, DbTyped DEF ChannelInv, TypeInv, Commit
<1>1. \A s \in Tx : Turn(s)'
  <2>1. ASSUME NEW s \in Tx, s # t PROVE Turn(s)'
    <3>1. db'[Channel] = db[Channel] \/ ~Held(s)
      BY <2>1, CommitRow DEF ChannelInv, Exclusive
    <3>. QED
      BY <1>0, <2>1, <3>1, EndKeepsOthers, TurnKept DEF ChannelInv
  <2>. QED
    BY <1>0, <2>1, TurnAfterEnd
<1>2. Exclusive'
  BY <1>0, TurnAfterEnd, EndKeepsOthers DEF ChannelInv, Exclusive, Held
<1>3. AbsentZero'
  <2>1. CASE Held(t)
    <3>1. draft[t][Channel].status # "absent"
      BY <2>1 DEF ChannelInv, Turn, Ahead, Changes, Open
    <3>. QED
      BY <2>1, <3>1, CommitRow DEF AbsentZero
  <2>2. CASE ~Held(t)
    BY <2>2, CommitRow DEF ChannelInv, AbsentZero
  <2>. QED
    BY <2>1, <2>2
<1>4. LogDense'
  <2>1. CASE emitted[t] = {}
    <3>1. log' = log /\ db'[Channel].seq = db[Channel].seq
      BY <1>0, <2>1, CommitRow DEF ChannelInv, Turn, Ahead
    <3>. QED
      BY <3>1 DEF ChannelInv, LogDense
  <2>2. CASE emitted[t] # {}
    <3>1. PICK e \in emitted[t] : emitted[t] = {e} /\ e.seq = db[Channel].seq + 1
      BY <2>2 DEF ChannelInv, Turn, Emits
    <3>2. log' = log \cup {e} /\ db'[Channel].seq = db[Channel].seq + 1
      BY <2>2, <3>1, CommitRow DEF ChannelInv, Turn, Ahead, Emits
    <3>3. db[Channel].seq \in Nat
      BY <1>0 DEF ChannelRow
    <3>4. \A f \in log : f.seq \in 1 .. db[Channel].seq
      BY DEF ChannelInv, LogDense
    <3>5. {f.seq : f \in log'} = {f.seq : f \in log} \cup {e.seq}
      BY <3>2
    <3>6. {f.seq : f \in log'} = 1 .. db'[Channel].seq
      BY <3>1, <3>2, <3>3, <3>5 DEF ChannelInv, LogDense
    <3>7. \A f, g \in log' : f.seq = g.seq => f = g
      BY <3>1, <3>2, <3>3, <3>4 DEF ChannelInv, LogDense
    <3>. QED
      BY <3>6, <3>7 DEF LogDense
  <2>. QED
    BY <2>1, <2>2
<1>. QED
  BY <1>0, <1>1, <1>2, <1>3, <1>4 DEF ChannelInv

LEMMA ChannelInit == Init => ChannelInv
<1>. SUFFICES ASSUME Init PROVE ChannelInv
  OBVIOUS
<1>1. TypeInv
  BY InitTyped
<1>2. PICK creator \in User \cup {None}, status \in {"absent", "live"} :
        /\ status = "absent" => creator = None
        /\ db[Channel] = [status |-> status, seq |-> 0, creator |-> creator]
  BY InRow DEF Init, Channel
<1>3. ASSUME NEW t \in Tx PROVE ~Held(t) /\ at[t] = "idle" /\ emitted[t] = {}
  BY <1>3 DEF Init, Held, NoRow
<1>4. log = {}
  BY DEF Init
<1>. QED
  BY <1>1, <1>2, <1>3, <1>4
     DEF ChannelInv, Exclusive, AbsentZero, LogDense, Turn, Ahead, Emits, Must

LEMMA ChannelNext == ChannelInv /\ [Next]_vars => ChannelInv'
<1>. SUFFICES ASSUME ChannelInv, [Next]_vars PROVE ChannelInv'
  OBVIOUS
<1>1. CASE UNCHANGED vars
  BY <1>1 DEF vars, txVars, ChannelInv, TypeInv, TypeOK, WellTyped, Positioned, Running,
              Exclusive, AbsentZero, LogDense, Turn, Ahead, Emits, Must, Held
<1>2. ASSUME NEW t \in Tx, Begin(t) PROVE ChannelInv'
  BY <1>2, BeginTurn
<1>3. ASSUME NEW t \in Tx, Rollback(t) PROVE ChannelInv'
  BY <1>3, QuitTurn DEF Rollback
<1>4. ASSUME NEW t \in Tx, Statement(t) PROVE ChannelInv'
  BY <1>4, ChannelStatementTurn, SendStatementTurn, ChangeStatementTurn, MembershipTurn,
     ReactionTurn, UserStatementTurn, PersistTurn, CommitTurn
     DEF Statement, MessageStatement, MemberStatement
<1>. QED
  BY <1>1, <1>2, <1>3, <1>4 DEF Next

(* The committed events are numbered 1 to current_seq, each number once:   *)
(* the channel row's lock makes the sequence gapless however the           *)
(* statements of the requests interleave, and whichever of them roll back. *)
THEOREM LogIsDense == Spec => []LogDense
<1>1. ChannelInv => LogDense
  BY DEF ChannelInv
<1>. QED
  BY <1>1, ChannelInit, ChannelNext, PTL DEF Spec

-----------------------------------------------------------------------------
(* The refinement.  The log as ChannelLog has it.                          *)
History == [n \in 1 .. db[Channel].seq |-> TypeAt(n)]

LEMMA AppendIs ==
  ASSUME NEW S, NEW k \in Nat, NEW f \in [1 .. k -> S], NEW x \in S
  PROVE  Append(f, x) = [n \in 1 .. k + 1 |-> IF n = k + 1 THEN x ELSE f[n]]
<1>1. f \in Seq(S) /\ Len(f) = k
  OBVIOUS
<1> DEFINE g == Append(f, x)
<1>2. /\ g \in Seq(S) /\ Len(g) = k + 1 /\ g[k + 1] = x
      /\ \A n \in 1 .. k : g[n] = f[n]
  BY <1>1, AppendProperties
<1> HIDE DEF g
<1>3. g = [n \in 1 .. k + 1 |-> g[n]]
  BY <1>2
<1>4. ASSUME NEW n \in 1 .. k + 1 PROVE g[n] = IF n = k + 1 THEN x ELSE f[n]
  BY <1>2
<1>5. g = [n \in 1 .. k + 1 |-> IF n = k + 1 THEN x ELSE f[n]]
  BY <1>3, <1>4
<1>. QED
  BY <1>5 DEF g

(* The type at a number is that of the one event with that number.         *)
LEMMA TypeAtIs ==
  ASSUME LogDense, NEW e \in log
  PROVE  TypeAt(e.seq) = e.type
BY DEF LogDense, TypeAt

LEMMA TypeAtIsNext ==
  ASSUME LogDense', NEW e \in log'
  PROVE  TypeAt(e.seq)' = e.type
BY DEF LogDense, TypeAt

LEMMA HistoryTyped ==
  ASSUME ChannelInv
  PROVE  db[Channel].seq \in Nat /\ History \in [1 .. db[Channel].seq -> EventType]
<1>1. db[Channel].seq \in Nat /\ log \subseteq Event
  BY DbTyped DEF ChannelInv, TypeInv, TypeOK, ChannelRow
<1>2. ASSUME NEW n \in 1 .. db[Channel].seq PROVE TypeAt(n) \in EventType
  <2>1. PICK e \in log : e.seq = n
    BY DEF ChannelInv, LogDense
  <2>. QED
    BY <1>1, <2>1, TypeAtIs DEF ChannelInv, Event
<1>. QED
  BY <1>1, <1>2 DEF History

LEMMA HistoryKept ==
  ASSUME ChannelInv, ChannelInv', log \subseteq log', NEW n \in 1 .. db[Channel].seq
  PROVE  TypeAt(n)' = TypeAt(n)
<1>1. PICK e \in log : e.seq = n
  BY DEF ChannelInv, LogDense
<1>. QED
  BY <1>1, TypeAtIs, TypeAtIsNext DEF ChannelInv

(* Nothing new is in the history of a step that leaves the log.            *)
LEMMA HistorySame ==
  ASSUME ChannelInv, ChannelInv', log' = log, db'[Channel].seq = db[Channel].seq
  PROVE  History' = History
BY HistoryKept DEF History

LEMMA HistoryGrows ==
  ASSUME ChannelInv, ChannelInv', NEW e \in Event, log' = log \cup {e},
         e.seq = db[Channel].seq + 1, db'[Channel].seq = db[Channel].seq + 1
  PROVE  History' = Append(History, e.type)
<1>1. db[Channel].seq \in Nat /\ History \in [1 .. db[Channel].seq -> EventType]
  BY HistoryTyped
<1>2. e.type \in EventType
  BY DEF Event
<1>3. Append(History, e.type) =
        [n \in 1 .. db[Channel].seq + 1 |->
           IF n = db[Channel].seq + 1 THEN e.type ELSE History[n]]
  BY <1>1, <1>2, AppendIs
<1>4. TypeAt(e.seq)' = e.type
  BY TypeAtIsNext DEF ChannelInv
<1>5. ASSUME NEW n \in 1 .. db[Channel].seq PROVE TypeAt(n)' = History[n]
  BY <1>5, HistoryKept DEF History
<1>6. History' = [n \in 1 .. db[Channel].seq + 1 |-> TypeAt(n)']
  BY DEF History
<1>7. ASSUME NEW n \in 1 .. db[Channel].seq + 1
      PROVE  TypeAt(n)' = IF n = db[Channel].seq + 1 THEN e.type ELSE History[n]
  <2>1. CASE n = db[Channel].seq + 1
    BY <1>4, <2>1
  <2>2. CASE n # db[Channel].seq + 1
    BY <1>1, <1>5, <2>2
  <2>. QED
    BY <2>1, <2>2
<1>. QED
  BY <1>3, <1>6, <1>7

(* A commit is one step of ChannelLog, or none.                            *)
LEMMA CommitImplements ==
  ASSUME ChannelInv, NEW t \in Tx, Commit(t)
  PROVE  Promise!Next \/ (db'[Channel].status = db[Channel].status /\ History' = History)
<1>0. ChannelInv' /\ db[Channel] \in ChannelRow /\ TypeInv /\ at[t] = "commit"
  BY CommitTurn, DbTyped DEF ChannelInv, TypeInv, Commit
<1>1. CASE ~Held(t)
  <2>1. db'[Channel] = db[Channel] /\ log' = log
    BY <1>1, CommitRow
  <2>. QED
    BY <1>0, <2>1, HistorySame
<1>2. CASE Held(t) /\ emitted[t] = {}
  <2>1. /\ db'[Channel] = draft[t][Channel]
        /\ log' = log /\ db'[Channel].seq = db[Channel].seq
    BY <1>0, <1>2, CommitRow DEF ChannelInv, Turn, Ahead
  <2>2. History' = History
    BY <1>0, <2>1, HistorySame
  <2>3. request[t].op \in {"create", "deleteUser"}
    BY <1>0, <1>2 DEF ChannelInv, Turn, Must
  <2>4. Changes(request[t].op, db[Channel].status, db'[Channel].status)
    BY <1>2, <2>1 DEF ChannelInv, Turn, Ahead
  <2>5. CASE request[t].op = "create"
    BY <2>2, <2>4, <2>5 DEF Changes, Promise!Next, Promise!Create, History
  <2>6. CASE request[t].op = "deleteUser"
    BY <2>2, <2>4, <2>6 DEF Changes
  <2>. QED
    BY <2>3, <2>5, <2>6
<1>3. CASE Held(t) /\ emitted[t] # {}
  <2>1. PICK e \in emitted[t] : /\ emitted[t] = {e}
                                /\ e.seq = db[Channel].seq + 1
                                /\ e.type = EventName[request[t].op]
    BY <1>3 DEF ChannelInv, Turn, Emits
  <2>2. /\ db'[Channel] = draft[t][Channel]
        /\ log' = log \cup {e}
        /\ db'[Channel].seq = db[Channel].seq + 1
    BY <1>0, <1>3, <2>1, CommitRow DEF ChannelInv, Turn, Ahead
  <2>3. e \in Event
    BY <2>1 DEF ChannelInv, TypeInv, TypeOK
  <2>4. History' = Append(History, e.type)
    BY <1>0, <2>1, <2>2, <2>3, HistoryGrows
  <2>5. Changes(request[t].op, db[Channel].status, db'[Channel].status)
    BY <1>3, <2>2 DEF ChannelInv, Turn, Ahead
  <2>6. request[t].op \in Operation \ {"create", "deleteUser", "upsertUser"}
    <3>1. Running(t) /\ request[t].op \notin {"create", "deleteUser", "upsertUser"}
      BY <1>0, <1>3, OpAt DEF ChannelInv, Turn, Ahead, Emits
    <3>2. request[t] \in Requests
      BY <1>0, <3>1 DEF TypeInv, Positioned
    <3>. QED
      BY <3>1, <3>2, RequestTyped
  <2>7. CASE request[t].op = "send"
    <3>1. e.type = "message.new"
      BY <2>1, <2>7 DEF EventName
    <3>2. Promise!NewMessage
      BY <2>4, <2>5, <2>7, <3>1 DEF Changes, Promise!NewMessage, History
    <3>. QED
      BY <3>2 DEF Promise!Next
  <2>8. CASE request[t].op = "update"
    <3>1. e.type = "channel.updated"
      BY <2>1, <2>8 DEF EventName
    <3>2. Promise!UpdateChannel
      BY <2>4, <2>5, <2>8, <3>1 DEF Changes, Open, Promise!UpdateChannel, Promise!Open, History
    <3>. QED
      BY <3>2 DEF Promise!Next
  <2>9. CASE request[t].op = "softDelete"
    <3>1. e.type = "channel.deleted"
      BY <2>1, <2>9 DEF EventName
    <3>2. Promise!DeleteChannel
      BY <2>4, <2>5, <2>9, <3>1 DEF Changes, Open, Promise!DeleteChannel, Promise!Open, History
    <3>. QED
      BY <3>2 DEF Promise!Next
  <2>10. CASE request[t].op \notin {"send", "update", "softDelete"}
    <3>1. e.type \in Promise!OtherEvent
      BY <2>1, <2>6, <2>10 DEF EventName, Operation, Promise!OtherEvent
    <3>2. Promise!Other
      BY <2>4, <2>5, <2>6, <2>10, <3>1 DEF Changes, Promise!Other, History
    <3>. QED
      BY <3>2 DEF Promise!Next
  <2>. QED
    BY <2>7, <2>8, <2>9, <2>10
<1>. QED
  BY <1>1, <1>2, <1>3

LEMMA OnlyCommitCommits ==
  ASSUME NEW t \in Tx, Statement(t), ~Commit(t), ~UpsertUser(t)
  PROVE  UNCHANGED <<db, log, erased>>
<1>1. \A rows, next : Write(t, rows, next) => UNCHANGED <<db, log, erased>>
  BY DEF Write
<1>2. \A next : Read(t, next) => UNCHANGED <<db, log, erased>>
  BY DEF Read
<1>3. Quit(t) => UNCHANGED <<db, log, erased>>
  BY DEF Quit
<1>4. CASE ChannelStatement(t) \/ UserStatement(t) \/ Persist(t)
  BY <1>1, <1>2, <1>3, <1>4 DEF ChannelStatement, UserStatement, InsertIfAbsent, AddOwner,
     UpdateChannel, SoftDeleteChannel, FindAuthored, ScrubAuthored, DeleteUser, Persist
<1>5. CASE MessageStatement(t)
  BY <1>1, <1>2, <1>3, <1>5 DEF MessageStatement, BumpSeqForMessage, InsertMessage,
     IncrementReplyCount, UpdateMessage, SoftDeleteMessage, DecrementReplyCount,
     WithAttachment, SetAttachments
<1>6. CASE MemberStatement(t)
  BY <1>1, <1>2, <1>3, <1>6 DEF MemberStatement, GetChannel, AddMember, RemoveMember,
     TargetSeq, MarkRead, ExistsInChannel, AddReaction, RemoveReaction, CountsByType
<1>. QED
  BY <1>4, <1>5, <1>6 DEF Statement

(* A step commits an event, or leaves the log and, but for the accounts     *)
(* and their history, everything committed.                                *)
LEMMA StepCommits ==
  ASSUME TypeInv, [Next]_vars
  PROVE  \/ \E t \in Tx : Commit(t)
         \/ /\ UNCHANGED <<log, erased>> /\ db'[Channel] = db[Channel]
            /\ \A m \in Message : db'[Msg(m)] = db[Msg(m)]
            /\ \A u \in User : db'[Member(u)] = db[Member(u)]
            /\ \A m \in Message, u \in User : db'[Reaction(m, u)] = db[Reaction(m, u)]
            /\ \A u \in User : db'[Account(u)] = db[Account(u)] \/ db'[Account(u)] = TRUE
<1>1. CASE UNCHANGED <<db, log, erased>>
  BY <1>1
<1>2. UNCHANGED <<db, log, erased>> \/ \E t \in Tx : Commit(t) \/ UpsertUser(t)
  <2>1. CASE UNCHANGED vars
    BY <2>1 DEF vars
  <2>2. ASSUME NEW t \in Tx, Begin(t) \/ Rollback(t) PROVE UNCHANGED <<db, log, erased>>
    BY <2>2 DEF Begin, Rollback, Quit
  <2>3. ASSUME NEW t \in Tx, Statement(t), ~Commit(t), ~UpsertUser(t)
        PROVE  UNCHANGED <<db, log, erased>>
    BY <2>3, OnlyCommitCommits
  <2>. QED
    BY <2>1, <2>2, <2>3 DEF Next
<1>3. ASSUME NEW t \in Tx, UpsertUser(t) PROVE Over(t)
  BY <1>3, UpsertOver
<1>. QED
  BY <1>1, <1>2, <1>3, OverKeeps

LEMMA StepImplements ==
  ASSUME ChannelInv, [Next]_vars
  PROVE  [Promise!Next]_<<db[Channel].status, History>>
<1>1. ChannelInv'
  BY ChannelNext
<1>2. CASE log' = log /\ db'[Channel] = db[Channel]
  BY <1>1, <1>2, HistorySame
<1>3. ASSUME NEW t \in Tx, Commit(t)
      PROVE  [Promise!Next]_<<db[Channel].status, History>>
  BY <1>3, CommitImplements
<1>. QED
  BY <1>2, <1>3, StepCommits DEF ChannelInv

(* The services implement ChannelLog: though every request is several      *)
(* statements interleaved with others', each commit appends the one event  *)
(* its request earned, in a channel whose status admits it, or nothing.    *)
THEOREM StoreImplementsLog == Spec => ImplementsChannelLog
<1>1. Init => Promise!Init
  <2>. SUFFICES ASSUME Init PROVE Promise!Init
    OBVIOUS
  <2>1. PICK creator \in User \cup {None}, status \in {"absent", "live"} :
          db[Channel] = [status |-> status, seq |-> 0, creator |-> creator]
    BY InRow DEF Init, Channel
  <2>. QED
    BY <2>1 DEF Promise!Init
<1>2. ChannelInv /\ [Next]_vars => [Promise!Next]_<<db[Channel].status, History>>
  BY StepImplements
<1>. QED
  BY <1>1, <1>2, ChannelInit, ChannelNext, PTL DEF Spec, ImplementsChannelLog, Promise!Spec, History

-----------------------------------------------------------------------------
(* A version of row r, in rows, refers to user u.                          *)
Refers(rows, r, u) ==
  \/ r = Member(u) /\ rows[r].joined
  \/ r = Channel /\ rows[r].creator = u
  \/ \E m \in Message : r = Msg(m) /\ rows[r].author = u
  \/ \E m \in Message : r = Reaction(m, u) /\ rows[r] = TRUE

(* No two transactions have changed the same row.                          *)
OneWriter == \A s, t \in Tx : s # t => \A r \in DOMAIN draft[s] : r \notin DOMAIN draft[t]

(* Where a transaction may hold a key share; the user is there, and nobody *)
(* is deleting them.                                                       *)
Sharers == {"addOwner", "incrementReplyCount", "countsByType", "persist", "commit"}

Shares(t) ==
  /\ shared[t] # {} => at[t] \in Sharers
  /\ \A u \in shared[t] : db[Account(u)] /\ \A s \in Tx : Account(u) \notin DOMAIN draft[s]

(* A transaction about to delete u has changed every row that refers to u, *)
(* and none of its versions does.                                          *)
Deletes(t) ==
  \A u \in User : Account(u) \in DOMAIN draft[t] =>
    /\ at[t] = "commit"
    /\ \A r \in Row : Refers(db, r, u) => r \in DOMAIN draft[t]
    /\ \A r \in DOMAIN draft[t] : ~Refers(draft[t], r, u)

(* A new reference to a user is made under a key share.                    *)
Adds(t) ==
  \A u \in User : \A r \in DOMAIN draft[t] :
    Refers(draft[t], r, u) => u \in shared[t] \/ Refers(db, r, u)

(* A channel without a row has no members but those its creation adds.     *)
Founds(t) ==
  /\ at[t] = "addOwner" => Held(t) /\ request[t].u \in shared[t]
  /\ at[t] = "addMember" => db[Channel].status # "absent"
  /\ \A u \in User : db[Channel].status = "absent" /\ Member(u) \in DOMAIN draft[t] =>
       Held(t) \/ Account(u) \in DOMAIN draft[t]

NobodyYet == db[Channel].status = "absent" => \A u \in User : ~db[Member(u)].joined

NoneLeft == \A u \in User : ~db[Account(u)] => \A r \in Row : ~Refers(db, r, u)

RowInv ==
  /\ OneWriter /\ NobodyYet /\ NoneLeft
  /\ \A t \in Tx : Shares(t) /\ Deletes(t) /\ Adds(t) /\ Founds(t)

-----------------------------------------------------------------------------
(* What a statement of t does that writes rows and goes on to next.        *)
Moves(t, rows, next) ==
  /\ db' = db /\ log' = log /\ request' = request /\ at'[t] = next
  /\ \A s \in Tx : s # t => /\ draft'[s] = draft[s] /\ at'[s] = at[s]
                            /\ shared'[s] = shared[s]
  /\ \A r : r \in DOMAIN draft'[t] <=> r \in DOMAIN draft[t] \/ r \in DOMAIN rows
  /\ \A r \in DOMAIN rows : draft'[t][r] = rows[r]
  /\ \A r \in DOMAIN draft[t] : r \notin DOMAIN rows => draft'[t][r] = draft[t][r]

(* It waits for the rows it writes; it refers to no user without a key     *)
(* share, unless the row it replaces did; it deletes a user with all rows  *)
(* that refer to them.                                                     *)
SharesNoMore(t, next) == shared'[t] = shared[t] /\ (shared[t] # {} => next \in Sharers)

StartsToShare(t, next) ==
  /\ shared[t] = {} /\ next \in Sharers
  /\ \A u \in shared'[t] : db[Account(u)] /\ \A s \in Tx : Account(u) \notin DOMAIN draft[s]

Careful(t, rows, next) ==
  /\ at[t] # "commit"
  /\ \A r \in DOMAIN rows, s \in Tx : s # t => r \notin DOMAIN draft[s]
  /\ SharesNoMore(t, next) \/ StartsToShare(t, next)
  /\ \A u \in User, r \in DOMAIN rows :
       Refers(rows, r, u) => u \in shared'[t] \/ Refers(db, r, u)
  /\ \A u \in User : Account(u) \in DOMAIN rows =>
       /\ next = "commit" /\ shared'[t] = {} /\ \A s \in Tx : u \notin shared[s]
       /\ \A r \in Row : Refers(db, r, u) => r \in DOMAIN rows
       /\ \A r \in DOMAIN rows : ~Refers(rows, r, u)
  /\ next = "addOwner" => Channel \in DOMAIN rows /\ request[t].u \in shared'[t]
  /\ next = "addMember" => db[Channel].status # "absent"
  /\ \A u \in User : db[Channel].status = "absent" /\ Member(u) \in DOMAIN rows =>
       Held(t) \/ Channel \in DOMAIN rows \/ Account(u) \in DOMAIN rows

LEMMA RefersSame ==
  ASSUME NEW f, NEW g, NEW r, NEW u, f[r] = g[r]
  PROVE  Refers(f, r, u) <=> Refers(g, r, u)
BY DEF Refers

LEMMA SharedUsers ==
  ASSUME TypeOK, NEW t \in Tx
  PROVE  shared[t] \subseteq User
BY DEF TypeOK

LEMMA MoveKeepsRows ==
  ASSUME RowInv, TypeInv, TypeInv', NEW t \in Tx, NEW rows, NEW next,
         Moves(t, rows, next), Careful(t, rows, next)
  PROVE  RowInv'
<1>0. shared'[t] \subseteq User
  BY DEF TypeInv, TypeOK
<1>1. OneWriter'
  <2>1. \A s \in Tx : s # t => \A r \in DOMAIN draft'[t] : r \notin DOMAIN draft[s]
    BY DEF Moves, Careful, RowInv, OneWriter
  <2>. QED
    BY <2>1 DEF Moves, RowInv, OneWriter
<1>2. NobodyYet' /\ NoneLeft'
  BY DEF Moves, RowInv, NobodyYet, NoneLeft, Refers
<1>3. ASSUME NEW u \in User, NEW s \in Tx, u \in shared'[s]
      PROVE  db[Account(u)] /\ \A k \in Tx : Account(u) \notin DOMAIN draft'[k]
  <2>1. db[Account(u)] /\ \A k \in Tx : Account(u) \notin DOMAIN draft[k]
    BY <1>3 DEF Moves, Careful, SharesNoMore, StartsToShare, RowInv, Shares
  <2>2. Account(u) \notin DOMAIN rows
    BY <1>3 DEF Moves, Careful
  <2>. QED
    BY <2>1, <2>2 DEF Moves
<1>4. ASSUME NEW s \in Tx PROVE Shares(s)'
  <2>1. shared'[s] # {} => at'[s] \in Sharers
    BY DEF Moves, Careful, SharesNoMore, StartsToShare, RowInv, Shares
  <2>2. shared'[s] \subseteq User
    BY DEF TypeInv, TypeOK
  <2>3. db' = db
    BY DEF Moves
  <2>. QED
    BY <1>3, <2>1, <2>2, <2>3 DEF Shares
<1>5. ASSUME NEW s \in Tx, s # t PROVE Deletes(s)' /\ Adds(s)' /\ Founds(s)'
  <2>1. /\ draft'[s] = draft[s] /\ at'[s] = at[s] /\ shared'[s] = shared[s]
        /\ db' = db /\ request' = request
    BY <1>5 DEF Moves
  <2>. QED
    BY <2>1 DEF RowInv, Deletes, Adds, Founds, Refers, Held
<1>6. Deletes(t)'
  <2>. SUFFICES ASSUME NEW u \in User, Account(u) \in DOMAIN draft'[t]
                PROVE  /\ at'[t] = "commit"
                       /\ \A r \in Row : Refers(db, r, u) => r \in DOMAIN draft'[t]
                       /\ \A r \in DOMAIN draft'[t] : ~Refers(draft'[t], r, u)
    BY DEF Deletes, Moves
  <2>1. Account(u) \in DOMAIN rows
    BY DEF Moves, Careful, RowInv, Deletes
  <2>2. /\ next = "commit" /\ shared'[t] = {} /\ \A s \in Tx : u \notin shared[s]
        /\ \A r \in Row : Refers(db, r, u) => r \in DOMAIN rows
        /\ \A r \in DOMAIN rows : ~Refers(rows, r, u)
    BY <2>1 DEF Careful
  <2>3. at'[t] = "commit" /\ \A r \in Row : Refers(db, r, u) => r \in DOMAIN draft'[t]
    BY <2>2 DEF Moves
  <2>4. ASSUME NEW r \in DOMAIN draft'[t] PROVE ~Refers(draft'[t], r, u)
    <3>1. CASE r \in DOMAIN rows
      <4>1. draft'[t][r] = rows[r]
        BY <3>1 DEF Moves
      <4>. QED
        BY <2>2, <3>1, <4>1, RefersSame
    <3>2. CASE r \notin DOMAIN rows
      <4>1. r \in DOMAIN draft[t] /\ draft'[t][r] = draft[t][r]
        BY <3>2 DEF Moves
      <4>2. r \in Row
        BY <4>1 DEF TypeInv, TypeOK
      <4>3. ~Refers(draft[t], r, u)
        BY <2>2, <3>2, <4>1, <4>2 DEF RowInv, Adds
      <4>. QED
        BY <4>1, <4>3, RefersSame
    <3>. QED
      BY <3>1, <3>2
  <2>. QED
    BY <2>3, <2>4
<1>7. Adds(t)'
  <2>. SUFFICES ASSUME NEW u \in User, NEW r \in DOMAIN draft'[t], Refers(draft'[t], r, u)
                PROVE  u \in shared'[t] \/ Refers(db, r, u)
    BY DEF Adds, Moves
  <2>1. CASE r \in DOMAIN rows
    <3>1. draft'[t][r] = rows[r]
      BY <2>1 DEF Moves
    <3>2. Refers(rows, r, u)
      BY <3>1, RefersSame
    <3>. QED
      BY <2>1, <3>2 DEF Careful
  <2>2. CASE r \notin DOMAIN rows
    <3>1. r \in DOMAIN draft[t] /\ draft'[t][r] = draft[t][r]
      BY <2>2 DEF Moves
    <3>2. Refers(draft[t], r, u)
      BY <3>1, RefersSame
    <3>3. u \in shared[t] \/ Refers(db, r, u)
      BY <3>1, <3>2 DEF RowInv, Adds
    <3>4. u \in shared[t] => u \in shared'[t]
      BY DEF Careful, SharesNoMore, StartsToShare
    <3>. QED
      BY <3>3, <3>4
  <2>. QED
    BY <2>1, <2>2
<1>8. Founds(t)'
  <2>1. at'[t] = "addOwner" => Held(t)' /\ request'[t].u \in shared'[t]
    BY DEF Moves, Careful, Held
  <2>2. at'[t] = "addMember" => db'[Channel].status # "absent"
    BY DEF Moves, Careful
  <2>3. ASSUME NEW u \in User, db'[Channel].status = "absent", Member(u) \in DOMAIN draft'[t]
        PROVE  Held(t)' \/ Account(u) \in DOMAIN draft'[t]
    BY <2>3 DEF Moves, Careful, RowInv, Founds, Held
  <2>. QED
    BY <2>1, <2>2, <2>3 DEF Founds
<1>. QED
  BY <1>1, <1>2, <1>4, <1>5, <1>6, <1>7, <1>8 DEF RowInv

LEMMA WriteMoves ==
  ASSUME TypeInv, NEW t \in Tx, NEW rows, NEW next, Write(t, rows, next),
         \/ shared' = shared
         \/ \E users : shared' = [shared EXCEPT ![t] = users]
  PROVE  Moves(t, rows, next)
<1>1. draft'[t] = [r \in DOMAIN draft[t] \cup DOMAIN rows |->
                    IF r \in DOMAIN rows THEN rows[r] ELSE draft[t][r]]
  BY DEF Write, TypeInv, TypeOK
<1>2. /\ at'[t] = next /\ request' = request /\ db' = db /\ log' = log
      /\ \A s \in Tx : s # t => draft'[s] = draft[s] /\ at'[s] = at[s]
  BY DEF Write, TypeInv, TypeOK
<1>3. \A s \in Tx : s # t => shared'[s] = shared[s]
  BY DEF TypeInv, TypeOK
<1>. QED
  BY <1>1, <1>2, <1>3 DEF Moves

LEMMA ReadMoves ==
  ASSUME TypeInv, NEW t \in Tx, NEW next, Read(t, next)
  PROVE  Moves(t, NoRow, next) /\ shared' = shared
BY DEF Read, Moves, NoRow, TypeInv, TypeOK

(* A statement that runs has waited for the rows it locks.                 *)
LEMMA Waited ==
  ASSUME NEW t \in Tx, NEW statement, Runs(t, statement)
  PROVE  /\ \A r \in Wants(t) : \A s \in Tx : s # t => r \notin DOMAIN draft[s]
         /\ statement = "deleteUser" => \A s \in Tx : s # t => request[t].u \notin shared[s]
BY DEF Runs, Blockers

(* A statement that only reads, or that changes rows without reference to  *)
(* any user, outside the deletion of one.                                  *)
LEMMA NothingShared ==
  ASSUME RowInv, NEW t \in Tx, at[t] \notin Sharers
  PROVE  shared[t] = {}
BY DEF RowInv, Shares

LEMMA OwnAccount ==
  ASSUME RowInv, NEW t \in Tx, at[t] # "commit", NEW u \in User
  PROVE  Account(u) \notin DOMAIN draft[t]
BY DEF RowInv, Deletes

LEMMA ReadKeepsRows ==
  ASSUME RowInv, TypeInv, TypeInv', NEW t \in Tx, NEW next, Read(t, next),
         at[t] # "commit", next # "addOwner", shared[t] # {} => next \in Sharers,
         next = "addMember" => db[Channel].status # "absent"
  PROVE  RowInv'
<1>1. Moves(t, NoRow, next) /\ shared' = shared
  BY ReadMoves
<1>2. DOMAIN NoRow = {}
  BY DEF NoRow
<1>3. Careful(t, NoRow, next)
  BY <1>1, <1>2 DEF Careful, SharesNoMore
<1>. QED
  BY <1>1, <1>3, MoveKeepsRows

LEMMA EndKeepsRows ==
  ASSUME TypeInv, NEW t \in Tx, End(t)
  PROVE  /\ draft'[t] = NoRow /\ at'[t] = "done" /\ shared'[t] = {}
         /\ \A s \in Tx : s # t => /\ draft'[s] = draft[s] /\ at'[s] = at[s]
                                   /\ shared'[s] = shared[s] /\ request'[s] = request[s]
BY DEF End, TypeInv, TypeOK

LEMMA AfterEnd ==
  ASSUME NEW t \in Tx, draft'[t] = NoRow, at'[t] = "done", shared'[t] = {}
  PROVE  /\ Shares(t)' /\ Deletes(t)' /\ Adds(t)' /\ Founds(t)'
         /\ DOMAIN draft'[t] = {}
<1>1. DOMAIN draft'[t] = {}
  BY DEF NoRow
<1>2. Shares(t)' /\ Deletes(t)' /\ Adds(t)'
  BY <1>1 DEF Shares, Deletes, Adds
<1>3. Founds(t)'
  BY <1>1 DEF Founds
<1>. QED
  BY <1>1, <1>2, <1>3

LEMMA OverRefers ==
  ASSUME TypeInv, NEW t \in Tx, Over(t), NEW r \in Row, NEW u \in User
  PROVE  Refers(db', r, u) <=> Refers(db, r, u)
<1>1. /\ db'[Channel] = db[Channel]
      /\ \A m \in Message : db'[Msg(m)] = db[Msg(m)] /\ db'[Reaction(m, u)] = db[Reaction(m, u)]
      /\ db'[Member(u)] = db[Member(u)]
  BY OverKeeps
<1>. QED
  BY <1>1 DEF Refers

LEMMA OverKeepsRows ==
  ASSUME RowInv, TypeInv, NEW t \in Tx, Over(t)
  PROVE  RowInv'
<1>1. /\ End(t) /\ db'[Channel] = db[Channel]
      /\ \A u \in User : /\ db'[Member(u)] = db[Member(u)]
                         /\ db'[Account(u)] = db[Account(u)] \/ db'[Account(u)] = TRUE
  BY OverKeeps
<1>7. \A r \in Row, u \in User : Refers(db', r, u) <=> Refers(db, r, u)
  BY OverRefers
<1>2. /\ Shares(t)' /\ Deletes(t)' /\ Adds(t)' /\ Founds(t)'
      /\ DOMAIN draft'[t] = {}
  BY <1>1, EndKeepsRows, AfterEnd
<1>3. ASSUME NEW s \in Tx, s # t
      PROVE  /\ draft'[s] = draft[s] /\ at'[s] = at[s]
             /\ shared'[s] = shared[s] /\ request'[s] = request[s]
  BY <1>1, <1>3, EndKeepsRows
<1>4. ASSUME NEW s \in Tx, s # t PROVE Shares(s)' /\ Deletes(s)' /\ Adds(s)' /\ Founds(s)'
  <2>0. shared[s] \subseteq User /\ DOMAIN draft[s] \subseteq Row
    BY DEF TypeInv, TypeOK
  <2>1. Shares(s)'
    BY <1>1, <1>2, <1>3, <1>4, <2>0 DEF RowInv, Shares
  <2>2. Deletes(s)'
    <3>1. Deletes(s) /\ draft'[s] = draft[s] /\ at'[s] = at[s]
      BY <1>3, <1>4 DEF RowInv
    <3>2. \A u \in User, r \in DOMAIN draft[s] : Refers(draft'[s], r, u) <=> Refers(draft[s], r, u)
      BY <3>1
    <3>. QED
      BY <1>7, <3>1, <3>2 DEF Deletes
  <2>3. Adds(s)'
    <3>1. Adds(s) /\ draft'[s] = draft[s] /\ shared'[s] = shared[s]
      BY <1>3, <1>4 DEF RowInv
    <3>2. \A u \in User, r \in DOMAIN draft[s] : Refers(draft'[s], r, u) <=> Refers(draft[s], r, u)
      BY <3>1
    <3>. QED
      BY <1>7, <2>0, <3>1, <3>2 DEF Adds
  <2>4. Founds(s)'
    BY <1>1, <1>3, <1>4 DEF RowInv, Founds, Held
  <2>. QED
    BY <2>1, <2>2, <2>3, <2>4
<1>5. OneWriter'
  BY <1>2, <1>3 DEF RowInv, OneWriter
<1>6. NobodyYet' /\ NoneLeft'
  BY <1>1, <1>7 DEF RowInv, NobodyYet, NoneLeft
<1>. QED
  BY <1>2, <1>4, <1>5, <1>6 DEF RowInv

LEMMA QuitKeepsRows ==
  ASSUME RowInv, TypeInv, NEW t \in Tx, Quit(t)
  PROVE  RowInv'
BY QuitOver, OverKeepsRows

LEMMA BeginKeepsRows ==
  ASSUME RowInv, TypeInv, NEW t \in Tx, Begin(t)
  PROVE  RowInv'
<1>1. PICK q \in Requests :
        /\ request' = [request EXCEPT ![t] = q]
        /\ at' = [at EXCEPT ![t] = FirstStatement[q.op]]
  BY DEF Begin
<1>2. UNCHANGED <<db, log, draft, shared, emitted>> /\ at[t] = "idle"
  BY DEF Begin
<1>3. FirstStatement[q.op] \notin {"addOwner", "addMember", "commit"}
  BY RequestTyped DEF FirstStatement, Operation
<1>4. /\ at'[t] = FirstStatement[q.op]
      /\ \A s \in Tx : s # t => at'[s] = at[s] /\ request'[s] = request[s]
  BY <1>1 DEF TypeInv, TypeOK
<1>5. shared[t] = {}
  BY <1>2, NothingShared DEF Sharers
<1>6. ASSUME NEW s \in Tx PROVE Shares(s)' /\ Deletes(s)' /\ Adds(s)' /\ Founds(s)'
  <2>1. CASE s = t
    <3>1. Shares(t)'
      BY <1>2, <1>5 DEF Shares
    <3>2. Deletes(t)'
      BY <1>2, OwnAccount DEF Deletes
    <3>3. Adds(t)'
      BY <1>2 DEF RowInv, Adds, Refers
    <3>4. Founds(t)'
      BY <1>2, <1>3, <1>4 DEF RowInv, Founds, Held
    <3>. QED
      BY <2>1, <3>1, <3>2, <3>3, <3>4
  <2>2. CASE s # t
    BY <1>2, <1>4, <2>2 DEF RowInv, Shares, Deletes, Adds, Founds, Refers, Held
  <2>. QED
    BY <2>1, <2>2
<1>7. OneWriter' /\ NobodyYet' /\ NoneLeft'
  BY <1>2 DEF RowInv, OneWriter, NobodyYet, NoneLeft, Refers
<1>. QED
  BY <1>6, <1>7 DEF RowInv

(* A commit makes t's versions the rows, and t's references are then       *)
(* everyone's.                                                             *)
LEMMA CommitKeepsRows ==
  ASSUME RowInv, ChannelInv, NEW t \in Tx, Commit(t)
  PROVE  RowInv'
<1>0. TypeInv /\ End(t) /\ db' = [r \in Row |-> Seen(t, r)]
  BY DEF ChannelInv, Commit
<1>1. \A r \in Row : /\ r \in DOMAIN draft[t] => db'[r] = draft[t][r]
                     /\ r \notin DOMAIN draft[t] => db'[r] = db[r]
  BY <1>0 DEF Seen
<1>2. /\ Shares(t)' /\ Deletes(t)' /\ Adds(t)' /\ Founds(t)'
      /\ DOMAIN draft'[t] = {}
  BY <1>0, EndKeepsRows, AfterEnd
<1>3. ASSUME NEW s \in Tx, s # t
      PROVE  /\ draft'[s] = draft[s] /\ at'[s] = at[s] /\ DOMAIN draft[s] \subseteq Row
             /\ shared'[s] = shared[s] /\ request'[s] = request[s]
             /\ \A r \in DOMAIN draft[s] : r \notin DOMAIN draft[t] /\ db'[r] = db[r]
  <2>1. \A r \in DOMAIN draft[s] : r \notin DOMAIN draft[t]
    BY <1>3 DEF RowInv, OneWriter
  <2>2. DOMAIN draft[s] \subseteq Row
    BY <1>0 DEF TypeInv, TypeOK
  <2>. QED
    BY <1>0, <1>1, <1>3, <2>1, <2>2, EndKeepsRows
<1>4. ASSUME NEW u \in User, NEW r \in Row, Refers(db', r, u)
      PROVE  \/ r \notin DOMAIN draft[t] /\ Refers(db, r, u)
             \/ r \in DOMAIN draft[t] /\ Refers(draft[t], r, u)
  BY <1>1, <1>4, RefersSame
<1>5. ASSUME NEW u \in User, NEW r \in Row, Refers(db', r, u)
      PROVE  Refers(db, r, u) \/ u \in shared[t]
  BY <1>4, <1>5 DEF RowInv, Adds
<1>6. db'[Channel].status = "absent" => db[Channel].status = "absent" /\ ~Held(t)
  <2>1. Held(t) => draft[t][Channel].status # "absent"
    BY DEF ChannelInv, Turn, Ahead, Changes, Open
  <2>. QED
    BY <1>1, <2>1, InRow DEF Held
<1>7. ASSUME NEW s \in Tx, s # t PROVE Shares(s)'
  <2>. SUFFICES ASSUME NEW u \in shared[s]
                PROVE  db'[Account(u)] /\ \A k \in Tx : Account(u) \notin DOMAIN draft'[k]
    BY <1>3, <1>7 DEF RowInv, Shares
  <2>1. u \in User /\ db[Account(u)] /\ \A k \in Tx : Account(u) \notin DOMAIN draft[k]
    BY <1>0, SharedUsers DEF RowInv, Shares, TypeInv
  <2>2. db'[Account(u)]
    BY <1>1, <2>1, InRow
  <2>. QED
    BY <1>2, <1>3, <2>1, <2>2
<1>8. ASSUME NEW s \in Tx, s # t PROVE Deletes(s)'
  <2>. SUFFICES ASSUME NEW u \in User, Account(u) \in DOMAIN draft[s]
                PROVE  /\ at[s] = "commit"
                       /\ \A r \in Row : Refers(db', r, u) => r \in DOMAIN draft[s]
                       /\ \A r \in DOMAIN draft[s] : ~Refers(draft[s], r, u)
    BY <1>3, <1>8 DEF Deletes
  <2>1. /\ at[s] = "commit"
        /\ \A r \in Row : Refers(db, r, u) => r \in DOMAIN draft[s]
        /\ \A r \in DOMAIN draft[s] : ~Refers(draft[s], r, u)
    BY DEF RowInv, Deletes
  <2>2. u \notin shared[t]
    BY DEF RowInv, Shares
  <2>. QED
    BY <1>5, <2>1, <2>2
<1>9. ASSUME NEW s \in Tx, s # t PROVE Adds(s)'
  <2>. SUFFICES ASSUME NEW u \in User, NEW r \in DOMAIN draft[s], Refers(draft[s], r, u)
                PROVE  u \in shared[s] \/ Refers(db', r, u)
    BY <1>3, <1>9 DEF Adds
  <2>1. u \in shared[s] \/ Refers(db, r, u)
    BY DEF RowInv, Adds
  <2>2. db'[r] = db[r]
    BY <1>3, <1>9
  <2>. QED
    BY <2>1, <2>2, RefersSame
<1>10. ASSUME NEW s \in Tx, s # t PROVE Founds(s)'
  <2>1. at'[s] = "addOwner" => Held(s)' /\ request'[s].u \in shared'[s]
    BY <1>3, <1>10 DEF RowInv, Founds, Held
  <2>2. at'[s] = "addMember" => db'[Channel].status # "absent"
    BY <1>3, <1>6, <1>10 DEF RowInv, Founds
  <2>3. ASSUME NEW u \in User, db'[Channel].status = "absent", Member(u) \in DOMAIN draft'[s]
        PROVE  Held(s)' \/ Account(u) \in DOMAIN draft'[s]
    BY <1>3, <1>6, <1>10, <2>3 DEF RowInv, Founds, Held
  <2>. QED
    BY <2>1, <2>2, <2>3 DEF Founds
<1>11. OneWriter'
  BY <1>2, <1>3 DEF RowInv, OneWriter
<1>12. NobodyYet'
  <2>. SUFFICES ASSUME db'[Channel].status = "absent", NEW u \in User
                PROVE  ~db'[Member(u)].joined
    BY DEF NobodyYet
  <2>1. db[Channel].status = "absent" /\ ~Held(t)
    BY <1>6
  <2>2. CASE Member(u) \notin DOMAIN draft[t]
    BY <1>1, <2>1, <2>2, InRow DEF RowInv, NobodyYet
  <2>3. CASE Member(u) \in DOMAIN draft[t]
    <3>1. Account(u) \in DOMAIN draft[t]
      BY <2>1, <2>3 DEF RowInv, Founds
    <3>2. ~Refers(draft[t], Member(u), u)
      BY <2>3, <3>1 DEF RowInv, Deletes
    <3>3. ~draft[t][Member(u)].joined
      BY <3>2 DEF Refers
    <3>. QED
      BY <1>1, <2>3, <3>3, InRow
  <2>. QED
    BY <2>2, <2>3
<1>13. NoneLeft'
  <2>. SUFFICES ASSUME NEW u \in User, ~db'[Account(u)], NEW r \in Row, Refers(db', r, u)
                PROVE  FALSE
    BY DEF NoneLeft
  <2>1. CASE Account(u) \in DOMAIN draft[t]
    BY <1>4, <2>1 DEF RowInv, Deletes
  <2>2. CASE Account(u) \notin DOMAIN draft[t]
    <3>1. ~db[Account(u)]
      BY <1>1, <2>2, InRow
    <3>2. u \notin shared[t] /\ ~Refers(db, r, u)
      BY <3>1 DEF RowInv, Shares, NoneLeft
    <3>. QED
      BY <1>5, <3>2
  <2>. QED
    BY <2>1, <2>2
<1>. QED
  BY <1>2, <1>7, <1>8, <1>9, <1>10, <1>11, <1>12, <1>13 DEF RowInv

-----------------------------------------------------------------------------
(* The statements that write one row.                                      *)
Waits(t, r) == \A s \in Tx : s # t => r \notin DOMAIN draft[s]

LEMMA OneKeepsRows ==
  ASSUME RowInv, TypeInv, TypeInv', NEW t \in Tx, NEW r, NEW row, NEW next,
         Write(t, One(r, row), next), Waits(t, r), at[t] # "commit", next # "addMember",
         \A u \in User : r # Account(u),
         \/ shared' = shared /\ (shared[t] # {} => next \in Sharers)
         \/ /\ \E users : shared' = [shared EXCEPT ![t] = users]
            /\ shared[t] = {} /\ next \in Sharers
            /\ \A u \in shared'[t] : db[Account(u)] /\ Waits(t, Account(u)),
         \A u \in User : Refers(One(r, row), r, u) => u \in shared'[t] \/ Refers(db, r, u),
         next = "addOwner" => r = Channel /\ request[t].u \in shared'[t],
         \A u \in User : r = Member(u) => Held(t) \/ db[Channel].status # "absent"
  PROVE  RowInv'
<1>1. Moves(t, One(r, row), next)
  BY WriteMoves
<1>2. DOMAIN One(r, row) = {r}
  BY OneDomain
<1>3. SharesNoMore(t, next) \/ StartsToShare(t, next)
  <2>1. CASE shared' = shared
    BY <2>1 DEF SharesNoMore, StartsToShare
  <2>2. CASE shared' # shared
    <3>1. shared'[t] \subseteq User
      BY DEF TypeInv, TypeOK
    <3>2. /\ shared[t] = {} /\ next \in Sharers
          /\ \A u \in shared'[t] : db[Account(u)] /\ Waits(t, Account(u))
      BY <2>2
    <3>3. \A u \in shared'[t] : \A s \in Tx : Account(u) \notin DOMAIN draft[s]
      BY <3>1, <3>2, OwnAccount DEF Waits
    <3>. QED
      BY <3>2, <3>3 DEF StartsToShare
  <2>. QED
    BY <2>1, <2>2
<1>4. Careful(t, One(r, row), next)
  BY <1>2, <1>3 DEF Careful, Waits
<1>. QED
  BY <1>1, <1>4, MoveKeepsRows

(* What one row refers to.                                                 *)
LEMMA OneRefers ==
  /\ \A row, u : Refers(One(Channel, row), Channel, u) <=> row.creator = u
  /\ \A row, m, u : m \in Message =>
       (Refers(One(Msg(m), row), Msg(m), u) <=> row.author = u)
  /\ \A row, v, u : Refers(One(Member(v), row), Member(v), u) => u = v /\ row.joined
  /\ \A row, m, v, u :
       Refers(One(Reaction(m, v), row), Reaction(m, v), u) => u = v /\ row = TRUE
<1>1. \A r, row : One(r, row)[r] = row
  BY OneDomain
<1>. QED
  BY <1>1, RowsDistinct, KeysDistinct DEF Refers

LEMMA DbRefers ==
  /\ \A u : Refers(db, Channel, u) <=> db[Channel].creator = u
  /\ \A m \in Message : \A u : Refers(db, Msg(m), u) <=> db[Msg(m)].author = u
  /\ \A u : db[Member(u)].joined => Refers(db, Member(u), u)
  /\ \A m \in Message : \A u : db[Reaction(m, u)] = TRUE => Refers(db, Reaction(m, u), u)
BY RowsDistinct, KeysDistinct DEF Refers

(* t's version of a row refers to whoever t shares or the row refers to.   *)
LEMMA SeenRefers ==
  ASSUME RowInv, NEW t \in Tx, NEW u \in User
  PROVE  /\ Seen(t, Channel).creator = u => u \in shared[t] \/ Refers(db, Channel, u)
         /\ \A m \in Message :
              Seen(t, Msg(m)).author = u => u \in shared[t] \/ Refers(db, Msg(m), u)
<1>1. Seen(t, Channel).creator = u => u \in shared[t] \/ Refers(db, Channel, u)
  <2>1. CASE Channel \in DOMAIN draft[t]
    <3>1. Seen(t, Channel) = draft[t][Channel]
      BY <2>1 DEF Seen
    <3>2. draft[t][Channel].creator = u => Refers(draft[t], Channel, u)
      BY DEF Refers
    <3>. QED
      BY <2>1, <3>1, <3>2 DEF RowInv, Adds
  <2>2. CASE Channel \notin DOMAIN draft[t]
    BY <2>2, DbRefers DEF Seen
  <2>. QED
    BY <2>1, <2>2
<1>2. ASSUME NEW m \in Message, Seen(t, Msg(m)).author = u
      PROVE  u \in shared[t] \/ Refers(db, Msg(m), u)
  <2>1. CASE Msg(m) \in DOMAIN draft[t]
    <3>1. Seen(t, Msg(m)) = draft[t][Msg(m)]
      BY <2>1 DEF Seen
    <3>2. Refers(draft[t], Msg(m), u)
      BY <1>2, <3>1 DEF Refers
    <3>. QED
      BY <2>1, <3>2 DEF RowInv, Adds
  <2>2. CASE Msg(m) \notin DOMAIN draft[t]
    BY <1>2, <2>2, DbRefers DEF Seen
  <2>. QED
    BY <2>1, <2>2
<1>. QED
  BY <1>1, <1>2

LEMMA ChannelStatementRows ==
  ASSUME RowInv, ChannelInv, NEW t \in Tx, ChannelStatement(t)
  PROVE  RowInv'
<1>0. TypeInv /\ TypeInv' /\ db[Channel] \in ChannelRow
  BY ChannelStatementTyped, DbTyped DEF ChannelInv, TypeInv
<1>1. CASE InsertIfAbsent(t)
  <2>1. Running(t) /\ at[t] = "insertIfAbsent" /\ request[t].op = "create"
    BY <1>0, <1>1, OpAt, RunsRunning DEF InsertIfAbsent
  <2>2. CASE Quit(t)
    BY <1>0, <2>2, QuitKeepsRows
  <2>3. CASE ~Quit(t)
    <3> DEFINE u == request[t].u
               row == [status |-> "live", seq |-> 0, creator |-> u]
               next == IF u = None THEN "commit" ELSE "addOwner"
    <3>1. /\ Write(t, One(Channel, row), next) /\ Runs(t, "insertIfAbsent")
          /\ db[Channel].status = "absent" /\ Referable(u)
          /\ shared' = [shared EXCEPT ![t] = {u} \ {None}]
      BY <1>1, <2>3 DEF InsertIfAbsent
    <3>2. {Channel, Account(u)} \subseteq Wants(t)
      BY <2>1, <3>1 DEF Wants
    <3>3. Waits(t, Channel) /\ Waits(t, Account(u))
      BY <3>1, <3>2, Waited DEF Waits
    <3>4. shared[t] = {} /\ shared'[t] = {u} \ {None}
      BY <1>0, <2>1, <3>1, NothingShared DEF Sharers, TypeInv, TypeOK
    <3>5. \A v \in shared'[t] : db[Account(v)] /\ Waits(t, Account(v))
      BY <3>1, <3>3, <3>4 DEF Referable
    <3>6. next \in Sharers /\ next # "addMember"
          /\ (next = "addOwner" => u \in shared'[t])
      BY <3>4 DEF Sharers
    <3>7. \A v \in User : Refers(One(Channel, row), Channel, v) => v \in shared'[t]
      BY <3>4, OneRefers, StoreAssumption
    <3>8. \A v \in User : Channel # Account(v) /\ Channel # Member(v)
      BY RowsDistinct
    <3> HIDE DEF row, next
    <3>. QED
      BY <1>0, <2>1, <3>1, <3>3, <3>4, <3>5, <3>6, <3>7, <3>8, OneKeepsRows
  <2>. QED
    BY <2>2, <2>3
<1>2. CASE AddOwner(t)
  <2>1. Running(t) /\ at[t] = "addOwner" /\ request[t].op = "create"
    BY <1>0, <1>2, OpAt, RunsRunning DEF AddOwner
  <2> DEFINE u == request[t].u
             row == [joined |-> TRUE, read |-> 0]
  <2>2. Write(t, One(Member(u), row), "commit") /\ shared' = shared
    BY <1>2 DEF AddOwner
  <2>3. u \in User /\ Held(t) /\ u \in shared[t]
    BY <1>0, <2>1, RequestTyped DEF RowInv, Founds, TypeInv, Positioned
  <2>4. db[Channel].status = "absent"
    BY <2>1, <2>3 DEF ChannelInv, Turn, Ahead, Changes
  <2>5. Waits(t, Member(u))
    <3>. SUFFICES ASSUME NEW s \in Tx, s # t, Member(u) \in DOMAIN draft[s] PROVE FALSE
      BY DEF Waits
    <3>1. ~Held(s)
      BY <2>3 DEF ChannelInv, Exclusive
    <3>2. Account(u) \notin DOMAIN draft[s]
      BY <2>3 DEF RowInv, Shares
    <3>. QED
      BY <2>3, <2>4, <3>1, <3>2 DEF RowInv, Founds
  <2>6. "commit" \in Sharers
    BY DEF Sharers
  <2>7. \A v \in User : Refers(One(Member(u), row), Member(u), v) => v \in shared[t]
    BY <2>3, OneRefers
  <2>8. \A v \in User : Member(u) # Account(v)
    BY RowsDistinct
  <2> HIDE DEF row
  <2>. QED
    BY <1>0, <2>1, <2>2, <2>3, <2>5, <2>6, <2>7, <2>8, OneKeepsRows
<1>3. ASSUME UpdateChannel(t) \/ SoftDeleteChannel(t) PROVE RowInv'
  <2>1. at[t] \in {"updateChannel", "softDeleteChannel"}
    BY <1>3 DEF UpdateChannel, SoftDeleteChannel, Runs
  <2>2. CASE Quit(t)
    BY <1>0, <2>2, QuitKeepsRows
  <2>3. CASE ~Quit(t)
    <3>1. PICK status : /\ Write(t, One(Channel, [db[Channel] EXCEPT !.status = status]), "persist")
                        /\ db[Channel].status \in Open /\ Runs(t, at[t])
                        /\ shared' = shared
      <4>1. CASE UpdateChannel(t)
        BY <2>3, <4>1 DEF UpdateChannel, Runs
      <4>2. CASE SoftDeleteChannel(t)
        BY <2>3, <4>2 DEF SoftDeleteChannel, Runs
      <4>. QED
        BY <1>3, <4>1, <4>2
    <3> DEFINE row == [db[Channel] EXCEPT !.status = status]
    <3>2. Channel \in Wants(t)
      BY <2>1, <3>1 DEF Wants
    <3>3. Waits(t, Channel)
      BY <3>1, <3>2, Waited DEF Waits
    <3>4. row.creator = db[Channel].creator
      BY <1>0 DEF ChannelRow
    <3>5. \A v \in User : Refers(One(Channel, row), Channel, v) => Refers(db, Channel, v)
      BY <3>4, OneRefers, DbRefers
    <3>6. \A v \in User : Channel # Account(v) /\ Channel # Member(v)
      BY RowsDistinct
    <3>7. "persist" \in Sharers
      BY DEF Sharers
    <3>8. Write(t, One(Channel, row), "persist") /\ shared' = shared
      BY <3>1
    <3> HIDE DEF row
    <3>. QED
      BY <1>0, <2>1, <3>3, <3>5, <3>6, <3>7, <3>8, OneKeepsRows
  <2>. QED
    BY <2>2, <2>3
<1>. QED
  BY <1>1, <1>2, <1>3 DEF ChannelStatement

LEMMA SendStatementRows ==
  ASSUME RowInv, ChannelInv, NEW t \in Tx,
         BumpSeqForMessage(t) \/ InsertMessage(t) \/ IncrementReplyCount(t)
  PROVE  RowInv'
<1>0. TypeInv /\ TypeInv' /\ db[Channel] \in ChannelRow
  BY SendStatementTyped, DbTyped DEF ChannelInv, TypeInv
<1>1. CASE BumpSeqForMessage(t)
  <2>1. Running(t) /\ at[t] = "bumpSeqForMessage" /\ request[t].op = "send"
    BY <1>0, <1>1, OpAt, RunsRunning DEF BumpSeqForMessage
  <2>2. CASE Quit(t)
    BY <1>0, <2>2, QuitKeepsRows
  <2>3. CASE ~Quit(t)
    <3>1. /\ Write(t, One(Channel, Bumped(t)), "insertMessage") /\ Runs(t, "bumpSeqForMessage")
          /\ Sendable /\ shared' = shared
      BY <1>1, <2>3 DEF BumpSeqForMessage
    <3>2. Channel \in Wants(t)
      BY <2>1, <3>1 DEF Wants
    <3>3. Waits(t, Channel)
      BY <3>1, <3>2, Waited DEF Waits
    <3>4. shared[t] = {}
      BY <2>1, NothingShared DEF Sharers
    <3>5. Bumped(t).creator = Seen(t, Channel).creator
      BY <1>0, SeenTyped DEF TypeInv, Bumped, ChannelRow
    <3>6. \A v \in User : Refers(One(Channel, Bumped(t)), Channel, v) => Refers(db, Channel, v)
      BY <3>4, <3>5, OneRefers, SeenRefers
    <3>7. \A v \in User : Channel # Account(v) /\ Channel # Member(v)
      BY RowsDistinct
    <3>. QED
      BY <1>0, <2>1, <3>1, <3>3, <3>4, <3>6, <3>7, OneKeepsRows
  <2>. QED
    BY <2>2, <2>3
<1>2. CASE InsertMessage(t)
  <2>1. Running(t) /\ at[t] = "insertMessage" /\ request[t].op = "send"
    BY <1>0, <1>2, OpAt, RunsRunning DEF InsertMessage
  <2>2. /\ request[t].m \in Message
        /\ request[t].u \in User \cup {None}
    BY <1>0, <2>1, RequestTyped DEF TypeInv, Positioned
  <2>3. CASE Quit(t)
    BY <1>0, <2>3, QuitKeepsRows
  <2>4. CASE ~Quit(t)
    <3> DEFINE m == request[t].m
               u == request[t].u
               row == [seq |-> Seen(t, Channel).seq, author |-> u, parent |-> request[t].p,
                       replies |-> 0, text |-> TRUE, deleted |-> FALSE]
               next == IF request[t].p = None THEN "commit" ELSE "incrementReplyCount"
    <3>1. /\ Write(t, One(Msg(m), row), next) /\ Runs(t, "insertMessage")
          /\ Referable(u)
          /\ shared' = [shared EXCEPT ![t] = {u} \ {None}]
      BY <1>2, <2>4 DEF InsertMessage, Insertable
    <3>2. {Msg(m), Account(u)} \subseteq Wants(t)
      BY <2>1 DEF Wants
    <3>3. Waits(t, Msg(m)) /\ Waits(t, Account(u))
      BY <3>1, <3>2, Waited DEF Waits
    <3>4. shared[t] = {} /\ shared'[t] = {u} \ {None}
      BY <1>0, <2>1, <3>1, NothingShared DEF Sharers, TypeInv, TypeOK
    <3>5. \A v \in shared'[t] : db[Account(v)] /\ Waits(t, Account(v))
      BY <3>1, <3>3, <3>4 DEF Referable
    <3>6. next \in Sharers /\ next # "addMember" /\ next # "addOwner"
      BY DEF Sharers
    <3>7. \A v \in User : Refers(One(Msg(m), row), Msg(m), v) => v \in shared'[t]
      BY <2>2, <3>4, OneRefers, StoreAssumption
    <3>8. \A v \in User : Msg(m) # Account(v) /\ Msg(m) # Member(v)
      BY RowsDistinct
    <3> HIDE DEF row, next, m
    <3>. QED
      BY <1>0, <2>1, <3>1, <3>3, <3>4, <3>5, <3>6, <3>7, <3>8, OneKeepsRows
  <2>. QED
    BY <2>3, <2>4
<1>3. CASE IncrementReplyCount(t)
  <2>1. Running(t) /\ at[t] = "incrementReplyCount" /\ request[t].op = "send"
    BY <1>0, <1>3, OpAt, RunsRunning DEF IncrementReplyCount
  <2> DEFINE p == request[t].p
             row == Replied(Seen(t, Msg(p)))
  <2>2. p \in Message
    BY <1>0, <2>1, RequestTyped DEF TypeInv, Positioned
  <2>3. /\ Write(t, One(Msg(p), row), "commit") /\ Runs(t, "incrementReplyCount")
        /\ shared' = shared
    BY <1>3 DEF IncrementReplyCount
  <2>4. Msg(p) \in Wants(t)
    BY <2>1 DEF Wants
  <2>5. Waits(t, Msg(p))
    BY <2>3, <2>4, Waited DEF Waits
  <2>6. row.author = Seen(t, Msg(p)).author
    BY <1>0, <2>2, SeenTyped DEF TypeInv, Replied, MessageRow
  <2>7. \A v \in User : Refers(One(Msg(p), row), Msg(p), v) => v \in shared[t] \/ Refers(db, Msg(p), v)
    BY <2>2, <2>6, OneRefers, SeenRefers
  <2>8. \A v \in User : Msg(p) # Account(v) /\ Msg(p) # Member(v)
    BY RowsDistinct
  <2>9. "commit" \in Sharers
    BY DEF Sharers
  <2> HIDE DEF row, p
  <2>. QED
    BY <1>0, <2>1, <2>3, <2>5, <2>7, <2>8, <2>9, OneKeepsRows
<1>. QED
  BY <1>1, <1>2, <1>3

(* A statement that rewrites message m from t's version or the committed   *)
(* one, its author with it.                                                *)
LEMMA MessageKeepsRows ==
  ASSUME RowInv, ChannelInv, TypeInv', NEW t \in Tx, NEW m \in Message, NEW row, NEW next,
         NEW statement, Runs(t, statement), statement # "commit", Msg(m) \in Wants(t),
         Write(t, One(Msg(m), row), next), shared' = shared,
         statement \notin Sharers \/ next \in Sharers,
         next \notin {"addOwner", "addMember"},
         row.author \in {db[Msg(m)].author, Seen(t, Msg(m)).author}
  PROVE  RowInv'
<1>1. TypeInv /\ at[t] = statement
  BY DEF ChannelInv, Runs
<1>2. Waits(t, Msg(m))
  BY Waited DEF Waits
<1>3. shared[t] # {} => next \in Sharers
  BY <1>1, NothingShared
<1>4. \A v \in User : Refers(One(Msg(m), row), Msg(m), v) => v \in shared[t] \/ Refers(db, Msg(m), v)
  BY OneRefers, DbRefers, SeenRefers
<1>5. \A v \in User : Msg(m) # Account(v) /\ Msg(m) # Member(v)
  BY RowsDistinct
<1>. QED
  BY <1>1, <1>2, <1>3, <1>4, <1>5, OneKeepsRows

LEMMA ChangeStatementRows ==
  ASSUME RowInv, ChannelInv, NEW t \in Tx,
         \/ UpdateMessage(t) \/ SoftDeleteMessage(t) \/ DecrementReplyCount(t)
         \/ WithAttachment(t) \/ SetAttachments(t)
  PROVE  RowInv'
<1>0. TypeInv /\ TypeInv'
  BY ChangeStatementTyped DEF ChannelInv
<1>00. "persist" \in Sharers
  BY DEF Sharers
<1>1. CASE UpdateMessage(t)
  <2>1. Running(t) /\ at[t] = "updateMessage" /\ request[t].op = "edit"
    BY <1>0, <1>1, OpAt, RunsRunning DEF UpdateMessage
  <2>2. request[t].m \in Message
    BY <1>0, <2>1, RequestTyped DEF TypeInv, Positioned
  <2>3. CASE Quit(t)
    BY <1>0, <2>3, QuitKeepsRows
  <2>4. CASE ~Quit(t)
    <3> DEFINE m == request[t].m
               row == [db[Msg(m)] EXCEPT !.text = TRUE]
    <3>1. /\ Write(t, One(Msg(m), row), "persist") /\ Runs(t, "updateMessage")
          /\ Live(m) /\ shared' = shared
      BY <1>1, <2>4 DEF UpdateMessage
    <3>2. Msg(m) \in Wants(t)
      BY <2>1, <3>1 DEF Wants
    <3>3. row.author = db[Msg(m)].author
      BY <1>0, <2>2, DbTyped DEF TypeInv, MessageRow
    <3> HIDE DEF row, m
    <3>. QED
      BY <1>0, <1>00, <2>2, <3>1, <3>2, <3>3, MessageKeepsRows DEF m
  <2>. QED
    BY <2>3, <2>4
<1>2. CASE SoftDeleteMessage(t)
  <2>1. Running(t) /\ at[t] = "softDeleteMessage" /\ request[t].op = "delete"
    BY <1>0, <1>2, OpAt, RunsRunning DEF SoftDeleteMessage
  <2>2. request[t].m \in Message
    BY <1>0, <2>1, RequestTyped DEF TypeInv, Positioned
  <2>3. CASE Quit(t)
    BY <1>0, <2>3, QuitKeepsRows
  <2>4. CASE ~Quit(t)
    <3> DEFINE m == request[t].m
               row == [db[Msg(m)] EXCEPT !.deleted = TRUE, !.text = FALSE]
               next == IF db[Msg(m)].parent = None THEN "persist" ELSE "decrementReplyCount"
    <3>1. /\ Write(t, One(Msg(m), row), next) /\ Runs(t, "softDeleteMessage")
          /\ Live(m) /\ shared' = shared
      BY <1>2, <2>4 DEF SoftDeleteMessage
    <3>2. Msg(m) \in Wants(t)
      BY <2>1, <3>1 DEF Wants
    <3>3. row.author = db[Msg(m)].author
      BY <1>0, <2>2, DbTyped DEF TypeInv, MessageRow
    <3>4. next \notin {"addOwner", "addMember"} /\ "softDeleteMessage" \notin Sharers
      BY DEF Sharers
    <3> HIDE DEF row, m, next
    <3>. QED
      BY <1>0, <2>2, <3>1, <3>2, <3>3, <3>4, MessageKeepsRows DEF m
  <2>. QED
    BY <2>3, <2>4
<1>3. CASE DecrementReplyCount(t)
  <2>1. Running(t) /\ at[t] = "decrementReplyCount" /\ request[t].op = "delete"
    BY <1>0, <1>3, OpAt, RunsRunning DEF DecrementReplyCount
  <2>2. request[t].m \in Message
    BY <1>0, <2>1, RequestTyped DEF TypeInv, Positioned
  <2> DEFINE p == Seen(t, Msg(request[t].m)).parent
             row == [Seen(t, Msg(p)) EXCEPT !.replies = IF @ > 0 THEN @ - 1 ELSE 0]
  <2>3. p \in Message
    <3>1. Seen(t, Msg(request[t].m)) \in MessageRow
      BY <1>0, <2>2, SeenTyped DEF TypeInv
    <3>2. p # None
      BY <1>0, <2>1 DEF TypeInv, Positioned, Seen
    <3>. QED
      BY <3>1, <3>2 DEF MessageRow
  <2>4. /\ Write(t, One(Msg(p), row), "persist") /\ Runs(t, "decrementReplyCount")
        /\ shared' = shared
    BY <1>3 DEF DecrementReplyCount
  <2>5. Msg(p) \in Wants(t)
    BY <2>1 DEF Wants
  <2> HIDE DEF p
  <2>6. row.author = Seen(t, Msg(p)).author
    <3>1. Seen(t, Msg(p)) \in MessageRow
      BY <1>0, <2>3, SeenTyped DEF TypeInv
    <3>. QED
      BY <3>1 DEF MessageRow
  <2> HIDE DEF row
  <2>. QED
    BY <1>0, <1>00, <2>3, <2>4, <2>5, <2>6, MessageKeepsRows
<1>4. CASE WithAttachment(t)
  <2>1. at[t] = "withAttachment"
    BY <1>4 DEF WithAttachment, Runs
  <2>2. CASE Quit(t)
    BY <1>0, <2>2, QuitKeepsRows
  <2>3. CASE ~Quit(t)
    BY <1>0, <1>4, <2>1, <2>3, NothingShared, ReadKeepsRows DEF WithAttachment, Sharers
  <2>. QED
    BY <2>2, <2>3
<1>5. CASE SetAttachments(t)
  <2>1. Running(t) /\ at[t] = "setAttachments" /\ request[t].op = "thumbnail"
    BY <1>0, <1>5, OpAt, RunsRunning DEF SetAttachments
  <2>2. request[t].m \in Message
    BY <1>0, <2>1, RequestTyped DEF TypeInv, Positioned
  <2> DEFINE m == request[t].m
             row == db[Msg(m)]
  <2>3. /\ Write(t, One(Msg(m), row), "persist") /\ Runs(t, "setAttachments")
        /\ shared' = shared
    BY <1>5 DEF SetAttachments
  <2>4. Msg(m) \in Wants(t)
    BY <2>1 DEF Wants
  <2>. QED
    BY <1>0, <1>00, <2>2, <2>3, <2>4, MessageKeepsRows
<1>. QED
  BY <1>1, <1>2, <1>3, <1>4, <1>5

LEMMA MembershipRows ==
  ASSUME RowInv, ChannelInv, NEW t \in Tx,
         GetChannel(t) \/ AddMember(t) \/ RemoveMember(t) \/ TargetSeq(t) \/ MarkRead(t)
  PROVE  RowInv'
<1>0. TypeInv /\ TypeInv'
  BY MembershipTyped DEF ChannelInv
<1>00. "persist" \in Sharers /\ \A u : Channel # Member(u) /\ \A v \in User : Member(u) # Account(v)
  BY RowsDistinct DEF Sharers
<1>1. CASE GetChannel(t)
  <2>1. at[t] = "getChannel"
    BY <1>1 DEF GetChannel, Runs
  <2>2. CASE Quit(t)
    BY <1>0, <2>2, QuitKeepsRows
  <2>3. CASE ~Quit(t)
    <3>1. Read(t, "addMember") /\ db[Channel].status # "absent"
      BY <1>1, <2>3 DEF GetChannel, Open
    <3>. QED
      BY <1>0, <2>1, <3>1, NothingShared, ReadKeepsRows DEF Sharers
  <2>. QED
    BY <2>2, <2>3
<1>2. CASE AddMember(t)
  <2>1. Running(t) /\ at[t] = "addMember" /\ request[t].op = "addMember"
    BY <1>0, <1>2, OpAt, RunsRunning DEF AddMember
  <2>2. request[t].u \in User
    BY <1>0, <2>1, RequestTyped DEF TypeInv, Positioned
  <2>3. CASE Quit(t)
    BY <1>0, <2>3, QuitKeepsRows
  <2>4. CASE ~Quit(t)
    <3> DEFINE u == request[t].u
               row == [joined |-> TRUE, read |-> 0]
    <3>1. /\ Write(t, One(Member(u), row), "persist") /\ Runs(t, "addMember")
          /\ Addable(u) /\ shared' = [shared EXCEPT ![t] = {u}]
      BY <1>2, <2>4 DEF AddMember
    <3>2. {Member(u), Account(u)} \subseteq Wants(t)
      BY <2>1 DEF Wants
    <3>3. Waits(t, Member(u)) /\ Waits(t, Account(u))
      BY <3>1, <3>2, Waited DEF Waits
    <3>4. shared[t] = {} /\ shared'[t] = {u}
      BY <1>0, <2>1, <3>1, NothingShared DEF Sharers, TypeInv, TypeOK
    <3>5. \A v \in shared'[t] : db[Account(v)] /\ Waits(t, Account(v))
      BY <3>1, <3>3, <3>4 DEF Addable
    <3>6. \A v \in User : Refers(One(Member(u), row), Member(u), v) => v \in shared'[t]
      BY <3>4, OneRefers
    <3>7. db[Channel].status # "absent"
      BY <2>1 DEF RowInv, Founds
    <3> HIDE DEF row, u
    <3>. QED
      BY <1>0, <1>00, <2>1, <3>1, <3>3, <3>4, <3>5, <3>6, <3>7, OneKeepsRows
  <2>. QED
    BY <2>3, <2>4
<1>3. ASSUME RemoveMember(t) \/ MarkRead(t) PROVE RowInv'
  <2>1. Running(t) /\ at[t] \in {"removeMember", "markRead"}
        /\ request[t].op \in {"removeMember", "markRead"}
    BY <1>0, <1>3, OpAt, RunsRunning DEF RemoveMember, MarkRead
  <2>2. request[t].u \in User
    BY <1>0, <2>1, RequestTyped DEF TypeInv, Positioned
  <2>3. CASE Quit(t)
    BY <1>0, <2>3, QuitKeepsRows
  <2>4. CASE ~Quit(t)
    <3> DEFINE u == request[t].u
    <3>1. PICK row : /\ Write(t, One(Member(u), row), "persist") /\ Runs(t, at[t])
                     /\ db[Member(u)].joined /\ shared' = shared
      <4>1. CASE RemoveMember(t)
        BY <2>4, <4>1 DEF RemoveMember, Runs
      <4>2. CASE MarkRead(t)
        BY <2>4, <4>2 DEF MarkRead, Runs
      <4>. QED
        BY <1>3, <4>1, <4>2
    <3>2. Member(u) \in Wants(t)
      BY <2>1, <3>1 DEF Wants
    <3>3. Waits(t, Member(u))
      BY <3>1, <3>2, Waited DEF Waits
    <3>4. \A v \in User : Refers(One(Member(u), row), Member(u), v) => Refers(db, Member(u), v)
      BY <3>1, OneRefers, DbRefers
    <3>5. db[Channel].status # "absent"
      BY <2>2, <3>1 DEF RowInv, NobodyYet
    <3> HIDE DEF u
    <3>. QED
      BY <1>0, <1>00, <2>1, <3>1, <3>3, <3>4, <3>5, OneKeepsRows
  <2>. QED
    BY <2>3, <2>4
<1>4. CASE TargetSeq(t)
  <2>1. at[t] = "targetSeq"
    BY <1>4 DEF TargetSeq, Runs
  <2>2. CASE Quit(t)
    BY <1>0, <2>2, QuitKeepsRows
  <2>3. CASE ~Quit(t)
    <3>1. Read(t, "markRead")
      BY <1>4, <2>3 DEF TargetSeq
    <3>. QED
      BY <1>0, <2>1, <3>1, NothingShared, ReadKeepsRows DEF Sharers
  <2>. QED
    BY <2>2, <2>3
<1>. QED
  BY <1>1, <1>2, <1>3, <1>4

LEMMA ReactionRows ==
  ASSUME RowInv, ChannelInv, NEW t \in Tx,
         ExistsInChannel(t) \/ AddReaction(t) \/ RemoveReaction(t) \/ CountsByType(t)
  PROVE  RowInv'
<1>0. TypeInv /\ TypeInv'
  BY ReactionTyped DEF ChannelInv
<1>00. /\ "countsByType" \in Sharers
       /\ \A m, u : \A v \in User : Reaction(m, u) # Account(v) /\ Reaction(m, u) # Member(v)
  BY RowsDistinct DEF Sharers
<1>1. CASE ExistsInChannel(t)
  <2>1. at[t] = "existsInChannel"
    BY <1>1 DEF ExistsInChannel, Runs
  <2>2. CASE Quit(t)
    BY <1>0, <2>2, QuitKeepsRows
  <2>3. CASE ~Quit(t)
    <3>1. Read(t, "addReaction") \/ Read(t, "removeReaction")
      BY <1>1, <2>3 DEF ExistsInChannel
    <3>. QED
      BY <1>0, <2>1, <3>1, NothingShared, ReadKeepsRows DEF Sharers
  <2>. QED
    BY <2>2, <2>3
<1>2. CASE AddReaction(t)
  <2>1. Running(t) /\ at[t] = "addReaction" /\ request[t].op = "react"
    BY <1>0, <1>2, OpAt, RunsRunning DEF AddReaction
  <2>2. CASE Quit(t)
    BY <1>0, <2>2, QuitKeepsRows
  <2>3. CASE ~Quit(t)
    <3> DEFINE u == request[t].u
               r == Reaction(request[t].m, u)
               row == TRUE
    <3>1. /\ Write(t, One(r, row), "countsByType") /\ Runs(t, "addReaction")
          /\ Reactable(request[t].m, u) /\ shared' = [shared EXCEPT ![t] = {u}]
      BY <1>2, <2>3 DEF AddReaction
    <3>2. {r, Account(u)} \subseteq Wants(t)
      BY <2>1 DEF Wants
    <3>3. Waits(t, r) /\ Waits(t, Account(u))
      BY <3>1, <3>2, Waited DEF Waits
    <3>4. shared[t] = {} /\ shared'[t] = {u}
      BY <1>0, <2>1, <3>1, NothingShared DEF Sharers, TypeInv, TypeOK
    <3>5. \A v \in shared'[t] : db[Account(v)] /\ Waits(t, Account(v))
      BY <3>1, <3>3, <3>4 DEF Reactable
    <3>6. \A any : \A v \in User : Refers(One(r, any), r, v) => v \in shared'[t]
      BY <3>4, OneRefers
    <3>7. \A v \in User : r # Account(v) /\ r # Member(v)
      BY <1>00
    <3> HIDE DEF row, u, r
    <3>. QED
      BY <1>0, <1>00, <2>1, <3>1, <3>3, <3>4, <3>5, <3>6, <3>7, OneKeepsRows
  <2>. QED
    BY <2>2, <2>3
<1>3. CASE RemoveReaction(t)
  <2>1. Running(t) /\ at[t] = "removeReaction" /\ request[t].op = "unreact"
    BY <1>0, <1>3, OpAt, RunsRunning DEF RemoveReaction
  <2>2. CASE Quit(t)
    BY <1>0, <2>2, QuitKeepsRows
  <2>3. CASE ~Quit(t)
    <3> DEFINE r == Reaction(request[t].m, request[t].u)
               row == FALSE
    <3>1. /\ Write(t, One(r, row), "countsByType") /\ Runs(t, "removeReaction")
          /\ db[r] /\ shared' = shared
      BY <1>3, <2>3 DEF RemoveReaction
    <3>2. r \in Wants(t)
      BY <2>1, <3>1 DEF Wants
    <3>3. Waits(t, r)
      BY <3>1, <3>2, Waited DEF Waits
    <3>4. \A v \in User : ~Refers(One(r, row), r, v)
      BY OneRefers
    <3>5. \A v \in User : r # Account(v) /\ r # Member(v)
      BY <1>00
    <3> HIDE DEF row, r
    <3>. QED
      BY <1>0, <1>00, <2>1, <3>1, <3>3, <3>4, <3>5, OneKeepsRows
  <2>. QED
    BY <2>2, <2>3
<1>4. CASE CountsByType(t)
  <2>1. at[t] = "countsByType" /\ Read(t, "persist") /\ "persist" \in Sharers
    BY <1>4 DEF CountsByType, Runs, Sharers
  <2>. QED
    BY <1>0, <2>1, ReadKeepsRows
<1>. QED
  BY <1>1, <1>2, <1>3, <1>4

(* Deleting a user: everything that refers to them is rewritten.           *)
Deletion(t, u) ==
  [r \in DOMAIN Cascaded(t, u) \cup DOMAIN Nulled(t, u) |->
     IF r \in DOMAIN Cascaded(t, u) THEN Cascaded(t, u)[r] ELSE Nulled(t, u)[r]]

LEMMA DeletionRows ==
  ASSUME TypeInv, NEW t \in Tx, NEW u \in User
  PROVE  /\ \A r \in Row : Refers(db, r, u) => r \in DOMAIN Deletion(t, u)
         /\ \A v \in User, r \in DOMAIN Deletion(t, u) : ~Refers(Deletion(t, u), r, v)
         /\ \A v \in User : Account(v) \in DOMAIN Deletion(t, u) => v = u
         /\ \A v \in User : Member(v) \in DOMAIN Deletion(t, u) => v = u
         /\ Account(u) \in DOMAIN Deletion(t, u)
<1> DEFINE cascaded == Cascaded(t, u)
           nulled == Nulled(t, u)
           rows == Deletion(t, u)
<1>1. DOMAIN cascaded = {Account(u), Member(u)} \cup {Reaction(m, u) : m \in Message}
  BY DEF Cascaded
<1>2. DOMAIN nulled = {Msg(m) : m \in Authored(u)}
                        \cup (IF db[Channel].creator = u THEN {Channel} ELSE {})
  BY DEF Nulled
<1>3. \A r \in DOMAIN cascaded : cascaded[r] = IF r = Member(u) THEN NoMember ELSE FALSE
  BY <1>1 DEF Cascaded
<1>4. \A r \in DOMAIN nulled :
        nulled[r] = IF r = Channel THEN [db[Channel] EXCEPT !.creator = None]
                                   ELSE [Seen(t, r) EXCEPT !.author = None]
  BY <1>2 DEF Nulled
<1>0. rows = [r \in DOMAIN cascaded \cup DOMAIN nulled |->
                IF r \in DOMAIN cascaded THEN cascaded[r] ELSE nulled[r]]
  BY DEF Deletion
<1> HIDE DEF cascaded, nulled, rows
<1>5. /\ DOMAIN rows = DOMAIN cascaded \cup DOMAIN nulled
      /\ \A r \in DOMAIN cascaded : rows[r] = cascaded[r]
      /\ \A r \in DOMAIN nulled : r \notin DOMAIN cascaded => rows[r] = nulled[r]
  BY <1>0
<1>6. ASSUME NEW r \in Row, Refers(db, r, u) PROVE r \in DOMAIN rows
  <2>1. CASE r = Member(u) \/ \E m \in Message : r = Reaction(m, u)
    BY <1>1, <1>5, <2>1
  <2>2. CASE r = Channel /\ db[r].creator = u
    BY <1>2, <1>5, <2>2
  <2>3. CASE \E m \in Message : r = Msg(m) /\ db[r].author = u
    BY <1>2, <1>5, <2>3 DEF Authored
  <2>. QED
    BY <1>6, <2>1, <2>2, <2>3 DEF Refers
<1>7. ASSUME NEW v \in User
      PROVE  /\ Account(v) \in DOMAIN rows => v = u
             /\ Member(v) \in DOMAIN rows => v = u
  <2>1. Account(v) \notin DOMAIN nulled /\ Member(v) \notin DOMAIN nulled
    BY <1>2, RowsDistinct
  <2>2. Account(v) \in DOMAIN cascaded => v = u
    BY <1>1, RowsDistinct, KeysDistinct
  <2>3. Member(v) \in DOMAIN cascaded => v = u
    BY <1>1, RowsDistinct, KeysDistinct
  <2>. QED
    BY <1>5, <2>1, <2>2, <2>3
<1>8. Channel \notin DOMAIN cascaded /\ \A m : Msg(m) \notin DOMAIN cascaded
  BY <1>1, RowsDistinct
<1>9. \A v : Member(v) \notin DOMAIN nulled /\ \A m : Reaction(m, v) \notin DOMAIN nulled
  BY <1>2, RowsDistinct
<1>10. Member(u) \in DOMAIN rows => ~rows[Member(u)].joined
  <2>1. Member(u) \in DOMAIN cascaded /\ cascaded[Member(u)] = NoMember
    BY <1>1, <1>3
  <2>2. rows[Member(u)] = NoMember
    BY <1>5, <2>1
  <2>. QED
    BY <2>2 DEF NoMember
<1>11. Channel \in DOMAIN rows => rows[Channel].creator = None
  <2>1. db[Channel] \in ChannelRow
    BY DbTyped DEF TypeInv
  <2>2. Channel \in DOMAIN rows => rows[Channel] = [db[Channel] EXCEPT !.creator = None]
    BY <1>4, <1>5, <1>8
  <2>. QED
    BY <2>1, <2>2 DEF ChannelRow
<1>12. \A m \in Message : Msg(m) \in DOMAIN rows => rows[Msg(m)].author = None
  <2>. SUFFICES ASSUME NEW m \in Message, Msg(m) \in DOMAIN rows
                PROVE  rows[Msg(m)].author = None
    OBVIOUS
  <2>1. Seen(t, Msg(m)) \in MessageRow
    BY SeenTyped DEF TypeInv
  <2>2. rows[Msg(m)] = [Seen(t, Msg(m)) EXCEPT !.author = None]
    BY <1>4, <1>5, <1>8, RowsDistinct
  <2>. QED
    BY <2>1, <2>2 DEF MessageRow
<1>13. ASSUME NEW m \in Message, NEW v, Reaction(m, v) \in DOMAIN rows
       PROVE  rows[Reaction(m, v)] # TRUE
  <2>1. Reaction(m, v) \in DOMAIN cascaded /\ Reaction(m, v) # Member(u)
    BY <1>5, <1>9, <1>13, RowsDistinct
  <2>2. rows[Reaction(m, v)] = FALSE
    BY <1>3, <1>5, <2>1
  <2>. QED
    BY <2>2
<1>14. ASSUME NEW v \in User, NEW r \in DOMAIN rows PROVE ~Refers(rows, r, v)
  <2>1. None # v
    BY StoreAssumption
  <2>2. ~(r = Member(v) /\ rows[r].joined)
    BY <1>7, <1>10
  <2>3. ~(r = Channel /\ rows[r].creator = v)
    BY <1>11, <2>1
  <2>4. ~ \E m \in Message : r = Msg(m) /\ rows[r].author = v
    BY <1>12, <2>1
  <2>5. ~ \E m \in Message : r = Reaction(m, v) /\ rows[r] = TRUE
    BY <1>13
  <2>. QED
    BY <2>2, <2>3, <2>4, <2>5 DEF Refers
<1>15. Account(u) \in DOMAIN rows
  BY <1>1, <1>5
<1>. QED
  BY <1>6, <1>7, <1>14, <1>15 DEF rows, cascaded, nulled

LEMMA UserStatementRows ==
  ASSUME RowInv, ChannelInv, NEW t \in Tx, UserStatement(t)
  PROVE  RowInv'
<1>0. TypeInv /\ TypeInv'
  BY UserStatementTyped DEF ChannelInv
<1>1. CASE ScrubAuthored(t)
  <2>1. Running(t) /\ at[t] = "scrubAuthored" /\ request[t].op = "deleteUser"
    BY <1>0, <1>1, OpAt, RunsRunning DEF ScrubAuthored
  <2> DEFINE mine == {Msg(m) : m \in {k \in found[t] \cap Authored(request[t].u) : Live(k)}}
             rows == [r \in mine |-> [db[r] EXCEPT !.text = FALSE, !.deleted = TRUE]]
  <2>2. Write(t, rows, "deleteUser") /\ Runs(t, "scrubAuthored") /\ shared' = shared
    BY <1>1 DEF ScrubAuthored
  <2>3. Moves(t, rows, "deleteUser")
    BY <1>0, <2>2, WriteMoves
  <2>4. mine = Wants(t)
    BY <2>1 DEF Wants
  <2>5. shared[t] = {}
    BY <2>1, NothingShared DEF Sharers
  <2>6. ASSUME NEW r \in mine
        PROVE  /\ \E m \in Message : r = Msg(m)
               /\ rows[r].author = db[r].author
    <3>1. PICK m \in Message : r = Msg(m)
      BY DEF Authored
    <3>2. db[r] \in MessageRow
      BY <1>0, <3>1, DbTyped DEF TypeInv
    <3>. QED
      BY <3>1, <3>2 DEF MessageRow
  <2>7. DOMAIN rows = mine
    OBVIOUS
  <2> HIDE DEF mine, rows
  <2>8. \A r \in mine, s \in Tx : s # t => r \notin DOMAIN draft[s]
    BY <2>2, <2>4, Waited
  <2>9. \A u : Account(u) \notin mine /\ Member(u) \notin mine
    BY <2>6, RowsDistinct
  <2>10. \A u \in User, r \in mine : Refers(rows, r, u) => Refers(db, r, u)
    BY <2>6, RowsDistinct DEF Refers
  <2>11. Careful(t, rows, "deleteUser")
    BY <2>1, <2>2, <2>5, <2>7, <2>8, <2>9, <2>10 DEF Careful, SharesNoMore
  <2>. QED
    BY <1>0, <2>3, <2>11, MoveKeepsRows
<1>2. CASE DeleteUser(t)
  <2>1. Running(t) /\ at[t] = "deleteUser" /\ request[t].op = "deleteUser"
    BY <1>0, <1>2, OpAt, RunsRunning DEF DeleteUser
  <2>2. CASE Quit(t)
    BY <1>0, <2>2, QuitKeepsRows
  <2>3. CASE ~Quit(t)
    <3> DEFINE u == request[t].u
               rows == Deletion(t, u)
    <3>1. /\ Write(t, rows, "commit") /\ Runs(t, "deleteUser")
          /\ db[Account(u)] /\ shared' = shared
      BY <1>2, <2>3 DEF DeleteUser, Deletion
    <3>2. u \in User
      BY <1>0, <2>1, RequestTyped DEF TypeInv, Positioned
    <3>3. Moves(t, rows, "commit")
      BY <1>0, <3>1, WriteMoves
    <3>4. shared[t] = {} /\ "commit" \in Sharers
      BY <2>1, NothingShared DEF Sharers
    <3>5. \A s \in Tx : u \notin shared[s]
      BY <3>1, <3>4, Waited
    <3>6. DOMAIN rows \subseteq Wants(t)
      <4>1. Wants(t) = {Account(u), Member(u)} \cup {Reaction(m, u) : m \in Message}
                  \cup {Msg(m) : m \in Authored(u)}
                  \cup (IF db[Channel].creator = u THEN {Channel} ELSE {})
        BY <2>1, <3>1 DEF Wants, Authored
      <4>2. DOMAIN Cascaded(t, u) = {Account(u), Member(u)} \cup {Reaction(m, u) : m \in Message}
        BY DEF Cascaded
      <4>3. DOMAIN Nulled(t, u) = {Msg(m) : m \in Authored(u)}
                  \cup (IF db[Channel].creator = u THEN {Channel} ELSE {})
        BY DEF Nulled
      <4>4. DOMAIN rows = DOMAIN Cascaded(t, u) \cup DOMAIN Nulled(t, u)
        BY DEF Deletion
      <4> HIDE DEF rows, u
      <4>. QED
        BY <4>1, <4>2, <4>3, <4>4
    <3>7. /\ \A r \in Row : Refers(db, r, u) => r \in DOMAIN rows
          /\ \A v \in User, r \in DOMAIN rows : ~Refers(rows, r, v)
          /\ \A v \in User : Account(v) \in DOMAIN rows => v = u
          /\ \A v \in User : Member(v) \in DOMAIN rows => v = u
          /\ Account(u) \in DOMAIN rows
      BY <1>0, <3>2, DeletionRows
    <3> HIDE DEF rows, u
    <3>8. \A r \in DOMAIN rows, s \in Tx : s # t => r \notin DOMAIN draft[s]
      BY <3>1, <3>6, Waited
    <3>9. SharesNoMore(t, "commit") /\ shared'[t] = {}
      BY <3>1, <3>4 DEF SharesNoMore
    <3>10. ASSUME NEW v \in User, Account(v) \in DOMAIN rows
           PROVE  /\ \A s \in Tx : v \notin shared[s]
                  /\ \A r \in Row : Refers(db, r, v) => r \in DOMAIN rows
                  /\ \A r \in DOMAIN rows : ~Refers(rows, r, v)
      <4>1. v = u
        BY <3>7, <3>10
      <4>. QED
        BY <3>5, <3>7, <4>1
    <3>11. \A v \in User : Member(v) \in DOMAIN rows => Account(v) \in DOMAIN rows
      <4>. SUFFICES ASSUME NEW v \in User, Member(v) \in DOMAIN rows
                    PROVE  Account(v) \in DOMAIN rows
        OBVIOUS
      <4>1. v = u
        BY <3>7
      <4>. QED
        BY <3>7, <4>1
    <3>12. \A v \in User, r \in DOMAIN rows : ~Refers(rows, r, v)
      BY <3>7
    <3>13. Careful(t, rows, "commit")
      BY <2>1, <3>8, <3>9, <3>10, <3>11, <3>12 DEF Careful
    <3>. QED
      BY <1>0, <3>3, <3>13, MoveKeepsRows
  <2>. QED
    BY <2>2, <2>3
<1>3. CASE FindAuthored(t)
  <2>1. at[t] = "findAuthored" /\ Read(t, "scrubAuthored")
    BY <1>3 DEF FindAuthored, Runs
  <2>2. shared[t] = {}
    BY <2>1, NothingShared DEF Sharers
  <2>. QED
    BY <1>0, <2>1, <2>2, ReadKeepsRows
<1>4. CASE UpsertUser(t)
  BY <1>0, <1>4, UpsertOver, OverKeepsRows
<1>. QED
  BY <1>1, <1>2, <1>3, <1>4 DEF UserStatement

LEMMA PersistRows ==
  ASSUME RowInv, ChannelInv, NEW t \in Tx, Persist(t)
  PROVE  RowInv'
<1>0. TypeInv /\ TypeInv'
  BY PersistTyped DEF ChannelInv
<1>1. /\ Write(t, One(Channel, Bumped(t)), "commit") /\ Runs(t, "persist")
      /\ db[Channel].status # "absent" /\ shared' = shared /\ at[t] = "persist"
  BY DEF Persist, Runs
<1>2. Channel \in Wants(t)
  BY <1>1 DEF Wants
<1>3. Waits(t, Channel)
  BY <1>1, <1>2, Waited DEF Waits
<1>4. Bumped(t).creator = Seen(t, Channel).creator
  BY <1>0, SeenTyped DEF TypeInv, Bumped, ChannelRow
<1>5. \A v \in User : Refers(One(Channel, Bumped(t)), Channel, v)
                         => v \in shared[t] \/ Refers(db, Channel, v)
  BY <1>4, OneRefers, SeenRefers
<1>6. \A v \in User : Channel # Account(v) /\ Channel # Member(v)
  BY RowsDistinct
<1>7. "commit" \in Sharers
  BY DEF Sharers
<1>. QED
  BY <1>0, <1>1, <1>3, <1>5, <1>6, <1>7, OneKeepsRows

LEMMA InitRows == Init => RowInv
<1>. SUFFICES ASSUME Init PROVE RowInv
  OBVIOUS
<1>1. PICK creator \in User \cup {None}, status \in {"absent", "live"} :
        /\ status = "absent" => creator = None
        /\ db = [r \in Row |->
                  CASE r = Channel -> [status |-> status, seq |-> 0, creator |-> creator]
                    [] r[1] = "message" -> Absent
                    [] r[1] = "member" -> [joined |-> r[2] = creator, read |-> 0]
                    [] r[1] = "reaction" -> FALSE
                    [] r[1] = "user" -> TRUE]
  BY DEF Init
<1>2. db[Channel] = [status |-> status, seq |-> 0, creator |-> creator]
  BY <1>1, InRow DEF Channel
<1>3. ASSUME NEW u \in User PROVE db[Member(u)].joined <=> u = creator
  BY <1>1, InRow, RowsDistinct DEF Member, Channel
<1>4. ASSUME NEW u \in User PROVE db[Account(u)] = TRUE
  BY <1>1, InRow, RowsDistinct DEF Account, Channel
<1>5. NobodyYet
  <2>. SUFFICES ASSUME db[Channel].status = "absent", NEW u \in User
                PROVE  ~db[Member(u)].joined
    BY DEF NobodyYet
  <2>1. creator = None
    <3>1. status = "absent" => creator = None
      BY <1>1
    <3>. QED
      BY <1>2, <3>1
  <2>2. u # creator
    BY <2>1, StoreAssumption
  <2>. QED
    BY <1>3, <2>2
<1>6. NoneLeft
  BY <1>4 DEF NoneLeft
<1>7. \A t \in Tx : DOMAIN draft[t] = {} /\ shared[t] = {} /\ at[t] = "idle"
  BY DEF Init, NoRow
<1>. QED
  BY <1>5, <1>6, <1>7 DEF RowInv, OneWriter, Shares, Deletes, Adds, Founds

LEMMA NextRows == ChannelInv /\ RowInv /\ [Next]_vars => RowInv'
<1>. SUFFICES ASSUME ChannelInv, RowInv, [Next]_vars PROVE RowInv'
  OBVIOUS
<1>0. TypeInv
  BY DEF ChannelInv
<1>1. CASE UNCHANGED vars
  BY <1>1 DEF vars, txVars, RowInv, OneWriter, NobodyYet, NoneLeft, Shares, Deletes, Adds,
              Founds, Refers, Held
<1>2. ASSUME NEW t \in Tx, Begin(t) PROVE RowInv'
  BY <1>0, <1>2, BeginKeepsRows
<1>3. ASSUME NEW t \in Tx, Rollback(t) PROVE RowInv'
  BY <1>0, <1>3, QuitKeepsRows DEF Rollback
<1>4. ASSUME NEW t \in Tx, Statement(t) PROVE RowInv'
  BY <1>4, ChannelStatementRows, SendStatementRows, ChangeStatementRows, MembershipRows,
     ReactionRows, UserStatementRows, PersistRows, CommitKeepsRows
     DEF Statement, MessageStatement, MemberStatement
<1>. QED
  BY <1>1, <1>2, <1>3, <1>4 DEF Next

(* Nothing refers to a user that is gone, whatever was being written for   *)
(* them, uncommitted, when their deletion committed.                       *)
THEOREM NoOrphansEver == Spec => []NoOrphans
<1>1. RowInv => NoOrphans
  <2>. SUFFICES ASSUME RowInv, NEW u \in User, ~db[Account(u)]
                PROVE  /\ ~db[Member(u)].joined
                       /\ db[Channel].creator # u
                       /\ \A m \in Message : ~db[Reaction(m, u)] /\ db[Msg(m)].author # u
    BY DEF NoOrphans
  <2>1. \A r \in Row : ~Refers(db, r, u)
    BY DEF RowInv, NoneLeft
  <2>2. ~db[Member(u)].joined /\ db[Channel].creator # u
    BY <2>1, InRow DEF Refers
  <2>3. ASSUME NEW m \in Message PROVE db[Msg(m)].author # u
    BY <2>1, InRow DEF Refers
  <2>4. ASSUME NEW m \in Message PROVE ~db[Reaction(m, u)]
    BY <2>1, InRow DEF Refers
  <2>. QED
    BY <2>2, <2>3, <2>4
<1>. QED
  BY <1>1, ChannelInit, ChannelNext, InitRows, NextRows, PTL DEF Spec

-----------------------------------------------------------------------------
(* Messages.  A deleted one has no text, and was created.                  *)
Sane(row) == row.deleted => ~row.text /\ row.seq > 0

(* t's version of m is not behind the row; it gives m its seq only with    *)
(* the event that creates m.                                               *)
Version(t, m) ==
  Msg(m) \in DOMAIN draft[t] =>
    /\ Sane(draft[t][Msg(m)])
    /\ db[Msg(m)].deleted => draft[t][Msg(m)].deleted
    /\ \/ draft[t][Msg(m)].seq = db[Msg(m)].seq
       \/ /\ db[Msg(m)].seq = 0
          /\ \E e \in emitted[t] :
               e.type = "message.new" /\ e.m = m /\ e.seq = draft[t][Msg(m)].seq

Deleting(t, m) ==
  /\ db[Msg(m)].seq > 0 /\ ~db[Msg(m)].deleted
  /\ Msg(m) \in DOMAIN draft[t] /\ draft[t][Msg(m)].deleted

(* What t's event says of m is so when it commits ...                      *)
Tells(t, m) ==
  \A e \in emitted[t] : e.m = m =>
    /\ e.type = "message.new" =>
         /\ Msg(m) \in DOMAIN draft[t] /\ draft[t][Msg(m)].seq = e.seq
         /\ db[Msg(m)].seq = 0
    /\ e.type = "message.updated" => db[Msg(m)].seq > 0
    /\ e.type = "message.deleted" => Deleting(t, m)

(* ... because it was when t came to write the event.                      *)
Ready(t, m) ==
  request[t].m = m =>
    /\ \/ at[t] = "setAttachments"
       \/ at[t] = "persist" /\ request[t].op \in {"edit", "thumbnail"}
       => db[Msg(m)].seq > 0
    /\ \/ at[t] = "decrementReplyCount"
       \/ at[t] = "persist" /\ request[t].op = "delete"
       => Deleting(t, m)

MessageEvents == {"message.new", "message.updated", "message.deleted"}

(* What the log tells of m.                                                *)
Told(m) ==
  /\ db[Msg(m)].seq > 0 =>
       \E e \in log : e.type = "message.new" /\ e.m = m /\ e.seq = db[Msg(m)].seq
  /\ \A e \in log : e.m = m =>
       /\ e.type = "message.new" => e.seq = db[Msg(m)].seq
       /\ e.type \in MessageEvents => db[Msg(m)].seq > 0 /\ e.seq >= db[Msg(m)].seq
       /\ e.type = "message.deleted" =>
            /\ db[Msg(m)].deleted
            /\ \A f \in log : f.type = "message.deleted" /\ f.m = m => f = e

InOrder(m) == Sane(db[Msg(m)]) /\ db[Msg(m)].seq <= db[Channel].seq

MessageInv ==
  \A m \in Message :
    /\ InOrder(m) /\ Told(m)
    /\ \A t \in Tx : Version(t, m) /\ Tells(t, m) /\ Ready(t, m)

-----------------------------------------------------------------------------
(* A statement of t that keeps what concerns t's own version and event.    *)
LEMMA MoveKeepsMessages ==
  ASSUME MessageInv, NEW t \in Tx, NEW rows, NEW next, Moves(t, rows, next),
         \A s \in Tx : s # t => emitted'[s] = emitted[s],
         \A m \in Message : Version(t, m)' /\ Tells(t, m)' /\ Ready(t, m)'
  PROVE  MessageInv'
<1>1. db' = db /\ log' = log /\ request' = request
  BY DEF Moves
<1>2. ASSUME NEW m \in Message, NEW s \in Tx, s # t
      PROVE  Version(s, m)' /\ Tells(s, m)' /\ Ready(s, m)'
  <2>1. draft'[s] = draft[s] /\ at'[s] = at[s] /\ emitted'[s] = emitted[s]
    BY <1>2 DEF Moves
  <2>. QED
    BY <1>1, <2>1 DEF MessageInv, Version, Tells, Ready, Deleting
<1>3. \A m \in Message : InOrder(m)' /\ Told(m)'
  BY <1>1 DEF MessageInv, InOrder, Told
<1>. QED
  BY <1>2, <1>3 DEF MessageInv

(* One that has nothing to do with messages.                               *)
LEMMA OtherKeepsMessages ==
  ASSUME MessageInv, TypeInv, NEW t \in Tx, NEW rows, NEW next, Moves(t, rows, next),
         emitted' = emitted, \A m \in Message : Msg(m) \notin DOMAIN rows,
         next \notin {"setAttachments", "decrementReplyCount"},
         next = "persist" => request[t].op \notin {"edit", "thumbnail", "delete"}
  PROVE  MessageInv'
<1>1. ASSUME NEW m \in Message PROVE Version(t, m)' /\ Tells(t, m)' /\ Ready(t, m)'
  <2>1. /\ Msg(m) \in DOMAIN draft'[t] <=> Msg(m) \in DOMAIN draft[t]
        /\ Msg(m) \in DOMAIN draft[t] => draft'[t][Msg(m)] = draft[t][Msg(m)]
        /\ db' = db /\ at'[t] = next /\ request' = request
    BY DEF Moves
  <2>2. Version(t, m)' /\ Tells(t, m)'
    BY <2>1 DEF MessageInv, Version, Tells, Deleting
  <2>3. Ready(t, m)'
    BY <2>1 DEF Ready
  <2>. QED
    BY <2>2, <2>3
<1>. QED
  BY <1>1, MoveKeepsMessages

(* One that writes messages, before there is an event.                     *)
LEMMA WriteKeepsMessages ==
  ASSUME MessageInv, NEW t \in Tx, NEW rows, NEW next, Moves(t, rows, next),
         emitted' = emitted, emitted[t] = {},
         \A m \in Message : Msg(m) \in DOMAIN rows =>
           /\ Sane(rows[Msg(m)])
           /\ db[Msg(m)].deleted => rows[Msg(m)].deleted
           /\ rows[Msg(m)].seq = db[Msg(m)].seq,
         \A m \in Message : Ready(t, m)'
  PROVE  MessageInv'
<1>1. ASSUME NEW m \in Message PROVE Version(t, m)' /\ Tells(t, m)'
  <2>1. Tells(t, m)'
    BY DEF Tells
  <2>2. CASE Msg(m) \in DOMAIN rows
    <3>1. draft'[t][Msg(m)] = rows[Msg(m)] /\ db' = db
      BY <2>2 DEF Moves
    <3>. QED
      BY <2>1, <2>2, <3>1 DEF Version
  <2>3. CASE Msg(m) \notin DOMAIN rows
    <3>1. /\ Msg(m) \in DOMAIN draft'[t] <=> Msg(m) \in DOMAIN draft[t]
          /\ Msg(m) \in DOMAIN draft[t] => draft'[t][Msg(m)] = draft[t][Msg(m)]
          /\ db' = db
      BY <2>3 DEF Moves
    <3>. QED
      BY <2>1, <3>1 DEF MessageInv, Version
  <2>. QED
    BY <2>2, <2>3
<1>. QED
  BY <1>1, MoveKeepsMessages

LEMMA OneMessage ==
  /\ \A m, k, row : Msg(m) \in DOMAIN One(Msg(k), row) => m = k /\ One(Msg(k), row)[Msg(m)] = row
  /\ \A m, row : Msg(m) \notin DOMAIN One(Channel, row)
  /\ \A m, u, row : Msg(m) \notin DOMAIN One(Member(u), row)
  /\ \A m, k, u, row : Msg(m) \notin DOMAIN One(Reaction(k, u), row)
<1>1. \A r, row : DOMAIN One(r, row) = {r} /\ One(r, row)[r] = row
  BY OneDomain
<1>2. ASSUME NEW m, NEW k, NEW row, Msg(m) \in DOMAIN One(Msg(k), row)
      PROVE  m = k /\ One(Msg(k), row)[Msg(m)] = row
  <2>1. Msg(m) = Msg(k)
    BY <1>1, <1>2
  <2>. QED
    BY <1>1, <2>1, KeysDistinct
<1>3. ASSUME NEW m, NEW row PROVE Msg(m) \notin DOMAIN One(Channel, row)
  <2>1. DOMAIN One(Channel, row) = {Channel} /\ Channel # Msg(m)
    BY <1>1, RowsDistinct
  <2>. QED
    BY <2>1
<1>4. ASSUME NEW m, NEW u, NEW row PROVE Msg(m) \notin DOMAIN One(Member(u), row)
  <2>1. DOMAIN One(Member(u), row) = {Member(u)} /\ Msg(m) # Member(u)
    BY <1>1, RowsDistinct
  <2>. QED
    BY <2>1
<1>5. ASSUME NEW m, NEW k, NEW u, NEW row PROVE Msg(m) \notin DOMAIN One(Reaction(k, u), row)
  <2>1. DOMAIN One(Reaction(k, u), row) = {Reaction(k, u)} /\ Msg(m) # Reaction(k, u)
    BY <1>1, RowsDistinct
  <2>. QED
    BY <2>1
<1>. QED
  BY <1>2, <1>3, <1>4, <1>5

(* What t sees of m before it has an event.                                *)
LEMMA SeenMessage ==
  ASSUME MessageInv, NEW t \in Tx, emitted[t] = {}, NEW m \in Message
  PROVE  /\ Sane(Seen(t, Msg(m)))
         /\ db[Msg(m)].deleted => Seen(t, Msg(m)).deleted
         /\ Seen(t, Msg(m)).seq = db[Msg(m)].seq
BY DEF MessageInv, Version, InOrder, Seen

LEMMA OverKeepsMessages ==
  ASSUME MessageInv, TypeInv, NEW t \in Tx, Over(t)
  PROVE  MessageInv'
<1>1. /\ End(t) /\ log' = log /\ db'[Channel] = db[Channel]
      /\ \A m \in Message : db'[Msg(m)] = db[Msg(m)]
  BY OverKeeps
<1>2. draft'[t] = NoRow /\ at'[t] = "done" /\ emitted'[t] = {}
  BY <1>1 DEF End, TypeInv, TypeOK
<1>3. ASSUME NEW m \in Message PROVE Version(t, m)' /\ Tells(t, m)' /\ Ready(t, m)'
  BY <1>2 DEF Version, Tells, Ready, NoRow
<1>4. ASSUME NEW m \in Message, NEW s \in Tx, s # t
      PROVE  Version(s, m)' /\ Tells(s, m)' /\ Ready(s, m)'
  <2>1. /\ draft'[s] = draft[s] /\ at'[s] = at[s] /\ request'[s] = request[s]
        /\ emitted'[s] = emitted[s]
    BY <1>1, <1>4, EndKeepsOthers
  <2>. QED
    BY <1>1, <2>1 DEF MessageInv, Version, Tells, Ready, Deleting
<1>5. \A m \in Message : InOrder(m)' /\ Told(m)'
  BY <1>1 DEF MessageInv, InOrder, Told
<1>. QED
  BY <1>3, <1>4, <1>5 DEF MessageInv

LEMMA QuitKeepsMessages ==
  ASSUME MessageInv, TypeInv, NEW t \in Tx, Quit(t)
  PROVE  MessageInv'
BY QuitOver, OverKeepsMessages

LEMMA BeginKeepsMessages ==
  ASSUME MessageInv, TypeInv, NEW t \in Tx, Begin(t)
  PROVE  MessageInv'
<1>1. PICK q \in Requests :
        /\ request' = [request EXCEPT ![t] = q]
        /\ at' = [at EXCEPT ![t] = FirstStatement[q.op]]
  BY DEF Begin
<1>2. UNCHANGED <<db, log, draft, emitted>>
  BY DEF Begin
<1>3. FirstStatement[q.op] \notin {"setAttachments", "decrementReplyCount", "persist"}
  BY RequestTyped DEF FirstStatement, Operation
<1>4. /\ at'[t] = FirstStatement[q.op]
      /\ \A s \in Tx : s # t => at'[s] = at[s] /\ request'[s] = request[s]
  BY <1>1 DEF TypeInv, TypeOK
<1>5. ASSUME NEW m \in Message, NEW s \in Tx PROVE Ready(s, m)'
  <2>1. CASE s = t
    BY <1>3, <1>4, <2>1 DEF Ready
  <2>2. CASE s # t
    BY <1>2, <1>4, <2>2 DEF MessageInv, Ready, Deleting
  <2>. QED
    BY <2>1, <2>2
<1>6. \A m \in Message, s \in Tx : Version(s, m)' /\ Tells(s, m)'
  BY <1>2 DEF MessageInv, Version, Tells, Deleting
<1>7. \A m \in Message : InOrder(m)' /\ Told(m)'
  BY <1>2 DEF MessageInv, InOrder, Told
<1>. QED
  BY <1>5, <1>6, <1>7 DEF MessageInv

(* What a commit of t makes of message m, and of the log.                  *)
LEMMA CommitMessage ==
  ASSUME MessageInv, ChannelInv, NEW t \in Tx, Commit(t), NEW m \in Message
  PROVE  /\ Msg(m) \in DOMAIN draft[t] => db'[Msg(m)] = draft[t][Msg(m)]
         /\ Msg(m) \notin DOMAIN draft[t] => db'[Msg(m)] = db[Msg(m)]
         /\ Sane(db'[Msg(m)])
         /\ db[Msg(m)].deleted => db'[Msg(m)].deleted
         /\ \/ db'[Msg(m)].seq = db[Msg(m)].seq
            \/ /\ db[Msg(m)].seq = 0
               /\ \E e \in emitted[t] :
                    e.type = "message.new" /\ e.m = m /\ e.seq = db'[Msg(m)].seq
         /\ db[Msg(m)].seq \in Nat /\ db'[Msg(m)].seq \in Nat
<1>1. db' = [r \in Row |-> Seen(t, r)]
  BY DEF Commit
<1>2. /\ Msg(m) \in DOMAIN draft[t] => db'[Msg(m)] = draft[t][Msg(m)]
      /\ Msg(m) \notin DOMAIN draft[t] => db'[Msg(m)] = db[Msg(m)]
  BY <1>1, InRow DEF Seen
<1>3. db[Msg(m)] \in MessageRow /\ db'[Msg(m)] \in MessageRow
  BY <1>1, InRow, SeenTyped, DbTyped DEF ChannelInv, TypeInv
<1>. QED
  BY <1>2, <1>3 DEF MessageInv, Version, InOrder, MessageRow

LEMMA CommitLog ==
  ASSUME ChannelInv, NEW t \in Tx, Commit(t)
  PROVE  /\ db[Channel].seq \in Nat /\ db'[Channel].seq >= db[Channel].seq
         /\ log' = log \cup emitted[t]
         /\ \A e \in emitted[t] : /\ emitted[t] = {e} /\ e.seq = db[Channel].seq + 1
                                  /\ db'[Channel].seq = db[Channel].seq + 1
         /\ \A e \in log : e.seq \in Nat /\ e.seq <= db[Channel].seq
<1>0. TypeInv /\ db[Channel] \in ChannelRow /\ at[t] = "commit"
  BY DbTyped DEF ChannelInv, TypeInv, Commit
<1>1. db[Channel].seq \in Nat
  BY <1>0 DEF ChannelRow
<1>2. \A e \in emitted[t] : /\ emitted[t] = {e} /\ e.seq = db[Channel].seq + 1 /\ Held(t)
  BY DEF ChannelInv, Turn, Emits
<1>3. Held(t) => db'[Channel].seq = IF emitted[t] # {} THEN db[Channel].seq + 1 ELSE db[Channel].seq
  BY <1>0, CommitRow DEF ChannelInv, Turn, Ahead
<1>4. ~Held(t) => db'[Channel].seq = db[Channel].seq
  BY CommitRow
<1>5. db'[Channel].seq >= db[Channel].seq
  BY <1>1, <1>3, <1>4
<1>6. \A e \in log : e.seq \in 1 .. db[Channel].seq
  BY DEF ChannelInv, LogDense
<1>7. \A e \in log : e.seq \in Nat /\ e.seq <= db[Channel].seq
  BY <1>1, <1>6
<1>8. log' = log \cup emitted[t]
  BY CommitRow
<1>9. ASSUME NEW e \in emitted[t] PROVE db'[Channel].seq = db[Channel].seq + 1
  <2>1. Held(t) /\ emitted[t] # {}
    BY <1>2, <1>9
  <2>. QED
    BY <1>3, <2>1
<1>. QED
  BY <1>1, <1>2, <1>5, <1>7, <1>8, <1>9

LEMMA CommitTells ==
  ASSUME MessageInv, ChannelInv, NEW t \in Tx, Commit(t), NEW m \in Message
  PROVE  InOrder(m)' /\ Told(m)'
<1> DEFINE now == db[Msg(m)]
           new == db'[Msg(m)]
<1>1. /\ Sane(new) /\ now.seq \in Nat /\ new.seq \in Nat
      /\ now.deleted => new.deleted
      /\ \/ new.seq = now.seq
         \/ /\ now.seq = 0
            /\ \E e \in emitted[t] : e.type = "message.new" /\ e.m = m /\ e.seq = new.seq
      /\ Msg(m) \in DOMAIN draft[t] => new = draft[t][Msg(m)]
  BY CommitMessage
<1>2. /\ db[Channel].seq \in Nat /\ db'[Channel].seq >= db[Channel].seq
      /\ log' = log \cup emitted[t]
      /\ \A e \in emitted[t] : /\ emitted[t] = {e} /\ e.seq = db[Channel].seq + 1
                               /\ db'[Channel].seq = db[Channel].seq + 1
      /\ \A e \in log : e.seq \in Nat /\ e.seq <= db[Channel].seq
  BY CommitLog
<1>3. db'[Channel].seq \in Nat
  <2>1. db'[Channel] \in ChannelRow
    BY InRow, SeenTyped DEF Commit, ChannelInv, TypeInv
  <2>. QED
    BY <2>1 DEF ChannelRow
<1>4. InOrder(m) /\ Told(m) /\ Tells(t, m)
  BY DEF MessageInv
<1>5. InOrder(m)'
  <2>1. now.seq <= db[Channel].seq
    BY <1>4 DEF InOrder
  <2>2. new.seq <= db'[Channel].seq
    BY <1>1, <1>2, <1>3, <2>1
  <2>. QED
    BY <1>1, <2>2 DEF InOrder
<1>6. CASE \A e \in emitted[t] : e.m # m \/ e.type \notin MessageEvents
  <2>1. new.seq = now.seq
    BY <1>1, <1>6 DEF MessageEvents
  <2>2. \A e \in log' : e.m = m /\ e.type \in MessageEvents => e \in log
    BY <1>2, <1>6
  <2>3. {"message.new", "message.deleted"} \subseteq MessageEvents
    BY DEF MessageEvents
  <2>4. new.seq > 0 =>
          \E e \in log' : e.type = "message.new" /\ e.m = m /\ e.seq = new.seq
    BY <1>2, <1>4, <2>1 DEF Told
  <2>5. ASSUME NEW e \in log', e.m = m
        PROVE  /\ e.type = "message.new" => e.seq = new.seq
               /\ e.type \in MessageEvents => new.seq > 0 /\ e.seq >= new.seq
               /\ e.type = "message.deleted" =>
                    /\ new.deleted
                    /\ \A f \in log' : f.type = "message.deleted" /\ f.m = m => f = e
    BY <1>1, <1>4, <2>1, <2>2, <2>3, <2>5 DEF Told
  <2>. QED
    BY <1>5, <2>4, <2>5 DEF Told
<1>7. CASE \E e \in emitted[t] : e.m = m /\ e.type \in MessageEvents
  <2>1. PICK e \in emitted[t] : e.m = m /\ e.type \in MessageEvents
    BY <1>7
  <2>2. log' = log \cup {e} /\ e.seq = db[Channel].seq + 1
    BY <1>2, <2>1
  <2>3. emitted[t] = {e}
    BY <1>2, <2>1
  <2>4. CASE e.type = "message.new"
    <3>1. now.seq = 0 /\ new.seq = e.seq
      BY <1>1, <1>4, <2>1, <2>4 DEF Tells
    <3>2. \A f \in log : f.m = m => f.type \notin MessageEvents
      BY <1>4, <3>1 DEF Told
    <3>3. new.seq > 0
      BY <1>2, <2>2, <3>1
    <3>4. \A f \in log' : f.m = m /\ f.type \in MessageEvents => f = e
      BY <2>2, <3>2
    <3>5. \A f \in log' : f.m = m => f.type # "message.deleted"
      BY <2>4, <3>4 DEF MessageEvents
    <3>6. \A f \in log' : f.m = m =>
            /\ f.type = "message.new" => f.seq = new.seq
            /\ f.type \in MessageEvents => new.seq > 0 /\ f.seq >= new.seq
      BY <1>1, <3>1, <3>3, <3>4 DEF MessageEvents
    <3>. QED
      BY <1>5, <2>1, <2>2, <2>4, <3>1, <3>5, <3>6 DEF Told
  <2>5. CASE e.type # "message.new"
    <3>1. new.seq = now.seq
      BY <1>1, <2>3, <2>5
    <3>2. now.seq > 0
      BY <1>4, <2>1, <2>5 DEF Tells, Deleting, MessageEvents
    <3>3. e.seq >= now.seq
      <4>1. now.seq <= db[Channel].seq
        BY <1>4 DEF InOrder
      <4>. QED
        BY <1>1, <1>2, <2>2, <4>1
    <3>4. \E f \in log' : f.type = "message.new" /\ f.m = m /\ f.seq = new.seq
      BY <1>4, <2>2, <3>1, <3>2 DEF Told
    <3>5. \A f \in log' : f.m = m =>
            /\ f.type = "message.new" => f.seq = new.seq
            /\ f.type \in MessageEvents => new.seq > 0 /\ f.seq >= new.seq
      BY <1>4, <2>2, <2>5, <3>1, <3>2, <3>3 DEF Told
    <3>6. CASE e.type = "message.deleted"
      <4>1. ~now.deleted /\ new.deleted
        BY <1>1, <1>4, <2>1, <3>6 DEF Tells, Deleting
      <4>2. \A f \in log : f.m = m => f.type # "message.deleted"
        BY <1>4, <4>1 DEF Told
      <4>3. \A f \in log' : f.type = "message.deleted" /\ f.m = m => f = e
        BY <2>2, <4>2
      <4>. QED
        BY <1>5, <3>4, <3>5, <4>1, <4>3 DEF Told
    <3>7. CASE e.type # "message.deleted"
      <4>1. \A f \in log' : f.type = "message.deleted" => f \in log
        BY <2>2, <3>7
      <4>2. \A f \in log' : f.type = "message.deleted" /\ f.m = m =>
              /\ new.deleted
              /\ \A g \in log' : g.type = "message.deleted" /\ g.m = m => g = f
        BY <1>1, <1>4, <4>1 DEF Told
      <4>. QED
        BY <1>5, <3>4, <3>5, <4>2 DEF Told
    <3>. QED
      BY <3>6, <3>7
  <2>. QED
    BY <2>4, <2>5
<1>. QED
  BY <1>6, <1>7

LEMMA CommitKeepsMessages ==
  ASSUME MessageInv, RowInv, ChannelInv, NEW t \in Tx, Commit(t)
  PROVE  MessageInv'
<1>0. TypeInv /\ End(t)
  BY DEF ChannelInv, Commit
<1>1. \A m \in Message : InOrder(m)' /\ Told(m)'
  BY CommitTells
<1>2. draft'[t] = NoRow /\ at'[t] = "done" /\ emitted'[t] = {}
  BY <1>0 DEF End, TypeInv, TypeOK
<1>3. ASSUME NEW m \in Message PROVE Version(t, m)' /\ Tells(t, m)' /\ Ready(t, m)'
  BY <1>2 DEF Version, Tells, Ready, NoRow
<1>4. ASSUME NEW m \in Message, NEW s \in Tx, s # t
      PROVE  Version(s, m)' /\ Tells(s, m)' /\ Ready(s, m)'
  <2>1. /\ draft'[s] = draft[s] /\ at'[s] = at[s] /\ request'[s] = request[s]
        /\ emitted'[s] = emitted[s]
    BY <1>0, <1>4, EndKeepsOthers
  <2>2. Msg(m) \in DOMAIN draft[s] => db'[Msg(m)] = db[Msg(m)]
    BY <1>4, CommitMessage DEF RowInv, OneWriter
  <2>3. db[Msg(m)].seq > 0 => db'[Msg(m)].seq > 0
    BY CommitMessage
  <2>4. Version(s, m)'
    BY <2>1, <2>2 DEF MessageInv, Version
  <2>5. Deleting(s, m) => Deleting(s, m)'
    BY <2>1, <2>2 DEF Deleting
  <2>6. Tells(s, m)'
    BY <2>1, <2>2, <2>3, <2>5 DEF MessageInv, Tells
  <2>7. Ready(s, m)'
    BY <2>1, <2>3, <2>5 DEF MessageInv, Ready
  <2>. QED
    BY <2>4, <2>6, <2>7
<1>. QED
  BY <1>1, <1>3, <1>4 DEF MessageInv

-----------------------------------------------------------------------------
(* The statements.                                                         *)
LEMMA ChannelStatementMessages ==
  ASSUME MessageInv, TypeInv, NEW t \in Tx, ChannelStatement(t) \/ BumpSeqForMessage(t)
  PROVE  MessageInv'
<1>1. CASE Quit(t)
  BY <1>1, QuitKeepsMessages
<1>2. CASE ~Quit(t)
  <2>1. PICK r, row, next :
          /\ Write(t, One(r, row), next) /\ emitted' = emitted
          /\ r = Channel \/ r = Member(request[t].u)
          /\ next \in {"commit", "addOwner", "persist", "insertMessage"}
          /\ next = "persist" => at[t] \in {"updateChannel", "softDeleteChannel"}
          /\ shared' = shared \/ \E users : shared' = [shared EXCEPT ![t] = users]
          /\ Running(t)
    <3>1. CASE InsertIfAbsent(t)
      BY <1>2, <3>1 DEF InsertIfAbsent, Runs, Running
    <3>2. CASE AddOwner(t)
      BY <3>2 DEF AddOwner, Runs, Running
    <3>3. CASE UpdateChannel(t)
      BY <1>2, <3>3 DEF UpdateChannel, Runs, Running
    <3>4. CASE SoftDeleteChannel(t)
      BY <1>2, <3>4 DEF SoftDeleteChannel, Runs, Running
    <3>5. CASE BumpSeqForMessage(t)
      BY <1>2, <3>5 DEF BumpSeqForMessage, Runs, Running
    <3>. QED
      BY <3>1, <3>2, <3>3, <3>4, <3>5 DEF ChannelStatement
  <2>2. Moves(t, One(r, row), next)
    BY <2>1, WriteMoves
  <2>3. \A m \in Message : Msg(m) \notin DOMAIN One(r, row)
    BY <2>1, OneMessage
  <2>4. next = "persist" => request[t].op \in {"update", "softDelete"}
    BY <2>1, OpAt
  <2>. QED
    BY <2>1, <2>2, <2>3, <2>4, OtherKeepsMessages
<1>. QED
  BY <1>1, <1>2

LEMMA MemberStatementMessages ==
  ASSUME MessageInv, TypeInv, NEW t \in Tx, MemberStatement(t)
  PROVE  MessageInv'
<1>1. CASE Quit(t)
  BY <1>1, QuitKeepsMessages
<1>2. CASE ~Quit(t)
  <2> DEFINE Next3 == {"persist", "countsByType", "addMember", "markRead", "addReaction",
                       "removeReaction"}
  <2>1. CASE \/ GetChannel(t) \/ TargetSeq(t) \/ ExistsInChannel(t) \/ CountsByType(t)
    <3>1. PICK next \in Next3 : /\ Read(t, next) /\ Running(t)
                                /\ next = "persist" => at[t] = "countsByType"
      BY <1>2, <2>1 DEF GetChannel, TargetSeq, ExistsInChannel, CountsByType, Runs, Running
    <3>2. Moves(t, NoRow, next) /\ emitted' = emitted /\ DOMAIN NoRow = {}
      BY <3>1, ReadMoves DEF Read, NoRow
    <3>3. next = "persist" => request[t].op \in {"react", "unreact"}
      BY <3>1, OpAt
    <3>. QED
      BY <3>1, <3>2, <3>3, OtherKeepsMessages
  <2>2. CASE \/ AddMember(t) \/ RemoveMember(t) \/ MarkRead(t)
             \/ AddReaction(t) \/ RemoveReaction(t)
    <3>1. PICK r, row, next :
            /\ next \in Next3
            /\ Write(t, One(r, row), next) /\ emitted' = emitted /\ Running(t)
            /\ r = Member(request[t].u) \/ r = Reaction(request[t].m, request[t].u)
            /\ next = "persist" => at[t] \in {"addMember", "removeMember", "markRead"}
            /\ shared' = shared \/ \E users : shared' = [shared EXCEPT ![t] = users]
      <4>1. CASE AddMember(t)
        BY <1>2, <4>1 DEF AddMember, Runs, Running
      <4>2. CASE RemoveMember(t)
        BY <1>2, <4>2 DEF RemoveMember, Runs, Running
      <4>3. CASE MarkRead(t)
        BY <1>2, <4>3 DEF MarkRead, Runs, Running
      <4>4. CASE AddReaction(t)
        BY <1>2, <4>4 DEF AddReaction, Runs, Running
      <4>5. CASE RemoveReaction(t)
        BY <1>2, <4>5 DEF RemoveReaction, Runs, Running
      <4>. QED
        BY <2>2, <4>1, <4>2, <4>3, <4>4, <4>5
    <3>2. Moves(t, One(r, row), next)
      BY <3>1, WriteMoves
    <3>3. \A m \in Message : Msg(m) \notin DOMAIN One(r, row)
      BY <3>1, OneMessage
    <3>4. next = "persist" => request[t].op \in {"addMember", "removeMember", "markRead"}
      BY <3>1, OpAt
    <3>. QED
      BY <3>1, <3>2, <3>3, <3>4, OtherKeepsMessages
  <2>. QED
    BY <2>1, <2>2 DEF MemberStatement
<1>. QED
  BY <1>1, <1>2

LEMMA InsertKeepsMessages ==
  ASSUME MessageInv, ChannelInv, NEW t \in Tx, InsertMessage(t)
  PROVE  MessageInv'
<1>0. TypeInv
  BY DEF ChannelInv
<1>1. Running(t) /\ at[t] = "insertMessage" /\ request[t].op = "send"
  BY <1>0, OpAt, RunsRunning DEF InsertMessage
<1>2. request[t].m \in Message /\ emitted[t] = {}
  BY <1>0, <1>1, RequestTyped, NoEventYet DEF TypeInv, Positioned
<1>3. CASE Quit(t)
  BY <1>0, <1>3, QuitKeepsMessages
<1>4. CASE ~Quit(t)
  <2> DEFINE k == request[t].m
             seq == Seen(t, Channel).seq
             row == [seq |-> seq, author |-> request[t].u, parent |-> request[t].p,
                     replies |-> 0, text |-> TRUE, deleted |-> FALSE]
             next == IF request[t].p = None THEN "commit" ELSE "incrementReplyCount"
             e == EventOf(t, seq)
  <2>1. /\ Write(t, One(Msg(k), row), next) /\ db[Msg(k)].seq = 0
        /\ emitted' = [emitted EXCEPT ![t] = {e}]
        /\ shared' = [shared EXCEPT ![t] = {request[t].u} \ {None}]
    BY <1>4 DEF InsertMessage, Insertable
  <2>2. e.type = "message.new" /\ e.m = k /\ e.seq = seq
    BY <1>1 DEF EventOf, EventName
  <2>3. row.seq = seq /\ row.deleted = FALSE
    OBVIOUS
  <2>4. next \in {"commit", "incrementReplyCount"}
    OBVIOUS
  <2> HIDE DEF row, next, e, seq
  <2>5. emitted'[t] = {e} /\ \A s \in Tx : s # t => emitted'[s] = emitted[s]
    BY <1>0, <2>1 DEF TypeInv, TypeOK
  <2>6. Moves(t, One(Msg(k), row), next)
    BY <1>0, <2>1, WriteMoves
  <2>7. ASSUME NEW m \in Message PROVE Version(t, m)' /\ Tells(t, m)' /\ Ready(t, m)'
    <3>1. Ready(t, m)'
      BY <2>4, <2>6 DEF Ready, Moves
    <3>2. CASE m = k
      <4>0. DOMAIN One(Msg(k), row) = {Msg(k)} /\ One(Msg(k), row)[Msg(k)] = row
        BY OneDomain
      <4>1. /\ Msg(m) \in DOMAIN draft'[t] /\ draft'[t][Msg(m)] = row
            /\ db' = db
        BY <2>6, <3>2, <4>0 DEF Moves
      <4>2. ~db[Msg(m)].deleted
        BY <2>1, <3>2 DEF MessageInv, InOrder, Sane
      <4>3. Version(t, m)'
        BY <2>1, <2>2, <2>3, <2>5, <3>2, <4>1, <4>2 DEF Version, Sane
      <4>4. Tells(t, m)'
        BY <2>1, <2>2, <2>3, <2>5, <3>2, <4>1 DEF Tells
      <4>. QED
        BY <3>1, <4>3, <4>4
    <3>3. CASE m # k
      <4>1. /\ Msg(m) \in DOMAIN draft'[t] <=> Msg(m) \in DOMAIN draft[t]
            /\ Msg(m) \in DOMAIN draft[t] => draft'[t][Msg(m)] = draft[t][Msg(m)]
            /\ db' = db
        BY <2>6, <3>3, OneMessage DEF Moves
      <4>2. Version(t, m)'
        BY <1>2, <4>1 DEF MessageInv, Version
      <4>3. Tells(t, m)'
        BY <2>2, <2>5, <3>3 DEF Tells
      <4>. QED
        BY <3>1, <4>2, <4>3
    <3>. QED
      BY <3>2, <3>3
  <2>. QED
    BY <2>5, <2>6, <2>7, MoveKeepsMessages
<1>. QED
  BY <1>3, <1>4

LEMMA ReplyKeepsMessages ==
  ASSUME MessageInv, ChannelInv, NEW t \in Tx, IncrementReplyCount(t)
  PROVE  MessageInv'
<1>0. TypeInv
  BY DEF ChannelInv
<1>1. Running(t) /\ at[t] = "incrementReplyCount" /\ request[t].op = "send"
  BY <1>0, OpAt, RunsRunning DEF IncrementReplyCount
<1> DEFINE p == request[t].p
           row == Replied(Seen(t, Msg(p)))
<1>2. p \in Message
  BY <1>0, <1>1, RequestTyped DEF TypeInv, Positioned
<1>3. Write(t, One(Msg(p), row), "commit") /\ shared' = shared /\ emitted' = emitted
  BY DEF IncrementReplyCount
<1>4. Moves(t, One(Msg(p), row), "commit")
  BY <1>0, <1>3, WriteMoves
<1>5. /\ row.seq = Seen(t, Msg(p)).seq /\ row.deleted = Seen(t, Msg(p)).deleted
      /\ row.text = Seen(t, Msg(p)).text
  <2>1. Seen(t, Msg(p)) \in MessageRow
    BY <1>0, <1>2, SeenTyped DEF TypeInv
  <2>. QED
    BY <2>1 DEF Replied, MessageRow
<1> HIDE DEF row, p
<1>6. ASSUME NEW m \in Message PROVE Version(t, m)' /\ Tells(t, m)' /\ Ready(t, m)'
  <2>1. Ready(t, m)'
    BY <1>4 DEF Ready, Moves
  <2>2. CASE m = p
    <3>0. DOMAIN One(Msg(p), row) = {Msg(p)} /\ One(Msg(p), row)[Msg(p)] = row
      BY OneDomain
    <3>1. /\ Msg(m) \in DOMAIN draft'[t] /\ draft'[t][Msg(m)] = row
          /\ db' = db
      BY <1>4, <2>2, <3>0 DEF Moves
    <3>2. CASE Msg(m) \in DOMAIN draft[t]
      <4>1. Seen(t, Msg(m)) = draft[t][Msg(m)]
        BY <3>2 DEF Seen
      <4>2. Version(t, m)'
        BY <1>3, <1>5, <2>2, <3>1, <3>2, <4>1 DEF MessageInv, Version, Sane
      <4>3. Tells(t, m)'
        BY <1>3, <1>5, <2>2, <3>1, <3>2, <4>1 DEF MessageInv, Tells, Deleting
      <4>. QED
        BY <2>1, <4>2, <4>3
    <3>3. CASE Msg(m) \notin DOMAIN draft[t]
      <4>1. Seen(t, Msg(m)) = db[Msg(m)]
        BY <3>3 DEF Seen
      <4>2. Version(t, m)'
        BY <1>3, <1>5, <2>2, <3>1, <4>1 DEF MessageInv, InOrder, Version, Sane
      <4>3. Tells(t, m)'
        BY <1>3, <3>1, <3>3 DEF MessageInv, Tells, Deleting
      <4>. QED
        BY <2>1, <4>2, <4>3
    <3>. QED
      BY <3>2, <3>3
  <2>3. CASE m # p
    <3>1. /\ Msg(m) \in DOMAIN draft'[t] <=> Msg(m) \in DOMAIN draft[t]
          /\ Msg(m) \in DOMAIN draft[t] => draft'[t][Msg(m)] = draft[t][Msg(m)]
          /\ db' = db
      BY <1>4, <2>3, OneMessage DEF Moves
    <3>2. Version(t, m)' /\ Tells(t, m)'
      BY <1>3, <3>1 DEF MessageInv, Version, Tells, Deleting
    <3>. QED
      BY <2>1, <3>2
  <2>. QED
    BY <2>2, <2>3
<1>. QED
  BY <1>3, <1>4, <1>6, MoveKeepsMessages

(* A statement that writes message k, before there is an event.            *)
LEMMA OneKeepsMessages ==
  ASSUME MessageInv, ChannelInv, NEW t \in Tx, NEW k \in Message, NEW row, NEW next,
         Write(t, One(Msg(k), row), next), shared' = shared, emitted' = emitted,
         at[t] \notin {"incrementReplyCount", "commit"},
         Sane(row), db[Msg(k)].deleted => row.deleted, row.seq = db[Msg(k)].seq,
         Moves(t, One(Msg(k), row), next) => \A m \in Message : Ready(t, m)'
  PROVE  MessageInv'
<1>1. Moves(t, One(Msg(k), row), next)
  BY WriteMoves DEF ChannelInv
<1>2. emitted[t] = {}
  BY NoEventYet
<1>3. \A m \in Message : Msg(m) \in DOMAIN One(Msg(k), row) =>
        m = k /\ One(Msg(k), row)[Msg(m)] = row
  BY OneMessage
<1>. QED
  BY <1>1, <1>2, <1>3, WriteKeepsMessages

LEMMA ChangeStatementMessages ==
  ASSUME MessageInv, ChannelInv, NEW t \in Tx,
         \/ UpdateMessage(t) \/ SoftDeleteMessage(t) \/ DecrementReplyCount(t)
         \/ WithAttachment(t) \/ SetAttachments(t)
  PROVE  MessageInv'
<1>0. TypeInv
  BY DEF ChannelInv
<1>1. CASE Quit(t)
  BY <1>0, <1>1, QuitKeepsMessages
<1>2. Running(t) /\ request[t].op \in {"edit", "delete", "thumbnail"}
  BY <1>0, OpAt, RunsRunning
     DEF UpdateMessage, SoftDeleteMessage, DecrementReplyCount, WithAttachment, SetAttachments
<1> DEFINE k == request[t].m
<1>3. k \in Message
  BY <1>0, <1>2, RequestTyped DEF TypeInv, Positioned
<1>4. db[Msg(k)] \in MessageRow /\ Seen(t, Msg(k)) \in MessageRow
  BY <1>0, <1>3, DbTyped, SeenTyped DEF TypeInv
<1>5. CASE UpdateMessage(t) /\ ~Quit(t)
  <2> DEFINE row == [db[Msg(k)] EXCEPT !.text = TRUE]
  <2>1. /\ Write(t, One(Msg(k), row), "persist") /\ at[t] = "updateMessage" /\ Live(k)
        /\ shared' = shared /\ emitted' = emitted
    BY <1>5 DEF UpdateMessage, Runs
  <2>2. row.deleted = db[Msg(k)].deleted /\ row.seq = db[Msg(k)].seq
    BY <1>4 DEF MessageRow
  <2>3. request[t].op = "edit"
    BY <1>0, <1>2, <2>1, OpAt
  <2>4. db[Msg(k)].seq > 0 /\ ~db[Msg(k)].deleted
    BY <2>1 DEF Live
  <2> HIDE DEF row
  <2>5. Moves(t, One(Msg(k), row), "persist") => \A m \in Message : Ready(t, m)'
    BY <2>3, <2>4 DEF Moves, Ready
  <2> HIDE DEF k
  <2>. QED
    BY <1>3, <2>1, <2>2, <2>4, <2>5, OneKeepsMessages DEF Sane
<1>6. CASE SoftDeleteMessage(t) /\ ~Quit(t)
  <2> DEFINE row == [db[Msg(k)] EXCEPT !.deleted = TRUE, !.text = FALSE]
             next == IF db[Msg(k)].parent = None THEN "persist" ELSE "decrementReplyCount"
  <2>1. /\ Write(t, One(Msg(k), row), next) /\ at[t] = "softDeleteMessage" /\ Live(k)
        /\ shared' = shared /\ emitted' = emitted
    BY <1>6 DEF SoftDeleteMessage, Runs
  <2>2. row.deleted /\ ~row.text /\ row.seq = db[Msg(k)].seq
    BY <1>4 DEF MessageRow
  <2>3. request[t].op = "delete" /\ next \in {"persist", "decrementReplyCount"}
    BY <1>0, <1>2, <2>1, OpAt
  <2>4. db[Msg(k)].seq > 0 /\ ~db[Msg(k)].deleted
    BY <2>1 DEF Live
  <2> HIDE DEF row, next
  <2>5. DOMAIN One(Msg(k), row) = {Msg(k)} /\ One(Msg(k), row)[Msg(k)] = row
    BY OneDomain
  <2>6. Moves(t, One(Msg(k), row), next) => Deleting(t, k)'
    BY <2>2, <2>4, <2>5 DEF Moves, Deleting
  <2>7. Moves(t, One(Msg(k), row), next) => \A m \in Message : Ready(t, m)'
    BY <2>3, <2>6 DEF Moves, Ready
  <2> HIDE DEF k
  <2>. QED
    BY <1>3, <2>1, <2>2, <2>4, <2>7, OneKeepsMessages DEF Sane
<1>7. CASE DecrementReplyCount(t)
  <2> DEFINE p == Seen(t, Msg(k)).parent
             row == [Seen(t, Msg(p)) EXCEPT !.replies = IF @ > 0 THEN @ - 1 ELSE 0]
  <2>1. /\ Write(t, One(Msg(p), row), "persist") /\ at[t] = "decrementReplyCount"
        /\ shared' = shared /\ emitted' = emitted
    BY <1>7 DEF DecrementReplyCount, Runs
  <2>2. request[t].op = "delete" /\ emitted[t] = {}
    BY <1>0, <1>2, <2>1, OpAt, NoEventYet
  <2>3. p \in Message
    <3>1. p # None
      BY <1>0, <1>2, <2>1 DEF TypeInv, Positioned, Seen
    <3>. QED
      BY <1>4, <3>1 DEF MessageRow
  <2> HIDE DEF p
  <2>4. /\ row.seq = Seen(t, Msg(p)).seq /\ row.deleted = Seen(t, Msg(p)).deleted
        /\ row.text = Seen(t, Msg(p)).text
    <3>1. Seen(t, Msg(p)) \in MessageRow
      BY <1>0, <2>3, SeenTyped DEF TypeInv
    <3>. QED
      BY <3>1 DEF MessageRow
  <2> HIDE DEF row
  <2>5. /\ Sane(Seen(t, Msg(p)))
        /\ db[Msg(p)].deleted => Seen(t, Msg(p)).deleted
        /\ Seen(t, Msg(p)).seq = db[Msg(p)].seq
    BY <2>2, <2>3, SeenMessage
  <2>6. Deleting(t, k)
    BY <1>3, <2>1 DEF MessageInv, Ready
  <2>7. Moves(t, One(Msg(p), row), "persist") => Deleting(t, k)'
    <3>. SUFFICES ASSUME Moves(t, One(Msg(p), row), "persist") PROVE Deleting(t, k)'
      OBVIOUS
    <3>0. DOMAIN One(Msg(p), row) = {Msg(p)} /\ One(Msg(p), row)[Msg(p)] = row
      BY OneDomain
    <3>1. Msg(k) \in DOMAIN draft'[t] /\ db' = db /\ request' = request
      BY <2>6 DEF Moves, Deleting
    <3>2. CASE Msg(k) = Msg(p)
      <4>1. draft'[t][Msg(k)] = row
        BY <3>0, <3>2 DEF Moves
      <4>2. Seen(t, Msg(p)) = draft[t][Msg(k)]
        BY <2>6, <3>2 DEF Seen, Deleting
      <4>. QED
        BY <2>4, <2>6, <3>1, <4>1, <4>2 DEF Deleting
    <3>3. CASE Msg(k) # Msg(p)
      <4>1. draft'[t][Msg(k)] = draft[t][Msg(k)]
        BY <2>6, <3>0, <3>3 DEF Moves, Deleting
      <4>. QED
        BY <2>6, <3>1, <4>1 DEF Deleting
    <3>. QED
      BY <3>2, <3>3
  <2>8. Moves(t, One(Msg(p), row), "persist") => \A m \in Message : Ready(t, m)'
    BY <2>2, <2>7 DEF Moves, Ready
  <2>. QED
    BY <2>1, <2>3, <2>4, <2>5, <2>8, OneKeepsMessages DEF Sane
<1>8. CASE WithAttachment(t) /\ ~Quit(t)
  <2>1. /\ Read(t, "setAttachments") /\ at[t] = "withAttachment" /\ Live(k)
        /\ emitted' = emitted
    BY <1>8 DEF WithAttachment, Read, Runs
  <2>2. Moves(t, NoRow, "setAttachments") /\ DOMAIN NoRow = {}
    BY <1>0, <2>1, ReadMoves DEF NoRow
  <2>3. emitted[t] = {}
    BY <2>1, NoEventYet
  <2>4. \A m \in Message : Ready(t, m)'
    BY <2>1, <2>2 DEF Moves, Ready, Live
  <2>. QED
    BY <2>1, <2>2, <2>3, <2>4, WriteKeepsMessages
<1>9. CASE SetAttachments(t)
  <2>1. /\ Write(t, One(Msg(k), db[Msg(k)]), "persist") /\ at[t] = "setAttachments"
        /\ shared' = shared /\ emitted' = emitted
    BY <1>9 DEF SetAttachments, Runs
  <2>2. request[t].op = "thumbnail"
    BY <1>0, <1>2, <2>1, OpAt
  <2>3. db[Msg(k)].seq > 0
    BY <1>3, <2>1 DEF MessageInv, Ready
  <2>4. Sane(db[Msg(k)])
    BY <1>3 DEF MessageInv, InOrder
  <2>5. Moves(t, One(Msg(k), db[Msg(k)]), "persist") => \A m \in Message : Ready(t, m)'
    BY <2>2, <2>3 DEF Moves, Ready
  <2> HIDE DEF k
  <2>. QED
    BY <1>3, <2>1, <2>4, <2>5, OneKeepsMessages
<1>. QED
  BY <1>1, <1>5, <1>6, <1>7, <1>8, <1>9

LEMMA UserStatementMessages ==
  ASSUME MessageInv, ChannelInv, NEW t \in Tx, UserStatement(t)
  PROVE  MessageInv'
<1>0. TypeInv
  BY DEF ChannelInv
<1>1. CASE Quit(t)
  BY <1>0, <1>1, QuitKeepsMessages
<1>2. CASE ScrubAuthored(t)
  <2> DEFINE mine == {Msg(m) : m \in {k \in found[t] \cap Authored(request[t].u) : Live(k)}}
             rows == [r \in mine |-> [db[r] EXCEPT !.text = FALSE, !.deleted = TRUE]]
  <2>1. /\ Write(t, rows, "deleteUser") /\ at[t] = "scrubAuthored"
        /\ shared' = shared /\ emitted' = emitted
    BY <1>2 DEF ScrubAuthored, Runs
  <2>2. Moves(t, rows, "deleteUser")
    BY <1>0, <2>1, WriteMoves
  <2>3. emitted[t] = {}
    BY <2>1, NoEventYet
  <2>4. ASSUME NEW m \in Message, Msg(m) \in DOMAIN rows
        PROVE  /\ Sane(rows[Msg(m)]) /\ rows[Msg(m)].deleted
               /\ rows[Msg(m)].seq = db[Msg(m)].seq
    <3>1. Live(m)
      BY <2>4, KeysDistinct
    <3>2. rows[Msg(m)] = [db[Msg(m)] EXCEPT !.text = FALSE, !.deleted = TRUE]
      BY <2>4
    <3>3. db[Msg(m)] \in MessageRow
      BY <1>0, DbTyped DEF TypeInv
    <3>4. /\ rows[Msg(m)].deleted = TRUE /\ rows[Msg(m)].text = FALSE
          /\ rows[Msg(m)].seq = db[Msg(m)].seq
      BY <3>2, <3>3 DEF MessageRow
    <3>. QED
      BY <3>1, <3>4 DEF Live, Sane
  <2> HIDE DEF rows
  <2>5. \A m \in Message : Ready(t, m)'
    BY <2>2 DEF Moves, Ready
  <2>. QED
    BY <2>1, <2>2, <2>3, <2>4, <2>5, WriteKeepsMessages
<1>3. CASE DeleteUser(t) /\ ~Quit(t)
  <2> DEFINE u == request[t].u
             rows == Deletion(t, u)
  <2>1. /\ Write(t, rows, "commit") /\ at[t] = "deleteUser"
        /\ shared' = shared /\ emitted' = emitted
    BY <1>3 DEF DeleteUser, Deletion, Runs
  <2>2. Moves(t, rows, "commit")
    BY <1>0, <2>1, WriteMoves
  <2>3. emitted[t] = {}
    BY <2>1, NoEventYet
  <2>4. ASSUME NEW m \in Message, Msg(m) \in DOMAIN rows
        PROVE  /\ Sane(rows[Msg(m)])
               /\ db[Msg(m)].deleted => rows[Msg(m)].deleted
               /\ rows[Msg(m)].seq = db[Msg(m)].seq
    <3>1. DOMAIN Cascaded(t, u) = {Account(u), Member(u)} \cup {Reaction(k, u) : k \in Message}
      BY DEF Cascaded
    <3>2. Msg(m) \notin DOMAIN Cascaded(t, u)
      BY <3>1, RowsDistinct
    <3>3. Msg(m) \in DOMAIN Nulled(t, u) /\ rows[Msg(m)] = Nulled(t, u)[Msg(m)]
      BY <2>4, <3>2 DEF Deletion
    <3>4. rows[Msg(m)] = [Seen(t, Msg(m)) EXCEPT !.author = None]
      BY <3>3, RowsDistinct DEF Nulled
    <3>5. Seen(t, Msg(m)) \in MessageRow
      BY <1>0, SeenTyped DEF TypeInv
    <3>6. /\ rows[Msg(m)].deleted = Seen(t, Msg(m)).deleted
          /\ rows[Msg(m)].text = Seen(t, Msg(m)).text
          /\ rows[Msg(m)].seq = Seen(t, Msg(m)).seq
      BY <3>4, <3>5 DEF MessageRow
    <3>7. /\ Sane(Seen(t, Msg(m)))
          /\ db[Msg(m)].deleted => Seen(t, Msg(m)).deleted
          /\ Seen(t, Msg(m)).seq = db[Msg(m)].seq
      BY <2>3, SeenMessage
    <3>. QED
      BY <3>6, <3>7 DEF Sane
  <2> HIDE DEF rows
  <2>5. \A m \in Message : Ready(t, m)'
    BY <2>2 DEF Moves, Ready
  <2>. QED
    BY <2>1, <2>2, <2>3, <2>4, <2>5, WriteKeepsMessages
<1>4. CASE FindAuthored(t)
  <2>1. Read(t, "scrubAuthored") /\ at[t] = "findAuthored"
    BY <1>4 DEF FindAuthored, Runs
  <2>2. Moves(t, NoRow, "scrubAuthored") /\ emitted' = emitted /\ DOMAIN NoRow = {}
    BY <1>0, <2>1, ReadMoves DEF Read, NoRow
  <2>. QED
    BY <1>0, <2>2, OtherKeepsMessages
<1>5. CASE UpsertUser(t)
  BY <1>0, <1>5, UpsertOver, OverKeepsMessages
<1>. QED
  BY <1>1, <1>2, <1>3, <1>4, <1>5 DEF UserStatement

LEMMA PersistMessages ==
  ASSUME MessageInv, ChannelInv, NEW t \in Tx, Persist(t)
  PROVE  MessageInv'
<1>0. TypeInv
  BY DEF ChannelInv
<1> DEFINE e == EventOf(t, Bumped(t).seq)
<1>1. /\ Write(t, One(Channel, Bumped(t)), "commit") /\ at[t] = "persist"
      /\ emitted' = [emitted EXCEPT ![t] = {e}] /\ shared' = shared
  BY DEF Persist, Runs
<1>2. Moves(t, One(Channel, Bumped(t)), "commit")
  BY <1>0, <1>1, WriteMoves
<1>3. emitted[t] = {}
  BY <1>1, NoEventYet
<1>4. /\ request[t].op \in Operation
      /\ request[t].op \notin {"create", "send", "deleteUser", "upsertUser"}
  BY <1>0, <1>1, OpAt, RequestTyped DEF TypeInv, Positioned, Running
<1>5. /\ e.m = request[t].m /\ e.type # "message.new"
      /\ e.type = "message.updated" => request[t].op \in {"edit", "thumbnail"}
      /\ e.type = "message.deleted" => request[t].op = "delete"
  BY <1>4 DEF EventOf, EventName, Operation
<1> HIDE DEF e
<1>6. emitted'[t] = {e} /\ \A s \in Tx : s # t => emitted'[s] = emitted[s]
  BY <1>0, <1>1 DEF TypeInv, TypeOK
<1>7. ASSUME NEW m \in Message PROVE Version(t, m)' /\ Tells(t, m)' /\ Ready(t, m)'
  <2>1. /\ Msg(m) \in DOMAIN draft'[t] <=> Msg(m) \in DOMAIN draft[t]
        /\ Msg(m) \in DOMAIN draft[t] => draft'[t][Msg(m)] = draft[t][Msg(m)]
        /\ db' = db /\ at'[t] = "commit"
    BY <1>2, OneMessage DEF Moves
  <2>2. Version(t, m)'
    BY <1>3, <2>1 DEF MessageInv, Version
  <2>3. Tells(t, m)'
    <3>. SUFFICES ASSUME e.m = m
                  PROVE  /\ e.type = "message.updated" => db[Msg(m)].seq > 0
                         /\ e.type = "message.deleted" => Deleting(t, m)'
      BY <1>5, <1>6, <2>1 DEF Tells
    <3>1. Ready(t, m)
      BY DEF MessageInv
    <3>2. e.type = "message.updated" => db[Msg(m)].seq > 0
      BY <1>1, <1>5, <3>1 DEF Ready
    <3>3. e.type = "message.deleted" => Deleting(t, m)
      BY <1>1, <1>5, <3>1 DEF Ready
    <3>4. Deleting(t, m) => Deleting(t, m)'
      BY <2>1 DEF Deleting
    <3>. QED
      BY <3>2, <3>3, <3>4
  <2>4. Ready(t, m)'
    BY <2>1 DEF Ready
  <2>. QED
    BY <2>2, <2>3, <2>4
<1>. QED
  BY <1>2, <1>6, <1>7, MoveKeepsMessages

LEMMA InitMessages == Init => MessageInv
<1>. SUFFICES ASSUME Init, NEW m \in Message
              PROVE  /\ InOrder(m) /\ Told(m)
                     /\ \A t \in Tx : Version(t, m) /\ Tells(t, m) /\ Ready(t, m)
  BY DEF MessageInv
<1>0. PICK creator \in User \cup {None}, status \in {"absent", "live"} :
        db = [r \in Row |->
                CASE r = Channel -> [status |-> status, seq |-> 0, creator |-> creator]
                  [] r[1] = "message" -> Absent
                  [] r[1] = "member" -> [joined |-> r[2] = creator, read |-> 0]
                  [] r[1] = "reaction" -> FALSE
                  [] r[1] = "user" -> TRUE]
  BY DEF Init
<1>1. db[Msg(m)] = Absent
  BY <1>0, InRow, RowsDistinct DEF Msg, Channel
<1>2. db[Channel].seq = 0
  BY <1>0, InRow DEF Channel
<1>3. log = {}
  BY DEF Init
<1>4. InOrder(m) /\ Told(m)
  BY <1>1, <1>2, <1>3 DEF Absent, InOrder, Sane, Told
<1>5. \A t \in Tx : DOMAIN draft[t] = {} /\ emitted[t] = {} /\ at[t] = "idle"
  BY DEF Init, NoRow
<1>. QED
  BY <1>4, <1>5 DEF Version, Tells, Ready

LEMMA NextMessages == ChannelInv /\ RowInv /\ MessageInv /\ [Next]_vars => MessageInv'
<1>. SUFFICES ASSUME ChannelInv, RowInv, MessageInv, [Next]_vars PROVE MessageInv'
  OBVIOUS
<1>0. TypeInv
  BY DEF ChannelInv
<1>1. CASE UNCHANGED vars
  BY <1>1 DEF vars, txVars, MessageInv, InOrder, Told, Version, Tells, Ready, Deleting
<1>2. ASSUME NEW t \in Tx, Begin(t) PROVE MessageInv'
  BY <1>0, <1>2, BeginKeepsMessages
<1>3. ASSUME NEW t \in Tx, Rollback(t) PROVE MessageInv'
  BY <1>0, <1>3, QuitKeepsMessages DEF Rollback
<1>4. ASSUME NEW t \in Tx, Statement(t) PROVE MessageInv'
  BY <1>0, <1>4, ChannelStatementMessages, InsertKeepsMessages, ReplyKeepsMessages,
     ChangeStatementMessages, MemberStatementMessages, UserStatementMessages,
     PersistMessages, CommitKeepsMessages
     DEF Statement, MessageStatement
<1>. QED
  BY <1>1, <1>2, <1>3, <1>4 DEF Next

(* A message row and its message.new event commit together, under one seq; *)
(* its other events come later, and it is deleted once.                    *)
THEOREM RowsFollowLog == Spec => []RowsMatchLog
<1>1. MessageInv /\ TypeInv => RowsMatchLog
  <2>. SUFFICES ASSUME MessageInv, TypeInv, NEW m \in Message
                PROVE  LET events == {e \in EventsOf(MessageEvents) : e.m = m}
                           created == {e \in events : e.type = "message.new"}
                           deleted == {e \in events : e.type = "message.deleted"}
                       IN  /\ {e.seq : e \in created} = {db[Msg(m)].seq} \ {0}
                           /\ \A e \in events : db[Msg(m)].seq > 0 /\ e.seq >= db[Msg(m)].seq
                           /\ Cardinality(deleted) <= 1
                           /\ deleted # {} => db[Msg(m)].deleted
    BY DEF RowsMatchLog, MessageEvents
  <2> DEFINE events == {e \in EventsOf(MessageEvents) : e.m = m}
             created == {e \in events : e.type = "message.new"}
             deleted == {e \in events : e.type = "message.deleted"}
  <2>1. Told(m)
    BY DEF MessageInv
  <2>2. db[Msg(m)].seq \in Nat
    BY DbTyped DEF TypeInv, MessageRow
  <2>3. \A e \in events : e \in log /\ e.m = m /\ e.type \in MessageEvents
    BY DEF EventsOf
  <2>4. created = {e \in log : e.m = m /\ e.type = "message.new"}
    BY DEF EventsOf, MessageEvents
  <2>5. deleted = {e \in log : e.m = m /\ e.type = "message.deleted"}
    BY DEF EventsOf, MessageEvents
  <2> HIDE DEF events, created, deleted
  <2>6. \A e \in events : db[Msg(m)].seq > 0 /\ e.seq >= db[Msg(m)].seq
    BY <2>1, <2>3 DEF Told
  <2>7. \A e \in created : e.seq = db[Msg(m)].seq /\ db[Msg(m)].seq > 0
    BY <2>1, <2>4 DEF Told, MessageEvents
  <2>8. db[Msg(m)].seq > 0 => \E e \in created : e.seq = db[Msg(m)].seq
    BY <2>1, <2>4 DEF Told
  <2>9. {e.seq : e \in created} = {db[Msg(m)].seq} \ {0}
    BY <2>2, <2>7, <2>8
  <2>10. \A e, f \in deleted : e = f
    BY <2>1, <2>5 DEF Told
  <2>11. Cardinality(deleted) <= 1
    <3>1. CASE deleted = {}
      <4>1. Cardinality({}) = 0
        BY FS_EmptySet
      <4>. QED
        BY <3>1, <4>1
    <3>2. CASE deleted # {}
      <4>1. PICK e : e \in deleted
        BY <3>2
      <4>2. deleted = {e}
        BY <2>10, <4>1
      <4>3. Cardinality({e}) = 1
        BY FS_Singleton
      <4>. QED
        BY <4>2, <4>3
    <3>. QED
      BY <3>1, <3>2
  <2>12. deleted # {} => db[Msg(m)].deleted
    BY <2>1, <2>5 DEF Told
  <2>. QED
    BY <2>6, <2>9, <2>11, <2>12 DEF events, created, deleted
<1>2. ChannelInv => TypeInv
  BY DEF ChannelInv
<1>. QED
  BY <1>1, <1>2, ChannelInit, ChannelNext, InitRows, NextRows, InitMessages, NextMessages, PTL
     DEF Spec

(* A deleted message stays deleted and its text never comes back, whatever *)
(* edits and thumbnails were under way when it was deleted.                *)
THEOREM DeletedStaysDeleted == Spec => DeletedForGood
<1>1. ChannelInv /\ MessageInv /\ MessageInv' /\ [Next]_vars =>
        [\A m \in Message : db[Msg(m)].deleted =>
           db'[Msg(m)].deleted /\ ~db'[Msg(m)].text]_vars
  <2>. SUFFICES ASSUME ChannelInv, MessageInv, MessageInv', Next,
                       NEW m \in Message, db[Msg(m)].deleted
                PROVE  db'[Msg(m)].deleted /\ ~db'[Msg(m)].text
    OBVIOUS
  <2>1. CASE db'[Msg(m)] = db[Msg(m)]
    BY <2>1 DEF MessageInv, InOrder, Sane
  <2>2. CASE \E t \in Tx : Commit(t)
    BY <2>2, CommitMessage DEF Sane
  <2>3. db'[Msg(m)] = db[Msg(m)] \/ \E t \in Tx : Commit(t)
    BY StepCommits DEF ChannelInv
  <2>. QED
    BY <2>1, <2>2, <2>3
<1>. QED
  BY <1>1, ChannelInit, ChannelNext, InitRows, NextRows, InitMessages, NextMessages, PTL
     DEF Spec, DeletedForGood

-----------------------------------------------------------------------------
(* Members and reactions.  What a transaction has changed of them is its   *)
(* request's, differs from the row as the request says, and is what its    *)
(* event reports.                                                          *)
MemberOps == {"addMember", "removeMember", "markRead"}
ReactionOps == {"react", "unreact"}
Changed == {"countsByType", "persist", "commit"}

OwnMember(t, u) ==
  Member(u) \in DOMAIN draft[t] =>
    \/ Account(u) \in DOMAIN draft[t]
    \/ /\ request[t].op = "create" /\ at[t] = "commit"
       /\ Held(t) /\ draft[t][Channel].creator = u /\ draft[t][Member(u)].joined
    \/ /\ request[t].op \in MemberOps /\ request[t].u = u /\ at[t] \in Changed
       /\ draft[t][Member(u)].joined <=> request[t].op # "removeMember"
       /\ db[Member(u)].joined <=> request[t].op # "addMember"
       /\ request[t].op = "markRead" =>
            draft[t][Member(u)].read = local[t] /\ db[Member(u)].read <= local[t]

OwnReaction(t, m, u) ==
  Reaction(m, u) \in DOMAIN draft[t] =>
    \/ Account(u) \in DOMAIN draft[t]
    \/ /\ request[t].op \in ReactionOps /\ request[t].m = m /\ request[t].u = u
       /\ at[t] \in Changed
       /\ draft[t][Reaction(m, u)] = TRUE <=> request[t].op = "react"
       /\ db[Reaction(m, u)] = TRUE <=> request[t].op = "unreact"

(* A version of the channel has the creator of the row, but for a channel  *)
(* that is being created and an erasure of the creator.                    *)
Creator(t) ==
  /\ at[t] = "addOwner" => Held(t) /\ draft[t][Channel].creator = request[t].u
  /\ Held(t) /\ at[t] # "addOwner" =>
       \/ draft[t][Channel].creator = db[Channel].creator
       \/ /\ at[t] = "commit" /\ request[t].op = "create"
          /\ Member(draft[t][Channel].creator) \in DOMAIN draft[t]
       \/ /\ at[t] = "commit" /\ draft[t][Channel].creator = None
          /\ Account(db[Channel].creator) \in DOMAIN draft[t]

Erases(t) ==
  \A u \in User : Account(u) \in DOMAIN draft[t] =>
    request[t].op = "deleteUser" /\ at[t] = "commit" /\ draft[t][Account(u)] # TRUE

(* Whoever will have an event has changed the row.                         *)
Owes(t) ==
  at[t] \in Changed =>
    /\ request[t].op \in MemberOps => Member(request[t].u) \in DOMAIN draft[t]
    /\ request[t].op \in ReactionOps =>
         Reaction(request[t].m, request[t].u) \in DOMAIN draft[t]

Reports(t) ==
  \A e \in emitted[t] :
    /\ e.type = EventName[request[t].op] /\ e.m = request[t].m /\ e.u = request[t].u
    /\ e.data = local[t]

Own(t) ==
  /\ Creator(t) /\ Erases(t) /\ Owes(t) /\ Reports(t)
  /\ \A u \in User : OwnMember(t, u) /\ \A m \in Message : OwnReaction(t, m, u)

OwnInv == \A t \in Tx : Own(t)

-----------------------------------------------------------------------------
(* Another's turn leaves t's own as it is, if it changes none of its rows. *)
LEMMA OwnKept ==
  ASSUME NEW s \in Tx, Own(s),
         draft'[s] = draft[s], at'[s] = at[s], request'[s] = request[s],
         emitted'[s] = emitted[s], local'[s] = local[s],
         \A r \in DOMAIN draft[s] \cap Row : db'[r] = db[r]
  PROVE  Own(s)'
<1>1. Creator(s)'
  <2>1. Held(s) => db'[Channel] = db[Channel]
    BY InRow DEF Held
  <2>. QED
    BY <2>1 DEF Own, Creator, Held
<1>2. Erases(s)' /\ Owes(s)' /\ Reports(s)'
  BY DEF Own, Erases, Owes, Reports
<1>3. ASSUME NEW u \in User PROVE OwnMember(s, u)'
  <2>1. Member(u) \in DOMAIN draft[s] => db'[Member(u)] = db[Member(u)]
    BY InRow
  <2>. QED
    BY <2>1 DEF Own, OwnMember, Held
<1>4. ASSUME NEW u \in User, NEW m \in Message PROVE OwnReaction(s, m, u)'
  <2>1. Reaction(m, u) \in DOMAIN draft[s] => db'[Reaction(m, u)] = db[Reaction(m, u)]
    BY InRow
  <2>. QED
    BY <2>1 DEF Own, OwnReaction
<1>. QED
  BY <1>1, <1>2, <1>3, <1>4 DEF Own

LEMMA MoveKeepsOwn ==
  ASSUME OwnInv, NEW t \in Tx, NEW rows, NEW next, Moves(t, rows, next),
         \A s \in Tx : s # t => emitted'[s] = emitted[s] /\ local'[s] = local[s],
         Own(t)'
  PROVE  OwnInv'
<1>1. ASSUME NEW s \in Tx, s # t PROVE Own(s)'
  <2>1. /\ draft'[s] = draft[s] /\ at'[s] = at[s] /\ request'[s] = request[s]
        /\ emitted'[s] = emitted[s] /\ local'[s] = local[s] /\ db' = db
    BY <1>1 DEF Moves
  <2>. QED
    BY <2>1, OwnKept DEF OwnInv
<1>. QED
  BY <1>1 DEF OwnInv

(* What a statement does that changes no member, reaction or user, and not *)
(* the channel's creator.                                                  *)
Apart(rows) ==
  /\ \A u \in User : Member(u) \notin DOMAIN rows /\ Account(u) \notin DOMAIN rows
  /\ \A u \in User, m \in Message : Reaction(m, u) \notin DOMAIN rows

LEMMA ApartKeepsOwn ==
  ASSUME OwnInv, NEW t \in Tx, NEW rows, NEW next, Moves(t, rows, next), Apart(rows),
         \A s \in Tx : s # t => emitted'[s] = emitted[s] /\ local'[s] = local[s],
         Channel \in DOMAIN rows => rows[Channel].creator = Seen(t, Channel).creator,
         at[t] \notin {"addOwner", "commit"}, next # "addOwner",
         next \in Changed =>
           at[t] \in Changed \/ request[t].op \notin MemberOps \cup ReactionOps,
         at[t] \in Changed => next \in Changed,
         local'[t] = local[t] \/ at[t] \notin Changed \/ request[t].op # "markRead",
         Reports(t)'
  PROVE  OwnInv'
<1>1. /\ db' = db /\ request' = request /\ at'[t] = next
      /\ \A r : r \in DOMAIN draft'[t] <=> r \in DOMAIN draft[t] \/ r \in DOMAIN rows
      /\ \A r \in DOMAIN rows : draft'[t][r] = rows[r]
      /\ \A r \in DOMAIN draft[t] : r \notin DOMAIN rows => draft'[t][r] = draft[t][r]
  BY DEF Moves
<1>0. Own(t)
  BY DEF OwnInv
<1>2. Creator(t)'
  <2>1. Held(t) => draft[t][Channel].creator = db[Channel].creator
    BY <1>0 DEF Own, Creator
  <2>2. Seen(t, Channel).creator = db[Channel].creator
    BY <2>1 DEF Seen, Held
  <2>3. Held(t)' => draft'[t][Channel].creator = db[Channel].creator
    BY <1>1, <2>1, <2>2 DEF Held
  <2>. QED
    BY <1>1, <2>3 DEF Creator
<1>3. Erases(t)'
  <2>1. \A u \in User : Account(u) \notin DOMAIN draft[t]
    BY <1>0 DEF Own, Erases
  <2>. QED
    BY <1>1, <2>1 DEF Erases, Apart
<1>4. Owes(t)'
  BY <1>0, <1>1 DEF Own, Owes
<1>5. ASSUME NEW u \in User PROVE OwnMember(t, u)'
  <2>1. /\ Member(u) \in DOMAIN draft'[t] => Member(u) \in DOMAIN draft[t]
        /\ Member(u) \in DOMAIN draft[t] => draft'[t][Member(u)] = draft[t][Member(u)]
    BY <1>1 DEF Apart
  <2>2. Account(u) \notin DOMAIN draft[t]
    BY <1>0 DEF Own, Erases
  <2>. QED
    BY <1>0, <1>1, <2>1, <2>2 DEF Own, OwnMember
<1>6. ASSUME NEW u \in User, NEW m \in Message PROVE OwnReaction(t, m, u)'
  <2>1. /\ Reaction(m, u) \in DOMAIN draft'[t] => Reaction(m, u) \in DOMAIN draft[t]
        /\ Reaction(m, u) \in DOMAIN draft[t] =>
             draft'[t][Reaction(m, u)] = draft[t][Reaction(m, u)]
    BY <1>1 DEF Apart
  <2>2. Account(u) \notin DOMAIN draft[t]
    BY <1>0 DEF Own, Erases
  <2>. QED
    BY <1>0, <1>1, <2>1, <2>2 DEF Own, OwnReaction
<1>7. Own(t)'
  BY <1>2, <1>3, <1>4, <1>5, <1>6 DEF Own
<1>. QED
  BY <1>7, MoveKeepsOwn

LEMMA QuitKeepsOwn ==
  ASSUME OwnInv, TypeInv, NEW t \in Tx, End(t),
         \A s \in Tx : s # t => \A r \in DOMAIN draft[s] \cap Row : db'[r] = db[r]
  PROVE  OwnInv'
<1>1. /\ draft'[t] = NoRow /\ at'[t] = "done" /\ emitted'[t] = {}
      /\ \A s \in Tx : s # t =>
           /\ draft'[s] = draft[s] /\ at'[s] = at[s] /\ request'[s] = request[s]
           /\ emitted'[s] = emitted[s] /\ local'[s] = local[s]
  BY DEF End, TypeInv, TypeOK
<1>2. DOMAIN draft'[t] = {}
  BY <1>1 DEF NoRow
<1>3. Creator(t)' /\ Erases(t)' /\ Owes(t)' /\ Reports(t)'
  BY <1>1, <1>2 DEF Creator, Erases, Owes, Reports, Held, Changed
<1>4. \A u \in User : OwnMember(t, u)' /\ \A m \in Message : OwnReaction(t, m, u)'
  BY <1>2 DEF OwnMember, OwnReaction
<1>5. Own(t)'
  BY <1>3, <1>4 DEF Own
<1>6. ASSUME NEW s \in Tx, s # t PROVE Own(s)'
  BY <1>1, <1>6, OwnKept DEF OwnInv
<1>. QED
  BY <1>5, <1>6 DEF OwnInv

LEMMA BeginKeepsOwn ==
  ASSUME OwnInv, ChannelInv, NEW t \in Tx, Begin(t)
  PROVE  OwnInv'
<1>0. TypeInv
  BY DEF ChannelInv
<1>1. PICK q \in Requests :
        /\ request' = [request EXCEPT ![t] = q]
        /\ at' = [at EXCEPT ![t] = FirstStatement[q.op]]
        /\ local' = [local EXCEPT ![t] = q.n]
  BY DEF Begin
<1>2. UNCHANGED <<db, log, draft, emitted>> /\ at[t] = "idle"
  BY DEF Begin
<1>3. FirstStatement[q.op] \notin {"addOwner"} \cup Changed
  BY RequestTyped DEF FirstStatement, Operation, Changed
<1>4. /\ at'[t] = FirstStatement[q.op]
      /\ \A s \in Tx : s # t => at'[s] = at[s] /\ request'[s] = request[s] /\ local'[s] = local[s]
  BY <1>0, <1>1 DEF TypeInv, TypeOK
<1>5. emitted'[t] = {}
  BY <1>2, NoEventYet
<1>6. /\ ~Held(t)'
      /\ \A u \in User : Account(u) \notin DOMAIN draft'[t]
  BY <1>2 DEF ChannelInv, Turn, Ahead, Running, Held, OwnInv, Own, Erases
<1>7. Creator(t)' /\ Erases(t)' /\ Owes(t)' /\ Reports(t)'
  BY <1>3, <1>4, <1>5, <1>6 DEF Creator, Erases, Owes, Reports
<1>8. \A u \in User : OwnMember(t, u)' /\ \A m \in Message : OwnReaction(t, m, u)'
  BY <1>2, <1>6 DEF OwnInv, Own, OwnMember, OwnReaction, Changed
<1>9. Own(t)'
  BY <1>7, <1>8 DEF Own
<1>10. ASSUME NEW s \in Tx, s # t PROVE Own(s)'
  BY <1>2, <1>4, <1>10, OwnKept DEF OwnInv
<1>. QED
  BY <1>9, <1>10 DEF OwnInv

-----------------------------------------------------------------------------
(* The statements that change none of it.                                  *)
LEMMA ApartOne ==
  /\ \A row : Apart(One(Channel, row))
  /\ \A m, row : Apart(One(Msg(m), row))
  /\ Apart(NoRow)
<1>1. \A r, row : DOMAIN One(r, row) = {r}
  BY OneDomain
<1>2. DOMAIN NoRow = {}
  BY DEF NoRow
<1>3. ASSUME NEW row PROVE Apart(One(Channel, row))
  <2>1. DOMAIN One(Channel, row) = {Channel}
    BY <1>1
  <2>. QED
    BY <2>1, RowsDistinct DEF Apart
<1>4. ASSUME NEW m, NEW row PROVE Apart(One(Msg(m), row))
  <2>1. DOMAIN One(Msg(m), row) = {Msg(m)}
    BY <1>1
  <2>. QED
    BY <2>1, RowsDistinct DEF Apart
<1>. QED
  BY <1>2, <1>3, <1>4 DEF Apart

(* One that writes a message, before or after the event.                   *)
LEMMA MessageKeepsOwn ==
  ASSUME OwnInv, TypeInv, NEW t \in Tx, NEW m, NEW row, NEW next,
         Write(t, One(Msg(m), row), next), Running(t),
         shared' = shared \/ \E users : shared' = [shared EXCEPT ![t] = users],
         local' = local, emitted' = emitted \/ \E n : emitted' = [emitted EXCEPT ![t] = {EventOf(t, n)}],
         request[t].op \notin MemberOps \cup ReactionOps,
         at[t] \notin {"addOwner", "commit", "persist", "countsByType"}, next # "addOwner"
  PROVE  OwnInv'
<1>1. Moves(t, One(Msg(m), row), next)
  BY WriteMoves
<1>2. Apart(One(Msg(m), row)) /\ Channel \notin DOMAIN One(Msg(m), row)
  BY ApartOne, OneDomain
<1>3. \A s \in Tx : s # t => emitted'[s] = emitted[s]
  BY DEF TypeInv, TypeOK
<1>4. Reports(t)'
  <2>1. request' = request /\ local' = local
    BY DEF Write
  <2>2. CASE emitted' = emitted
    BY <2>1, <2>2 DEF OwnInv, Own, Reports
  <2>3. ASSUME NEW n, emitted' = [emitted EXCEPT ![t] = {EventOf(t, n)}] PROVE Reports(t)'
    <3>1. emitted'[t] = {EventOf(t, n)}
      BY <2>3 DEF TypeInv, TypeOK
    <3>. QED
      BY <2>1, <3>1 DEF Reports, EventOf
  <2>. QED
    BY <2>2, <2>3
<1>. QED
  BY <1>1, <1>2, <1>3, <1>4, ApartKeepsOwn DEF Changed

LEMMA MessageStatementOwn ==
  ASSUME OwnInv, ChannelInv, NEW t \in Tx, MessageStatement(t)
  PROVE  OwnInv'
<1>0. TypeInv
  BY DEF ChannelInv
<1>1. CASE Quit(t)
  BY <1>0, <1>1, QuitKeepsOwn DEF Quit
<1>2. ASSUME InsertMessage(t), ~Quit(t) PROVE OwnInv'
  <2>1. Running(t) /\ at[t] = "insertMessage" /\ request[t].op = "send"
    BY <1>0, <1>2, OpAt, RunsRunning DEF InsertMessage
  <2>2. PICK row, next, users :
          /\ Write(t, One(Msg(request[t].m), row), next) /\ next # "addOwner"
          /\ shared' = [shared EXCEPT ![t] = users] /\ local' = local
          /\ \E n : emitted' = [emitted EXCEPT ![t] = {EventOf(t, n)}]
    BY <1>2 DEF InsertMessage
  <2>. QED
    BY <1>0, <2>1, <2>2, MessageKeepsOwn DEF MemberOps, ReactionOps
<1>3. ASSUME IncrementReplyCount(t) \/ UpdateMessage(t) \/ SoftDeleteMessage(t)
             \/ DecrementReplyCount(t) \/ SetAttachments(t), ~Quit(t)
      PROVE  OwnInv'
  <2>1. PICK m, row, next :
          /\ Write(t, One(Msg(m), row), next) /\ next # "addOwner" /\ Running(t)
          /\ UNCHANGED <<shared, local, emitted>>
          /\ at[t] \in {"incrementReplyCount", "updateMessage", "softDeleteMessage",
                        "decrementReplyCount", "setAttachments"}
    <3>1. CASE IncrementReplyCount(t)
      BY <3>1 DEF IncrementReplyCount, Runs, Running
    <3>2. CASE UpdateMessage(t)
      BY <1>3, <3>2 DEF UpdateMessage, Runs, Running
    <3>3. CASE SoftDeleteMessage(t)
      BY <1>3, <3>3 DEF SoftDeleteMessage, Runs, Running
    <3>4. CASE DecrementReplyCount(t)
      BY <3>4 DEF DecrementReplyCount, Runs, Running
    <3>5. CASE SetAttachments(t)
      BY <3>5 DEF SetAttachments, Runs, Running
    <3>. QED
      BY <1>3, <3>1, <3>2, <3>3, <3>4, <3>5
  <2>2. request[t].op \notin MemberOps \cup ReactionOps
    BY <1>0, <2>1, OpAt DEF MemberOps, ReactionOps
  <2>. QED
    BY <1>0, <2>1, <2>2, MessageKeepsOwn
<1>4. ASSUME WithAttachment(t), ~Quit(t) PROVE OwnInv'
  <2>1. at[t] = "withAttachment" /\ Read(t, "setAttachments") /\ local' = local
    BY <1>4 DEF WithAttachment, Runs
  <2>2. Moves(t, NoRow, "setAttachments")
    BY <1>0, <2>1, ReadMoves
  <2>3. emitted' = emitted /\ request' = request
    BY <2>1 DEF Read
  <2>4. Reports(t)'
    BY <2>1, <2>3 DEF OwnInv, Own, Reports
  <2>5. DOMAIN NoRow = {}
    BY DEF NoRow
  <2>. QED
    BY <2>1, <2>2, <2>3, <2>4, <2>5, ApartOne, ApartKeepsOwn DEF Changed
<1>5. ASSUME BumpSeqForMessage(t), ~Quit(t) PROVE OwnInv'
  <2>1. /\ at[t] = "bumpSeqForMessage" /\ Write(t, One(Channel, Bumped(t)), "insertMessage")
        /\ UNCHANGED <<shared, local, emitted>>
    BY <1>5 DEF BumpSeqForMessage, Runs
  <2>2. Moves(t, One(Channel, Bumped(t)), "insertMessage")
    BY <1>0, <2>1, WriteMoves
  <2>3. Reports(t)'
    BY <2>1 DEF OwnInv, Own, Reports, Write
  <2>4. Bumped(t).creator = Seen(t, Channel).creator
    BY <1>0, SeenTyped DEF Bumped, ChannelRow, TypeInv
  <2>5. One(Channel, Bumped(t))[Channel] = Bumped(t)
    BY OneDomain
  <2>. QED
    BY <2>1, <2>2, <2>3, <2>4, <2>5, ApartOne, ApartKeepsOwn DEF Changed
<1>. QED
  BY <1>1, <1>2, <1>3, <1>4, <1>5 DEF MessageStatement

(* Those of the channel, and the event that ends most requests.            *)
LEMMA ChannelStatementOwn ==
  ASSUME OwnInv, ChannelInv, RowInv, NEW t \in Tx, ChannelStatement(t)
  PROVE  OwnInv'
<1>0. TypeInv /\ db[Channel] \in ChannelRow
  BY DbTyped DEF ChannelInv, TypeInv
<1>00. Own(t)
  BY DEF OwnInv
<1>1. CASE Quit(t)
  BY <1>0, <1>1, QuitKeepsOwn DEF Quit
<1>2. ASSUME UpdateChannel(t) \/ SoftDeleteChannel(t), ~Quit(t) PROVE OwnInv'
  <2>1. PICK row :
          /\ Write(t, One(Channel, row), "persist") /\ row.creator = db[Channel].creator
          /\ UNCHANGED <<shared, local, emitted>>
          /\ at[t] \in {"updateChannel", "softDeleteChannel"} /\ Running(t)
    <3>1. CASE UpdateChannel(t)
      BY <1>0, <1>2, <3>1 DEF UpdateChannel, Runs, Running, ChannelRow
    <3>2. CASE SoftDeleteChannel(t)
      BY <1>0, <1>2, <3>2 DEF SoftDeleteChannel, Runs, Running, ChannelRow
    <3>. QED
      BY <1>2, <3>1, <3>2
  <2>2. Moves(t, One(Channel, row), "persist")
    BY <1>0, <2>1, WriteMoves
  <2>3. Reports(t)'
    BY <1>00, <2>1 DEF Own, Reports, Write
  <2>4. row.creator = Seen(t, Channel).creator
    BY <1>00, <2>1 DEF Own, Creator, Seen, Held
  <2>5. One(Channel, row)[Channel] = row
    BY OneDomain
  <2>6. request[t].op \notin MemberOps \cup ReactionOps
    BY <1>0, <2>1, OpAt DEF MemberOps, ReactionOps
  <2>. QED
    BY <2>1, <2>2, <2>3, <2>4, <2>5, <2>6, ApartOne, ApartKeepsOwn DEF Changed
<1>3. ASSUME InsertIfAbsent(t), ~Quit(t) PROVE OwnInv'
  <2> DEFINE row == [status |-> "live", seq |-> 0, creator |-> request[t].u]
             next == IF request[t].u = None THEN "commit" ELSE "addOwner"
  <2>1. /\ Running(t) /\ at[t] = "insertIfAbsent" /\ request[t].op = "create"
        /\ emitted[t] = {}
    BY <1>0, <1>3, OpAt, RunsRunning, NoEventYet DEF InsertIfAbsent
  <2>2. /\ Write(t, One(Channel, row), next) /\ db[Channel].status = "absent"
        /\ shared' = [shared EXCEPT ![t] = {request[t].u} \ {None}]
        /\ UNCHANGED <<local, emitted>>
    BY <1>3 DEF InsertIfAbsent
  <2>3. db[Channel].creator = None
    BY <2>2 DEF ChannelInv, AbsentZero
  <2>4. row.creator = request[t].u /\ next \in {"commit", "addOwner"}
        /\ (next = "commit" <=> request[t].u = None)
    OBVIOUS
  <2> HIDE DEF row, next
  <2>5. Moves(t, One(Channel, row), next)
    BY <1>0, <2>2, WriteMoves
  <2>6. DOMAIN One(Channel, row) = {Channel} /\ One(Channel, row)[Channel] = row
        /\ Apart(One(Channel, row))
    BY OneDomain, ApartOne
  <2>7. /\ db' = db /\ request' = request /\ at'[t] = next
        /\ Held(t)' /\ draft'[t][Channel] = row
        /\ \A r \in DOMAIN draft'[t] : r = Channel \/ r \in DOMAIN draft[t]
    BY <2>5, <2>6 DEF Moves, Held
  <2>8. Creator(t)'
    BY <2>3, <2>4, <2>7 DEF Creator
  <2>9. /\ \A u \in User : Member(u) \notin DOMAIN draft[t] /\ Account(u) \notin DOMAIN draft[t]
        /\ \A u \in User, m \in Message : Reaction(m, u) \notin DOMAIN draft[t]
    BY <1>00, <2>1 DEF Own, OwnMember, OwnReaction, Erases, Changed
  <2>10. /\ \A u \in User : Member(u) \notin DOMAIN draft'[t] /\ Account(u) \notin DOMAIN draft'[t]
         /\ \A u \in User, m \in Message : Reaction(m, u) \notin DOMAIN draft'[t]
    BY <2>7, <2>9, RowsDistinct
  <2>11. Owes(t)' /\ Erases(t)' /\ Reports(t)'
    BY <2>1, <2>2, <2>7, <2>10 DEF Owes, Erases, Reports, MemberOps, ReactionOps
  <2>12. Own(t)'
    BY <2>8, <2>10, <2>11 DEF Own, OwnMember, OwnReaction
  <2>. QED
    BY <2>2, <2>5, <2>12, MoveKeepsOwn
<1>4. ASSUME AddOwner(t) PROVE OwnInv'
  <2> DEFINE row == [joined |-> TRUE, read |-> 0]
             u == request[t].u
  <2>1. /\ Running(t) /\ at[t] = "addOwner" /\ request[t].op = "create"
        /\ emitted[t] = {}
    BY <1>0, <1>4, OpAt, RunsRunning, NoEventYet DEF AddOwner
  <2>2. /\ Write(t, One(Member(u), row), "commit")
        /\ UNCHANGED <<shared, local, emitted>>
    BY <1>4 DEF AddOwner
  <2>3. row.joined
    OBVIOUS
  <2>4. Held(t) /\ draft[t][Channel].creator = u
    BY <1>00, <2>1 DEF Own, Creator
  <2> HIDE DEF row
  <2>5. Moves(t, One(Member(u), row), "commit")
    BY <1>0, <2>2, WriteMoves
  <2>6. DOMAIN One(Member(u), row) = {Member(u)} /\ One(Member(u), row)[Member(u)] = row
    BY OneDomain
  <2>7. /\ db' = db /\ request' = request /\ at'[t] = "commit"
        /\ Member(u) \in DOMAIN draft'[t] /\ draft'[t][Member(u)] = row
        /\ \A r \in DOMAIN draft'[t] : r = Member(u) \/ r \in DOMAIN draft[t]
    BY <2>5, <2>6 DEF Moves
  <2>8. Held(t)' /\ draft'[t][Channel] = draft[t][Channel]
    <3>1. Channel # Member(u)
      BY RowsDistinct
    <3>. QED
      BY <2>4, <2>5, <2>6, <3>1 DEF Moves, Held
  <2>9. Creator(t)'
    BY <2>1, <2>4, <2>7, <2>8 DEF Creator
  <2>10. /\ \A v \in User : Member(v) \notin DOMAIN draft[t] /\ Account(v) \notin DOMAIN draft[t]
         /\ \A v \in User, m \in Message : Reaction(m, v) \notin DOMAIN draft[t]
    BY <1>00, <2>1 DEF Own, OwnMember, OwnReaction, Erases, Changed
  <2>11. /\ \A v \in User : Member(v) \in DOMAIN draft'[t] => v = u
         /\ \A v \in User : Account(v) \notin DOMAIN draft'[t]
         /\ \A v \in User, m \in Message : Reaction(m, v) \notin DOMAIN draft'[t]
    <3>1. ASSUME NEW v \in User
          PROVE  /\ Member(v) \in DOMAIN draft'[t] => v = u
                 /\ Account(v) \notin DOMAIN draft'[t]
      BY <2>7, <2>10, RowsDistinct, KeysDistinct
    <3>2. ASSUME NEW v \in User, NEW m \in Message PROVE Reaction(m, v) \notin DOMAIN draft'[t]
      <4>1. Reaction(m, v) # Member(u)
        BY RowsDistinct
      <4>. QED
        BY <2>7, <2>10, <4>1
    <3>. QED
      BY <3>1, <3>2
  <2>12. Owes(t)' /\ Erases(t)' /\ Reports(t)'
    BY <2>1, <2>2, <2>7, <2>11 DEF Owes, Erases, Reports, MemberOps, ReactionOps
  <2>13. ASSUME NEW v \in User PROVE OwnMember(t, v)'
    BY <2>1, <2>3, <2>4, <2>7, <2>8, <2>11 DEF OwnMember
  <2>14. Own(t)'
    BY <2>9, <2>11, <2>12, <2>13 DEF Own, OwnReaction
  <2>. QED
    BY <2>2, <2>5, <2>14, MoveKeepsOwn
<1>. QED
  BY <1>1, <1>2, <1>3, <1>4 DEF ChannelStatement

LEMMA PersistOwn ==
  ASSUME OwnInv, ChannelInv, NEW t \in Tx, Persist(t)
  PROVE  OwnInv'
<1>0. TypeInv
  BY DEF ChannelInv
<1>1. /\ at[t] = "persist" /\ Write(t, One(Channel, Bumped(t)), "commit")
      /\ emitted' = [emitted EXCEPT ![t] = {EventOf(t, Bumped(t).seq)}]
      /\ UNCHANGED <<shared, local>>
  BY DEF Persist, Runs
<1>2. Moves(t, One(Channel, Bumped(t)), "commit")
  BY <1>0, <1>1, WriteMoves
<1>3. /\ emitted'[t] = {EventOf(t, Bumped(t).seq)}
      /\ \A s \in Tx : s # t => emitted'[s] = emitted[s]
  BY <1>0, <1>1 DEF TypeInv, TypeOK
<1>4. Reports(t)'
  BY <1>1, <1>3 DEF Reports, EventOf, Write
<1>5. Bumped(t).creator = Seen(t, Channel).creator
  BY <1>0, SeenTyped DEF Bumped, ChannelRow, TypeInv
<1>6. One(Channel, Bumped(t))[Channel] = Bumped(t)
  BY OneDomain
<1>. QED
  BY <1>1, <1>2, <1>3, <1>4, <1>5, <1>6, ApartOne, ApartKeepsOwn DEF Changed

-----------------------------------------------------------------------------
(* The statements that change members and reactions.                       *)
LEMMA MemberWriteOwn ==
  ASSUME OwnInv, ChannelInv, NEW t \in Tx, NEW row, NEW u \in User,
         Write(t, One(Member(u), row), "persist"),
         shared' = shared \/ \E users : shared' = [shared EXCEPT ![t] = users],
         local' = local \/ \E n : local' = [local EXCEPT ![t] = n],
         emitted' = emitted, Running(t), u = request[t].u,
         at[t] \notin {"addOwner", "incrementReplyCount"} \cup Changed,
         request[t].op \in MemberOps,
         row.joined <=> request[t].op # "removeMember",
         db[Member(u)].joined <=> request[t].op # "addMember",
         request[t].op = "markRead" => row.read = local'[t] /\ db[Member(u)].read <= local'[t]
  PROVE  OwnInv'
<1>0. TypeInv /\ Own(t) /\ emitted[t] = {}
  BY NoEventYet DEF ChannelInv, OwnInv, Changed
<1>1. Moves(t, One(Member(u), row), "persist")
  BY <1>0, WriteMoves
<1>2. DOMAIN One(Member(u), row) = {Member(u)} /\ One(Member(u), row)[Member(u)] = row
  BY OneDomain
<1>3. /\ db' = db /\ request' = request /\ at'[t] = "persist" /\ emitted'[t] = {}
      /\ Member(u) \in DOMAIN draft'[t] /\ draft'[t][Member(u)] = row
      /\ \A r \in DOMAIN draft'[t] : r = Member(u) \/ r \in DOMAIN draft[t]
      /\ \A r \in DOMAIN draft[t] : r # Member(u) => draft'[t][r] = draft[t][r]
  BY <1>0, <1>1, <1>2 DEF Moves
<1>4. \A s \in Tx : s # t => local'[s] = local[s]
  BY <1>0 DEF TypeInv, TypeOK
<1>5. Creator(t)'
  <2>1. Channel # Member(u)
    BY RowsDistinct
  <2>2. Held(t)' => Held(t) /\ draft'[t][Channel] = draft[t][Channel]
    BY <1>3, <2>1 DEF Held
  <2>3. Held(t) => draft[t][Channel].creator = db[Channel].creator
    BY <1>0 DEF Own, Creator, Changed
  <2>. QED
    BY <1>3, <2>2, <2>3 DEF Creator
<1>6. \A v \in User : Account(v) \notin DOMAIN draft'[t]
  <2>1. \A v \in User : Account(v) \notin DOMAIN draft[t]
    BY <1>0 DEF Own, Erases, Changed
  <2>. QED
    BY <1>3, <2>1, RowsDistinct
<1>7. Erases(t)' /\ Owes(t)' /\ Reports(t)'
  BY <1>3, <1>6 DEF Erases, Owes, Reports, MemberOps, ReactionOps
<1>8. ASSUME NEW v \in User PROVE OwnMember(t, v)'
  <2>1. CASE v = u
    BY <1>3, <2>1 DEF OwnMember, Changed
  <2>2. CASE v # u
    <3>1. Member(v) \notin DOMAIN draft[t]
      BY <1>0, <2>2 DEF Own, OwnMember, Erases, Changed
    <3>2. Member(v) \notin DOMAIN draft'[t]
      BY <1>3, <2>2, <3>1, KeysDistinct
    <3>. QED
      BY <3>2 DEF OwnMember
  <2>. QED
    BY <2>1, <2>2
<1>9. ASSUME NEW v \in User, NEW m \in Message PROVE OwnReaction(t, m, v)'
  <2>1. Reaction(m, v) \notin DOMAIN draft[t]
    BY <1>0 DEF Own, OwnReaction, Erases, Changed
  <2>2. Reaction(m, v) # Member(u)
    BY RowsDistinct
  <2>3. Reaction(m, v) \notin DOMAIN draft'[t]
    BY <1>3, <2>1, <2>2
  <2>. QED
    BY <2>3 DEF OwnReaction
<1>10. Own(t)'
  BY <1>5, <1>7, <1>8, <1>9 DEF Own
<1>. QED
  BY <1>1, <1>4, <1>10, MoveKeepsOwn

LEMMA MembershipOwn ==
  ASSUME OwnInv, ChannelInv, NEW t \in Tx,
         GetChannel(t) \/ AddMember(t) \/ RemoveMember(t) \/ TargetSeq(t) \/ MarkRead(t)
  PROVE  OwnInv'
<1>0. TypeInv /\ Own(t)
  BY DEF ChannelInv, OwnInv
<1>1. CASE Quit(t)
  BY <1>0, <1>1, QuitKeepsOwn DEF Quit
<1>2. ASSUME GetChannel(t) \/ TargetSeq(t), ~Quit(t) PROVE OwnInv'
  <2>1. PICK next :
          /\ Read(t, next) /\ next \in {"addMember", "markRead"}
          /\ at[t] \in {"getChannel", "targetSeq"}
          /\ local' = local \/ \E n : local' = [local EXCEPT ![t] = n]
    <3>1. CASE GetChannel(t)
      BY <1>2, <3>1 DEF GetChannel, Runs
    <3>2. CASE TargetSeq(t)
      BY <1>2, <3>2 DEF TargetSeq, Runs
    <3>. QED
      BY <1>2, <3>1, <3>2
  <2>2. Moves(t, NoRow, next) /\ emitted' = emitted
    BY <1>0, <2>1, ReadMoves DEF Read
  <2>3. \A s \in Tx : s # t => local'[s] = local[s]
    BY <1>0, <2>1 DEF TypeInv, TypeOK
  <2>4. Reports(t)'
    <3>1. emitted'[t] = {}
      BY <2>1, <2>2, NoEventYet
    <3>. QED
      BY <3>1 DEF Reports
  <2>5. DOMAIN NoRow = {}
    BY DEF NoRow
  <2>6. at[t] \notin Changed /\ next \notin Changed
    BY <2>1 DEF Changed
  <2>. QED
    BY <2>1, <2>2, <2>3, <2>4, <2>5, <2>6, ApartOne, ApartKeepsOwn DEF Changed
<1>3. ASSUME AddMember(t), ~Quit(t) PROVE OwnInv'
  <2> DEFINE row == [joined |-> TRUE, read |-> 0]
  <2>1. Running(t) /\ at[t] = "addMember" /\ request[t].op = "addMember"
    BY <1>0, <1>3, OpAt, RunsRunning DEF AddMember
  <2>2. request[t].u \in User
    BY <1>0, <2>1, RequestTyped DEF TypeInv, Positioned
  <2>3. /\ Write(t, One(Member(request[t].u), row), "persist") /\ Addable(request[t].u)
        /\ shared' = [shared EXCEPT ![t] = {request[t].u}] /\ UNCHANGED <<local, emitted>>
    BY <1>3 DEF AddMember
  <2>4. row.joined /\ ~db[Member(request[t].u)].joined
    BY <2>3 DEF Addable
  <2> HIDE DEF row
  <2>. QED
    BY <1>0, <2>1, <2>2, <2>3, <2>4, MemberWriteOwn DEF MemberOps, Changed
<1>4. ASSUME RemoveMember(t), ~Quit(t) PROVE OwnInv'
  <2>1. Running(t) /\ at[t] = "removeMember" /\ request[t].op = "removeMember"
    BY <1>0, <1>4, OpAt, RunsRunning DEF RemoveMember
  <2>2. request[t].u \in User
    BY <1>0, <2>1, RequestTyped DEF TypeInv, Positioned
  <2>3. /\ Write(t, One(Member(request[t].u), NoMember), "persist")
        /\ db[Member(request[t].u)].joined /\ UNCHANGED <<shared, local, emitted>>
    BY <1>4 DEF RemoveMember
  <2>4. ~NoMember.joined
    BY DEF NoMember
  <2>. QED
    BY <1>0, <2>1, <2>2, <2>3, <2>4, MemberWriteOwn DEF MemberOps, Changed
<1>5. ASSUME MarkRead(t), ~Quit(t) PROVE OwnInv'
  <2> DEFINE u == request[t].u
             read == Advanced(db[Member(u)].read, local[t])
             row == [joined |-> TRUE, read |-> read]
  <2>1. Running(t) /\ at[t] = "markRead" /\ request[t].op = "markRead"
    BY <1>0, <1>5, OpAt, RunsRunning DEF MarkRead
  <2>2. u \in User
    BY <1>0, <2>1, RequestTyped DEF TypeInv, Positioned
  <2>3. /\ Write(t, One(Member(u), row), "persist") /\ db[Member(u)].joined
        /\ local' = [local EXCEPT ![t] = read] /\ UNCHANGED <<shared, emitted>>
    BY <1>5 DEF MarkRead
  <2>4. db[Member(u)].read \in Nat /\ local[t] \in Nat
    BY <1>0, <2>2, DbTyped DEF TypeInv, TypeOK, MemberRow
  <2>5. db[Member(u)].read <= read
    BY <2>4 DEF Advanced
  <2>6. local'[t] = read /\ row.joined /\ row.read = read
    BY <1>0, <2>3 DEF TypeInv, TypeOK
  <2> HIDE DEF row, read, u
  <2>. QED
    BY <1>0, <2>1, <2>2, <2>3, <2>5, <2>6, MemberWriteOwn DEF MemberOps, Changed, u
<1>. QED
  BY <1>1, <1>2, <1>3, <1>4, <1>5

LEMMA ReactionWriteOwn ==
  ASSUME OwnInv, ChannelInv, NEW t \in Tx, NEW row, NEW m \in Message, NEW u \in User,
         Write(t, One(Reaction(m, u), row), "countsByType"),
         shared' = shared \/ \E users : shared' = [shared EXCEPT ![t] = users],
         UNCHANGED <<local, emitted>>, Running(t), m = request[t].m, u = request[t].u,
         at[t] \notin {"addOwner", "incrementReplyCount"} \cup Changed,
         request[t].op \in ReactionOps,
         row = TRUE <=> request[t].op = "react",
         db[Reaction(m, u)] = TRUE <=> request[t].op = "unreact"
  PROVE  OwnInv'
<1>0. TypeInv /\ Own(t) /\ emitted[t] = {}
  BY NoEventYet DEF ChannelInv, OwnInv, Changed
<1> DEFINE k == Reaction(m, u)
<1>1. Moves(t, One(k, row), "countsByType")
  BY <1>0, WriteMoves
<1>2. DOMAIN One(k, row) = {k} /\ One(k, row)[k] = row
  BY OneDomain
<1>3. k # Channel /\ \A v : k # Account(v) /\ k # Member(v)
  BY RowsDistinct
<1>03. \A n \in Message, v \in User : k = Reaction(n, v) => n = m /\ v = u
  BY KeysDistinct
<1> HIDE DEF k
<1>4. /\ db' = db /\ request' = request /\ at'[t] = "countsByType" /\ emitted'[t] = {}
      /\ k \in DOMAIN draft'[t] /\ draft'[t][k] = row
      /\ \A r \in DOMAIN draft'[t] : r = k \/ r \in DOMAIN draft[t]
      /\ \A r \in DOMAIN draft[t] : r # k => draft'[t][r] = draft[t][r]
  BY <1>0, <1>1, <1>2 DEF Moves
<1>5. Creator(t)'
  <2>1. Held(t)' => Held(t) /\ draft'[t][Channel] = draft[t][Channel]
    BY <1>3, <1>4 DEF Held
  <2>2. Held(t) => draft[t][Channel].creator = db[Channel].creator
    BY <1>0 DEF Own, Creator, Changed
  <2>. QED
    BY <1>4, <2>1, <2>2 DEF Creator
<1>6. \A v \in User : Account(v) \notin DOMAIN draft'[t]
  <2>1. \A v \in User : Account(v) \notin DOMAIN draft[t]
    BY <1>0 DEF Own, Erases, Changed
  <2>. QED
    BY <1>3, <1>4, <2>1
<1>7. Erases(t)' /\ Owes(t)' /\ Reports(t)'
  BY <1>4, <1>6 DEF Erases, Owes, Reports, MemberOps, ReactionOps, k
<1>8. ASSUME NEW v \in User PROVE OwnMember(t, v)'
  <2>1. Member(v) \notin DOMAIN draft[t]
    BY <1>0 DEF Own, OwnMember, Erases, Changed
  <2>2. Member(v) \notin DOMAIN draft'[t]
    BY <1>3, <1>4, <2>1
  <2>. QED
    BY <2>2 DEF OwnMember
<1>9. ASSUME NEW v \in User, NEW n \in Message PROVE OwnReaction(t, n, v)'
  <2>1. CASE k = Reaction(n, v)
    <3>1. n = m /\ v = u
      BY <1>03, <2>1
    <3>2. draft'[t][Reaction(n, v)] = TRUE <=> request'[t].op = "react"
      BY <1>4, <2>1
    <3>3. db'[Reaction(n, v)] = TRUE <=> request'[t].op = "unreact"
      BY <1>4, <3>1
    <3>. QED
      BY <1>4, <3>1, <3>2, <3>3 DEF OwnReaction, Changed
  <2>2. CASE k # Reaction(n, v)
    <3>1. Reaction(n, v) \notin DOMAIN draft[t]
      BY <1>0 DEF Own, OwnReaction, Erases, Changed
    <3>2. Reaction(n, v) \notin DOMAIN draft'[t]
      BY <1>4, <2>2, <3>1
    <3>. QED
      BY <3>2 DEF OwnReaction
  <2>. QED
    BY <2>1, <2>2
<1>10. Own(t)'
  BY <1>5, <1>7, <1>8, <1>9 DEF Own
<1>11. \A s \in Tx : s # t => emitted'[s] = emitted[s] /\ local'[s] = local[s]
  OBVIOUS
<1>. QED
  BY <1>1, <1>10, <1>11, MoveKeepsOwn

LEMMA ReactionOwn ==
  ASSUME OwnInv, ChannelInv, NEW t \in Tx,
         ExistsInChannel(t) \/ AddReaction(t) \/ RemoveReaction(t) \/ CountsByType(t)
  PROVE  OwnInv'
<1>0. TypeInv /\ Own(t)
  BY DEF ChannelInv, OwnInv
<1>1. CASE Quit(t)
  BY <1>0, <1>1, QuitKeepsOwn DEF Quit
<1>2. ASSUME ExistsInChannel(t) \/ CountsByType(t), ~Quit(t) PROVE OwnInv'
  <2>1. PICK next :
          /\ Read(t, next) /\ Running(t)
          /\ \/ at[t] = "existsInChannel" /\ next \in {"addReaction", "removeReaction"}
             \/ at[t] = "countsByType" /\ next = "persist"
          /\ local' = local \/ \E n : local' = [local EXCEPT ![t] = n]
    <3>1. CASE ExistsInChannel(t)
      BY <1>2, <3>1 DEF ExistsInChannel, Runs, Running
    <3>2. CASE CountsByType(t)
      BY <3>2 DEF CountsByType, Runs, Running
    <3>. QED
      BY <1>2, <3>1, <3>2
  <2>2. Moves(t, NoRow, next) /\ emitted' = emitted
    BY <1>0, <2>1, ReadMoves DEF Read
  <2>3. \A s \in Tx : s # t => local'[s] = local[s]
    BY <1>0, <2>1 DEF TypeInv, TypeOK
  <2>4. Reports(t)'
    <3>1. emitted'[t] = {}
      BY <2>1, <2>2, NoEventYet
    <3>. QED
      BY <3>1 DEF Reports
  <2>5. DOMAIN NoRow = {}
    BY DEF NoRow
  <2>6. request[t].op \in {"react", "unreact"}
    BY <1>0, <2>1, OpAt
  <2>. QED
    BY <2>1, <2>2, <2>3, <2>4, <2>5, <2>6, ApartOne, ApartKeepsOwn DEF Changed
<1>3. ASSUME AddReaction(t), ~Quit(t) PROVE OwnInv'
  <2> DEFINE m == request[t].m
             u == request[t].u
  <2>1. Running(t) /\ at[t] = "addReaction" /\ request[t].op = "react"
    BY <1>0, <1>3, OpAt, RunsRunning DEF AddReaction
  <2>2. m \in Message /\ u \in User
    BY <1>0, <2>1, RequestTyped DEF TypeInv, Positioned
  <2>3. /\ Write(t, One(Reaction(m, u), TRUE), "countsByType") /\ Reactable(m, u)
        /\ shared' = [shared EXCEPT ![t] = {u}] /\ UNCHANGED <<local, emitted>>
    BY <1>3 DEF AddReaction
  <2>4. ~(db[Reaction(m, u)] = TRUE)
    BY <2>3 DEF Reactable
  <2> HIDE DEF m, u
  <2>5. \E users : shared' = [shared EXCEPT ![t] = users]
    BY <2>3
  <2>6. ReactionOps = {"react", "unreact"} /\ at[t] \notin Changed
    BY <2>1 DEF ReactionOps, Changed
  <2>. QED
    BY <1>0, <2>1, <2>2, <2>3, <2>4, <2>5, <2>6, ReactionWriteOwn DEF m, u
<1>4. ASSUME RemoveReaction(t), ~Quit(t) PROVE OwnInv'
  <2> DEFINE m == request[t].m
             u == request[t].u
  <2>1. Running(t) /\ at[t] = "removeReaction" /\ request[t].op = "unreact"
    BY <1>0, <1>4, OpAt, RunsRunning DEF RemoveReaction
  <2>2. m \in Message /\ u \in User
    BY <1>0, <2>1, RequestTyped DEF TypeInv, Positioned
  <2>3. /\ Write(t, One(Reaction(m, u), FALSE), "countsByType") /\ db[Reaction(m, u)]
        /\ UNCHANGED <<shared, local, emitted>>
    BY <1>4 DEF RemoveReaction
  <2>4. db[Reaction(m, u)] = TRUE
    <3>1. db[Reaction(m, u)] \in BOOLEAN
      BY <1>0, <2>2, DbTyped DEF TypeInv
    <3>. QED
      BY <2>3, <3>1
  <2> HIDE DEF m, u
  <2>6. ReactionOps = {"react", "unreact"} /\ at[t] \notin Changed
    BY <2>1 DEF ReactionOps, Changed
  <2>. QED
    BY <1>0, <2>1, <2>2, <2>3, <2>4, <2>6, ReactionWriteOwn DEF m, u
<1>. QED
  BY <1>1, <1>2, <1>3, <1>4

LEMMA UserStatementOwn ==
  ASSUME OwnInv, ChannelInv, NEW t \in Tx, UserStatement(t)
  PROVE  OwnInv'
<1>0. TypeInv /\ Own(t)
  BY DEF ChannelInv, OwnInv
<1>1. CASE Quit(t)
  BY <1>0, <1>1, QuitKeepsOwn DEF Quit
<1>2. ASSUME ScrubAuthored(t), ~Quit(t) PROVE OwnInv'
  <2>1. at[t] = "scrubAuthored"
    BY <1>2 DEF ScrubAuthored, Runs
  <2> DEFINE mine == {Msg(m) : m \in {k \in found[t] \cap Authored(request[t].u) : Live(k)}}
             rows == [r \in mine |-> [db[r] EXCEPT !.text = FALSE, !.deleted = TRUE]]
  <2>2. Write(t, rows, "deleteUser") /\ UNCHANGED <<shared, local, emitted>>
    BY <1>2 DEF ScrubAuthored
  <2>3. Moves(t, rows, "deleteUser")
    BY <1>0, <2>2, WriteMoves
  <2>4. DOMAIN rows = mine /\ \A r \in mine : \E m : r = Msg(m)
    OBVIOUS
  <2> HIDE DEF mine, rows
  <2>5. Apart(rows) /\ Channel \notin DOMAIN rows
    BY <2>4, RowsDistinct DEF Apart
  <2>6. Reports(t)'
    BY <1>0, <2>2, <2>3 DEF Own, Reports, Moves
  <2>. QED
    BY <2>1, <2>2, <2>3, <2>5, <2>6, ApartKeepsOwn DEF Changed
<1>3. ASSUME DeleteUser(t), ~Quit(t) PROVE OwnInv'
  <2>1. Running(t) /\ at[t] = "deleteUser" /\ request[t].op = "deleteUser" /\ emitted[t] = {}
    BY <1>0, <1>3, OpAt, RunsRunning, NoEventYet DEF DeleteUser
  <2> DEFINE u == request[t].u
             rows == Deletion(t, u)
  <2>2. Write(t, rows, "commit") /\ UNCHANGED <<shared, local, emitted>>
    BY <1>3 DEF DeleteUser, Deletion
  <2>3. u \in User
    BY <1>0, <2>1, RequestTyped DEF TypeInv, Positioned
  <2>4. Moves(t, rows, "commit")
    BY <1>0, <2>2, WriteMoves
  <2>5. /\ \A v \in User : Account(v) \in DOMAIN rows => v = u
        /\ \A v \in User : Member(v) \in DOMAIN rows => v = u
        /\ Account(u) \in DOMAIN rows
    BY <1>0, <2>3, DeletionRows
  <2>6. /\ \A v \in User, m \in Message : Reaction(m, v) \in DOMAIN rows => v = u
        /\ rows[Account(u)] # TRUE
        /\ Channel \in DOMAIN rows => rows[Channel].creator = None /\ db[Channel].creator = u
    <3>1. /\ DOMAIN Cascaded(t, u) = {Account(u), Member(u)} \cup {Reaction(m, u) : m \in Message}
          /\ Cascaded(t, u)[Account(u)] # TRUE
      BY RowsDistinct DEF Cascaded
    <3>2. DOMAIN Nulled(t, u) = {Msg(m) : m \in Authored(u)}
                \cup (IF db[Channel].creator = u THEN {Channel} ELSE {})
      BY DEF Nulled
    <3>3. Channel \in DOMAIN Nulled(t, u) =>
            Nulled(t, u)[Channel] = [db[Channel] EXCEPT !.creator = None]
      BY <3>2 DEF Nulled
    <3>4. /\ DOMAIN rows = DOMAIN Cascaded(t, u) \cup DOMAIN Nulled(t, u)
          /\ \A r \in DOMAIN rows :
               rows[r] = IF r \in DOMAIN Cascaded(t, u) THEN Cascaded(t, u)[r] ELSE Nulled(t, u)[r]
      BY DEF Deletion
    <3> HIDE DEF rows, u
    <3>5. rows[Account(u)] # TRUE
      BY <3>1, <3>4
    <3>6. ASSUME NEW v \in User, NEW m \in Message, Reaction(m, v) \in DOMAIN rows PROVE v = u
      <4>1. Reaction(m, v) \notin DOMAIN Nulled(t, u)
        BY <3>2, RowsDistinct
      <4>2. Reaction(m, v) # Account(u) /\ Reaction(m, v) # Member(u)
        BY RowsDistinct
      <4>3. PICK n \in Message : Reaction(m, v) = Reaction(n, u)
        BY <3>1, <3>4, <3>6, <4>1, <4>2
      <4>. QED
        BY <4>3, KeysDistinct
    <3>7. ASSUME Channel \in DOMAIN rows
          PROVE  rows[Channel].creator = None /\ db[Channel].creator = u
      <4>1. Channel \notin DOMAIN Cascaded(t, u)
        BY <3>1, RowsDistinct
      <4>2. db[Channel].creator = u
        BY <3>2, <3>4, <3>7, <4>1, RowsDistinct
      <4>3. rows[Channel] = [db[Channel] EXCEPT !.creator = None]
        BY <3>3, <3>4, <3>7, <4>1
      <4>4. db[Channel] \in ChannelRow
        BY <1>0, DbTyped DEF TypeInv
      <4>. QED
        BY <4>2, <4>3, <4>4 DEF ChannelRow
    <3>. QED
      BY <3>5, <3>6, <3>7
  <2> HIDE DEF rows, u
  <2>7. /\ db' = db /\ request' = request /\ at'[t] = "commit" /\ emitted'[t] = {}
        /\ \A r : r \in DOMAIN draft'[t] <=> r \in DOMAIN draft[t] \/ r \in DOMAIN rows
        /\ \A r \in DOMAIN rows : draft'[t][r] = rows[r]
        /\ \A r \in DOMAIN draft[t] : r \notin DOMAIN rows => draft'[t][r] = draft[t][r]
    BY <2>1, <2>2, <2>4 DEF Moves
  <2>8. \A v \in User : /\ Account(v) \notin DOMAIN draft[t] /\ Member(v) \notin DOMAIN draft[t]
                        /\ \A m \in Message : Reaction(m, v) \notin DOMAIN draft[t]
    BY <1>0, <2>1 DEF Own, OwnMember, OwnReaction, Erases, Changed
  <2>9. Account(u) \in DOMAIN draft'[t]
    BY <2>5, <2>7
  <2>10. \A v \in User : OwnMember(t, v)' /\ \A m \in Message : OwnReaction(t, m, v)'
    BY <2>5, <2>6, <2>7, <2>8, <2>9 DEF OwnMember, OwnReaction
  <2>11. Creator(t)'
    <3>1. CASE Channel \in DOMAIN rows
      BY <2>6, <2>7, <2>9, <3>1 DEF Creator
    <3>2. CASE Channel \notin DOMAIN rows
      <4>1. Held(t)' => Held(t) /\ draft'[t][Channel] = draft[t][Channel]
        BY <2>7, <3>2 DEF Held
      <4>2. Held(t) => draft[t][Channel].creator = db[Channel].creator
        BY <1>0, <2>1 DEF Own, Creator
      <4>. QED
        BY <2>7, <4>1, <4>2 DEF Creator
    <3>. QED
      BY <3>1, <3>2
  <2>12. Erases(t)'
    <3>. SUFFICES ASSUME NEW v \in User, Account(v) \in DOMAIN draft'[t]
                  PROVE  /\ request'[t].op = "deleteUser" /\ at'[t] = "commit"
                         /\ draft'[t][Account(v)] # TRUE
      BY DEF Erases
    <3>1. Account(v) \in DOMAIN rows /\ v = u
      BY <2>5, <2>7, <2>8
    <3>. QED
      BY <2>1, <2>6, <2>7, <3>1
  <2>13. Owes(t)' /\ Reports(t)'
    BY <2>1, <2>7 DEF Owes, Reports, MemberOps, ReactionOps
  <2>14. Own(t)'
    BY <2>10, <2>11, <2>12, <2>13 DEF Own
  <2>. QED
    BY <2>2, <2>4, <2>14, MoveKeepsOwn
<1>4. ASSUME FindAuthored(t) PROVE OwnInv'
  <2>1. at[t] = "findAuthored" /\ Read(t, "scrubAuthored") /\ local' = local
    BY <1>4 DEF FindAuthored, Runs
  <2>2. Moves(t, NoRow, "scrubAuthored") /\ emitted' = emitted /\ DOMAIN NoRow = {}
    BY <1>0, <2>1, ReadMoves DEF Read, NoRow
  <2>3. Reports(t)'
    BY <1>0, <2>1, <2>2 DEF Own, Reports, Moves
  <2>. QED
    BY <2>1, <2>2, <2>3, ApartOne, ApartKeepsOwn DEF Changed
<1>5. ASSUME UpsertUser(t) PROVE OwnInv'
  <2> DEFINE account == Account(request[t].u)
  <2>1. End(t) /\ \A r \in Row : r # account => db'[r] = db[r]
    BY <1>0, <1>5, UpsertDoes
  <2>2. account \in Wants(t) /\ Blockers(t) = {}
    BY <1>0, <1>5, UpsertDoes
  <2> HIDE DEF account
  <2>3. \A s \in Tx : s # t => account \notin DOMAIN draft[s]
    BY <2>2 DEF Blockers
  <2>. QED
    BY <1>0, <2>1, <2>3, QuitKeepsOwn
<1>. QED
  BY <1>1, <1>2, <1>3, <1>4, <1>5 DEF UserStatement

LEMMA CommitOwn ==
  ASSUME OwnInv, ChannelInv, RowInv, NEW t \in Tx, Commit(t)
  PROVE  OwnInv'
<1>1. TypeInv /\ End(t) /\ db' = [r \in Row |-> Seen(t, r)]
  BY DEF ChannelInv, Commit
<1>2. ASSUME NEW s \in Tx, s # t, NEW r \in DOMAIN draft[s] \cap Row PROVE db'[r] = db[r]
  <2>1. r \notin DOMAIN draft[t]
    BY <1>2 DEF RowInv, OneWriter
  <2>. QED
    BY <1>1, <2>1 DEF Seen
<1>. QED
  BY <1>1, <1>2, QuitKeepsOwn

LEMMA InitOwn == Init => OwnInv
<1>. SUFFICES ASSUME Init, NEW t \in Tx PROVE Own(t)
  BY DEF OwnInv
<1>1. DOMAIN draft[t] = {} /\ emitted[t] = {} /\ at[t] = "idle"
  BY DEF Init, NoRow
<1>2. Creator(t) /\ Erases(t) /\ Owes(t) /\ Reports(t)
  BY <1>1 DEF Creator, Erases, Owes, Reports, Held, Changed
<1>. QED
  BY <1>1, <1>2 DEF Own, OwnMember, OwnReaction

LEMMA NextOwn == ChannelInv /\ RowInv /\ OwnInv /\ [Next]_vars => OwnInv'
<1>. SUFFICES ASSUME ChannelInv, RowInv, OwnInv, [Next]_vars PROVE OwnInv'
  OBVIOUS
<1>0. TypeInv
  BY DEF ChannelInv
<1>1. CASE UNCHANGED vars
  <2>1. UNCHANGED <<db, draft, at, request, emitted, local>>
    BY <1>1 DEF vars, txVars
  <2>. QED
    BY <2>1, OwnKept DEF OwnInv
<1>2. ASSUME NEW t \in Tx, Begin(t) PROVE OwnInv'
  BY <1>2, BeginKeepsOwn
<1>3. ASSUME NEW t \in Tx, Rollback(t) PROVE OwnInv'
  BY <1>0, <1>3, QuitKeepsOwn DEF Rollback, Quit
<1>4. ASSUME NEW t \in Tx, Statement(t) PROVE OwnInv'
  BY <1>4, ChannelStatementOwn, MessageStatementOwn, MembershipOwn, ReactionOwn,
     UserStatementOwn, PersistOwn, CommitOwn DEF Statement, MemberStatement
<1>. QED
  BY <1>1, <1>2, <1>3, <1>4 DEF Next

-----------------------------------------------------------------------------
(* What the log tells of members, reactions and read pointers.             *)
MemberEvents(u) ==
  {e \in EventsOf({"member.added", "member.removed"}) : e.u = u /\ e.seq > erased[u]}

ReactionEvents(m, u) ==
  {e \in EventsOf({"reaction.new", "reaction.deleted"}) :
     e.m = m /\ e.u = u /\ e.seq > erased[u]}

MemberTold(u) ==
  Switches(MemberEvents(u), "member.added", u = db[Channel].creator, db[Member(u)].joined)

ReactionTold(m, u) ==
  Switches(ReactionEvents(m, u), "reaction.new", FALSE, db[Reaction(m, u)])

(* u's receipts of the membership that lasts or ended last; a pointer has  *)
(* never been left behind by one of them.                                  *)
Receipts(u) ==
  {e \in log : /\ e.type = "read.updated" /\ e.u = u
              /\ \A f \in log : f.type = "member.added" /\ f.u = u => f.seq < e.seq}

ReadTold(u) ==
  /\ \A e, f \in Receipts(u) : e.seq < f.seq => e.data <= f.data
  /\ db[Member(u)].joined => \A e \in Receipts(u) : e.data <= db[Member(u)].read
  /\ Receipts(u) # {} /\ db[Member(u)].joined => db[Member(u)].read = Last(Receipts(u)).data

SetInv ==
  \A u \in User : /\ MemberTold(u) /\ ReadTold(u) /\ \A m \in Message : ReactionTold(m, u)
                 /\ erased[u] <= db[Channel].seq

(* The last of a set of events is the one with the greatest seq.           *)
LEMMA LastIs ==
  ASSUME NEW S, NEW e \in S, e.seq \in Nat,
         \A f \in S : f # e => f.seq \in Nat /\ f.seq < e.seq
  PROVE  Last(S) = e
<1>1. \A f \in S : f.seq <= e.seq
  OBVIOUS
<1>2. ASSUME NEW d \in S, \A f \in S : f.seq <= d.seq PROVE d = e
  <2>1. e.seq <= d.seq
    BY <1>2
  <2>2. d # e => d.seq \in Nat /\ d.seq < e.seq
    OBVIOUS
  <2>. QED
    BY <2>1, <2>2
<1>3. Last(S) \in S /\ \A f \in S : f.seq <= Last(S).seq
  BY <1>1 DEF Last
<1>. QED
  BY <1>2, <1>3

AfterOf(S, on, initially) == IF S = {} THEN initially ELSE Last(S).type = on

LEMMA SwitchesIs ==
  ASSUME NEW S, NEW on, NEW initially, NEW now
  PROVE  Switches(S, on, initially, now) <=>
           /\ now = AfterOf(S, on, initially)
           /\ \A e \in S : (e.type = on) # AfterOf({f \in S : f.seq < e.seq}, on, initially)
BY DEF Switches, AfterOf

(* The next event of a subject is the opposite of how things are.          *)
LEMMA SwitchesAdd ==
  ASSUME NEW S, NEW e, NEW on, NEW initially, NEW now \in BOOLEAN, NEW then \in BOOLEAN,
         e.seq \in Nat, \A f \in S : f.seq \in Nat /\ f.seq < e.seq,
         Switches(S, on, initially, now), then = (e.type = on), then # now
  PROVE  Switches(S \cup {e}, on, initially, then)
<1>0. e \notin S
  OBVIOUS
<1>1. then = AfterOf(S \cup {e}, on, initially)
  <2>1. Last(S \cup {e}) = e
    BY LastIs
  <2>. QED
    BY <2>1 DEF AfterOf
<1>2. now = AfterOf(S, on, initially)
  BY SwitchesIs
<1>3. ASSUME NEW d \in S \cup {e}
      PROVE  (d.type = on) # AfterOf({f \in S \cup {e} : f.seq < d.seq}, on, initially)
  <2>1. CASE d = e
    <3>1. {f \in S \cup {e} : f.seq < d.seq} = S
      BY <2>1
    <3>. QED
      BY <1>2, <2>1, <3>1
  <2>2. CASE d \in S
    <3>1. {f \in S \cup {e} : f.seq < d.seq} = {f \in S : f.seq < d.seq}
      BY <2>2
    <3>2. (d.type = on) # AfterOf({f \in S : f.seq < d.seq}, on, initially)
      BY <2>2, SwitchesIs
    <3>. QED
      BY <3>1, <3>2
  <2>. QED
    BY <2>1, <2>2
<1>. QED
  BY <1>1, <1>3, SwitchesIs

LEMMA SwitchesNone ==
  ASSUME NEW on, NEW initially
  PROVE  Switches({}, on, initially, initially)
BY DEF Switches

(* Which requests the events of members, reactions and reads come from.    *)
LEMMA NameOf ==
  ASSUME NEW op \in Operation, op \notin {"create", "deleteUser", "upsertUser"}
  PROVE  /\ EventName[op] = "member.added" <=> op = "addMember"
         /\ EventName[op] = "member.removed" <=> op = "removeMember"
         /\ EventName[op] = "reaction.new" <=> op = "react"
         /\ EventName[op] = "reaction.deleted" <=> op = "unreact"
         /\ EventName[op] = "read.updated" <=> op = "markRead"
BY DEF EventName, Operation

LEMMA CommitEvent ==
  ASSUME ChannelInv, OwnInv, NEW t \in Tx, Commit(t), NEW e \in emitted[t]
  PROVE  /\ emitted[t] = {e} /\ log' = log \cup {e}
         /\ e.seq \in Nat /\ \A f \in log : f.seq \in Nat /\ f.seq < e.seq
         /\ db[Channel].seq \in Nat /\ e.seq > db[Channel].seq
         /\ request[t].op \in Operation /\ request[t].op \notin {"create", "deleteUser", "upsertUser"}
         /\ e.type = EventName[request[t].op] /\ e.m = request[t].m /\ e.u = request[t].u
         /\ e.data = local[t] /\ at[t] \in Changed
<1>1. TypeInv /\ at[t] = "commit"
  BY DEF ChannelInv, Commit
<1>2. request[t].op \in Operation
  BY <1>1, RequestTyped DEF TypeInv, Positioned, Running
<1>3. request[t].op \notin {"create", "deleteUser", "upsertUser"}
  BY <1>1, OpAt DEF ChannelInv, Turn, Emits, Running
<1>4. /\ e.type = EventName[request[t].op] /\ e.m = request[t].m /\ e.u = request[t].u
      /\ e.data = local[t]
  BY DEF OwnInv, Own, Reports
<1>5. /\ emitted[t] = {e} /\ log' = log \cup emitted[t]
      /\ e.seq = db[Channel].seq + 1 /\ db[Channel].seq \in Nat
      /\ \A f \in log : f.seq \in Nat /\ f.seq <= db[Channel].seq
  BY CommitLog
<1>. QED
  BY <1>1, <1>2, <1>3, <1>4, <1>5 DEF Changed

(* A commit remembers where in the log it erased a user, ...               *)
LEMMA CommitErased ==
  ASSUME ChannelInv, SetInv, NEW t \in Tx, Commit(t), NEW u \in User
  PROVE  /\ erased[u] \in Nat /\ db[Channel].seq \in Nat /\ erased[u] <= db[Channel].seq
         /\ Account(u) \in DOMAIN draft[t] => erased'[u] = db[Channel].seq
         /\ Account(u) \notin DOMAIN draft[t] => erased'[u] = erased[u]
         /\ erased'[u] <= db'[Channel].seq
<1>1. TypeInv /\ db[Channel] \in ChannelRow
  BY DbTyped DEF ChannelInv, TypeInv
<1>2. erased[u] \in Nat /\ db[Channel].seq \in Nat /\ erased[u] <= db[Channel].seq
  BY <1>1 DEF TypeInv, TypeOK, ChannelRow, SetInv
<1>3. erased'[u] = IF Account(u) \in DOMAIN draft[t] THEN db[Channel].seq ELSE erased[u]
  BY DEF Commit
<1>4. db'[Channel].seq \in {db[Channel].seq, db[Channel].seq + 1}
  <2>1. CASE Held(t)
    BY <2>1, CommitRow DEF ChannelInv, Turn, Ahead
  <2>2. CASE ~Held(t)
    BY <2>2, CommitRow
  <2>. QED
    BY <2>1, <2>2
<1>. QED
  BY <1>2, <1>3, <1>4

(* ... and leaves nothing of them, in the tables or in the log after that. *)
LEMMA CommitErases ==
  ASSUME ChannelInv, RowInv, OwnInv, SetInv, NEW t \in Tx, Commit(t), NEW u \in User,
         Account(u) \in DOMAIN draft[t]
  PROVE  /\ db'[Member(u)].joined = FALSE /\ db'[Channel].creator # u
         /\ \A m \in Message : db'[Reaction(m, u)] = FALSE
         /\ \A e \in log' : ~(e.seq > erased'[u])
<1>0. TypeInv /\ TypeInv' /\ RowInv'
  BY CommitKeepsRows, CommitTurn DEF ChannelInv
<1>1. db'[Account(u)] = FALSE
  <2>1. db'[Account(u)] = draft[t][Account(u)]
    BY InRow DEF Commit, Seen
  <2>2. draft[t][Account(u)] # TRUE
    BY DEF OwnInv, Own, Erases
  <2>3. db'[Account(u)] \in BOOLEAN
    BY <1>0, InRow DEF TypeInv, TypeOK, WellTyped
  <2>. QED
    BY <2>1, <2>2, <2>3
<1>2. \A r \in Row : ~Refers(db', r, u)
  BY <1>0, <1>1 DEF RowInv, NoneLeft, Refers
<1>3. db'[Member(u)].joined \in BOOLEAN /\ \A m \in Message : db'[Reaction(m, u)] \in BOOLEAN
  BY <1>0, InRow DEF TypeInv, TypeOK, WellTyped, MemberRow
<1>4. ~db'[Member(u)].joined /\ db'[Channel].creator # u
  BY <1>2, InRow DEF Refers
<1>5. ASSUME NEW m \in Message PROVE ~(db'[Reaction(m, u)] = TRUE)
  BY <1>2, InRow DEF Refers
<1>6. log' = log
  <2>1. request[t].op = "deleteUser" /\ log' = log \cup emitted[t]
    BY CommitRow DEF OwnInv, Own, Erases
  <2>2. emitted[t] = {}
    BY <2>1 DEF ChannelInv, Turn, Emits
  <2>. QED
    BY <2>1, <2>2
<1>7. \A e \in log : e.seq \in 1 .. db[Channel].seq
  BY DEF ChannelInv, LogDense
<1>8. erased'[u] = db[Channel].seq /\ db[Channel].seq \in Nat
  BY CommitErased
<1>9. \A e \in log' : ~(e.seq > erased'[u])
  BY <1>6, <1>7, <1>8
<1>. QED
  BY <1>3, <1>4, <1>5, <1>9

(* A user who is there after a commit has not been erased by it.           *)
LEMMA CommitAccount ==
  ASSUME TypeInv, OwnInv, NEW t \in Tx, Commit(t), NEW u \in User, db'[Account(u)]
  PROVE  Account(u) \notin DOMAIN draft[t] /\ db[Account(u)]
<1>1. db'[Account(u)] = Seen(t, Account(u))
  BY InRow DEF Commit
<1>2. Seen(t, Account(u)) = TRUE
  <2>1. Seen(t, Account(u)) \in BOOLEAN
    BY SeenTyped DEF TypeInv
  <2>. QED
    BY <1>1, <2>1
<1>3. Account(u) \in DOMAIN draft[t] => draft[t][Account(u)] # TRUE
  BY DEF OwnInv, Own, Erases
<1>. QED
  BY <1>2, <1>3 DEF Seen

(* Whoever it leaves was the channel's creator before, unless it creates   *)
(* the channel for them.                                                   *)
LEMMA CommitCreator ==
  ASSUME ChannelInv, OwnInv, NEW t \in Tx, Commit(t), NEW u \in User,
         Account(u) \notin DOMAIN draft[t],
         ~(request[t].op = "create" /\ Member(u) \in DOMAIN draft[t])
  PROVE  (u = db'[Channel].creator) = (u = db[Channel].creator)
<1>1. at[t] = "commit" /\ u # None
  BY StoreAssumption DEF Commit
<1>2. Held(t) => db'[Channel] = draft[t][Channel]
  BY CommitRow
<1>3. ~Held(t) => db'[Channel] = db[Channel]
  BY CommitRow
<1>4. CASE ~Held(t) \/ draft[t][Channel].creator = db[Channel].creator
  BY <1>2, <1>3, <1>4
<1>5. CASE /\ Held(t) /\ request[t].op = "create"
           /\ Member(draft[t][Channel].creator) \in DOMAIN draft[t]
  <2>1. db[Channel].creator = None
    BY <1>5 DEF ChannelInv, Turn, Ahead, Changes, AbsentZero
  <2>2. draft[t][Channel].creator # u
    BY <1>5
  <2>. QED
    BY <1>1, <1>2, <1>5, <2>1, <2>2
<1>6. CASE /\ Held(t) /\ draft[t][Channel].creator = None
           /\ Account(db[Channel].creator) \in DOMAIN draft[t]
  <2>1. db[Channel].creator # u
    BY <1>6
  <2>. QED
    BY <1>1, <1>2, <1>6, <2>1
<1>. QED
  BY <1>1, <1>4, <1>5, <1>6 DEF OwnInv, Own, Creator

(* A creation is the first thing that happens to a channel.                *)
LEMMA CommitCreate ==
  ASSUME ChannelInv, NEW t \in Tx, Commit(t), Held(t), request[t].op = "create"
  PROVE  log = {} /\ log' = {}
<1>1. db[Channel].seq = 0
  BY DEF ChannelInv, Turn, Ahead, Changes, AbsentZero
<1>2. \A e \in log : e.seq \in 1 .. 0
  BY <1>1 DEF ChannelInv, LogDense
<1>3. log = {}
  BY <1>2
<1>4. emitted[t] = {}
  BY DEF ChannelInv, Turn, Emits
<1>. QED
  BY <1>3, <1>4, CommitRow

LEMMA CommitMembers ==
  ASSUME ChannelInv, RowInv, OwnInv, SetInv, NEW t \in Tx, Commit(t), NEW u \in User
  PROVE  MemberTold(u)'
<1>00. CASE Account(u) \in DOMAIN draft[t]
  <2>1. /\ db'[Member(u)].joined = FALSE /\ (u = db'[Channel].creator) = FALSE
        /\ \A e \in log' : ~(e.seq > erased'[u])
    BY <1>00, CommitErases
  <2>2. MemberEvents(u)' = {}
    BY <2>1 DEF MemberEvents, EventsOf
  <2>3. Switches({}, "member.added", FALSE, FALSE)
    BY SwitchesNone
  <2>. QED
    BY <2>1, <2>2, <2>3 DEF MemberTold
<1>. SUFFICES ASSUME Account(u) \notin DOMAIN draft[t]
              PROVE  Switches(MemberEvents(u)', "member.added", u = db'[Channel].creator,
                              db'[Member(u)].joined)
  BY <1>00 DEF MemberTold
<1>0. TypeInv /\ at[t] = "commit"
  BY DEF ChannelInv, Commit
<1>1. Account(u) \notin DOMAIN draft[t] /\ erased'[u] = erased[u]
  BY CommitErased
<1>2. Switches(MemberEvents(u), "member.added", u = db[Channel].creator, db[Member(u)].joined)
  BY DEF SetInv, MemberTold
<1>3. /\ Member(u) \in DOMAIN draft[t] => db'[Member(u)] = draft[t][Member(u)]
      /\ Member(u) \notin DOMAIN draft[t] => db'[Member(u)] = db[Member(u)]
  BY InRow DEF Commit, Seen
<1>4. db[Member(u)] \in MemberRow /\ db'[Member(u)] \in MemberRow
  BY <1>0, InRow, DbTyped, SeenTyped DEF TypeInv, Commit
<1>5. OwnMember(t, u) /\ Owes(t)
  BY DEF OwnInv, Own
<1>6. CASE \E e \in emitted[t] : e.u = u /\ e.type \in {"member.added", "member.removed"}
  <2>1. PICK e \in emitted[t] : e.u = u /\ e.type \in {"member.added", "member.removed"}
    BY <1>6
  <2>2. /\ log' = log \cup {e} /\ e.seq \in Nat
        /\ \A f \in log : f.seq \in Nat /\ f.seq < e.seq
        /\ request[t].u = u /\ e.type = EventName[request[t].op] /\ at[t] \in Changed
        /\ request[t].op \in Operation /\ request[t].op \notin {"create", "deleteUser", "upsertUser"}
    BY <2>1, CommitEvent
  <2>3. request[t].op \in {"addMember", "removeMember"}
        /\ (e.type = "member.added" <=> request[t].op = "addMember")
    BY <2>1, <2>2, NameOf
  <2>4. Member(u) \in DOMAIN draft[t]
    BY <1>5, <2>2, <2>3 DEF Owes, MemberOps
  <2>5. /\ db'[Member(u)].joined <=> request[t].op = "addMember"
        /\ db[Member(u)].joined <=> request[t].op = "removeMember"
    BY <1>1, <1>3, <1>5, <2>3, <2>4 DEF OwnMember
  <2>6. (u = db'[Channel].creator) = (u = db[Channel].creator)
    BY <1>1, <2>3, CommitCreator
  <2>15. e.seq > erased[u]
    BY <2>1, CommitEvent, CommitErased
  <2>7. MemberEvents(u)' = MemberEvents(u) \cup {e}
    BY <1>1, <2>1, <2>2, <2>15 DEF MemberEvents, EventsOf
  <2> DEFINE now == db[Member(u)].joined
             then == db'[Member(u)].joined
             S == MemberEvents(u)
             creates == u = db[Channel].creator
  <2>8. \A f \in S : f.seq \in Nat /\ f.seq < e.seq
    BY <2>2 DEF MemberEvents, EventsOf
  <2>9. now \in BOOLEAN /\ then \in BOOLEAN
    BY <1>4 DEF MemberRow
  <2>10. then = (e.type = "member.added") /\ then # now
    BY <2>3, <2>5, <2>9
  <2>11. creates \in BOOLEAN
    OBVIOUS
  <2>12. Switches(S, "member.added", creates, now)
    BY <1>2
  <2> HIDE DEF now, then, S, creates
  <2>13. Switches(S \cup {e}, "member.added", creates, then)
    BY <2>2, <2>8, <2>9, <2>10, <2>11, <2>12, SwitchesAdd
  <2>. QED
    BY <2>6, <2>7, <2>13 DEF S, then, creates
<1>7. CASE ~ \E e \in emitted[t] : e.u = u /\ e.type \in {"member.added", "member.removed"}
  <2>1. MemberEvents(u)' = MemberEvents(u)
    <3>1. log' = log \cup emitted[t]
      BY CommitRow
    <3>. QED
      BY <1>1, <1>7, <3>1 DEF MemberEvents, EventsOf
  <2>2. CASE request[t].op = "create" /\ Member(u) \in DOMAIN draft[t]
    <3>1. Held(t) /\ draft[t][Channel].creator = u /\ draft[t][Member(u)].joined
      BY <1>1, <1>5, <2>2 DEF OwnMember, MemberOps
    <3>2. db'[Channel].creator = u /\ db'[Member(u)].joined = TRUE
      <4>1. db'[Channel] = draft[t][Channel] /\ db'[Member(u)] = draft[t][Member(u)]
        BY <1>3, <2>2, <3>1, CommitRow
      <4>2. db'[Member(u)].joined \in BOOLEAN
        BY <1>4 DEF MemberRow
      <4>. QED
        BY <3>1, <4>1, <4>2
    <3>3. MemberEvents(u)' = {}
      BY <2>2, <3>1, CommitCreate DEF MemberEvents, EventsOf
    <3>4. (u = db'[Channel].creator) = TRUE
      BY <3>2
    <3>5. Switches({}, "member.added", TRUE, TRUE)
      BY SwitchesNone
    <3>. QED
      BY <3>2, <3>3, <3>4, <3>5
  <2>3. CASE ~(request[t].op = "create" /\ Member(u) \in DOMAIN draft[t])
    <3>1. (u = db'[Channel].creator) = (u = db[Channel].creator)
      BY <1>1, <2>3, CommitCreator
    <3>2. db'[Member(u)].joined = db[Member(u)].joined
      <4>1. CASE Member(u) \in DOMAIN draft[t]
        <5>1. /\ request[t].op \in MemberOps /\ request[t].u = u
              /\ draft[t][Member(u)].joined <=> request[t].op # "removeMember"
              /\ db[Member(u)].joined <=> request[t].op # "addMember"
          BY <1>1, <1>5, <2>3, <4>1 DEF OwnMember
        <5>2. request[t].op = "markRead"
          <6>1. PICK e : e \in emitted[t]
            BY <1>0, <5>1 DEF ChannelInv, Turn, Must, MemberOps
          <6>2. e.u = u /\ e.type = EventName[request[t].op]
                /\ request[t].op \in Operation /\ request[t].op \notin {"create", "deleteUser", "upsertUser"}
            BY <5>1, <6>1, CommitEvent
          <6>. QED
            BY <1>7, <5>1, <6>1, <6>2, NameOf DEF MemberOps
        <5>3. db[Member(u)].joined \in BOOLEAN /\ db'[Member(u)].joined \in BOOLEAN
          BY <1>4 DEF MemberRow
        <5>4. db[Member(u)].joined = TRUE /\ db'[Member(u)].joined = TRUE
          BY <1>3, <4>1, <5>1, <5>2, <5>3
        <5>. QED
          BY <5>4
      <4>2. CASE Member(u) \notin DOMAIN draft[t]
        BY <1>3, <4>2
      <4>. QED
        BY <4>1, <4>2
    <3>. QED
      BY <1>2, <2>1, <3>1, <3>2
  <2>. QED
    BY <2>2, <2>3
<1>. QED
  BY <1>6, <1>7

LEMMA CommitReactions ==
  ASSUME ChannelInv, RowInv, OwnInv, SetInv, NEW t \in Tx, Commit(t), NEW m \in Message, NEW u \in User
  PROVE  ReactionTold(m, u)'
<1>00. CASE Account(u) \in DOMAIN draft[t]
  <2>1. db'[Reaction(m, u)] = FALSE /\ \A e \in log' : ~(e.seq > erased'[u])
    BY <1>00, CommitErases
  <2>2. ReactionEvents(m, u)' = {}
    BY <2>1 DEF ReactionEvents, EventsOf
  <2>3. Switches({}, "reaction.new", FALSE, FALSE)
    BY SwitchesNone
  <2>. QED
    BY <2>1, <2>2, <2>3 DEF ReactionTold
<1>. SUFFICES ASSUME Account(u) \notin DOMAIN draft[t]
              PROVE  Switches(ReactionEvents(m, u)', "reaction.new", FALSE, db'[Reaction(m, u)])
  BY <1>00 DEF ReactionTold
<1> DEFINE k == Reaction(m, u)
           now == db[k]
           then == db'[k]
           S == ReactionEvents(m, u)
<1>0. TypeInv /\ at[t] = "commit"
  BY DEF ChannelInv, Commit
<1>1. Account(u) \notin DOMAIN draft[t] /\ erased'[u] = erased[u]
  BY CommitErased
<1>2. Switches(S, "reaction.new", FALSE, now)
  BY DEF SetInv, ReactionTold
<1>3. /\ k \in DOMAIN draft[t] => then = draft[t][k]
      /\ k \notin DOMAIN draft[t] => then = now
  BY InRow DEF Commit, Seen
<1>4. now \in BOOLEAN /\ then \in BOOLEAN
  BY <1>0, InRow, DbTyped, SeenTyped DEF TypeInv, Commit
<1>5. OwnReaction(t, m, u) /\ Owes(t)
  BY DEF OwnInv, Own
<1>6. CASE \E e \in emitted[t] : e.m = m /\ e.u = u /\ e.type \in {"reaction.new", "reaction.deleted"}
  <2>1. PICK e \in emitted[t] :
          e.m = m /\ e.u = u /\ e.type \in {"reaction.new", "reaction.deleted"}
    BY <1>6
  <2>2. /\ log' = log \cup {e} /\ e.seq \in Nat
        /\ \A f \in log : f.seq \in Nat /\ f.seq < e.seq
        /\ request[t].u = u /\ request[t].m = m
        /\ e.type = EventName[request[t].op] /\ at[t] \in Changed
        /\ request[t].op \in Operation /\ request[t].op \notin {"create", "deleteUser", "upsertUser"}
    BY <2>1, CommitEvent
  <2>3. request[t].op \in {"react", "unreact"}
        /\ (e.type = "reaction.new" <=> request[t].op = "react")
    BY <2>1, <2>2, NameOf
  <2>4. k \in DOMAIN draft[t]
    BY <1>5, <2>2, <2>3 DEF Owes, ReactionOps
  <2>5. /\ then = TRUE <=> request[t].op = "react"
        /\ now = TRUE <=> request[t].op = "unreact"
    BY <1>1, <1>3, <1>5, <2>4 DEF OwnReaction
  <2>10. e.seq > erased[u]
    BY <2>1, CommitEvent, CommitErased
  <2>6. S' = S \cup {e}
    BY <1>1, <2>1, <2>2, <2>10 DEF ReactionEvents, EventsOf
  <2>7. \A f \in S : f.seq \in Nat /\ f.seq < e.seq
    BY <2>2 DEF ReactionEvents, EventsOf
  <2> HIDE DEF k, now, then, S
  <2>8. then = (e.type = "reaction.new") /\ then # now
    BY <1>4, <2>3, <2>5
  <2>9. Switches(S \cup {e}, "reaction.new", FALSE, then)
    BY <1>2, <1>4, <2>2, <2>7, <2>8, SwitchesAdd
  <2>. QED
    BY <2>6, <2>9 DEF S, then, k
<1>7. CASE ~ \E e \in emitted[t] :
               e.m = m /\ e.u = u /\ e.type \in {"reaction.new", "reaction.deleted"}
  <2>1. S' = S
    <3>1. log' = log \cup emitted[t]
      BY CommitRow
    <3>. QED
      BY <1>1, <1>7, <3>1 DEF ReactionEvents, EventsOf
  <2>2. k \notin DOMAIN draft[t]
    <3>. SUFFICES ASSUME k \in DOMAIN draft[t] PROVE FALSE
      OBVIOUS
    <3>1. request[t].op \in ReactionOps /\ request[t].m = m /\ request[t].u = u
      BY <1>1, <1>5 DEF OwnReaction
    <3>2. PICK e : e \in emitted[t]
      BY <1>0, <3>1 DEF ChannelInv, Turn, Must, ReactionOps
    <3>3. /\ e.u = u /\ e.m = m /\ e.type = EventName[request[t].op]
          /\ request[t].op \in Operation /\ request[t].op \notin {"create", "deleteUser", "upsertUser"}
      BY <3>1, <3>2, CommitEvent
    <3>. QED
      BY <1>7, <3>1, <3>2, <3>3, NameOf DEF ReactionOps
  <2>. QED
    BY <1>2, <1>3, <2>1, <2>2
<1>. QED
  BY <1>6, <1>7

LEMMA CommitReads ==
  ASSUME ChannelInv, RowInv, OwnInv, SetInv, NEW t \in Tx, Commit(t), NEW u \in User
  PROVE  ReadTold(u)'
<1>0. TypeInv /\ at[t] = "commit"
  BY DEF ChannelInv, Commit
<1>1. ReadTold(u)
  BY DEF SetInv
<1>2. /\ Member(u) \in DOMAIN draft[t] => db'[Member(u)] = draft[t][Member(u)]
      /\ Member(u) \notin DOMAIN draft[t] => db'[Member(u)] = db[Member(u)]
  BY InRow DEF Commit, Seen
<1>3. db[Member(u)] \in MemberRow /\ db'[Member(u)] \in MemberRow
  BY <1>0, InRow, DbTyped, SeenTyped DEF TypeInv, Commit
<1>4. OwnMember(t, u) /\ Owes(t) /\ Erases(t) /\ log \subseteq Event
  BY <1>0 DEF OwnInv, Own, TypeInv, TypeOK
<1>5. CASE \E e \in emitted[t] : e.u = u /\ e.type = "member.added"
  <2>1. PICK e \in emitted[t] : e.u = u /\ e.type = "member.added"
    BY <1>5
  <2>2. /\ log' = log \cup {e} /\ e.seq \in Nat
        /\ \A f \in log : f.seq \in Nat /\ f.seq < e.seq
    BY <2>1, CommitEvent
  <2>3. e \in log'
    BY <2>2
  <2>4. Receipts(u)' = {}
    <3>. SUFFICES ASSUME NEW r \in Receipts(u)' PROVE FALSE
      OBVIOUS
    <3>1. r \in log' /\ r.type = "read.updated" /\ e.seq < r.seq
      BY <2>1, <2>3 DEF Receipts
    <3>2. r \in log
      BY <2>1, <2>2, <3>1
    <3>. QED
      BY <2>2, <3>1, <3>2
  <2>. QED
    BY <2>4 DEF ReadTold
<1>6. CASE \E e \in emitted[t] : e.u = u /\ e.type = "read.updated"
  <2>1. PICK e \in emitted[t] : e.u = u /\ e.type = "read.updated"
    BY <1>6
  <2>2. /\ log' = log \cup {e} /\ e.seq \in Nat /\ e.data = local[t]
        /\ \A f \in log : f.seq \in Nat /\ f.seq < e.seq
        /\ request[t].u = u /\ e.type = EventName[request[t].op] /\ at[t] \in Changed
        /\ request[t].op \in Operation /\ request[t].op \notin {"create", "deleteUser", "upsertUser"}
    BY <2>1, CommitEvent
  <2>3. request[t].op = "markRead"
    BY <2>1, <2>2, NameOf
  <2>4. Member(u) \in DOMAIN draft[t] /\ Account(u) \notin DOMAIN draft[t]
    BY <1>4, <2>2, <2>3 DEF Owes, Erases, MemberOps
  <2>5. /\ db[Member(u)].joined /\ db[Member(u)].read <= e.data
        /\ db'[Member(u)].read = e.data
    BY <1>2, <1>4, <2>2, <2>3, <2>4 DEF OwnMember
  <2>6. Receipts(u)' = Receipts(u) \cup {e}
    BY <2>1, <2>2 DEF Receipts
  <2>7. \A f \in Receipts(u) : f.seq \in Nat /\ f.seq < e.seq /\ f.data \in Nat
    BY <1>4, <2>2 DEF Receipts, Event
  <2>8. e.data \in Nat /\ db[Member(u)].read \in Nat
    BY <1>0, <1>3, <2>2 DEF TypeInv, TypeOK, MemberRow
  <2>9. \A f \in Receipts(u) : f.data <= e.data
    BY <1>1, <2>5, <2>7, <2>8 DEF ReadTold
  <2>10. Last(Receipts(u) \cup {e}) = e
    BY <2>2, <2>7, LastIs
  <2>11. \A d, f \in Receipts(u) : d.seq < f.seq => d.data <= f.data
    BY <1>1 DEF ReadTold
  <2>12. \A d, f \in Receipts(u) \cup {e} : d.seq < f.seq => d.data <= f.data
    BY <2>2, <2>7, <2>8, <2>9, <2>11
  <2>13. \A f \in Receipts(u) \cup {e} : f.data <= db'[Member(u)].read
    BY <2>5, <2>8, <2>9
  <2>. QED
    BY <2>5, <2>6, <2>10, <2>12, <2>13 DEF ReadTold
<1>7. CASE ~ \E e \in emitted[t] : e.u = u /\ e.type \in {"member.added", "read.updated"}
  <2>1. Receipts(u)' = Receipts(u)
    <3>1. log' = log \cup emitted[t]
      BY CommitRow
    <3>. QED
      BY <1>7, <3>1 DEF Receipts
  <2>2. CASE db'[Member(u)] = db[Member(u)] \/ db'[Member(u)].joined = FALSE
    BY <1>1, <2>1, <2>2 DEF ReadTold
  <2>3. CASE log' = {}
    BY <2>3 DEF ReadTold, Receipts
  <2>4. CASE Member(u) \in DOMAIN draft[t]
    <3>1. db'[Member(u)].joined \in BOOLEAN
      BY <1>3 DEF MemberRow
    <3>2. CASE Account(u) \in DOMAIN draft[t]
      <4>1. ~Refers(draft[t], Member(u), u)
        BY <2>4, <3>2 DEF RowInv, Deletes
      <4>2. ~draft[t][Member(u)].joined
        BY <4>1 DEF Refers
      <4>. QED
        BY <1>2, <2>2, <2>4, <3>1, <4>2
    <3>3. CASE request[t].op = "create" /\ Held(t)
      BY <2>3, <3>3, CommitCreate
    <3>4. CASE request[t].op \in MemberOps /\ request[t].u = u
               /\ (draft[t][Member(u)].joined <=> request[t].op # "removeMember")
      <4>1. PICK e : e \in emitted[t]
        BY <1>0, <3>4 DEF ChannelInv, Turn, Must, MemberOps
      <4>2. e.u = u /\ e.type = EventName[request[t].op]
            /\ request[t].op \in Operation /\ request[t].op \notin {"create", "deleteUser", "upsertUser"}
        BY <3>4, <4>1, CommitEvent
      <4>3. request[t].op = "removeMember"
        BY <1>7, <3>4, <4>1, <4>2, NameOf DEF MemberOps
      <4>. QED
        BY <1>2, <2>2, <2>4, <3>1, <3>4, <4>3
    <3>. QED
      BY <1>4, <2>4, <3>2, <3>3, <3>4 DEF OwnMember
  <2>. QED
    BY <1>2, <2>2, <2>4
<1>. QED
  BY <1>5, <1>6, <1>7

LEMMA SetsKept ==
  ASSUME SetInv, UNCHANGED <<log, erased>>, db'[Channel] = db[Channel],
         \A u \in User : db'[Member(u)] = db[Member(u)],
         \A m \in Message, u \in User : db'[Reaction(m, u)] = db[Reaction(m, u)]
  PROVE  SetInv'
<1>. SUFFICES ASSUME NEW u \in User
              PROVE  MemberTold(u)' /\ ReadTold(u)' /\ \A m \in Message : ReactionTold(m, u)'
  BY DEF SetInv
<1>1. /\ MemberEvents(u)' = MemberEvents(u) /\ Receipts(u)' = Receipts(u)
      /\ \A m \in Message : ReactionEvents(m, u)' = ReactionEvents(m, u)
  BY DEF MemberEvents, ReactionEvents, Receipts, EventsOf
<1>2. MemberTold(u)'
  BY <1>1 DEF SetInv, MemberTold
<1>3. ReadTold(u)'
  BY <1>1 DEF SetInv, ReadTold
<1>4. \A m \in Message : ReactionTold(m, u)'
  BY <1>1 DEF SetInv, ReactionTold
<1>. QED
  BY <1>2, <1>3, <1>4

LEMMA InitSets == Init => SetInv
<1>. SUFFICES ASSUME Init, NEW u \in User
              PROVE  /\ MemberTold(u) /\ ReadTold(u) /\ \A m \in Message : ReactionTold(m, u)
                     /\ erased[u] <= db[Channel].seq
  BY DEF SetInv
<1>1. PICK creator \in User \cup {None}, status \in {"absent", "live"} :
        db = [r \in Row |->
                CASE r = Channel -> [status |-> status, seq |-> 0, creator |-> creator]
                  [] r[1] = "message" -> Absent
                  [] r[1] = "member" -> [joined |-> r[2] = creator, read |-> 0]
                  [] r[1] = "reaction" -> FALSE
                  [] r[1] = "user" -> TRUE]
  BY DEF Init
<1>2. db[Channel].creator = creator
  BY <1>1, InRow DEF Channel
<1>3. db[Member(u)].joined = (u = creator)
  <2>1. db[Member(u)] = [joined |-> u = creator, read |-> 0]
    BY <1>1, InRow, RowsDistinct DEF Member, Channel
  <2>. QED
    BY <2>1
<1>4. ASSUME NEW m \in Message PROVE db[Reaction(m, u)] = FALSE
  BY <1>1, InRow, RowsDistinct DEF Reaction, Channel
<1>5. log = {}
  BY DEF Init
<1>6. MemberEvents(u) = {} /\ Receipts(u) = {} /\ \A m \in Message : ReactionEvents(m, u) = {}
  BY <1>5 DEF MemberEvents, Receipts, ReactionEvents, EventsOf
<1>7. MemberTold(u)
  <2>1. Switches({}, "member.added", u = creator, u = creator)
    BY SwitchesNone
  <2>. QED
    BY <1>2, <1>3, <1>6, <2>1 DEF MemberTold
<1>8. ReadTold(u)
  BY <1>6 DEF ReadTold
<1>9. \A m \in Message : ReactionTold(m, u)
  <2>1. Switches({}, "reaction.new", FALSE, FALSE)
    BY SwitchesNone
  <2>. QED
    BY <1>4, <1>6, <2>1 DEF ReactionTold
<1>10. erased[u] <= db[Channel].seq
  <2>1. erased[u] = 0 /\ db[Channel].seq = 0
    BY <1>1, InRow DEF Init, Channel
  <2>. QED
    BY <2>1
<1>. QED
  BY <1>7, <1>8, <1>9, <1>10

LEMMA NextSets == ChannelInv /\ RowInv /\ OwnInv /\ SetInv /\ [Next]_vars => SetInv'
<1>. SUFFICES ASSUME ChannelInv, RowInv, OwnInv, SetInv, [Next]_vars PROVE SetInv'
  OBVIOUS
<1>1. ASSUME NEW t \in Tx, Commit(t) PROVE SetInv'
  BY <1>1, CommitMembers, CommitReactions, CommitReads, CommitErased DEF SetInv
<1>. QED
  BY <1>1, StepCommits, SetsKept DEF ChannelInv

(* Whoever folds the log of a channel, starting over for a user where that *)
(* user was erased, has its members and its reactions, however calls that  *)
(* add and remove the same one race or are repeated, and whether or not    *)
(* an erased user is created again.                                        *)
THEOREM SetsFollowLog == Spec => []SetsMatchLog
<1>1. SetInv => SetsMatchLog
  BY DEF SetInv, MemberTold, ReactionTold, MemberEvents, ReactionEvents, SetsMatchLog,
         MembersMatchLog, ReactionsMatchLog
<1>. QED
  BY <1>1, ChannelInit, ChannelNext, InitRows, NextRows, InitOwn, NextOwn, InitSets, NextSets,
     PTL DEF Spec

(* A reader's receipts never go back while the membership lasts, and the   *)
(* last one is the pointer, though markRead does not check upTo.           *)
THEOREM ReceiptsNeverBack == Spec => []ReceiptsInOrder
<1>1. SetInv => ReceiptsInOrder
  <2>. SUFFICES ASSUME SetInv, NEW u \in User
                PROVE  LET joined == {e.seq : e \in {f \in EventsOf({"member.added"}) : f.u = u}}
                           receipts == {e \in EventsOf({"read.updated"}) :
                                          e.u = u /\ \A n \in joined : n < e.seq}
                       IN  /\ \A e, f \in receipts : e.seq < f.seq => e.data <= f.data
                           /\ receipts # {} /\ db[Member(u)].joined =>
                                db[Member(u)].read = Last(receipts).data
    BY DEF ReceiptsInOrder
  <2> DEFINE joined == {e.seq : e \in {f \in EventsOf({"member.added"}) : f.u = u}}
             receipts == {e \in EventsOf({"read.updated"}) :
                            e.u = u /\ \A n \in joined : n < e.seq}
  <2>1. receipts = Receipts(u)
    BY DEF Receipts, EventsOf
  <2>2. ReadTold(u)
    BY DEF SetInv
  <2>3. /\ \A e, f \in receipts : e.seq < f.seq => e.data <= f.data
        /\ receipts # {} /\ db[Member(u)].joined => db[Member(u)].read = Last(receipts).data
    <3> HIDE DEF receipts
    <3>. QED
      BY <2>1, <2>2 DEF ReadTold
  <2>. QED
    BY <2>3
<1>. QED
  BY <1>1, ChannelInit, ChannelNext, InitRows, NextRows, InitOwn, NextOwn, InitSets, NextSets,
     PTL DEF Spec

-----------------------------------------------------------------------------
(* Replies.  A message counts until MessageService.delete has logged its   *)
(* deletion.                                                               *)
DeletionLogged(m) == \E e \in log : e.type = "message.deleted" /\ e.m = m

Counted(p) ==
  {m \in Message : db[Msg(m)].seq > 0 /\ db[Msg(m)].parent = p /\ ~DeletionLogged(m)}

(* t brings message m; it has counted m as a reply to p; it has taken the  *)
(* message it deletes from p's count.                                      *)
Inserts(t, m) ==
  /\ at[t] \in {"incrementReplyCount", "commit"}
  /\ request[t].op = "send" /\ request[t].m = m

Gains(t, p) == at[t] = "commit" /\ request[t].op = "send" /\ request[t].p = p

Loses(t, p) ==
  /\ at[t] \in {"persist", "commit"} /\ request[t].op = "delete"
  /\ db[Msg(request[t].m)].parent = p

(* Nobody changes whose reply a message is, and a reply's parent is there. *)
Kin(t, m) ==
  /\ Inserts(t, m) =>
       /\ Msg(m) \in DOMAIN draft[t] /\ draft[t][Msg(m)].parent = request[t].p
       /\ db[Msg(m)].seq = 0 /\ draft[t][Msg(m)].seq > 0
       /\ request[t].p \in Message \ {m} => db[Msg(request[t].p)].seq > 0
  /\ Msg(m) \in DOMAIN draft[t] /\ ~Inserts(t, m) =>
       /\ draft[t][Msg(m)].seq = db[Msg(m)].seq
       /\ draft[t][Msg(m)].parent = db[Msg(m)].parent

(* t's version of a count is off by what t itself adds to or takes from    *)
(* the messages that count.                                                *)
Counts(t, p) ==
  /\ Gains(t, p) =>
       Msg(p) \in DOMAIN draft[t] /\ draft[t][Msg(p)].replies = db[Msg(p)].replies + 1
  /\ Loses(t, p) =>
       Msg(p) \in DOMAIN draft[t] /\ draft[t][Msg(p)].replies + 1 = db[Msg(p)].replies
  /\ Msg(p) \in DOMAIN draft[t] /\ ~Gains(t, p) /\ ~Loses(t, p) =>
       draft[t][Msg(p)].replies = db[Msg(p)].replies

Tally(p) == IsFiniteSet(Counted(p)) /\ db[Msg(p)].replies = Cardinality(Counted(p))

Rooted(m) ==
  db[Msg(m)].seq > 0 /\ db[Msg(m)].parent \in Message => db[Msg(db[Msg(m)].parent)].seq > 0

ReplyInv ==
  \A m \in Message :
    /\ Tally(m) /\ Rooted(m)
    /\ \A t \in Tx : Kin(t, m) /\ Counts(t, m)

-----------------------------------------------------------------------------
(* What t keeps of the replies if the rows and the log stay as they are.   *)
LEMMA TallyKept ==
  ASSUME ReplyInv, \A m \in Message : db'[Msg(m)] = db[Msg(m)], log' = log
  PROVE  \A m \in Message : Tally(m)' /\ Rooted(m)'
<1>1. ASSUME NEW m \in Message PROVE Tally(m)' /\ Rooted(m)'
  <2>1. Counted(m)' = Counted(m)
    BY DEF Counted, DeletionLogged
  <2>2. Tally(m) /\ Rooted(m)
    BY DEF ReplyInv
  <2>. QED
    BY <2>1, <2>2 DEF Tally, Rooted
<1>. QED
  BY <1>1

LEMMA MoveKeepsReplies ==
  ASSUME ReplyInv, NEW t \in Tx, NEW rows, NEW next, Moves(t, rows, next),
         \A m \in Message : Kin(t, m)' /\ Counts(t, m)'
  PROVE  ReplyInv'
<1>1. db' = db /\ log' = log /\ request' = request
  BY DEF Moves
<1>2. ASSUME NEW m \in Message, NEW s \in Tx, s # t PROVE Kin(s, m)' /\ Counts(s, m)'
  <2>1. draft'[s] = draft[s] /\ at'[s] = at[s]
    BY <1>2 DEF Moves
  <2>2. Kin(s, m) /\ Counts(s, m)
    BY DEF ReplyInv
  <2>3. /\ Inserts(s, m)' <=> Inserts(s, m)
        /\ Gains(s, m)' <=> Gains(s, m)
        /\ Loses(s, m)' <=> Loses(s, m)
    BY <1>1, <2>1 DEF Inserts, Gains, Loses
  <2>4. Kin(s, m)'
    BY <1>1, <2>1, <2>2, <2>3 DEF Kin
  <2>5. Counts(s, m)'
    BY <1>1, <2>1, <2>2, <2>3 DEF Counts
  <2>. QED
    BY <2>4, <2>5
<1>3. \A m \in Message : Tally(m)' /\ Rooted(m)'
  BY <1>1, TallyKept
<1>. QED
  BY <1>2, <1>3 DEF ReplyInv

(* A transaction that has neither brought nor counted a message.           *)
Quiet(t) == \A m \in Message : ~Inserts(t, m) /\ ~Gains(t, m) /\ ~Loses(t, m)

(* A statement that leaves counts and parents to what they are.            *)
LEMMA QuietKeepsReplies ==
  ASSUME ReplyInv, NEW t \in Tx, NEW rows, NEW next, Moves(t, rows, next),
         Quiet(t), Quiet(t)',
         \A m \in Message : Msg(m) \in DOMAIN rows =>
           /\ rows[Msg(m)].seq = db[Msg(m)].seq
           /\ rows[Msg(m)].parent = db[Msg(m)].parent
           /\ rows[Msg(m)].replies = db[Msg(m)].replies
  PROVE  ReplyInv'
<1>1. ASSUME NEW m \in Message PROVE Kin(t, m)' /\ Counts(t, m)'
  <2>1. Kin(t, m) /\ Counts(t, m) /\ db' = db
    BY DEF ReplyInv, Moves
  <2>2. /\ ~Inserts(t, m) /\ ~Gains(t, m) /\ ~Loses(t, m)
        /\ ~Inserts(t, m)' /\ ~Gains(t, m)' /\ ~Loses(t, m)'
    BY DEF Quiet
  <2>3. CASE Msg(m) \in DOMAIN rows
    <3>1. draft'[t][Msg(m)] = rows[Msg(m)]
      BY <2>3 DEF Moves
    <3>. QED
      BY <2>1, <2>2, <2>3, <3>1 DEF Kin, Counts
  <2>4. CASE Msg(m) \notin DOMAIN rows
    <3>1. /\ Msg(m) \in DOMAIN draft'[t] <=> Msg(m) \in DOMAIN draft[t]
          /\ Msg(m) \in DOMAIN draft[t] => draft'[t][Msg(m)] = draft[t][Msg(m)]
      BY <2>4 DEF Moves
    <3>. QED
      BY <2>1, <2>2, <3>1 DEF Kin, Counts
  <2>. QED
    BY <2>3, <2>4
<1>. QED
  BY <1>1, MoveKeepsReplies

(* Only sends and deletions count.                                         *)
LEMMA OthersQuiet ==
  ASSUME NEW t \in Tx,
         \/ request[t].op \notin {"send", "delete"}
         \/ at[t] \notin {"incrementReplyCount", "persist", "commit"}
  PROVE  Quiet(t)
BY DEF Quiet, Inserts, Gains, Loses

LEMMA QuietThen ==
  ASSUME NEW t \in Tx, NEW rows, NEW next, Moves(t, rows, next),
         \/ request[t].op \notin {"send", "delete"}
         \/ next \notin {"incrementReplyCount", "persist", "commit"}
  PROVE  Quiet(t)'
BY DEF Moves, Quiet, Inserts, Gains, Loses

(* What t sees of the count of p before it counts.                         *)
LEMMA SeenReplies ==
  ASSUME ReplyInv, NEW t \in Tx, NEW p \in Message, ~Gains(t, p), ~Loses(t, p)
  PROVE  Seen(t, Msg(p)).replies = db[Msg(p)].replies
BY DEF ReplyInv, Counts, Seen

(* ... and of a message it does not bring.                                 *)
LEMMA SeenKin ==
  ASSUME ReplyInv, NEW t \in Tx, NEW m \in Message, ~Inserts(t, m)
  PROVE  Seen(t, Msg(m)).seq = db[Msg(m)].seq /\ Seen(t, Msg(m)).parent = db[Msg(m)].parent
BY DEF ReplyInv, Kin, Seen

LEMMA OverKeepsReplies ==
  ASSUME ReplyInv, TypeInv, NEW t \in Tx, Over(t)
  PROVE  ReplyInv'
<1>1. End(t) /\ log' = log /\ \A m \in Message : db'[Msg(m)] = db[Msg(m)]
  BY OverKeeps
<1>2. draft'[t] = NoRow /\ at'[t] = "done"
  BY <1>1 DEF End, TypeInv, TypeOK
<1>3. ASSUME NEW m \in Message PROVE Kin(t, m)' /\ Counts(t, m)'
  BY <1>2 DEF Kin, Counts, Inserts, Gains, Loses, NoRow
<1>4. ASSUME NEW m \in Message, NEW s \in Tx, s # t PROVE Kin(s, m)' /\ Counts(s, m)'
  <2>1. draft'[s] = draft[s] /\ at'[s] = at[s] /\ request'[s] = request[s]
    BY <1>1, <1>4, EndKeepsOthers
  <2>2. Kin(s, m) /\ Counts(s, m)
    BY DEF ReplyInv
  <2>3. Loses(s, m)' <=> Loses(s, m)
    <3>1. at[s] \in {"persist", "commit"} /\ request[s].op = "delete" => request[s].m \in Message
      BY RequestTyped DEF TypeInv, Positioned, Running
    <3>. QED
      BY <1>1, <2>1, <3>1 DEF Loses
  <2>4. Inserts(s, m)' <=> Inserts(s, m)
    BY <2>1 DEF Inserts
  <2>5. Gains(s, m)' <=> Gains(s, m)
    BY <2>1 DEF Gains
  <2>6. Kin(s, m)'
    BY <1>1, <2>1, <2>2, <2>4 DEF Kin
  <2>7. Counts(s, m)'
    BY <1>1, <2>1, <2>2, <2>3, <2>5 DEF Counts
  <2>. QED
    BY <2>6, <2>7
<1>5. \A m \in Message : Tally(m)' /\ Rooted(m)'
  BY <1>1, TallyKept
<1>. QED
  BY <1>3, <1>4, <1>5 DEF ReplyInv

LEMMA QuitKeepsReplies ==
  ASSUME ReplyInv, TypeInv, NEW t \in Tx, Quit(t)
  PROVE  ReplyInv'
BY QuitOver, OverKeepsReplies

LEMMA BeginKeepsReplies ==
  ASSUME ReplyInv, TypeInv, NEW t \in Tx, Begin(t)
  PROVE  ReplyInv'
<1>1. PICK q \in Requests :
        /\ request' = [request EXCEPT ![t] = q]
        /\ at' = [at EXCEPT ![t] = FirstStatement[q.op]]
  BY DEF Begin
<1>2. UNCHANGED <<db, log, draft>> /\ at[t] = "idle"
  BY DEF Begin
<1>3. FirstStatement[q.op] \notin {"incrementReplyCount", "persist", "commit"}
  BY RequestTyped DEF FirstStatement, Operation
<1>4. /\ at'[t] = FirstStatement[q.op]
      /\ \A s \in Tx : s # t => at'[s] = at[s] /\ request'[s] = request[s]
  BY <1>1 DEF TypeInv, TypeOK
<1>5. ASSUME NEW m \in Message PROVE Kin(t, m)' /\ Counts(t, m)'
  <2>1. Kin(t, m) /\ Counts(t, m)
    BY DEF ReplyInv
  <2>2. ~Inserts(t, m) /\ ~Gains(t, m) /\ ~Loses(t, m)
    BY <1>2 DEF Inserts, Gains, Loses
  <2>3. ~Inserts(t, m)' /\ ~Gains(t, m)' /\ ~Loses(t, m)'
    BY <1>3, <1>4 DEF Inserts, Gains, Loses
  <2>. QED
    BY <1>2, <2>1, <2>2, <2>3 DEF Kin, Counts
<1>6. ASSUME NEW m \in Message, NEW s \in Tx, s # t PROVE Kin(s, m)' /\ Counts(s, m)'
  <2>1. at'[s] = at[s] /\ request'[s] = request[s]
    BY <1>4, <1>6
  <2>. QED
    BY <1>2, <2>1 DEF ReplyInv, Kin, Counts, Inserts, Gains, Loses
<1>7. \A m \in Message : Tally(m)' /\ Rooted(m)'
  BY <1>2, TallyKept
<1>. QED
  BY <1>5, <1>6, <1>7 DEF ReplyInv

(* Statements that have to do with no message at all.                      *)
LEMMA ElsewhereKeepsReplies ==
  ASSUME ReplyInv, TypeInv, NEW t \in Tx, NEW rows, NEW next, Moves(t, rows, next),
         Running(t), at[t] \notin {"incrementReplyCount", "persist", "commit"},
         \/ request[t].op \notin {"send", "delete"}
         \/ next \notin {"incrementReplyCount", "persist", "commit"},
         \A m \in Message : Msg(m) \notin DOMAIN rows
  PROVE  ReplyInv'
<1>1. Quiet(t) /\ Quiet(t)'
  BY OthersQuiet, QuietThen
<1>. QED
  BY <1>1, QuietKeepsReplies

LEMMA ChannelStatementReplies ==
  ASSUME ReplyInv, TypeInv, NEW t \in Tx, ChannelStatement(t) \/ BumpSeqForMessage(t)
  PROVE  ReplyInv'
<1>1. CASE Quit(t)
  BY <1>1, QuitKeepsReplies
<1>2. CASE ~Quit(t)
  <2>1. PICK r, row, next :
          /\ Write(t, One(r, row), next) /\ Running(t)
          /\ r = Channel \/ r = Member(request[t].u)
          /\ \/ at[t] = "bumpSeqForMessage" /\ next = "insertMessage"
             \/ at[t] \in {"insertIfAbsent", "addOwner", "updateChannel", "softDeleteChannel"}
          /\ shared' = shared \/ \E users : shared' = [shared EXCEPT ![t] = users]
    <3>1. CASE InsertIfAbsent(t)
      BY <1>2, <3>1 DEF InsertIfAbsent, Runs, Running
    <3>2. CASE AddOwner(t)
      BY <3>2 DEF AddOwner, Runs, Running
    <3>3. CASE UpdateChannel(t)
      BY <1>2, <3>3 DEF UpdateChannel, Runs, Running
    <3>4. CASE SoftDeleteChannel(t)
      BY <1>2, <3>4 DEF SoftDeleteChannel, Runs, Running
    <3>5. CASE BumpSeqForMessage(t)
      BY <1>2, <3>5 DEF BumpSeqForMessage, Runs, Running
    <3>. QED
      BY <3>1, <3>2, <3>3, <3>4, <3>5 DEF ChannelStatement
  <2>2. Moves(t, One(r, row), next)
    BY <2>1, WriteMoves
  <2>3. \A m \in Message : Msg(m) \notin DOMAIN One(r, row)
    BY <2>1, OneMessage
  <2>4. at[t] # "bumpSeqForMessage" => request[t].op \notin {"send", "delete"}
    BY <2>1, OpAt
  <2>. QED
    BY <2>1, <2>2, <2>3, <2>4, ElsewhereKeepsReplies
<1>. QED
  BY <1>1, <1>2

LEMMA MemberStatementReplies ==
  ASSUME ReplyInv, TypeInv, NEW t \in Tx, MemberStatement(t)
  PROVE  ReplyInv'
<1>0. /\ Running(t) /\ request[t].op \notin {"send", "delete"}
      /\ at[t] \notin {"incrementReplyCount", "persist", "commit"}
  <2>1. at[t] \in {"getChannel", "addMember", "removeMember", "targetSeq", "markRead",
                   "existsInChannel", "addReaction", "removeReaction", "countsByType"}
    BY DEF MemberStatement, GetChannel, AddMember, RemoveMember, TargetSeq, MarkRead,
           ExistsInChannel, AddReaction, RemoveReaction, CountsByType, Runs
  <2>2. Running(t)
    BY <2>1 DEF Running
  <2>. QED
    BY <2>1, <2>2, OpAt
<1>1. CASE Quit(t)
  BY <1>1, QuitKeepsReplies
<1>2. CASE ~Quit(t)
  <2>1. CASE \/ GetChannel(t) \/ TargetSeq(t) \/ ExistsInChannel(t) \/ CountsByType(t)
    <3>1. PICK next : Read(t, next)
      BY <1>2, <2>1 DEF GetChannel, TargetSeq, ExistsInChannel, CountsByType
    <3>2. Moves(t, NoRow, next) /\ DOMAIN NoRow = {}
      BY <3>1, ReadMoves DEF NoRow
    <3>. QED
      BY <1>0, <3>2, ElsewhereKeepsReplies
  <2>2. CASE \/ AddMember(t) \/ RemoveMember(t) \/ MarkRead(t)
             \/ AddReaction(t) \/ RemoveReaction(t)
    <3>1. PICK r, row, next :
            /\ Write(t, One(r, row), next)
            /\ r = Member(request[t].u) \/ r = Reaction(request[t].m, request[t].u)
            /\ shared' = shared \/ \E users : shared' = [shared EXCEPT ![t] = users]
      <4>1. CASE AddMember(t)
        BY <1>2, <4>1 DEF AddMember
      <4>2. CASE RemoveMember(t)
        BY <1>2, <4>2 DEF RemoveMember
      <4>3. CASE MarkRead(t)
        BY <1>2, <4>3 DEF MarkRead
      <4>4. CASE AddReaction(t)
        BY <1>2, <4>4 DEF AddReaction
      <4>5. CASE RemoveReaction(t)
        BY <1>2, <4>5 DEF RemoveReaction
      <4>. QED
        BY <2>2, <4>1, <4>2, <4>3, <4>4, <4>5
    <3>2. Moves(t, One(r, row), next)
      BY <3>1, WriteMoves
    <3>3. \A m \in Message : Msg(m) \notin DOMAIN One(r, row)
      BY <3>1, OneMessage
    <3>. QED
      BY <1>0, <3>2, <3>3, ElsewhereKeepsReplies
  <2>. QED
    BY <2>1, <2>2 DEF MemberStatement
<1>. QED
  BY <1>1, <1>2

(* The seq, the parent and the count of replies of a message.              *)
LEMMA UserStatementReplies ==
  ASSUME ReplyInv, MessageInv, ChannelInv, NEW t \in Tx, UserStatement(t)
  PROVE  ReplyInv'
<1>0. TypeInv
  BY DEF ChannelInv
<1>1. CASE Quit(t)
  BY <1>0, <1>1, QuitKeepsReplies
<1>5. CASE UpsertUser(t)
  BY <1>0, <1>5, UpsertOver, OverKeepsReplies
<1>2. ASSUME ~UpsertUser(t)
      PROVE  /\ Running(t) /\ at[t] \in {"findAuthored", "scrubAuthored", "deleteUser"}
             /\ request[t].op = "deleteUser" /\ Quiet(t)
  <2>1. Running(t) /\ at[t] \in {"findAuthored", "scrubAuthored", "deleteUser"}
    BY <1>2 DEF UserStatement, FindAuthored, ScrubAuthored, DeleteUser, Runs, Running
  <2>. QED
    BY <1>0, <2>1, OpAt, OthersQuiet
<1>3. CASE ScrubAuthored(t) /\ ~UpsertUser(t)
  <2> DEFINE mine == {Msg(m) : m \in {k \in found[t] \cap Authored(request[t].u) : Live(k)}}
             rows == [r \in mine |-> [db[r] EXCEPT !.text = FALSE, !.deleted = TRUE]]
  <2>1. Write(t, rows, "deleteUser") /\ shared' = shared
    BY <1>3 DEF ScrubAuthored
  <2>2. Moves(t, rows, "deleteUser")
    BY <1>0, <2>1, WriteMoves
  <2>3. ASSUME NEW m \in Message, Msg(m) \in DOMAIN rows
        PROVE  /\ rows[Msg(m)].seq = db[Msg(m)].seq
               /\ rows[Msg(m)].parent = db[Msg(m)].parent
               /\ rows[Msg(m)].replies = db[Msg(m)].replies
    <3>1. rows[Msg(m)] = [db[Msg(m)] EXCEPT !.text = FALSE, !.deleted = TRUE]
      BY <2>3
    <3>2. db[Msg(m)] \in MessageRow
      BY <1>0, DbTyped DEF TypeInv
    <3>. QED
      BY <3>1, <3>2 DEF MessageRow
  <2> HIDE DEF rows
  <2>4. Quiet(t)'
    BY <1>2, <1>3, <2>2, QuietThen
  <2>. QED
    BY <1>2, <1>3, <2>2, <2>3, <2>4, QuietKeepsReplies
<1>4. CASE DeleteUser(t) /\ ~Quit(t) /\ ~UpsertUser(t)
  <2> DEFINE u == request[t].u
             rows == Deletion(t, u)
  <2>1. Write(t, rows, "commit") /\ shared' = shared
    BY <1>4 DEF DeleteUser, Deletion
  <2>2. Moves(t, rows, "commit")
    BY <1>0, <2>1, WriteMoves
  <2>3. ASSUME NEW m \in Message, Msg(m) \in DOMAIN rows
        PROVE  /\ rows[Msg(m)].seq = db[Msg(m)].seq
               /\ rows[Msg(m)].parent = db[Msg(m)].parent
               /\ rows[Msg(m)].replies = db[Msg(m)].replies
    <3>1. DOMAIN Cascaded(t, u) = {Account(u), Member(u)} \cup {Reaction(k, u) : k \in Message}
      BY DEF Cascaded
    <3>2. Msg(m) \notin DOMAIN Cascaded(t, u)
      BY <3>1, RowsDistinct
    <3>3. Msg(m) \in DOMAIN Nulled(t, u) /\ rows[Msg(m)] = Nulled(t, u)[Msg(m)]
      BY <2>3, <3>2 DEF Deletion
    <3>4. rows[Msg(m)] = [Seen(t, Msg(m)) EXCEPT !.author = None]
      BY <3>3, RowsDistinct DEF Nulled
    <3>5. Seen(t, Msg(m)) \in MessageRow
      BY <1>0, SeenTyped DEF TypeInv
    <3>6. /\ rows[Msg(m)].parent = Seen(t, Msg(m)).parent
          /\ rows[Msg(m)].replies = Seen(t, Msg(m)).replies
          /\ rows[Msg(m)].seq = Seen(t, Msg(m)).seq
      BY <3>4, <3>5 DEF MessageRow
    <3>. QED
      BY <1>2, <1>4, <3>6, SeenReplies, SeenKin DEF Quiet
  <2> HIDE DEF rows
  <2>4. Quiet(t)'
    BY <1>2, <1>4, <2>2, QuietThen
  <2>. QED
    BY <1>2, <1>4, <2>2, <2>3, <2>4, QuietKeepsReplies
<1>6. CASE FindAuthored(t) /\ ~UpsertUser(t)
  <2>1. Read(t, "scrubAuthored")
    BY <1>6 DEF FindAuthored
  <2>2. Moves(t, NoRow, "scrubAuthored") /\ DOMAIN NoRow = {}
    BY <1>0, <2>1, ReadMoves DEF NoRow
  <2>3. Quiet(t)'
    BY <1>2, <1>6, <2>2, QuietThen
  <2>. QED
    BY <1>2, <1>6, <2>2, <2>3, QuietKeepsReplies
<1>. QED
  BY <1>1, <1>3, <1>4, <1>5, <1>6 DEF UserStatement

(* Statements that write a message before they count it.                   *)
LEMMA OneKeepsReplies ==
  ASSUME ReplyInv, ChannelInv, NEW t \in Tx, NEW k \in Message, NEW row, NEW next,
         Write(t, One(Msg(k), row), next), shared' = shared, Running(t),
         at[t] \notin {"incrementReplyCount", "persist", "commit"},
         next # "incrementReplyCount", next # "commit",
         Moves(t, One(Msg(k), row), next) => Quiet(t)',
         row.seq = db[Msg(k)].seq, row.parent = db[Msg(k)].parent,
         row.replies = db[Msg(k)].replies
  PROVE  ReplyInv'
<1>1. Moves(t, One(Msg(k), row), next)
  BY WriteMoves DEF ChannelInv
<1>2. \A m \in Message : Msg(m) \in DOMAIN One(Msg(k), row) =>
        m = k /\ One(Msg(k), row)[Msg(m)] = row
  BY OneMessage
<1>3. Quiet(t)
  BY OthersQuiet
<1>. QED
  BY <1>1, <1>2, <1>3, QuietKeepsReplies

LEMMA ChangeStatementReplies ==
  ASSUME ReplyInv, ChannelInv, NEW t \in Tx,
         UpdateMessage(t) \/ SoftDeleteMessage(t) \/ WithAttachment(t) \/ SetAttachments(t)
  PROVE  ReplyInv'
<1>0. TypeInv
  BY DEF ChannelInv
<1>1. CASE Quit(t)
  BY <1>0, <1>1, QuitKeepsReplies
<1>2. Running(t) /\ request[t].op \in {"edit", "delete", "thumbnail"}
  BY <1>0, OpAt, RunsRunning
     DEF UpdateMessage, SoftDeleteMessage, WithAttachment, SetAttachments
<1> DEFINE k == request[t].m
<1>3. k \in Message
  BY <1>0, <1>2, RequestTyped DEF TypeInv, Positioned
<1>4. db[Msg(k)] \in MessageRow
  BY <1>0, <1>3, DbTyped DEF TypeInv
<1>5. CASE UpdateMessage(t) /\ ~Quit(t)
  <2> DEFINE row == [db[Msg(k)] EXCEPT !.text = TRUE]
  <2>1. /\ Write(t, One(Msg(k), row), "persist") /\ at[t] = "updateMessage"
        /\ shared' = shared
    BY <1>5 DEF UpdateMessage, Runs
  <2>2. /\ row.seq = db[Msg(k)].seq /\ row.parent = db[Msg(k)].parent
        /\ row.replies = db[Msg(k)].replies
    BY <1>4 DEF MessageRow
  <2>3. request[t].op = "edit"
    BY <1>0, <1>2, <2>1, OpAt
  <2> HIDE DEF row
  <2>4. Moves(t, One(Msg(k), row), "persist") => Quiet(t)'
    BY <2>3, QuietThen
  <2> HIDE DEF k
  <2>. QED
    BY <1>2, <1>3, <2>1, <2>2, <2>4, OneKeepsReplies
<1>6. CASE SoftDeleteMessage(t) /\ ~Quit(t)
  <2> DEFINE row == [db[Msg(k)] EXCEPT !.deleted = TRUE, !.text = FALSE]
             next == IF db[Msg(k)].parent = None THEN "persist" ELSE "decrementReplyCount"
  <2>1. /\ Write(t, One(Msg(k), row), next) /\ at[t] = "softDeleteMessage"
        /\ shared' = shared
    BY <1>6 DEF SoftDeleteMessage, Runs
  <2>2. /\ row.seq = db[Msg(k)].seq /\ row.parent = db[Msg(k)].parent
        /\ row.replies = db[Msg(k)].replies
    BY <1>4 DEF MessageRow
  <2>3. /\ request[t].op = "delete"
        /\ \/ next = "persist" /\ db[Msg(k)].parent = None
           \/ next = "decrementReplyCount"
    BY <1>0, <1>2, <2>1, OpAt
  <2> HIDE DEF row, next
  <2>4. ASSUME Moves(t, One(Msg(k), row), next) PROVE Quiet(t)'
    <3>1. at'[t] = next /\ request' = request /\ db' = db
      BY <2>4 DEF Moves
    <3>2. ASSUME NEW p \in Message PROVE ~Loses(t, p)'
      BY <2>3, <3>1, StoreAssumption DEF Loses
    <3>. QED
      BY <2>3, <3>1, <3>2 DEF Quiet, Inserts, Gains
  <2>5. next # "incrementReplyCount" /\ next # "commit"
    BY <2>3
  <2> HIDE DEF k
  <2>. QED
    BY <1>2, <1>3, <2>1, <2>2, <2>4, <2>5, OneKeepsReplies
<1>7. CASE WithAttachment(t) /\ ~Quit(t)
  <2>1. Read(t, "setAttachments") /\ at[t] = "withAttachment"
    BY <1>7 DEF WithAttachment, Runs
  <2>2. Moves(t, NoRow, "setAttachments") /\ DOMAIN NoRow = {}
    BY <1>0, <2>1, ReadMoves DEF NoRow
  <2>. QED
    BY <1>0, <1>2, <2>1, <2>2, ElsewhereKeepsReplies
<1>8. CASE SetAttachments(t)
  <2>1. /\ Write(t, One(Msg(k), db[Msg(k)]), "persist") /\ at[t] = "setAttachments"
        /\ shared' = shared
    BY <1>8 DEF SetAttachments, Runs
  <2>2. request[t].op = "thumbnail"
    BY <1>0, <1>2, <2>1, OpAt
  <2>3. Moves(t, One(Msg(k), db[Msg(k)]), "persist") => Quiet(t)'
    BY <2>2, QuietThen
  <2> HIDE DEF k
  <2>. QED
    BY <1>2, <1>3, <2>1, <2>3, OneKeepsReplies
<1>. QED
  BY <1>1, <1>5, <1>6, <1>7, <1>8

-----------------------------------------------------------------------------
(* The statements that bring a message, count it and take it off.          *)
LEMMA OneDraft ==
  ASSUME NEW t \in Tx, NEW k \in Message, NEW row, NEW next, Moves(t, One(Msg(k), row), next),
         NEW m \in Message
  PROVE  /\ m = k => Msg(m) \in DOMAIN draft'[t] /\ draft'[t][Msg(m)] = row
         /\ m # k => /\ Msg(m) \in DOMAIN draft'[t] <=> Msg(m) \in DOMAIN draft[t]
                     /\ Msg(m) \in DOMAIN draft[t] => draft'[t][Msg(m)] = draft[t][Msg(m)]
<1>1. DOMAIN One(Msg(k), row) = {Msg(k)} /\ One(Msg(k), row)[Msg(k)] = row
  BY OneDomain
<1>2. m # k => Msg(m) \notin DOMAIN One(Msg(k), row)
  BY OneMessage
<1>. QED
  BY <1>1, <1>2 DEF Moves

(* A message that is not there yet has no replies.                         *)
LEMMA NoReplies ==
  ASSUME ReplyInv, NEW p \in Message, db[Msg(p)].seq = 0
  PROVE  db[Msg(p)].replies = 0
<1>1. ASSUME NEW m \in Counted(p) PROVE FALSE
  <2>1. m \in Message /\ db[Msg(m)].seq > 0 /\ db[Msg(m)].parent = p
    BY DEF Counted
  <2>. QED
    BY <2>1 DEF ReplyInv, Rooted
<1>2. Counted(p) = {}
  BY <1>1
<1>. QED
  BY <1>2, FS_EmptySet DEF ReplyInv, Tally

LEMMA InsertKeepsReplies ==
  ASSUME ReplyInv, ChannelInv, NEW t \in Tx, InsertMessage(t)
  PROVE  ReplyInv'
<1>0. TypeInv
  BY DEF ChannelInv
<1>1. Running(t) /\ at[t] = "insertMessage" /\ request[t].op = "send"
  BY <1>0, OpAt, RunsRunning DEF InsertMessage
<1>2. request[t].m \in Message
  BY <1>0, <1>1, RequestTyped DEF TypeInv, Positioned
<1>3. CASE Quit(t)
  BY <1>0, <1>3, QuitKeepsReplies
<1>4. CASE ~Quit(t)
  <2> DEFINE k == request[t].m
             p == request[t].p
             seq == Seen(t, Channel).seq
             row == [seq |-> seq, author |-> request[t].u, parent |-> p,
                     replies |-> 0, text |-> TRUE, deleted |-> FALSE]
             next == IF p = None THEN "commit" ELSE "incrementReplyCount"
  <2>1. /\ Write(t, One(Msg(k), row), next) /\ db[Msg(k)].seq = 0
        /\ p \in Message \ {k} => db[Msg(p)].seq > 0
        /\ shared' = [shared EXCEPT ![t] = {request[t].u} \ {None}]
    BY <1>4, StoreAssumption DEF InsertMessage, Insertable
  <2>2. seq > 0
    <3>1. Held(t) /\ draft[t][Channel].seq = db[Channel].seq + 1
      BY <1>1 DEF ChannelInv, Turn, Must, Ahead
    <3>2. db[Channel].seq \in Nat
      BY <1>0, DbTyped DEF TypeInv, ChannelRow
    <3>. QED
      BY <3>1, <3>2 DEF Seen, Held
  <2>3. row.seq = seq /\ row.parent = p /\ row.replies = 0
    OBVIOUS
  <2>4. next = "incrementReplyCount" \/ (next = "commit" /\ p = None)
    OBVIOUS
  <2> HIDE DEF row, next, seq
  <2>5. Moves(t, One(Msg(k), row), next)
    BY <1>0, <2>1, WriteMoves
  <2>6. db' = db /\ request' = request /\ at'[t] = next
    BY <2>5 DEF Moves
  <2>7. \A m \in Message : /\ Inserts(t, m)' <=> m = k
                           /\ ~Gains(t, m)' /\ ~Loses(t, m)'
    BY <1>1, <2>4, <2>6, StoreAssumption DEF Inserts, Gains, Loses
  <2>8. Quiet(t)
    BY <1>1, OthersQuiet
  <2>9. ASSUME NEW m \in Message PROVE Kin(t, m)' /\ Counts(t, m)'
    <3>1. CASE m = k
      <4>1. Msg(m) \in DOMAIN draft'[t] /\ draft'[t][Msg(m)] = row
        BY <1>2, <2>5, <3>1, OneDraft
      <4>2. db[Msg(m)].replies = 0
        BY <2>1, <3>1, NoReplies
      <4>3. Kin(t, m)'
        BY <2>1, <2>2, <2>3, <2>6, <2>7, <3>1, <4>1 DEF Kin
      <4>4. Counts(t, m)'
        BY <2>3, <2>6, <2>7, <4>1, <4>2 DEF Counts
      <4>. QED
        BY <4>3, <4>4
    <3>2. CASE m # k
      <4>1. /\ Msg(m) \in DOMAIN draft'[t] <=> Msg(m) \in DOMAIN draft[t]
            /\ Msg(m) \in DOMAIN draft[t] => draft'[t][Msg(m)] = draft[t][Msg(m)]
        BY <1>2, <2>5, <3>2, OneDraft
      <4>2. Kin(t, m) /\ Counts(t, m) /\ ~Inserts(t, m) /\ ~Gains(t, m) /\ ~Loses(t, m)
        BY <2>8 DEF ReplyInv, Quiet
      <4>3. Kin(t, m)'
        BY <2>6, <2>7, <3>2, <4>1, <4>2 DEF Kin
      <4>4. Counts(t, m)'
        BY <2>6, <2>7, <4>1, <4>2 DEF Counts
      <4>. QED
        BY <4>3, <4>4
    <3>. QED
      BY <3>1, <3>2
  <2>. QED
    BY <2>5, <2>9, MoveKeepsReplies
<1>. QED
  BY <1>3, <1>4

LEMMA IncrementKeepsReplies ==
  ASSUME ReplyInv, ChannelInv, NEW t \in Tx, IncrementReplyCount(t)
  PROVE  ReplyInv'
<1>0. TypeInv
  BY DEF ChannelInv
<1>1. Running(t) /\ at[t] = "incrementReplyCount" /\ request[t].op = "send"
  BY <1>0, OpAt, RunsRunning DEF IncrementReplyCount
<1> DEFINE p == request[t].p
           row == Replied(Seen(t, Msg(p)))
<1>2. p \in Message
  BY <1>0, <1>1, RequestTyped DEF TypeInv, Positioned
<1>3. Write(t, One(Msg(p), row), "commit") /\ shared' = shared
  BY DEF IncrementReplyCount
<1>4. Moves(t, One(Msg(p), row), "commit")
  BY <1>0, <1>3, WriteMoves
<1>5. /\ row.seq = Seen(t, Msg(p)).seq /\ row.parent = Seen(t, Msg(p)).parent
      /\ row.replies = Seen(t, Msg(p)).replies + 1
  <2>1. Seen(t, Msg(p)) \in MessageRow
    BY <1>0, <1>2, SeenTyped DEF TypeInv
  <2>. QED
    BY <2>1 DEF Replied, MessageRow
<1> HIDE DEF row
<1>6. db' = db /\ request' = request /\ at'[t] = "commit"
  BY <1>4 DEF Moves
<1>7. \A m \in Message : /\ Inserts(t, m)' <=> Inserts(t, m)
                         /\ Gains(t, m)' <=> m = p
                         /\ ~Loses(t, m)' /\ ~Gains(t, m) /\ ~Loses(t, m)
  BY <1>1, <1>6 DEF Inserts, Gains, Loses
<1>8. ASSUME NEW m \in Message PROVE Kin(t, m)' /\ Counts(t, m)'
  <2>0. Kin(t, m) /\ Counts(t, m)
    BY DEF ReplyInv
  <2>1. CASE m = p
    <3>1. Msg(m) \in DOMAIN draft'[t] /\ draft'[t][Msg(m)] = row
      BY <1>2, <1>4, <2>1, OneDraft
    <3>2. row.replies = db[Msg(m)].replies + 1
      BY <1>5, <1>7, <2>1, SeenReplies
    <3>3. CASE Inserts(t, m)
      <4>1. row.seq = draft[t][Msg(m)].seq /\ row.parent = draft[t][Msg(m)].parent
        BY <1>5, <2>0, <2>1, <3>3 DEF Kin, Seen
      <4>. QED
        BY <1>6, <1>7, <2>0, <2>1, <3>1, <3>2, <3>3, <4>1 DEF Kin, Counts
    <3>4. CASE ~Inserts(t, m)
      <4>1. row.seq = db[Msg(m)].seq /\ row.parent = db[Msg(m)].parent
        BY <1>5, <2>1, <3>4, SeenKin
      <4>. QED
        BY <1>6, <1>7, <2>1, <3>1, <3>2, <3>4, <4>1 DEF Kin, Counts
    <3>. QED
      BY <3>3, <3>4
  <2>2. CASE m # p
    <3>1. /\ Msg(m) \in DOMAIN draft'[t] <=> Msg(m) \in DOMAIN draft[t]
          /\ Msg(m) \in DOMAIN draft[t] => draft'[t][Msg(m)] = draft[t][Msg(m)]
      BY <1>2, <1>4, <2>2, OneDraft
    <3>2. Kin(t, m)'
      BY <1>6, <1>7, <2>0, <3>1 DEF Kin
    <3>3. Counts(t, m)'
      BY <1>6, <1>7, <2>0, <2>2, <3>1 DEF Counts
    <3>. QED
      BY <3>2, <3>3
  <2>. QED
    BY <2>1, <2>2
<1>. QED
  BY <1>4, <1>8, MoveKeepsReplies

(* A message that is being deleted is one of its parent's replies.         *)
LEMMA DeletingCounts ==
  ASSUME ReplyInv, MessageInv, NEW t \in Tx, NEW k \in Message, Deleting(t, k)
  PROVE  /\ ~DeletionLogged(k)
         /\ \A p \in Message : db[Msg(k)].parent = p => k \in Counted(p)
<1>1. ~DeletionLogged(k)
  BY DEF MessageInv, Told, Deleting, DeletionLogged
<1>. QED
  BY <1>1 DEF Deleting, Counted

LEMMA CountedReply ==
  ASSUME ReplyInv, NEW p \in Message, NEW k \in Counted(p)
  PROVE  db[Msg(p)].replies \in Nat /\ db[Msg(p)].replies > 0
<1>1. Tally(p) /\ Counted(p) # {}
  BY DEF ReplyInv
<1>2. Cardinality(Counted(p)) \in Nat /\ Cardinality(Counted(p)) # 0
  BY <1>1, FS_EmptySet, FS_CardinalityType DEF Tally
<1>. QED
  BY <1>1, <1>2 DEF Tally

LEMMA DecrementKeepsReplies ==
  ASSUME ReplyInv, MessageInv, ChannelInv, NEW t \in Tx, DecrementReplyCount(t)
  PROVE  ReplyInv'
<1>0. TypeInv
  BY DEF ChannelInv
<1>1. Running(t) /\ at[t] = "decrementReplyCount" /\ request[t].op = "delete"
  BY <1>0, OpAt, RunsRunning DEF DecrementReplyCount
<1> DEFINE k == request[t].m
           p == Seen(t, Msg(k)).parent
           row == [Seen(t, Msg(p)) EXCEPT !.replies = IF @ > 0 THEN @ - 1 ELSE 0]
<1>2. k \in Message /\ Quiet(t)
  BY <1>0, <1>1, RequestTyped, OthersQuiet DEF TypeInv, Positioned
<1>3. p = db[Msg(k)].parent /\ p \in Message
  <2>1. p = db[Msg(k)].parent
    BY <1>2, SeenKin DEF Quiet
  <2>2. p # None
    BY <1>0, <1>1 DEF TypeInv, Positioned, Seen
  <2>3. Seen(t, Msg(k)) \in MessageRow
    BY <1>0, <1>2, SeenTyped DEF TypeInv
  <2>. QED
    BY <2>1, <2>2, <2>3 DEF MessageRow
<1>4. Write(t, One(Msg(p), row), "persist") /\ shared' = shared
  BY DEF DecrementReplyCount
<1>5. Moves(t, One(Msg(p), row), "persist")
  BY <1>0, <1>4, WriteMoves
<1> HIDE DEF p
<1>6. /\ row.seq = db[Msg(p)].seq /\ row.parent = db[Msg(p)].parent
      /\ row.replies + 1 = db[Msg(p)].replies
  <2>1. Seen(t, Msg(p)) \in MessageRow
    BY <1>0, <1>3, SeenTyped DEF TypeInv
  <2>2. /\ Seen(t, Msg(p)).seq = db[Msg(p)].seq /\ Seen(t, Msg(p)).parent = db[Msg(p)].parent
        /\ Seen(t, Msg(p)).replies = db[Msg(p)].replies
    BY <1>2, <1>3, SeenKin, SeenReplies DEF Quiet
  <2>3. Deleting(t, k)
    BY <1>1, <1>2 DEF MessageInv, Ready
  <2>4. db[Msg(p)].replies \in Nat /\ db[Msg(p)].replies > 0
    BY <1>2, <1>3, <2>3, DeletingCounts, CountedReply
  <2>. QED
    BY <2>1, <2>2, <2>4 DEF MessageRow
<1> HIDE DEF row
<1>7. db' = db /\ request' = request /\ at'[t] = "persist"
  BY <1>5 DEF Moves
<1>8. \A m \in Message : /\ ~Inserts(t, m)' /\ ~Gains(t, m)' /\ (Loses(t, m)' <=> m = p)
                         /\ ~Inserts(t, m) /\ ~Gains(t, m) /\ ~Loses(t, m)
  BY <1>1, <1>2, <1>3, <1>7 DEF Quiet, Inserts, Gains, Loses
<1>9. ASSUME NEW m \in Message PROVE Kin(t, m)' /\ Counts(t, m)'
  <2>1. CASE m = p
    <3>1. Msg(m) \in DOMAIN draft'[t] /\ draft'[t][Msg(m)] = row
      BY <1>3, <1>5, <2>1, OneDraft
    <3>. QED
      BY <1>6, <1>7, <1>8, <2>1, <3>1 DEF Kin, Counts
  <2>2. CASE m # p
    <3>1. /\ Msg(m) \in DOMAIN draft'[t] <=> Msg(m) \in DOMAIN draft[t]
          /\ Msg(m) \in DOMAIN draft[t] => draft'[t][Msg(m)] = draft[t][Msg(m)]
      BY <1>3, <1>5, <2>2, OneDraft
    <3>2. Kin(t, m) /\ Counts(t, m)
      BY DEF ReplyInv
    <3>. QED
      BY <1>7, <1>8, <2>2, <3>1, <3>2 DEF Kin, Counts
  <2>. QED
    BY <2>1, <2>2
<1>. QED
  BY <1>5, <1>9, MoveKeepsReplies

LEMMA PersistReplies ==
  ASSUME ReplyInv, TypeInv, NEW t \in Tx, Persist(t)
  PROVE  ReplyInv'
<1>1. /\ Write(t, One(Channel, Bumped(t)), "commit") /\ at[t] = "persist"
      /\ shared' = shared
  BY DEF Persist, Runs
<1>2. Moves(t, One(Channel, Bumped(t)), "commit")
  BY <1>1, WriteMoves
<1>3. request[t].op # "send"
  BY <1>1, OpAt DEF Running
<1>4. db' = db /\ request' = request /\ at'[t] = "commit"
  BY <1>2 DEF Moves
<1>5. \A m \in Message : /\ ~Inserts(t, m)' /\ ~Gains(t, m)' /\ ~Inserts(t, m) /\ ~Gains(t, m)
                         /\ Loses(t, m)' <=> Loses(t, m)
  BY <1>1, <1>3, <1>4 DEF Inserts, Gains, Loses
<1>6. ASSUME NEW m \in Message PROVE Kin(t, m)' /\ Counts(t, m)'
  <2>1. /\ Msg(m) \in DOMAIN draft'[t] <=> Msg(m) \in DOMAIN draft[t]
        /\ Msg(m) \in DOMAIN draft[t] => draft'[t][Msg(m)] = draft[t][Msg(m)]
    BY <1>2, OneMessage DEF Moves
  <2>2. Kin(t, m) /\ Counts(t, m)
    BY DEF ReplyInv
  <2>. QED
    BY <1>4, <1>5, <2>1, <2>2 DEF Kin, Counts
<1>. QED
  BY <1>2, <1>6, MoveKeepsReplies

-----------------------------------------------------------------------------
(* A commit.  Whoever is about to delete a message has its row.            *)
LEMMA DeletionUnderWay ==
  ASSUME ChannelInv, MessageInv, OwnInv, NEW s \in Tx,
         at[s] \in {"persist", "commit"}, request[s].op = "delete"
  PROVE  request[s].m \in Message /\ Deleting(s, request[s].m)
<1>1. request[s].m \in Message
  BY RequestTyped DEF ChannelInv, TypeInv, Positioned, Running
<1>2. CASE at[s] = "persist"
  BY <1>1, <1>2 DEF MessageInv, Ready
<1>3. CASE at[s] = "commit"
  <2>1. emitted[s] # {}
    BY <1>3 DEF ChannelInv, Turn, Must
  <2>2. PICK e \in emitted[s] : e.type = EventName[request[s].op] /\ e.m = request[s].m
    BY <2>1 DEF OwnInv, Own, Reports
  <2>3. e.type = "message.deleted"
    BY <2>2 DEF EventName
  <2>. QED
    BY <1>1, <2>2, <2>3 DEF MessageInv, Tells
<1>. QED
  BY <1>1, <1>2, <1>3

(* What it makes of the messages, of who counts, ...                       *)
LEMMA CommitReply ==
  ASSUME ReplyInv, MessageInv, ChannelInv, NEW t \in Tx, Commit(t), NEW m \in Message
  PROVE  /\ db'[Msg(m)] = Seen(t, Msg(m))
         /\ Inserts(t, m) =>
              /\ db[Msg(m)].seq = 0 /\ db'[Msg(m)].seq > 0
              /\ db'[Msg(m)].parent = request[t].p
         /\ ~Inserts(t, m) =>
              /\ db'[Msg(m)].seq = db[Msg(m)].seq
              /\ db'[Msg(m)].parent = db[Msg(m)].parent
<1>1. db'[Msg(m)] = Seen(t, Msg(m))
  BY InRow DEF Commit
<1>2. Kin(t, m)
  BY DEF ReplyInv
<1>. QED
  BY <1>1, <1>2, SeenKin DEF Kin, Seen

LEMMA CommitDeletion ==
  ASSUME MessageInv, ChannelInv, OwnInv, NEW t \in Tx, Commit(t), NEW m \in Message
  PROVE  DeletionLogged(m)' <=>
           \/ DeletionLogged(m)
           \/ request[t].op = "delete" /\ request[t].m = m
<1>1. log' = log \cup emitted[t] /\ at[t] = "commit"
  BY DEF Commit
<1>2. \A e \in emitted[t] : /\ request[t].op \in Operation
                            /\ request[t].op \notin {"create", "deleteUser", "upsertUser"}
                            /\ e.type = EventName[request[t].op] /\ e.m = request[t].m
  BY CommitEvent
<1>3. \A e \in emitted[t] : e.type = "message.deleted" <=> request[t].op = "delete"
  BY <1>2 DEF EventName, Operation
<1>4. request[t].op = "delete" => emitted[t] # {}
  BY <1>1 DEF ChannelInv, Turn, Must
<1>. QED
  BY <1>1, <1>2, <1>3, <1>4 DEF DeletionLogged

LEMMA CommitRooted ==
  ASSUME ReplyInv, MessageInv, ChannelInv, NEW t \in Tx, Commit(t), NEW m \in Message
  PROVE  Rooted(m)'
<1>. SUFFICES ASSUME db'[Msg(m)].seq > 0, db'[Msg(m)].parent \in Message
              PROVE  db'[Msg(db'[Msg(m)].parent)].seq > 0
  BY DEF Rooted
<1> DEFINE p == db'[Msg(m)].parent
<1>1. db[Msg(p)].seq > 0 => db'[Msg(p)].seq > 0
  BY CommitReply DEF ReplyInv
<1>2. CASE Inserts(t, m)
  <2>1. p = request[t].p /\ (p # m => db[Msg(p)].seq > 0)
    BY <1>2, CommitReply DEF ReplyInv, Kin
  <2>. QED
    BY <1>1, <2>1
<1>3. CASE ~Inserts(t, m)
  <2>1. db[Msg(m)].seq > 0 /\ db[Msg(m)].parent = p
    BY <1>3, CommitReply
  <2>2. db[Msg(p)].seq > 0
    BY <2>1 DEF ReplyInv, Rooted
  <2>. QED
    BY <1>1, <2>2
<1>. QED
  BY <1>2, <1>3

(* ... and of the counts.                                                  *)
LEMMA CommitTally ==
  ASSUME ReplyInv, MessageInv, OwnInv, ChannelInv, NEW t \in Tx, Commit(t), NEW p \in Message
  PROVE  Tally(p)'
<1> DEFINE k == request[t].m
<1>1. at[t] = "commit" /\ TypeInv
  BY DEF Commit, ChannelInv
<1>2. Tally(p) /\ Counts(t, p) /\ db'[Msg(p)] = Seen(t, Msg(p))
  BY CommitReply DEF ReplyInv
<1>3. \A m \in Message : Inserts(t, m) <=> request[t].op = "send" /\ k = m
  BY <1>1 DEF Inserts
<1>4. CASE request[t].op = "send"
  <2>1. k \in Message /\ Inserts(t, k)
    BY <1>1, <1>3, <1>4, RequestTyped DEF TypeInv, Positioned, Running
  <2>2. db[Msg(k)].seq = 0 /\ db'[Msg(k)].seq > 0 /\ db'[Msg(k)].parent = request[t].p
    BY <2>1, CommitReply
  <2>3. ~DeletionLogged(k)
    BY <2>1, <2>2 DEF MessageInv, Told, DeletionLogged, MessageEvents
  <2>4. \A m \in Message : DeletionLogged(m)' <=> DeletionLogged(m)
    BY <1>4, CommitDeletion
  <2>5. \A m \in Message : m # k =>
          db'[Msg(m)].seq = db[Msg(m)].seq /\ db'[Msg(m)].parent = db[Msg(m)].parent
    BY <1>3, CommitReply
  <2>6. CASE request[t].p = p
    <3>1. Counted(p)' = Counted(p) \cup {k} /\ k \notin Counted(p)
      BY <2>1, <2>2, <2>3, <2>4, <2>5, <2>6 DEF Counted
    <3>2. db'[Msg(p)].replies = db[Msg(p)].replies + 1
      BY <1>1, <1>2, <1>4, <2>6 DEF Counts, Gains, Seen
    <3>. QED
      BY <1>2, <3>1, <3>2, FS_AddElement DEF Tally
  <2>7. CASE request[t].p # p
    <3>1. Counted(p)' = Counted(p)
      BY <2>1, <2>2, <2>4, <2>5, <2>7 DEF Counted
    <3>2. db'[Msg(p)].replies = db[Msg(p)].replies
      BY <1>2, <1>4, <2>7, SeenReplies DEF Gains, Loses
    <3>. QED
      BY <1>2, <3>1, <3>2 DEF Tally
  <2>. QED
    BY <2>6, <2>7
<1>5. CASE request[t].op = "delete"
  <2>1. k \in Message /\ Deleting(t, k)
    BY <1>1, <1>5, DeletionUnderWay
  <2>2. \A m \in Message : DeletionLogged(m)' <=> DeletionLogged(m) \/ m = k
    BY <1>5, CommitDeletion
  <2>3. \A m \in Message : db'[Msg(m)].seq = db[Msg(m)].seq /\ db'[Msg(m)].parent = db[Msg(m)].parent
    BY <1>3, <1>5, CommitReply
  <2>4. Counted(p)' = Counted(p) \ {k}
    BY <2>1, <2>2, <2>3 DEF Counted
  <2>5. CASE Loses(t, p)
    <3>1. k \in Counted(p)
      BY <2>1, <2>5, DeletingCounts DEF Loses
    <3>2. db'[Msg(p)].replies + 1 = db[Msg(p)].replies
      BY <1>2, <2>5 DEF Counts, Seen
    <3>3. db'[Msg(p)].replies \in Nat
      BY <1>1, <1>2, SeenTyped DEF TypeInv, MessageRow
    <3>4. /\ IsFiniteSet(Counted(p)')
          /\ Cardinality(Counted(p)') = Cardinality(Counted(p)) - 1
      BY <1>2, <2>4, <3>1, FS_RemoveElement DEF Tally
    <3>. QED
      BY <1>2, <3>2, <3>3, <3>4 DEF Tally
  <2>6. CASE ~Loses(t, p)
    <3>1. k \notin Counted(p)
      BY <1>1, <1>5, <2>6 DEF Counted, Loses
    <3>2. db'[Msg(p)].replies = db[Msg(p)].replies
      BY <1>2, <1>5, <2>6, SeenReplies DEF Gains
    <3>3. Counted(p)' = Counted(p)
      BY <2>4, <3>1
    <3>. QED
      BY <1>2, <3>2, <3>3 DEF Tally
  <2>. QED
    BY <2>5, <2>6
<1>6. CASE request[t].op \notin {"send", "delete"}
  <2>1. \A m \in Message : db'[Msg(m)].seq = db[Msg(m)].seq /\ db'[Msg(m)].parent = db[Msg(m)].parent
    BY <1>3, <1>6, CommitReply
  <2>2. \A m \in Message : DeletionLogged(m)' <=> DeletionLogged(m)
    BY <1>6, CommitDeletion
  <2>3. Counted(p)' = Counted(p)
    BY <2>1, <2>2 DEF Counted
  <2>4. db'[Msg(p)].replies = db[Msg(p)].replies
    BY <1>2, <1>6, SeenReplies DEF Gains, Loses
  <2>. QED
    BY <1>2, <2>3, <2>4 DEF Tally
<1>. QED
  BY <1>4, <1>5, <1>6

LEMMA CommitKeepsReplies ==
  ASSUME ReplyInv, MessageInv, OwnInv, RowInv, ChannelInv, NEW t \in Tx, Commit(t)
  PROVE  ReplyInv'
<1>0. TypeInv /\ End(t)
  BY DEF ChannelInv, Commit
<1>1. \A m \in Message : Tally(m)' /\ Rooted(m)'
  BY CommitTally, CommitRooted
<1>2. draft'[t] = NoRow /\ at'[t] = "done"
  BY <1>0 DEF End, TypeInv, TypeOK
<1>3. ASSUME NEW m \in Message PROVE Kin(t, m)' /\ Counts(t, m)'
  BY <1>2 DEF Kin, Counts, Inserts, Gains, Loses, NoRow
<1>4. ASSUME NEW m \in Message, NEW s \in Tx, s # t PROVE Kin(s, m)' /\ Counts(s, m)'
  <2>1. draft'[s] = draft[s] /\ at'[s] = at[s] /\ request'[s] = request[s]
    BY <1>0, <1>4, EndKeepsOthers
  <2>2. \A k \in Message : Msg(k) \in DOMAIN draft[s] => db'[Msg(k)] = db[Msg(k)]
    BY <1>4, CommitMessage DEF RowInv, OneWriter
  <2>3. \A k \in Message : db[Msg(k)].seq > 0 => db'[Msg(k)].seq > 0
    BY CommitReply
  <2>4. Kin(s, m) /\ Counts(s, m)
    BY DEF ReplyInv
  <2>5. /\ Inserts(s, m)' <=> Inserts(s, m)
        /\ Gains(s, m)' <=> Gains(s, m)
    BY <2>1 DEF Inserts, Gains
  <2>6. Loses(s, m)' <=> Loses(s, m)
    <3>1. at[s] \in {"persist", "commit"} /\ request[s].op = "delete" =>
            db'[Msg(request[s].m)] = db[Msg(request[s].m)]
      BY <2>2, DeletionUnderWay DEF Deleting
    <3>. QED
      BY <2>1, <3>1 DEF Loses
  <2>7. Kin(s, m)'
    BY <2>1, <2>2, <2>3, <2>4, <2>5 DEF Kin
  <2>8. Counts(s, m)'
    BY <2>1, <2>2, <2>4, <2>5, <2>6 DEF Counts
  <2>. QED
    BY <2>7, <2>8
<1>. QED
  BY <1>1, <1>3, <1>4 DEF ReplyInv

LEMMA InitReplies == Init => ReplyInv
<1>. SUFFICES ASSUME Init, NEW m \in Message
              PROVE  Tally(m) /\ Rooted(m) /\ \A t \in Tx : Kin(t, m) /\ Counts(t, m)
  BY DEF ReplyInv
<1>1. \A k \in Message : db[Msg(k)].seq = 0 /\ db[Msg(k)].replies = 0
  <2>. TAKE k \in Message
  <2>1. PICK creator \in User \cup {None}, status \in {"absent", "live"} :
          db = [r \in Row |->
                  CASE r = Channel -> [status |-> status, seq |-> 0, creator |-> creator]
                    [] r[1] = "message" -> Absent
                    [] r[1] = "member" -> [joined |-> r[2] = creator, read |-> 0]
                    [] r[1] = "reaction" -> FALSE
                    [] r[1] = "user" -> TRUE]
    BY DEF Init
  <2>2. db[Msg(k)] = Absent
    BY <2>1, InRow, RowsDistinct DEF Msg, Channel
  <2>. QED
    BY <2>2 DEF Absent
<1>2. Counted(m) = {}
  BY <1>1 DEF Counted
<1>3. Tally(m) /\ Rooted(m)
  BY <1>1, <1>2, FS_EmptySet DEF Tally, Rooted
<1>4. \A t \in Tx : DOMAIN draft[t] = {} /\ at[t] = "idle"
  BY DEF Init, NoRow
<1>. QED
  BY <1>3, <1>4 DEF Kin, Counts, Inserts, Gains, Loses

LEMMA NextReplies ==
  ChannelInv /\ RowInv /\ MessageInv /\ OwnInv /\ ReplyInv /\ [Next]_vars => ReplyInv'
<1>. SUFFICES ASSUME ChannelInv, RowInv, MessageInv, OwnInv, ReplyInv, [Next]_vars
              PROVE  ReplyInv'
  OBVIOUS
<1>0. TypeInv
  BY DEF ChannelInv
<1>1. CASE UNCHANGED vars
  <2>1. UNCHANGED <<db, log, draft, at, request>>
    BY <1>1 DEF vars, txVars
  <2>2. \A m \in Message : Tally(m)' /\ Rooted(m)'
    BY <2>1, TallyKept
  <2>3. ASSUME NEW m \in Message, NEW t \in Tx PROVE Kin(t, m)' /\ Counts(t, m)'
    <3>1. Kin(t, m) /\ Counts(t, m)
      BY DEF ReplyInv
    <3>. QED
      BY <2>1, <3>1 DEF Kin, Counts, Inserts, Gains, Loses
  <2>. QED
    BY <2>2, <2>3 DEF ReplyInv
<1>2. ASSUME NEW t \in Tx, Begin(t) PROVE ReplyInv'
  BY <1>0, <1>2, BeginKeepsReplies
<1>3. ASSUME NEW t \in Tx, Rollback(t) PROVE ReplyInv'
  BY <1>0, <1>3, QuitKeepsReplies DEF Rollback
<1>4. ASSUME NEW t \in Tx, Statement(t) PROVE ReplyInv'
  BY <1>0, <1>4, ChannelStatementReplies, InsertKeepsReplies, IncrementKeepsReplies,
     DecrementKeepsReplies, ChangeStatementReplies, MemberStatementReplies,
     UserStatementReplies, PersistReplies, CommitKeepsReplies
     DEF Statement, MessageStatement
<1>. QED
  BY <1>1, <1>2, <1>3, <1>4 DEF Next

(* reply_count is the number of replies MessageService.delete has not      *)
(* taken back, however sends, deletions and erasures of users interleave.  *)
THEOREM RepliesCounted == Spec => []ReplyCountExact
<1>1. ReplyInv => ReplyCountExact
  <2>. SUFFICES ASSUME ReplyInv, NEW p \in Message
                PROVE  db[Msg(p)].replies =
                         Cardinality({m \in Message :
                           /\ db[Msg(m)].seq > 0
                           /\ db[Msg(m)].parent = p
                           /\ \A e \in EventsOf({"message.deleted"}) : e.m # m})
    BY DEF ReplyCountExact
  <2>1. Counted(p) = {m \in Message :
                        /\ db[Msg(m)].seq > 0
                        /\ db[Msg(m)].parent = p
                        /\ \A e \in EventsOf({"message.deleted"}) : e.m # m}
    BY DEF Counted, DeletionLogged, EventsOf
  <2>. QED
    BY <2>1 DEF ReplyInv, Tally
<1>. QED
  BY <1>1, ChannelInit, ChannelNext, InitRows, NextRows, InitMessages, NextMessages,
     InitOwn, NextOwn, InitReplies, NextReplies, PTL DEF Spec

(* The greatest(reply_count - 1, 0) of decrementReplyCount never meets a 0 *)
(* it would hide: whoever gets there still counts as a reply.              *)
NeverClamped ==
  \A t \in Tx : at[t] = "decrementReplyCount" =>
    Seen(t, Msg(Seen(t, Msg(request[t].m)).parent)).replies > 0

THEOREM ReplyCountNeverClamped == Spec => []NeverClamped
<1>1. ChannelInv /\ MessageInv /\ ReplyInv => NeverClamped
  <2>. SUFFICES ASSUME ChannelInv, MessageInv, ReplyInv, NEW t \in Tx,
                       at[t] = "decrementReplyCount"
                PROVE  Seen(t, Msg(Seen(t, Msg(request[t].m)).parent)).replies > 0
    BY DEF NeverClamped
  <2> DEFINE k == request[t].m
             p == Seen(t, Msg(k)).parent
  <2>0. TypeInv
    BY DEF ChannelInv
  <2>1. Running(t) /\ request[t].op = "delete"
    BY <2>0, OpAt DEF Running
  <2>2. k \in Message /\ Quiet(t)
    BY <2>0, <2>1, RequestTyped, OthersQuiet DEF TypeInv, Positioned
  <2>3. p = db[Msg(k)].parent /\ p \in Message
    <3>1. p = db[Msg(k)].parent
      BY <2>2, SeenKin DEF Quiet
    <3>2. p # None
      BY <2>0, <2>1 DEF TypeInv, Positioned, Seen
    <3>3. Seen(t, Msg(k)) \in MessageRow
      BY <2>0, <2>2, SeenTyped DEF TypeInv
    <3>. QED
      BY <3>1, <3>2, <3>3 DEF MessageRow
  <2>4. Deleting(t, k)
    BY <2>2 DEF MessageInv, Ready
  <2>5. db[Msg(p)].replies > 0
    BY <2>2, <2>3, <2>4, DeletingCounts, CountedReply
  <2>. QED
    BY <2>2, <2>3, <2>5, SeenReplies DEF Quiet
<1>. QED
  BY <1>1, ChannelInit, ChannelNext, InitRows, NextRows, InitMessages, NextMessages,
     InitOwn, NextOwn, InitReplies, NextReplies, PTL DEF Spec

-----------------------------------------------------------------------------
(* Erasure.  What the log says a user wrote is deleted, or it is still     *)
(* known as theirs and they have an account.  A user who is created again  *)
(* after an erasure does not get the old messages back.                    *)
Written(e) ==
  e.type = "message.new" =>
    /\ e.m \in Message
    /\ e.u # None =>
         \/ db[Msg(e.m)].deleted
         \/ db[Account(e.u)] /\ db[Msg(e.m)].author = e.u

(* Nobody but the erasure of its author takes a message's author away, and *)
(* an author is referred to under a key share until the message commits.   *)
Authorship(t, m) ==
  /\ Msg(m) \in DOMAIN draft[t] /\ db[Msg(m)].seq > 0 =>
       \/ draft[t][Msg(m)].author = db[Msg(m)].author
       \/ draft[t][Msg(m)].author = None /\ Account(db[Msg(m)].author) \in DOMAIN draft[t]
  /\ \A e \in emitted[t] : e.type = "message.new" /\ e.m = m =>
       /\ Msg(m) \in DOMAIN draft[t] /\ draft[t][Msg(m)].author = e.u
       /\ e.u # None => e.u \in shared[t]

(* The scrub's snapshot has every committed message of the user that is    *)
(* not deleted, and after the scrub every one of theirs is.                *)
Scrubs(t, u) ==
  \/ at[t] = "deleteUser" /\ request[t].u = u
  \/ Account(u) \in DOMAIN draft[t]

Scrubbed(t, m) ==
  /\ /\ at[t] = "scrubAuthored"
     /\ db[Msg(m)].seq > 0 /\ ~db[Msg(m)].deleted /\ db[Msg(m)].author = request[t].u
     => m \in found[t]
  /\ \A u \in User :
       Scrubs(t, u) /\ db[Msg(m)].seq > 0 /\ db[Msg(m)].author = u => Seen(t, Msg(m)).deleted

EraseInv ==
  /\ \A e \in log : Written(e)
  /\ \A t \in Tx, m \in Message : Authorship(t, m) /\ Scrubbed(t, m)

(* No message of a user waits for its commit between the snapshot of the   *)
(* scrub and the delete of the user.                                       *)
NoneSending ==
  \A s, t \in Tx :
    /\ at[t] \in {"scrubAuthored", "deleteUser"}
    /\ request[s].op = "send" /\ request[s].u = request[t].u
    => at[s] \notin {"incrementReplyCount", "commit"}

-----------------------------------------------------------------------------
LEMMA MoveKeepsErasure ==
  ASSUME EraseInv, NEW t \in Tx, NEW rows, NEW next, Moves(t, rows, next),
         \A s \in Tx : s # t => emitted'[s] = emitted[s] /\ found'[s] = found[s],
         \A m \in Message : Authorship(t, m)' /\ Scrubbed(t, m)'
  PROVE  EraseInv'
<1>1. db' = db /\ log' = log /\ request' = request
  BY DEF Moves
<1>2. ASSUME NEW m \in Message, NEW s \in Tx, s # t
      PROVE  Authorship(s, m)' /\ Scrubbed(s, m)'
  <2>1. /\ draft'[s] = draft[s] /\ at'[s] = at[s] /\ shared'[s] = shared[s]
        /\ emitted'[s] = emitted[s] /\ found'[s] = found[s]
    BY <1>2 DEF Moves
  <2>2. Authorship(s, m) /\ Scrubbed(s, m)
    BY DEF EraseInv
  <2>3. Authorship(s, m)'
    BY <1>1, <2>1, <2>2 DEF Authorship
  <2>4. Scrubbed(s, m)'
    BY <1>1, <2>1, <2>2 DEF Scrubbed, Scrubs, Seen
  <2>. QED
    BY <2>3, <2>4
<1>3. \A e \in log' : Written(e)'
  BY <1>1 DEF EraseInv, Written
<1>. QED
  BY <1>2, <1>3 DEF EraseInv

(* What t sees of the author of a message.                                 *)
LEMMA SeenAuthor ==
  ASSUME EraseInv, RowInv, TypeInv, NEW t \in Tx, at[t] # "commit", NEW m \in Message,
         db[Msg(m)].seq > 0
  PROVE  Seen(t, Msg(m)).author = db[Msg(m)].author
<1>1. Account(db[Msg(m)].author) \in DOMAIN draft[t] => db[Msg(m)].author = None
  <2>1. db[Msg(m)].author \in User \cup {None}
    BY DbTyped DEF TypeInv, MessageRow
  <2>. QED
    BY <2>1, OwnAccount
<1>2. Authorship(t, m)
  BY DEF EraseInv
<1>. QED
  BY <1>1, <1>2 DEF Authorship, Seen

(* A statement that changes no author and deletes no user.                 *)
LEMMA SameAuthorsKeepErasure ==
  ASSUME EraseInv, RowInv, TypeInv, NEW t \in Tx, NEW rows, NEW next, Moves(t, rows, next),
         at[t] # "commit", next \notin {"scrubAuthored", "deleteUser"},
         \A u \in User : Account(u) \notin DOMAIN rows,
         \A m \in Message : Msg(m) \in DOMAIN rows =>
           rows[Msg(m)].author = Seen(t, Msg(m)).author,
         \A s \in Tx : s # t => emitted'[s] = emitted[s] /\ found'[s] = found[s],
         \A e \in emitted'[t] : e.type = "message.new" =>
           e \in emitted[t] /\ shared'[t] = shared[t]
  PROVE  EraseInv'
<1>1. /\ db' = db /\ at'[t] = next
      /\ \A r : r \in DOMAIN draft'[t] <=> r \in DOMAIN draft[t] \/ r \in DOMAIN rows
      /\ \A r \in DOMAIN rows : draft'[t][r] = rows[r]
      /\ \A r \in DOMAIN draft[t] : r \notin DOMAIN rows => draft'[t][r] = draft[t][r]
  BY DEF Moves
<1>2. ASSUME NEW m \in Message PROVE Scrubbed(t, m)'
  <2>1. \A u \in User : Account(u) \notin DOMAIN draft'[t]
    BY <1>1, OwnAccount
  <2>. QED
    BY <1>1, <2>1 DEF Scrubbed, Scrubs
<1>3. ASSUME NEW m \in Message PROVE Authorship(t, m)'
  <2>1. Msg(m) \in DOMAIN draft'[t] => draft'[t][Msg(m)].author = Seen(t, Msg(m)).author
    BY <1>1 DEF Seen
  <2>2. db[Msg(m)].seq > 0 => Seen(t, Msg(m)).author = db[Msg(m)].author
    BY SeenAuthor
  <2>3. ASSUME NEW e \in emitted'[t], e.type = "message.new", e.m = m
        PROVE  /\ Msg(m) \in DOMAIN draft'[t] /\ draft'[t][Msg(m)].author = e.u
               /\ e.u # None => e.u \in shared'[t]
    <3>1. e \in emitted[t] /\ shared'[t] = shared[t]
      BY <2>3
    <3>2. /\ Msg(m) \in DOMAIN draft[t] /\ draft[t][Msg(m)].author = e.u
          /\ e.u # None => e.u \in shared[t]
      BY <2>3, <3>1 DEF EraseInv, Authorship
    <3>. QED
      BY <1>1, <2>1, <3>1, <3>2 DEF Seen
  <2>4. Msg(m) \in DOMAIN draft'[t] /\ db'[Msg(m)].seq > 0 =>
          draft'[t][Msg(m)].author = db'[Msg(m)].author
    BY <1>1, <2>1, <2>2
  <2>. QED
    BY <2>3, <2>4 DEF Authorship
<1>. QED
  BY <1>2, <1>3, MoveKeepsErasure

LEMMA OverKeepsErasure ==
  ASSUME EraseInv, TypeInv, NEW t \in Tx, Over(t)
  PROVE  EraseInv'
<1>1. /\ End(t) /\ log' = log /\ \A m \in Message : db'[Msg(m)] = db[Msg(m)]
      /\ \A u \in User : db'[Account(u)] = db[Account(u)] \/ db'[Account(u)] = TRUE
  BY OverKeeps
<1>2. draft'[t] = NoRow /\ at'[t] = "done" /\ emitted'[t] = {}
  BY <1>1 DEF End, TypeInv, TypeOK
<1>3. ASSUME NEW m \in Message PROVE Authorship(t, m)' /\ Scrubbed(t, m)'
  BY <1>2 DEF Authorship, Scrubbed, Scrubs, NoRow
<1>4. ASSUME NEW m \in Message, NEW s \in Tx, s # t
      PROVE  Authorship(s, m)' /\ Scrubbed(s, m)'
  <2>1. /\ draft'[s] = draft[s] /\ at'[s] = at[s] /\ request'[s] = request[s]
        /\ emitted'[s] = emitted[s] /\ shared'[s] = shared[s] /\ found'[s] = found[s]
    BY <1>1, <1>4, EndKeepsOthers, EndKeepsRows
  <2>2. Authorship(s, m) /\ Scrubbed(s, m)
    BY DEF EraseInv
  <2>3. Authorship(s, m)'
    BY <1>1, <2>1, <2>2 DEF Authorship
  <2>4. Scrubbed(s, m)'
    BY <1>1, <2>1, <2>2 DEF Scrubbed, Scrubs, Seen
  <2>. QED
    BY <2>3, <2>4
<1>5. ASSUME NEW e \in log' PROVE Written(e)'
  <2>1. Written(e) /\ e.u \in User \cup {None}
    BY <1>1 DEF EraseInv, TypeInv, TypeOK, Event
  <2>. QED
    BY <1>1, <2>1 DEF Written
<1>. QED
  BY <1>3, <1>4, <1>5 DEF EraseInv

LEMMA QuitKeepsErasure ==
  ASSUME EraseInv, TypeInv, NEW t \in Tx, Quit(t)
  PROVE  EraseInv'
BY QuitOver, OverKeepsErasure

LEMMA BeginKeepsErasure ==
  ASSUME EraseInv, RowInv, TypeInv, NEW t \in Tx, Begin(t)
  PROVE  EraseInv'
<1>1. PICK q \in Requests :
        /\ request' = [request EXCEPT ![t] = q]
        /\ at' = [at EXCEPT ![t] = FirstStatement[q.op]]
  BY DEF Begin
<1>2. UNCHANGED <<db, log, draft, shared, found, emitted>> /\ at[t] = "idle"
  BY DEF Begin
<1>3. FirstStatement[q.op] \notin {"scrubAuthored", "deleteUser"}
  BY RequestTyped DEF FirstStatement, Operation
<1>4. /\ at'[t] = FirstStatement[q.op]
      /\ \A s \in Tx : s # t => at'[s] = at[s] /\ request'[s] = request[s]
  BY <1>1 DEF TypeInv, TypeOK
<1>5. \A s \in Tx, u \in User : Scrubs(s, u)' => Scrubs(s, u)
  BY <1>2, <1>3, <1>4 DEF Scrubs
<1>6. ASSUME NEW m \in Message, NEW s \in Tx PROVE Authorship(s, m)' /\ Scrubbed(s, m)'
  <2>1. Authorship(s, m) /\ Scrubbed(s, m)
    BY DEF EraseInv
  <2>2. Authorship(s, m)'
    BY <1>2, <2>1 DEF Authorship
  <2>3. Scrubbed(s, m)'
    BY <1>2, <1>3, <1>4, <1>5, <2>1 DEF Scrubbed, Seen
  <2>. QED
    BY <2>2, <2>3
<1>7. \A e \in log' : Written(e)'
  BY <1>2 DEF EraseInv, Written
<1>. QED
  BY <1>6, <1>7 DEF EraseInv

-----------------------------------------------------------------------------
(* A statement that writes one row and brings no message and no event.     *)
LEMMA OneKeepsErasure ==
  ASSUME EraseInv, RowInv, TypeInv, NEW t \in Tx, NEW r, NEW row, NEW next,
         Write(t, One(r, row), next),
         \/ shared' = shared
         \/ emitted[t] = {} /\ \E users : shared' = [shared EXCEPT ![t] = users],
         at[t] # "commit", next \notin {"scrubAuthored", "deleteUser"}, emitted' = emitted,
         \A u \in User : r # Account(u),
         \A m \in Message : r = Msg(m) => row.author = Seen(t, Msg(m)).author
  PROVE  EraseInv'
<1>1. Moves(t, One(r, row), next) /\ found' = found
  BY WriteMoves DEF Write
<1>2. DOMAIN One(r, row) = {r} /\ One(r, row)[r] = row
  BY OneDomain
<1>. QED
  BY <1>1, <1>2, SameAuthorsKeepErasure

LEMMA ChannelStatementErasure ==
  ASSUME EraseInv, RowInv, ChannelInv, NEW t \in Tx, ChannelStatement(t) \/ BumpSeqForMessage(t)
  PROVE  EraseInv'
<1>0. TypeInv
  BY DEF ChannelInv
<1>1. CASE Quit(t)
  BY <1>0, <1>1, QuitKeepsErasure
<1>2. CASE ~Quit(t)
  <2>1. PICK r, row, next :
          /\ Write(t, One(r, row), next)
          /\ r = Channel \/ r = Member(request[t].u)
          /\ next # "scrubAuthored" /\ next # "deleteUser" /\ emitted' = emitted
          /\ at[t] \in {"bumpSeqForMessage", "insertIfAbsent", "addOwner", "updateChannel",
                        "softDeleteChannel"}
          /\ shared' = shared \/ \E users : shared' = [shared EXCEPT ![t] = users]
    <3>1. CASE InsertIfAbsent(t)
      BY <1>2, <3>1 DEF InsertIfAbsent, Runs
    <3>2. CASE AddOwner(t)
      BY <3>2 DEF AddOwner, Runs
    <3>3. CASE UpdateChannel(t)
      BY <1>2, <3>3 DEF UpdateChannel, Runs
    <3>4. CASE SoftDeleteChannel(t)
      BY <1>2, <3>4 DEF SoftDeleteChannel, Runs
    <3>5. CASE BumpSeqForMessage(t)
      BY <1>2, <3>5 DEF BumpSeqForMessage, Runs
    <3>. QED
      BY <3>1, <3>2, <3>3, <3>4, <3>5 DEF ChannelStatement
  <2>2. \A m : r # Msg(m) /\ r # Account(m)
    BY <2>1, RowsDistinct
  <2>3. emitted[t] = {} /\ at[t] # "commit"
    BY <2>1, NoEventYet
  <2>. QED
    BY <1>0, <2>1, <2>2, <2>3, OneKeepsErasure
<1>. QED
  BY <1>1, <1>2

LEMMA MemberStatementErasure ==
  ASSUME EraseInv, RowInv, ChannelInv, NEW t \in Tx, MemberStatement(t)
  PROVE  EraseInv'
<1>0. TypeInv
  BY DEF ChannelInv
<1>1. at[t] \in {"getChannel", "addMember", "removeMember", "targetSeq", "markRead",
                 "existsInChannel", "addReaction", "removeReaction", "countsByType"}
  BY DEF MemberStatement, GetChannel, AddMember, RemoveMember, TargetSeq, MarkRead,
         ExistsInChannel, AddReaction, RemoveReaction, CountsByType, Runs
<1>2. emitted[t] = {} /\ at[t] # "commit"
  BY <1>1, NoEventYet
<1>3. CASE Quit(t)
  BY <1>0, <1>3, QuitKeepsErasure
<1>4. CASE ~Quit(t) /\ (GetChannel(t) \/ TargetSeq(t) \/ ExistsInChannel(t) \/ CountsByType(t))
  <2>1. PICK next : /\ Read(t, next) /\ next \notin {"scrubAuthored", "deleteUser"}
                    /\ found' = found
    BY <1>4 DEF GetChannel, TargetSeq, ExistsInChannel, CountsByType
  <2>2. Moves(t, NoRow, next) /\ shared' = shared /\ emitted' = emitted /\ DOMAIN NoRow = {}
    BY <1>0, <2>1, ReadMoves DEF NoRow, Read
  <2>. QED
    BY <1>0, <1>2, <2>1, <2>2, SameAuthorsKeepErasure
<1>5. CASE /\ ~Quit(t)
           /\ \/ AddMember(t) \/ RemoveMember(t) \/ MarkRead(t)
              \/ AddReaction(t) \/ RemoveReaction(t)
  <2>1. PICK r, row, next :
          /\ Write(t, One(r, row), next)
          /\ r = Member(request[t].u) \/ r = Reaction(request[t].m, request[t].u)
          /\ next # "scrubAuthored" /\ next # "deleteUser" /\ emitted' = emitted
          /\ shared' = shared \/ \E users : shared' = [shared EXCEPT ![t] = users]
    <3>1. CASE AddMember(t)
      BY <1>5, <3>1 DEF AddMember
    <3>2. CASE RemoveMember(t)
      BY <1>5, <3>2 DEF RemoveMember
    <3>3. CASE MarkRead(t)
      BY <1>5, <3>3 DEF MarkRead
    <3>4. CASE AddReaction(t)
      BY <1>5, <3>4 DEF AddReaction
    <3>5. CASE RemoveReaction(t)
      BY <1>5, <3>5 DEF RemoveReaction
    <3>. QED
      BY <1>5, <3>1, <3>2, <3>3, <3>4, <3>5
  <2>2. \A m : r # Msg(m) /\ r # Account(m)
    BY <2>1, RowsDistinct
  <2>. QED
    BY <1>0, <1>2, <2>1, <2>2, OneKeepsErasure
<1>. QED
  BY <1>3, <1>4, <1>5 DEF MemberStatement

(* Edits, deletions and thumbnails keep the author.                        *)
LEMMA ChangeStatementErasure ==
  ASSUME EraseInv, MessageInv, RowInv, ChannelInv, NEW t \in Tx,
         UpdateMessage(t) \/ SoftDeleteMessage(t) \/ WithAttachment(t) \/ SetAttachments(t)
  PROVE  EraseInv'
<1>0. TypeInv
  BY DEF ChannelInv
<1>1. CASE Quit(t)
  BY <1>0, <1>1, QuitKeepsErasure
<1> DEFINE k == request[t].m
<1>2. Running(t) /\ request[t].op \in {"edit", "delete", "thumbnail"}
  BY <1>0, OpAt, RunsRunning
     DEF UpdateMessage, SoftDeleteMessage, WithAttachment, SetAttachments
<1>3. k \in Message
  BY <1>0, <1>2, RequestTyped DEF TypeInv, Positioned
<1>4. db[Msg(k)] \in MessageRow
  BY <1>0, <1>3, DbTyped DEF TypeInv
<1>5. CASE WithAttachment(t) /\ ~Quit(t)
  <2>1. Read(t, "setAttachments") /\ at[t] = "withAttachment" /\ found' = found
    BY <1>5 DEF WithAttachment, Runs
  <2>2. /\ Moves(t, NoRow, "setAttachments") /\ shared' = shared /\ emitted' = emitted
        /\ DOMAIN NoRow = {}
    BY <1>0, <2>1, ReadMoves DEF NoRow, Read
  <2>. QED
    BY <1>0, <2>1, <2>2, SameAuthorsKeepErasure
<1>6. CASE ~Quit(t) /\ (UpdateMessage(t) \/ SoftDeleteMessage(t) \/ SetAttachments(t))
  <2>1. PICK row, next :
          /\ Write(t, One(Msg(k), row), next) /\ row.author = db[Msg(k)].author
          /\ next # "scrubAuthored" /\ next # "deleteUser"
          /\ shared' = shared /\ emitted' = emitted
          /\ at[t] # "commit" /\ db[Msg(k)].seq > 0
    <3>1. CASE UpdateMessage(t)
      <4>1. [db[Msg(k)] EXCEPT !.text = TRUE].author = db[Msg(k)].author
        BY <1>4 DEF MessageRow
      <4>. QED
        BY <1>6, <3>1, <4>1 DEF UpdateMessage, Runs, Live
    <3>2. CASE SoftDeleteMessage(t)
      <4>1. [db[Msg(k)] EXCEPT !.deleted = TRUE, !.text = FALSE].author = db[Msg(k)].author
        BY <1>4 DEF MessageRow
      <4>. QED
        BY <1>6, <3>2, <4>1 DEF SoftDeleteMessage, Runs, Live
    <3>3. CASE SetAttachments(t)
      <4>1. at[t] = "setAttachments"
        BY <3>3 DEF SetAttachments, Runs
      <4>2. db[Msg(k)].seq > 0
        BY <1>3, <4>1 DEF MessageInv, Ready
      <4>. QED
        BY <3>3, <4>1, <4>2 DEF SetAttachments
    <3>. QED
      BY <1>6, <3>1, <3>2, <3>3
  <2>2. \A u \in User : Msg(k) # Account(u)
    BY RowsDistinct
  <2>3. \A m \in Message : Msg(k) = Msg(m) => row.author = Seen(t, Msg(m)).author
    BY <1>0, <1>3, <2>1, SeenAuthor, KeysDistinct
  <2> HIDE DEF k
  <2>. QED
    BY <1>0, <2>1, <2>2, <2>3, OneKeepsErasure
<1>. QED
  BY <1>1, <1>5, <1>6

LEMMA IncrementKeepsErasure ==
  ASSUME EraseInv, RowInv, TypeInv, NEW t \in Tx, IncrementReplyCount(t)
  PROVE  EraseInv'
<1>1. Running(t) /\ at[t] = "incrementReplyCount" /\ request[t].op = "send"
  BY OpAt, RunsRunning DEF IncrementReplyCount
<1> DEFINE p == request[t].p
           row == Replied(Seen(t, Msg(p)))
<1>2. p \in Message
  BY <1>1, RequestTyped DEF TypeInv, Positioned
<1>3. Write(t, One(Msg(p), row), "commit") /\ shared' = shared /\ emitted' = emitted
  BY DEF IncrementReplyCount
<1>4. row.author = Seen(t, Msg(p)).author
  BY <1>2, SeenTyped DEF TypeInv, MessageRow, Replied
<1> HIDE DEF row
<1>5. \A m \in Message : Msg(p) = Msg(m) => row.author = Seen(t, Msg(m)).author
  BY <1>4
<1>6. \A u \in User : Msg(p) # Account(u)
  BY RowsDistinct
<1> HIDE DEF p
<1>. QED
  BY <1>1, <1>3, <1>5, <1>6, OneKeepsErasure

LEMMA DecrementKeepsErasure ==
  ASSUME EraseInv, RowInv, TypeInv, NEW t \in Tx, DecrementReplyCount(t)
  PROVE  EraseInv'
<1>1. Running(t) /\ at[t] = "decrementReplyCount" /\ request[t].op = "delete"
  BY OpAt, RunsRunning DEF DecrementReplyCount
<1> DEFINE p == Seen(t, Msg(request[t].m)).parent
           row == [Seen(t, Msg(p)) EXCEPT !.replies = IF @ > 0 THEN @ - 1 ELSE 0]
<1>2. p \in Message
  <2>1. request[t].m \in Message /\ p # None
    BY <1>1, RequestTyped DEF TypeInv, Positioned, Seen
  <2>. QED
    BY <2>1, SeenTyped DEF TypeInv, MessageRow
<1>3. Write(t, One(Msg(p), row), "persist") /\ shared' = shared /\ emitted' = emitted
  BY DEF DecrementReplyCount
<1> HIDE DEF p
<1>4. row.author = Seen(t, Msg(p)).author
  BY <1>2, SeenTyped DEF TypeInv, MessageRow
<1> HIDE DEF row
<1>5. \A m \in Message : Msg(p) = Msg(m) => row.author = Seen(t, Msg(m)).author
  BY <1>4
<1>6. \A u \in User : Msg(p) # Account(u)
  BY RowsDistinct
<1>. QED
  BY <1>1, <1>3, <1>5, <1>6, OneKeepsErasure

LEMMA PersistKeepsErasure ==
  ASSUME EraseInv, RowInv, TypeInv, NEW t \in Tx, Persist(t)
  PROVE  EraseInv'
<1>1. /\ Write(t, One(Channel, Bumped(t)), "commit") /\ at[t] = "persist"
      /\ shared' = shared /\ emitted' = [emitted EXCEPT ![t] = {EventOf(t, Bumped(t).seq)}]
  BY DEF Persist, Runs
<1>2. Moves(t, One(Channel, Bumped(t)), "commit") /\ found' = found
  BY <1>1, WriteMoves DEF Write
<1>3. DOMAIN One(Channel, Bumped(t)) = {Channel}
  BY OneDomain
<1>4. emitted'[t] = {EventOf(t, Bumped(t).seq)} /\ \A s \in Tx : s # t => emitted'[s] = emitted[s]
  BY <1>1 DEF TypeInv, TypeOK
<1>5. EventOf(t, Bumped(t).seq).type # "message.new"
  <2>1. Running(t)
    BY <1>1 DEF Running
  <2>2. request[t].op \in Operation \ {"create", "send", "deleteUser", "upsertUser"}
    BY <1>1, <2>1, OpAt, RequestTyped DEF TypeInv, Positioned
  <2>. QED
    BY <2>2 DEF EventOf, EventName, Operation
<1>6. /\ \A m : Msg(m) \notin DOMAIN One(Channel, Bumped(t))
      /\ \A u : Account(u) \notin DOMAIN One(Channel, Bumped(t))
  BY <1>3, RowsDistinct
<1>7. \A e \in emitted'[t] : e.type # "message.new"
  BY <1>4, <1>5
<1>. QED
  BY <1>1, <1>2, <1>4, <1>6, <1>7, SameAuthorsKeepErasure

(* A new message has its sender as author, under the key share.            *)
LEMMA InsertKeepsErasure ==
  ASSUME EraseInv, RowInv, ChannelInv, NEW t \in Tx, InsertMessage(t)
  PROVE  EraseInv'
<1>0. TypeInv
  BY DEF ChannelInv
<1>1. Running(t) /\ at[t] = "insertMessage" /\ request[t].op = "send"
  BY <1>0, OpAt, RunsRunning DEF InsertMessage
<1>2. request[t].m \in Message /\ emitted[t] = {}
  BY <1>0, <1>1, RequestTyped, NoEventYet DEF TypeInv, Positioned
<1>3. CASE Quit(t)
  BY <1>0, <1>3, QuitKeepsErasure
<1>4. CASE ~Quit(t)
  <2> DEFINE k == request[t].m
             u == request[t].u
             seq == Seen(t, Channel).seq
             row == [seq |-> seq, author |-> u, parent |-> request[t].p,
                     replies |-> 0, text |-> TRUE, deleted |-> FALSE]
             next == IF request[t].p = None THEN "commit" ELSE "incrementReplyCount"
  <2>1. /\ Write(t, One(Msg(k), row), next) /\ db[Msg(k)].seq = 0
        /\ shared' = [shared EXCEPT ![t] = {u} \ {None}]
        /\ emitted' = [emitted EXCEPT ![t] = {EventOf(t, seq)}]
    BY <1>4 DEF InsertMessage, Insertable
  <2>2. Moves(t, One(Msg(k), row), next) /\ found' = found
    BY <1>0, <2>1, WriteMoves DEF Write
  <2>3. /\ row.author = u /\ next \notin {"scrubAuthored", "deleteUser"}
        /\ EventOf(t, seq).m = k /\ EventOf(t, seq).u = u
    BY DEF EventOf
  <2>4. /\ shared'[t] = {u} \ {None} /\ emitted'[t] = {EventOf(t, seq)}
        /\ \A s \in Tx : s # t => emitted'[s] = emitted[s]
    BY <1>0, <2>1 DEF TypeInv, TypeOK
  <2> HIDE DEF row, next, seq
  <2>5. db' = db /\ at'[t] = next
    BY <2>2 DEF Moves
  <2>6. \A v \in User : Account(v) \notin DOMAIN draft'[t]
    <3>1. \A v \in User : Account(v) \notin DOMAIN One(Msg(k), row)
      <4>1. DOMAIN One(Msg(k), row) = {Msg(k)}
        BY OneDomain
      <4>. QED
        BY <4>1, RowsDistinct
    <3>2. \A v \in User : Account(v) \notin DOMAIN draft[t]
      BY <1>1, OwnAccount
    <3>. QED
      BY <2>2, <3>1, <3>2 DEF Moves
  <2>7. ASSUME NEW m \in Message PROVE Scrubbed(t, m)'
    BY <2>3, <2>5, <2>6 DEF Scrubbed, Scrubs
  <2>8. ASSUME NEW m \in Message PROVE Authorship(t, m)'
    <3>1. CASE m = k
      <4>1. Msg(m) \in DOMAIN draft'[t] /\ draft'[t][Msg(m)] = row
        BY <1>2, <2>2, <3>1, OneDraft
      <4>2. ~(db'[Msg(m)].seq > 0)
        BY <2>1, <2>5, <3>1
      <4>. QED
        BY <2>3, <2>4, <3>1, <4>1, <4>2 DEF Authorship
    <3>2. CASE m # k
      <4>1. /\ Msg(m) \in DOMAIN draft'[t] <=> Msg(m) \in DOMAIN draft[t]
            /\ Msg(m) \in DOMAIN draft[t] => draft'[t][Msg(m)] = draft[t][Msg(m)]
        BY <1>2, <2>2, <3>2, OneDraft
      <4>2. Msg(m) \in DOMAIN draft[t] /\ db[Msg(m)].seq > 0 =>
              draft[t][Msg(m)].author = db[Msg(m)].author
        BY <1>0, <1>1, SeenAuthor DEF Seen
      <4>3. \A e \in emitted'[t] : e.m # m
        BY <2>3, <2>4, <3>2
      <4>. QED
        BY <2>5, <4>1, <4>2, <4>3 DEF Authorship
    <3>. QED
      BY <3>1, <3>2
  <2>. QED
    BY <2>2, <2>4, <2>7, <2>8, MoveKeepsErasure
<1>. QED
  BY <1>3, <1>4

(* The erasure: the snapshot finds what is committed and live, the scrub   *)
(* deletes it, and what it has deleted loses its author.                   *)
LEMMA FindKeepsErasure ==
  ASSUME EraseInv, RowInv, ChannelInv, NEW t \in Tx, FindAuthored(t)
  PROVE  EraseInv'
<1>0. TypeInv
  BY DEF ChannelInv
<1>1. /\ Read(t, "scrubAuthored") /\ at[t] = "findAuthored"
      /\ found' = [found EXCEPT ![t] = {m \in Authored(request[t].u) : Live(m)}]
  BY DEF FindAuthored, Runs
<1>2. /\ Moves(t, NoRow, "scrubAuthored") /\ shared' = shared /\ emitted' = emitted
      /\ DOMAIN NoRow = {}
  BY <1>0, <1>1, ReadMoves DEF NoRow, Read
<1>3. /\ found'[t] = {m \in Authored(request[t].u) : Live(m)}
      /\ \A s \in Tx : s # t => found'[s] = found[s]
  BY <1>0, <1>1 DEF TypeInv, TypeOK
<1>4. /\ UNCHANGED <<db, request>> /\ at'[t] = "scrubAuthored" /\ draft'[t] = draft[t]
  BY <1>0, <1>1 DEF Read, TypeInv, TypeOK
<1>5. \A v \in User : Account(v) \notin DOMAIN draft[t]
  BY <1>1, OwnAccount
<1>6. ASSUME NEW m \in Message PROVE Authorship(t, m)'
  BY <1>2, <1>4 DEF EraseInv, Authorship
<1>7. ASSUME NEW m \in Message PROVE Scrubbed(t, m)'
  BY <1>3, <1>4, <1>5 DEF Scrubbed, Scrubs, Authored, Live
<1>. QED
  BY <1>2, <1>3, <1>6, <1>7, MoveKeepsErasure

LEMMA ScrubKeepsErasure ==
  ASSUME EraseInv, MessageInv, RowInv, ChannelInv, NEW t \in Tx, ScrubAuthored(t)
  PROVE  EraseInv'
<1> DEFINE mine == {Msg(m) : m \in {k \in found[t] \cap Authored(request[t].u) : Live(k)}}
           rows == [r \in mine |-> [db[r] EXCEPT !.text = FALSE, !.deleted = TRUE]]
<1>0. TypeInv
  BY DEF ChannelInv
<1>1. /\ Write(t, rows, "deleteUser") /\ at[t] = "scrubAuthored"
      /\ shared' = shared /\ emitted' = emitted
  BY DEF ScrubAuthored, Runs
<1>2. ASSUME NEW m \in Message, Msg(m) \in DOMAIN rows
      PROVE  rows[Msg(m)].author = db[Msg(m)].author /\ rows[Msg(m)].deleted
  <2>1. rows[Msg(m)] = [db[Msg(m)] EXCEPT !.text = FALSE, !.deleted = TRUE]
    BY <1>2
  <2>2. db[Msg(m)] \in MessageRow
    BY <1>0, DbTyped DEF TypeInv
  <2>. QED
    BY <2>1, <2>2 DEF MessageRow
<1>3. ASSUME NEW m \in Message
      PROVE  /\ Msg(m) \in DOMAIN rows => Live(m)
             /\ db[Msg(m)].author = request[t].u /\ Live(m) /\ m \in found[t] =>
                  Msg(m) \in DOMAIN rows
  BY KeysDistinct DEF Authored
<1>4. \A v : Account(v) \notin DOMAIN rows
  BY RowsDistinct
<1> HIDE DEF rows
<1>5. emitted[t] = {} /\ \A v \in User : Account(v) \notin DOMAIN draft[t]
  BY <1>1, NoEventYet, OwnAccount
<1>6. Moves(t, rows, "deleteUser") /\ found' = found
  BY <1>0, <1>1, WriteMoves DEF Write
<1>7. /\ db' = db /\ request' = request /\ at'[t] = "deleteUser"
      /\ \A r : r \in DOMAIN draft'[t] <=> r \in DOMAIN draft[t] \/ r \in DOMAIN rows
      /\ \A r \in DOMAIN rows : draft'[t][r] = rows[r]
      /\ \A r \in DOMAIN draft[t] : r \notin DOMAIN rows => draft'[t][r] = draft[t][r]
  BY <1>6 DEF Moves
<1>8. ASSUME NEW m \in Message PROVE Authorship(t, m)'
  <2>1. Msg(m) \in DOMAIN draft[t] /\ db[Msg(m)].seq > 0 =>
          draft[t][Msg(m)].author = db[Msg(m)].author
    BY <1>0, <1>1, SeenAuthor DEF Seen
  <2>2. Msg(m) \in DOMAIN draft'[t] /\ db[Msg(m)].seq > 0 =>
          draft'[t][Msg(m)].author = db[Msg(m)].author
    BY <1>2, <1>7, <2>1
  <2>. QED
    BY <1>1, <1>5, <1>7, <2>2 DEF Authorship
<1>9. ASSUME NEW m \in Message PROVE Scrubbed(t, m)'
  <2>. SUFFICES ASSUME NEW v \in User, Scrubs(t, v)', db[Msg(m)].seq > 0,
                       db[Msg(m)].author = v
                PROVE  Seen(t, Msg(m))'.deleted
    BY <1>7 DEF Scrubbed
  <2>1. v = request[t].u
    BY <1>4, <1>5, <1>7 DEF Scrubs
  <2>2. CASE Live(m)
    <3>0. m \in found[t]
      BY <1>1, <2>1, <2>2 DEF EraseInv, Scrubbed, Live
    <3>1. Msg(m) \in DOMAIN rows /\ rows[Msg(m)].deleted
      BY <1>2, <1>3, <2>1, <2>2, <3>0
    <3>. QED
      BY <1>7, <3>1 DEF Seen
  <2>3. CASE ~Live(m)
    <3>1. db[Msg(m)].deleted /\ Msg(m) \notin DOMAIN rows
      BY <1>3, <2>3 DEF Live
    <3>2. Seen(t, Msg(m)).deleted
      BY <1>5, <3>1, SeenMessage
    <3>. QED
      BY <1>7, <3>1, <3>2 DEF Seen
  <2>. QED
    BY <2>2, <2>3
<1>. QED
  BY <1>1, <1>6, <1>8, <1>9, MoveKeepsErasure

LEMMA DeleteKeepsErasure ==
  ASSUME EraseInv, RowInv, ChannelInv, NEW t \in Tx, DeleteUser(t)
  PROVE  EraseInv'
<1>0. TypeInv
  BY DEF ChannelInv
<1>1. CASE Quit(t)
  BY <1>0, <1>1, QuitKeepsErasure
<1>2. CASE ~Quit(t)
  <2> DEFINE u == request[t].u
             rows == Deletion(t, u)
  <2>1. /\ Write(t, rows, "commit") /\ shared' = shared /\ emitted' = emitted
        /\ Running(t) /\ at[t] = "deleteUser"
    BY <1>2 DEF DeleteUser, Deletion, Runs, Running
  <2>2. u \in User
    <3>1. request[t].op = "deleteUser" /\ request[t] \in Requests
      BY <1>0, <2>1, OpAt DEF TypeInv, Positioned
    <3>. QED
      BY <3>1, RequestTyped
  <2>3. emitted[t] = {} /\ \A v \in User : Account(v) \notin DOMAIN draft[t]
    BY <2>1, NoEventYet, OwnAccount
  <2>4. Moves(t, rows, "commit") /\ found' = found
    BY <1>0, <2>1, WriteMoves DEF Write
  <2>5. /\ \A v \in User : Account(v) \in DOMAIN rows => v = u
        /\ Account(u) \in DOMAIN rows
    BY <1>0, <2>2, DeletionRows
  <2>6. ASSUME NEW m \in Message
        PROVE  /\ Msg(m) \in DOMAIN rows <=> db[Msg(m)].author = u
               /\ Msg(m) \in DOMAIN rows =>
                    /\ rows[Msg(m)].author = None
                    /\ rows[Msg(m)].deleted = Seen(t, Msg(m)).deleted
    <3>1. DOMAIN Cascaded(t, u) = {Account(u), Member(u)} \cup {Reaction(k, u) : k \in Message}
      BY DEF Cascaded
    <3>2. Msg(m) \notin DOMAIN Cascaded(t, u)
      BY <3>1, RowsDistinct
    <3>3. Msg(m) \in DOMAIN Nulled(t, u) <=> db[Msg(m)].author = u
      BY RowsDistinct, KeysDistinct DEF Nulled, Authored
    <3>4. /\ Msg(m) \in DOMAIN rows <=> Msg(m) \in DOMAIN Nulled(t, u)
          /\ Msg(m) \in DOMAIN rows => rows[Msg(m)] = Nulled(t, u)[Msg(m)]
      BY <3>2 DEF Deletion
    <3>5. Msg(m) \in DOMAIN rows => rows[Msg(m)] = [Seen(t, Msg(m)) EXCEPT !.author = None]
      BY <3>4, RowsDistinct DEF Nulled
    <3>6. Seen(t, Msg(m)) \in MessageRow
      BY <1>0, SeenTyped DEF TypeInv
    <3>. QED
      BY <3>3, <3>4, <3>5, <3>6 DEF MessageRow
  <2> HIDE DEF rows
  <2>7. /\ db' = db /\ request' = request /\ at'[t] = "commit"
        /\ \A r : r \in DOMAIN draft'[t] <=> r \in DOMAIN draft[t] \/ r \in DOMAIN rows
        /\ \A r \in DOMAIN rows : draft'[t][r] = rows[r]
        /\ \A r \in DOMAIN draft[t] : r \notin DOMAIN rows => draft'[t][r] = draft[t][r]
    BY <2>4 DEF Moves
  <2>8. ASSUME NEW m \in Message PROVE Authorship(t, m)'
    <3>1. Msg(m) \in DOMAIN draft[t] /\ db[Msg(m)].seq > 0 =>
            draft[t][Msg(m)].author = db[Msg(m)].author
      BY <1>0, <2>1, SeenAuthor DEF Seen
    <3>2. Msg(m) \in DOMAIN draft'[t] /\ db[Msg(m)].seq > 0 =>
            \/ draft'[t][Msg(m)].author = db[Msg(m)].author
            \/ draft'[t][Msg(m)].author = None /\ Account(db[Msg(m)].author) \in DOMAIN draft'[t]
      BY <2>5, <2>6, <2>7, <3>1
    <3>. QED
      BY <2>1, <2>3, <2>7, <3>2 DEF Authorship
  <2>9. ASSUME NEW m \in Message PROVE Scrubbed(t, m)'
    <3>. SUFFICES ASSUME NEW v \in User, Scrubs(t, v)', db[Msg(m)].seq > 0,
                         db[Msg(m)].author = v
                  PROVE  Seen(t, Msg(m))'.deleted
      BY <2>7 DEF Scrubbed
    <3>1. v = u
      BY <2>3, <2>5, <2>7 DEF Scrubs
    <3>2. Seen(t, Msg(m)).deleted
      BY <2>1, <3>1 DEF EraseInv, Scrubbed, Scrubs
    <3>3. Msg(m) \in DOMAIN rows /\ rows[Msg(m)].deleted = Seen(t, Msg(m)).deleted
      BY <2>6, <3>1
    <3>. QED
      BY <2>7, <3>2, <3>3 DEF Seen
  <2>. QED
    BY <2>1, <2>4, <2>8, <2>9, MoveKeepsErasure
<1>. QED
  BY <1>1, <1>2

-----------------------------------------------------------------------------
(* A commit.  Its own event, ...                                           *)
LEMMA CommitOwnWritten ==
  ASSUME EraseInv, RowInv, OwnInv, MessageInv, ChannelInv, NEW t \in Tx, Commit(t),
         NEW e \in emitted[t]
  PROVE  Written(e)'
<1>. SUFFICES ASSUME e.type = "message.new" PROVE Written(e)'
  BY DEF Written
<1>0. TypeInv /\ at[t] = "commit"
  BY DEF ChannelInv, Commit
<1>1. /\ request[t].op \in Operation \ {"create", "deleteUser", "upsertUser"}
      /\ e.type = EventName[request[t].op] /\ e.m = request[t].m
  BY CommitEvent
<1>2. request[t].op = "send"
  BY <1>1 DEF EventName, Operation
<1>3. e.m \in Message
  BY <1>0, <1>1, <1>2, RequestTyped DEF TypeInv, Positioned, Running
<1>4. /\ Msg(e.m) \in DOMAIN draft[t] /\ draft[t][Msg(e.m)].author = e.u
      /\ e.u # None => e.u \in shared[t]
  BY <1>3 DEF EraseInv, Authorship
<1>5. db'[Msg(e.m)].author = e.u
  BY <1>3, <1>4, CommitMessage
<1>6. e.u # None => db'[Account(e.u)]
  <2>. SUFFICES ASSUME e.u # None PROVE db'[Account(e.u)]
    OBVIOUS
  <2>1. e.u \in User
    BY <1>0, <1>4, SharedUsers DEF TypeInv
  <2>2. db[Account(e.u)] /\ Account(e.u) \notin DOMAIN draft[t]
    BY <1>4 DEF RowInv, Shares
  <2>3. db'[Account(e.u)] = Seen(t, Account(e.u))
    BY <2>1, InRow DEF Commit
  <2>. QED
    BY <2>2, <2>3 DEF Seen
<1>. QED
  BY <1>3, <1>5, <1>6 DEF Written

(* ... and those before: whoever erases their user has seen them deleted.  *)
LEMMA CommitStillWritten ==
  ASSUME EraseInv, RowInv, OwnInv, MessageInv, ChannelInv, NEW t \in Tx, Commit(t),
         NEW e \in log
  PROVE  Written(e)'
<1>. SUFFICES ASSUME e.type = "message.new" PROVE Written(e)'
  BY DEF Written
<1>0. TypeInv
  BY DEF ChannelInv
<1>1. /\ e.m \in Message
      /\ e.u # None => \/ db[Msg(e.m)].deleted
                       \/ db[Account(e.u)] /\ db[Msg(e.m)].author = e.u
  BY DEF EraseInv, Written
<1>2. e.u \in User \cup {None}
  BY <1>0 DEF TypeInv, TypeOK, Event
<1>3. db[Msg(e.m)].seq > 0
  BY <1>1 DEF MessageInv, Told, MessageEvents
<1>4. /\ Msg(e.m) \in DOMAIN draft[t] => db'[Msg(e.m)] = draft[t][Msg(e.m)]
      /\ Msg(e.m) \notin DOMAIN draft[t] => db'[Msg(e.m)] = db[Msg(e.m)]
      /\ db[Msg(e.m)].deleted => db'[Msg(e.m)].deleted
  BY <1>1, CommitMessage
<1>5. ASSUME e.u # None, db[Account(e.u)], db[Msg(e.m)].author = e.u
      PROVE  \/ db'[Msg(e.m)].deleted
             \/ db'[Account(e.u)] /\ db'[Msg(e.m)].author = e.u
  <2>1. CASE Account(e.u) \in DOMAIN draft[t]
    <3>1. Seen(t, Msg(e.m)).deleted
      BY <1>1, <1>2, <1>3, <1>5, <2>1 DEF EraseInv, Scrubbed, Scrubs
    <3>. QED
      BY <1>4, <3>1 DEF Seen
  <2>2. CASE Account(e.u) \notin DOMAIN draft[t]
    <3>1. db'[Account(e.u)] = Seen(t, Account(e.u))
      BY <1>2, <1>5, InRow DEF Commit
    <3>2. Msg(e.m) \in DOMAIN draft[t] => draft[t][Msg(e.m)].author = e.u
      BY <1>1, <1>3, <1>5, <2>2 DEF EraseInv, Authorship
    <3>. QED
      BY <1>4, <1>5, <2>2, <3>1, <3>2 DEF Seen
  <2>. QED
    BY <2>1, <2>2
<1>. QED
  BY <1>1, <1>4, <1>5 DEF Written

(* A message that t brings is its sender's.                                *)
LEMMA CommitBrings ==
  ASSUME EraseInv, OwnInv, MessageInv, ChannelInv, NEW t \in Tx, Commit(t),
         NEW m \in Message, NEW u \in User, db'[Msg(m)].author = u,
         db'[Msg(m)].seq # db[Msg(m)].seq
  PROVE  request[t].op = "send" /\ request[t].u = u /\ u \in shared[t]
<1>1. /\ Msg(m) \in DOMAIN draft[t] => db'[Msg(m)] = draft[t][Msg(m)]
      /\ Msg(m) \notin DOMAIN draft[t] => db'[Msg(m)] = db[Msg(m)]
  BY CommitMessage
<1>2. PICK e \in emitted[t] : e.type = "message.new" /\ e.m = m
  BY CommitMessage
<1>3. e.u = u /\ u \in shared[t]
  BY <1>1, <1>2, StoreAssumption DEF EraseInv, Authorship
<1>4. /\ request[t].op \in Operation \ {"create", "deleteUser", "upsertUser"}
      /\ e.type = EventName[request[t].op] /\ e.u = request[t].u
  BY CommitEvent
<1>. QED
  BY <1>2, <1>3, <1>4 DEF EventName, Operation

(* A committed message keeps its author, or loses it to their erasure.     *)
LEMMA CommitKeepsAuthor ==
  ASSUME EraseInv, MessageInv, ChannelInv, NEW t \in Tx, Commit(t), NEW m \in Message,
         NEW u \in User, db'[Msg(m)].author = u, db'[Msg(m)].seq = db[Msg(m)].seq,
         db[Msg(m)].seq > 0
  PROVE  db[Msg(m)].author = u
<1>1. /\ Msg(m) \in DOMAIN draft[t] => db'[Msg(m)] = draft[t][Msg(m)]
      /\ Msg(m) \notin DOMAIN draft[t] => db'[Msg(m)] = db[Msg(m)]
  BY CommitMessage
<1>2. u # None
  BY StoreAssumption
<1>. QED
  BY <1>1, <1>2 DEF EraseInv, Authorship

(* Another's erasure misses nothing: no message that t brings is by the    *)
(* user being erased.                                                      *)
LEMMA CommitKeepsScrubbed ==
  ASSUME EraseInv, RowInv, OwnInv, MessageInv, ChannelInv, NoneSending, NEW t \in Tx, Commit(t),
         NEW s \in Tx, s # t, NEW m \in Message
  PROVE  Scrubbed(s, m)'
<1>0. TypeInv /\ End(t) /\ at[t] = "commit"
  BY DEF ChannelInv, Commit
<1>1. draft'[s] = draft[s] /\ at'[s] = at[s] /\ request'[s] = request[s] /\ found'[s] = found[s]
  BY <1>0, EndKeepsOthers
<1>2. /\ Msg(m) \in DOMAIN draft[t] => db'[Msg(m)] = draft[t][Msg(m)]
      /\ Msg(m) \notin DOMAIN draft[t] => db'[Msg(m)] = db[Msg(m)]
      /\ db[Msg(m)].deleted => db'[Msg(m)].deleted
  BY CommitMessage
<1>3. ASSUME at[s] = "scrubAuthored", db'[Msg(m)].seq > 0, ~db'[Msg(m)].deleted,
             db'[Msg(m)].author = request[s].u
      PROVE  m \in found[s]
  <2>1. request[s].u \in User
    <3>1. Running(s) /\ request[s].op = "deleteUser"
      BY <1>0, <1>3, OpAt DEF Running
    <3>. QED
      BY <1>0, <3>1, RequestTyped DEF TypeInv, Positioned
  <2>2. db'[Msg(m)].seq = db[Msg(m)].seq
    BY <1>0, <1>3, <2>1, CommitBrings DEF NoneSending
  <2>3. db[Msg(m)].author = request[s].u
    BY <1>3, <2>1, <2>2, CommitKeepsAuthor
  <2>. QED
    BY <1>2, <1>3, <2>2, <2>3 DEF EraseInv, Scrubbed
<1>4. ASSUME NEW u \in User, Scrubs(s, u), db'[Msg(m)].seq > 0, db'[Msg(m)].author = u
      PROVE  Seen(s, Msg(m))'.deleted
  <2>1. db'[Msg(m)].seq = db[Msg(m)].seq
    <3>. SUFFICES ASSUME db'[Msg(m)].seq # db[Msg(m)].seq PROVE FALSE
      OBVIOUS
    <3>1. request[t].op = "send" /\ request[t].u = u /\ u \in shared[t]
      BY <1>4, CommitBrings
    <3>2. Account(u) \notin DOMAIN draft[s]
      BY <3>1 DEF RowInv, Shares
    <3>3. at[s] = "deleteUser" /\ request[s].u = u
      BY <1>4, <3>2 DEF Scrubs
    <3>. QED
      BY <1>0, <3>1, <3>3 DEF NoneSending
  <2>2. db[Msg(m)].author = u
    BY <1>4, <2>1, CommitKeepsAuthor
  <2>3. Seen(s, Msg(m)).deleted
    BY <1>4, <2>1, <2>2 DEF EraseInv, Scrubbed
  <2>4. CASE Msg(m) \in DOMAIN draft[s]
    BY <1>1, <2>3, <2>4 DEF Seen
  <2>5. CASE Msg(m) \notin DOMAIN draft[s]
    BY <1>1, <1>2, <2>3, <2>5 DEF Seen
  <2>. QED
    BY <2>4, <2>5
<1>5. \A u \in User : Scrubs(s, u)' <=> Scrubs(s, u)
  BY <1>1 DEF Scrubs
<1>. QED
  BY <1>1, <1>3, <1>4, <1>5 DEF Scrubbed

LEMMA CommitKeepsErasure ==
  ASSUME EraseInv, RowInv, OwnInv, MessageInv, ChannelInv, NoneSending, NEW t \in Tx, Commit(t)
  PROVE  EraseInv'
<1>0. TypeInv /\ End(t) /\ log' = log \cup emitted[t]
  BY DEF ChannelInv, Commit
<1>1. \A e \in log' : Written(e)'
  BY <1>0, CommitOwnWritten, CommitStillWritten
<1>2. draft'[t] = NoRow /\ at'[t] = "done" /\ emitted'[t] = {}
  BY <1>0 DEF End, TypeInv, TypeOK
<1>3. ASSUME NEW m \in Message PROVE Authorship(t, m)' /\ Scrubbed(t, m)'
  BY <1>2 DEF Authorship, Scrubbed, Scrubs, NoRow
<1>4. ASSUME NEW m \in Message, NEW s \in Tx, s # t PROVE Authorship(s, m)'
  <2>1. /\ draft'[s] = draft[s] /\ at'[s] = at[s] /\ request'[s] = request[s]
        /\ emitted'[s] = emitted[s] /\ shared'[s] = shared[s]
    BY <1>0, <1>4, EndKeepsOthers, EndKeepsRows
  <2>2. Msg(m) \in DOMAIN draft[s] => db'[Msg(m)] = db[Msg(m)]
    BY <1>4, CommitMessage DEF RowInv, OneWriter
  <2>3. Authorship(s, m)
    BY DEF EraseInv
  <2>. QED
    BY <2>1, <2>2, <2>3 DEF Authorship
<1>5. ASSUME NEW m \in Message, NEW s \in Tx, s # t PROVE Scrubbed(s, m)'
  BY <1>5, CommitKeepsScrubbed
<1>. QED
  BY <1>1, <1>3, <1>4, <1>5 DEF EraseInv

LEMMA InitErasure == Init => EraseInv
<1>. SUFFICES ASSUME Init PROVE EraseInv
  OBVIOUS
<1>1. log = {} /\ \A t \in Tx : DOMAIN draft[t] = {} /\ at[t] = "idle" /\ emitted[t] = {}
  BY DEF Init, NoRow
<1>. QED
  BY <1>1 DEF EraseInv, Authorship, Scrubbed, Scrubs

LEMMA NextErasure ==
  /\ ChannelInv /\ RowInv /\ MessageInv /\ OwnInv /\ EraseInv /\ NoneSending
  /\ [Next]_vars
  => EraseInv'
<1>. SUFFICES ASSUME ChannelInv, RowInv, MessageInv, OwnInv, EraseInv, NoneSending, [Next]_vars
              PROVE  EraseInv'
  OBVIOUS
<1>0. TypeInv
  BY DEF ChannelInv
<1>1. CASE UNCHANGED vars
  <2>1. UNCHANGED <<db, log, draft, at, request, shared, found, emitted>>
    BY <1>1 DEF vars, txVars
  <2>2. \A e \in log' : Written(e)'
    BY <2>1 DEF EraseInv, Written
  <2>3. ASSUME NEW m \in Message, NEW t \in Tx PROVE Authorship(t, m)' /\ Scrubbed(t, m)'
    <3>1. Authorship(t, m) /\ Scrubbed(t, m)
      BY DEF EraseInv
    <3>2. Authorship(t, m)'
      BY <2>1, <3>1 DEF Authorship
    <3>3. Scrubbed(t, m)'
      BY <2>1, <3>1 DEF Scrubbed, Scrubs, Seen
    <3>. QED
      BY <3>2, <3>3
  <2>. QED
    BY <2>2, <2>3 DEF EraseInv
<1>2. ASSUME NEW t \in Tx, Begin(t) PROVE EraseInv'
  BY <1>0, <1>2, BeginKeepsErasure
<1>3. ASSUME NEW t \in Tx, Rollback(t) PROVE EraseInv'
  BY <1>0, <1>3, QuitKeepsErasure DEF Rollback
<1>5. ASSUME NEW t \in Tx, UpsertUser(t) PROVE EraseInv'
  BY <1>0, <1>5, UpsertOver, OverKeepsErasure
<1>4. ASSUME NEW t \in Tx, Statement(t) PROVE EraseInv'
  BY <1>0, <1>4, <1>5, FindKeepsErasure, ChannelStatementErasure, InsertKeepsErasure, IncrementKeepsErasure,
     DecrementKeepsErasure, ChangeStatementErasure, MemberStatementErasure,
     ScrubKeepsErasure, DeleteKeepsErasure, PersistKeepsErasure, CommitKeepsErasure
     DEF Statement, MessageStatement, UserStatement
<1>. QED
  BY <1>1, <1>2, <1>3, <1>4 DEF Next

(* UserService.delete erases the text of what the user wrote, but for one  *)
(* interleaving (store_erasure shows it): the text of a deleted user       *)
(* survives only if a send of theirs has inserted its message and not      *)
(* committed it at some point between the snapshot of the scrub, taken     *)
(* before it waits for the rows it locks, and the delete of the user.      *)
(* Attachments and the payloads of channel_events are not scrubbed, here   *)
(* or in the code.                                                         *)
THEOREM ErasedUnlessSending == Spec /\ []NoneSending => []ErasedWithUser
<1>1. EraseInv /\ MessageInv => ErasedWithUser
  <2>. SUFFICES ASSUME EraseInv, MessageInv, NEW e \in log, e.type = "message.new",
                       e.u # None, ~db[Account(e.u)]
                PROVE  ~db[Msg(e.m)].text
    BY DEF ErasedWithUser, EventsOf
  <2>1. e.m \in Message /\ db[Msg(e.m)].deleted
    BY DEF EraseInv, Written
  <2>. QED
    BY <2>1 DEF MessageInv, InOrder, Sane
<1>. QED
  BY <1>1, ChannelInit, ChannelNext, InitRows, NextRows, InitMessages, NextMessages,
     InitOwn, NextOwn, InitErasure, NextErasure, PTL DEF Spec
=============================================================================
