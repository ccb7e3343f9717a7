---------------------------- MODULE StoreProofs ----------------------------
(***************************************************************************)
(* Proofs about ChannelStore: every variable keeps its type.  A request    *)
(* brings the fields its operation needs (StoreAssumption); that they are  *)
(* there when a statement uses them depends on where the transaction is    *)
(* (Positioned), which is what makes the types inductive.                  *)
(***************************************************************************)
EXTENDS StoreLog, TLAPS, FiniteSetTheorems

-----------------------------------------------------------------------------
(* Rows of different tables are different, and a key names one row.        *)
LEMMA RowsDistinct ==
  /\ \A m : Channel # Msg(m) /\ Channel # Member(m) /\ Channel # Account(m)
  /\ \A m, u : /\ Channel # Reaction(m, u)
               /\ Msg(m) # Member(u) /\ Msg(m) # Account(u) /\ Member(m) # Account(u)
  /\ \A m, u, k : /\ Msg(k) # Reaction(m, u) /\ Member(k) # Reaction(m, u)
                  /\ Account(k) # Reaction(m, u)
BY DEF Channel, Msg, Member, Reaction, Account

LEMMA KeysDistinct ==
  /\ \A m, k : Msg(m) = Msg(k) => m = k
  /\ \A u, v : Member(u) = Member(v) => u = v
  /\ \A u, v : Account(u) = Account(v) => u = v
  /\ \A m, k, u, v : Reaction(m, u) = Reaction(k, v) => m = k /\ u = v
BY DEF Msg, Member, Reaction, Account

LEMMA InRow ==
  /\ Channel \in Row
  /\ \A m \in Message : Msg(m) \in Row
  /\ \A u \in User : Member(u) \in Row /\ Account(u) \in Row
  /\ \A m \in Message, u \in User : Reaction(m, u) \in Row
BY DEF Row

-----------------------------------------------------------------------------
(* Where a transaction can be, by its operation.                           *)
StatementsOf ==
  [create |-> {"insertIfAbsent", "addOwner", "commit"},
   send |-> {"bumpSeqForMessage", "insertMessage", "incrementReplyCount", "commit"},
   edit |-> {"updateMessage", "persist", "commit"},
   delete |-> {"softDeleteMessage", "decrementReplyCount", "persist", "commit"},
   thumbnail |-> {"withAttachment", "setAttachments", "persist", "commit"},
   update |-> {"updateChannel", "persist", "commit"},
   softDelete |-> {"softDeleteChannel", "persist", "commit"},
   addMember |-> {"getChannel", "addMember", "persist", "commit"},
   removeMember |-> {"removeMember", "persist", "commit"},
   react |-> {"existsInChannel", "addReaction", "countsByType", "persist", "commit"},
   unreact |-> {"existsInChannel", "removeReaction", "countsByType", "persist", "commit"},
   markRead |-> {"targetSeq", "markRead", "persist", "commit"},
   deleteUser |-> {"findAuthored", "scrubAuthored", "deleteUser", "commit"},
   upsertUser |-> {"upsertUser"}]

Running(t) == at[t] \notin {"idle", "done"}

Positioned(t) ==
  Running(t) =>
    /\ request[t] \in Requests
    /\ at[t] \in StatementsOf[request[t].op]
    /\ at[t] = "addOwner" => request[t].u # None
    /\ at[t] = "incrementReplyCount" => request[t].p # None
    /\ at[t] = "decrementReplyCount" =>
         /\ Msg(request[t].m) \in DOMAIN draft[t]
         /\ draft[t][Msg(request[t].m)].parent # None

TypeInv == TypeOK /\ \A t \in Tx : Positioned(t)

(* A request has its type, and the fields its operation needs.             *)
LEMMA RequestTyped ==
  ASSUME NEW q \in Requests
  PROVE  /\ q.op \in Operation /\ q.m \in Message \cup {None} /\ q.u \in User \cup {None}
         /\ q.p \in Message \cup {None} /\ q.n \in Nat
         /\ q.op \notin {"create", "send", "edit", "delete", "thumbnail", "update", "softDelete"}
              => q.u \in User
         /\ q.op \in {"send", "edit", "delete", "thumbnail", "react", "unreact"} => q.m \in Message
BY StoreAssumption DEF Request

(* The operation a statement belongs to.                                   *)
LEMMA OpAt ==
  ASSUME TypeInv, NEW t \in Tx, Running(t)
  PROVE  LET op == request[t].op IN
         /\ at[t] \in {"insertIfAbsent", "addOwner"} => op = "create"
         /\ at[t] \in {"bumpSeqForMessage", "insertMessage", "incrementReplyCount"} => op = "send"
         /\ at[t] = "updateMessage" => op = "edit"
         /\ at[t] \in {"softDeleteMessage", "decrementReplyCount"} => op = "delete"
         /\ at[t] \in {"withAttachment", "setAttachments"} => op = "thumbnail"
         /\ at[t] = "updateChannel" => op = "update"
         /\ at[t] = "softDeleteChannel" => op = "softDelete"
         /\ at[t] \in {"getChannel", "addMember"} => op = "addMember"
         /\ at[t] = "removeMember" => op = "removeMember"
         /\ at[t] \in {"targetSeq", "markRead"} => op = "markRead"
         /\ at[t] = "addReaction" => op = "react"
         /\ at[t] = "removeReaction" => op = "unreact"
         /\ at[t] \in {"existsInChannel", "countsByType"} => op \in {"react", "unreact"}
         /\ at[t] \in {"findAuthored", "scrubAuthored", "deleteUser"} => op = "deleteUser"
         /\ at[t] = "upsertUser" => op = "upsertUser"
         /\ at[t] = "commit" => op # "upsertUser"
         /\ at[t] = "persist" => op \notin {"create", "send", "deleteUser", "upsertUser"}
<1>1. request[t] \in Requests /\ at[t] \in StatementsOf[request[t].op]
  BY DEF TypeInv, Positioned
<1>2. request[t].op \in Operation
  BY <1>1, RequestTyped
<1>. QED
  BY <1>1, <1>2 DEF Operation, StatementsOf

-----------------------------------------------------------------------------
(* Typed rows.                                                             *)
LEMMA OneTyped ==
  /\ \A row \in ChannelRow : WellTyped(One(Channel, row)) /\ DOMAIN One(Channel, row) \subseteq Row
  /\ \A m \in Message, row \in MessageRow :
       WellTyped(One(Msg(m), row)) /\ DOMAIN One(Msg(m), row) \subseteq Row
  /\ \A u \in User, row \in MemberRow :
       WellTyped(One(Member(u), row)) /\ DOMAIN One(Member(u), row) \subseteq Row
  /\ \A m \in Message, u \in User, row \in BOOLEAN :
       WellTyped(One(Reaction(m, u), row)) /\ DOMAIN One(Reaction(m, u), row) \subseteq Row
<1>1. ASSUME NEW row \in ChannelRow
      PROVE  WellTyped(One(Channel, row)) /\ DOMAIN One(Channel, row) \subseteq Row
  BY <1>1, RowsDistinct, InRow DEF WellTyped, One
<1>2. ASSUME NEW m \in Message, NEW row \in MessageRow
      PROVE  WellTyped(One(Msg(m), row)) /\ DOMAIN One(Msg(m), row) \subseteq Row
  BY <1>2, RowsDistinct, KeysDistinct, InRow DEF WellTyped, One
<1>3. ASSUME NEW u \in User, NEW row \in MemberRow
      PROVE  WellTyped(One(Member(u), row)) /\ DOMAIN One(Member(u), row) \subseteq Row
  BY <1>3, RowsDistinct, KeysDistinct, InRow DEF WellTyped, One
<1>4. ASSUME NEW m \in Message, NEW u \in User, NEW row \in BOOLEAN
      PROVE  WellTyped(One(Reaction(m, u), row)) /\ DOMAIN One(Reaction(m, u), row) \subseteq Row
  BY <1>4, RowsDistinct, KeysDistinct, InRow DEF WellTyped, One
<1>. QED
  BY <1>1, <1>2, <1>3, <1>4

LEMMA SeenTyped ==
  ASSUME TypeOK, NEW t \in Tx
  PROVE  /\ Seen(t, Channel) \in ChannelRow
         /\ \A m \in Message : Seen(t, Msg(m)) \in MessageRow
         /\ \A u \in User : Seen(t, Member(u)) \in MemberRow
         /\ \A m \in Message, u \in User : Seen(t, Reaction(m, u)) \in BOOLEAN
         /\ \A u \in User : Seen(t, Account(u)) \in BOOLEAN
BY InRow DEF TypeOK, WellTyped, Seen

LEMMA DbTyped ==
  ASSUME TypeOK
  PROVE  /\ db[Channel] \in ChannelRow
         /\ \A m \in Message : db[Msg(m)] \in MessageRow
         /\ \A u \in User : db[Member(u)] \in MemberRow
         /\ \A m \in Message, u \in User : db[Reaction(m, u)] \in BOOLEAN
         /\ \A u \in User : db[Account(u)] \in BOOLEAN
BY InRow DEF TypeOK, WellTyped

(* A write of typed rows, whatever else of the transaction it changes.     *)
LEMMA WriteTyped ==
  ASSUME TypeOK, NEW t \in Tx, NEW rows, NEW next \in Position, Write(t, rows, next),
         WellTyped(rows), DOMAIN rows \subseteq Row,
         shared' \in [Tx -> SUBSET User], local' \in [Tx -> Nat],
         emitted' \in [Tx -> SUBSET Event]
  PROVE  TypeOK'
<1>1. ASSUME NEW s \in Tx
      PROVE  DOMAIN draft'[s] \subseteq Row /\ WellTyped(draft'[s])
  <2>1. CASE s # t
    BY <2>1 DEF Write, TypeOK
  <2>2. CASE s = t
    <3>1. draft'[t] = [r \in DOMAIN draft[t] \cup DOMAIN rows |->
                        IF r \in DOMAIN rows THEN rows[r] ELSE draft[t][r]]
      BY DEF Write, TypeOK
    <3>2. DOMAIN draft[t] \subseteq Row /\ WellTyped(draft[t])
      BY DEF TypeOK
    <3>. QED
      BY <2>2, <3>1, <3>2 DEF WellTyped
  <2>. QED
    BY <2>1, <2>2
<1>2. at' \in [Tx -> Position] /\ DOMAIN draft' = Tx
  BY DEF Write, TypeOK
<1>. QED
  BY <1>1, <1>2 DEF Write, TypeOK, WellTyped

LEMMA ReadTyped ==
  ASSUME TypeOK, NEW t \in Tx, NEW next \in Position, Read(t, next), local' \in [Tx -> Nat],
         found' \in [Tx -> SUBSET Message]
  PROVE  TypeOK'
BY DEF Read, TypeOK, WellTyped

LEMMA EndTyped ==
  ASSUME TypeOK, NEW t \in Tx, End(t)
  PROVE  /\ request' \in [Tx -> Requests \cup {None}]
         /\ at' \in [Tx -> Position]
         /\ DOMAIN draft' = Tx
         /\ \A s \in Tx : DOMAIN draft'[s] \subseteq Row /\ WellTyped(draft'[s])
         /\ shared' \in [Tx -> SUBSET User]
         /\ local' \in [Tx -> Nat]
         /\ found' \in [Tx -> SUBSET Message]
         /\ emitted' \in [Tx -> SUBSET Event]
<1>1. DOMAIN NoRow = {} /\ WellTyped(NoRow)
  BY DEF NoRow, WellTyped
<1>2. ASSUME NEW s \in Tx PROVE DOMAIN draft'[s] \subseteq Row /\ WellTyped(draft'[s])
  <2>1. draft'[s] = NoRow \/ draft'[s] = draft[s]
    BY DEF End, TypeOK
  <2>. QED
    BY <1>1, <2>1 DEF TypeOK
<1>3. request' \in [Tx -> Requests \cup {None}]
  <2>1. request' = [request EXCEPT ![t] = None] /\ request \in [Tx -> Requests \cup {None}]
    BY DEF End, TypeOK
  <2>. QED
    BY <2>1
<1>6. at' \in [Tx -> Position]
  <2>1. at' = [at EXCEPT ![t] = "done"] /\ at \in [Tx -> Position]
    BY DEF End, TypeOK
  <2>. QED
    BY <2>1 DEF Position
<1>4. shared' \in [Tx -> SUBSET User] /\ local' \in [Tx -> Nat] /\ DOMAIN draft' = Tx
  BY DEF End, TypeOK
<1>5. emitted' \in [Tx -> SUBSET Event] /\ found' \in [Tx -> SUBSET Message]
  BY DEF End, TypeOK
<1>. QED
  BY <1>2, <1>3, <1>4, <1>5, <1>6

LEMMA QuitTyped ==
  ASSUME TypeOK, NEW t \in Tx, Quit(t)
  PROVE  TypeOK'
<1>1. End(t) /\ UNCHANGED <<db, log, erased>>
  BY DEF Quit
<1>. QED
  BY <1>1, EndTyped DEF TypeOK, WellTyped

-----------------------------------------------------------------------------
(* A step of t leaves the other transactions' positions alone.             *)
LEMMA WritePositioned ==
  ASSUME TypeInv, NEW t \in Tx, NEW rows, NEW next, Write(t, rows, next), Positioned(t)'
  PROVE  \A s \in Tx : Positioned(s)'
<1>1. ASSUME NEW s \in Tx, s # t PROVE Positioned(s)'
  <2>1. at'[s] = at[s] /\ request'[s] = request[s] /\ draft'[s] = draft[s]
    BY <1>1 DEF Write, TypeInv, TypeOK
  <2>. QED
    BY <2>1 DEF TypeInv, Positioned, Running
<1>. QED
  BY <1>1

LEMMA ReadPositioned ==
  ASSUME TypeInv, NEW t \in Tx, NEW next, Read(t, next), Positioned(t)'
  PROVE  \A s \in Tx : Positioned(s)'
<1>1. ASSUME NEW s \in Tx, s # t PROVE Positioned(s)'
  <2>1. at'[s] = at[s] /\ request'[s] = request[s] /\ draft'[s] = draft[s]
    BY <1>1 DEF Read, TypeInv, TypeOK
  <2>. QED
    BY <2>1 DEF TypeInv, Positioned, Running
<1>. QED
  BY <1>1

LEMMA EndPositioned ==
  ASSUME TypeInv, NEW t \in Tx, End(t)
  PROVE  \A s \in Tx : Positioned(s)'
<1>1. at'[t] = "done"
  BY DEF End, TypeInv, TypeOK
<1>2. ASSUME NEW s \in Tx, s # t PROVE Positioned(s)'
  <2>1. at'[s] = at[s] /\ request'[s] = request[s] /\ draft'[s] = draft[s]
    BY <1>2 DEF End, TypeInv, TypeOK
  <2>. QED
    BY <2>1 DEF TypeInv, Positioned, Running
<1>. QED
  BY <1>1, <1>2 DEF Positioned, Running

LEMMA QuitInv ==
  ASSUME TypeInv, NEW t \in Tx, Quit(t)
  PROVE  TypeInv'
BY QuitTyped, EndPositioned DEF Quit, TypeInv

(* The shape of most statements: typed rows, the same operation, a next    *)
(* statement of it.                                                        *)
LEMMA WriteInv ==
  ASSUME TypeInv, NEW t \in Tx, Running(t), NEW rows, NEW next \in Position,
         Write(t, rows, next),
         WellTyped(rows), DOMAIN rows \subseteq Row,
         shared' \in [Tx -> SUBSET User], local' \in [Tx -> Nat],
         emitted' \in [Tx -> SUBSET Event],
         next \in StatementsOf[request[t].op],
         next = "addOwner" => request[t].u # None,
         next = "incrementReplyCount" => request[t].p # None,
         next = "decrementReplyCount" =>
           /\ Msg(request[t].m) \in DOMAIN draft'[t]
           /\ draft'[t][Msg(request[t].m)].parent # None
  PROVE  TypeInv'
<1>1. at'[t] = next /\ request'[t] = request[t]
  BY DEF Write, TypeInv, TypeOK
<1>2. request[t] \in Requests
  BY DEF TypeInv, Positioned
<1>3. Positioned(t)'
  BY <1>1, <1>2 DEF Positioned
<1>. QED
  BY <1>3, WriteTyped, WritePositioned DEF TypeInv

LEMMA ReadInv ==
  ASSUME TypeInv, NEW t \in Tx, Running(t), NEW next \in Position, Read(t, next),
         local' \in [Tx -> Nat], found' \in [Tx -> SUBSET Message],
         next \in StatementsOf[request[t].op],
         next \notin {"addOwner", "incrementReplyCount", "decrementReplyCount"}
  PROVE  TypeInv'
<1>1. at'[t] = next /\ request'[t] = request[t]
  BY DEF Read, TypeInv, TypeOK
<1>2. request[t] \in Requests
  BY DEF TypeInv, Positioned
<1>3. Positioned(t)'
  BY <1>1, <1>2 DEF Positioned
<1>. QED
  BY <1>3, ReadTyped, ReadPositioned DEF TypeInv

-----------------------------------------------------------------------------
(* Each statement preserves the types.                                     *)
LEMMA RunsRunning ==
  ASSUME NEW t \in Tx, NEW statement, statement \notin {"idle", "done"}, Runs(t, statement)
  PROVE  Running(t) /\ at[t] = statement
BY DEF Runs, Running

(* A statement that writes one row for a given operation.                  *)
LEMMA WriteOneInv ==
  ASSUME TypeInv, NEW t \in Tx, Running(t), NEW r, NEW row, NEW next \in Position,
         Write(t, One(r, row), next),
         WellTyped(One(r, row)), DOMAIN One(r, row) \subseteq Row,
         shared' = shared \/ \E users \in SUBSET User : shared' = [shared EXCEPT ![t] = users],
         local' = local \/ \E n \in Nat : local' = [local EXCEPT ![t] = n],
         emitted' = emitted \/ \E e \in Event : emitted' = [emitted EXCEPT ![t] = {e}],
         next \in StatementsOf[request[t].op],
         next = "addOwner" => request[t].u # None,
         next = "incrementReplyCount" => request[t].p # None,
         next = "decrementReplyCount" => r = Msg(request[t].m) /\ row.parent # None
  PROVE  TypeInv'
<1>1. shared' \in [Tx -> SUBSET User]
  BY DEF TypeInv, TypeOK
<1>2. local' \in [Tx -> Nat]
  BY DEF TypeInv, TypeOK
<1>3. emitted' \in [Tx -> SUBSET Event]
  BY DEF TypeInv, TypeOK
<1>4. next = "decrementReplyCount" =>
        /\ Msg(request[t].m) \in DOMAIN draft'[t]
        /\ draft'[t][Msg(request[t].m)].parent # None
  <2>1. draft'[t] = [x \in DOMAIN draft[t] \cup DOMAIN One(r, row) |->
                      IF x \in DOMAIN One(r, row) THEN One(r, row)[x] ELSE draft[t][x]]
    BY DEF Write, TypeInv, TypeOK
  <2>2. DOMAIN One(r, row) = {r} /\ One(r, row)[r] = row
    BY DEF One
  <2>. QED
    BY <2>1, <2>2
<1>. QED
  BY <1>1, <1>2, <1>3, <1>4, WriteInv

LEMMA EventTyped ==
  ASSUME TypeInv, NEW t \in Tx, Running(t),
         request[t].op \notin {"create", "deleteUser", "upsertUser"}, NEW seq \in Nat
  PROVE  EventOf(t, seq) \in Event
<1>1. request[t] \in Requests /\ local[t] \in Nat
  BY DEF TypeInv, TypeOK, Positioned
<1>2. EventName[request[t].op] \in EventType
  BY <1>1, RequestTyped DEF EventName, EventType, Operation
<1>. QED
  BY <1>1, <1>2, RequestTyped DEF EventOf, Event

LEMMA BumpedTyped ==
  ASSUME TypeInv, NEW t \in Tx
  PROVE  /\ Bumped(t) \in ChannelRow
         /\ Bumped(t).seq = Seen(t, Channel).seq + 1
         /\ Bumped(t).status = Seen(t, Channel).status
<1>1. Seen(t, Channel) \in ChannelRow
  BY SeenTyped DEF TypeInv
<1>. QED
  BY <1>1 DEF Bumped, ChannelRow

LEMMA ChannelStatementTyped ==
  ASSUME TypeInv, NEW t \in Tx, ChannelStatement(t)
  PROVE  TypeInv'
<1>1. CASE InsertIfAbsent(t)
  <2>1. Running(t) /\ at[t] = "insertIfAbsent" /\ request[t].op = "create"
    BY <1>1, OpAt, RunsRunning DEF InsertIfAbsent
  <2>2. request[t].u \in User \cup {None}
    BY <2>1, RequestTyped DEF TypeInv, Positioned
  <2>3. CASE Quit(t)
    BY <2>3, QuitInv
  <2>4. CASE ~Quit(t)
    <3> DEFINE row == [status |-> "live", seq |-> 0, creator |-> request[t].u]
               next == IF request[t].u = None THEN "commit" ELSE "addOwner"
    <3>1. /\ Write(t, One(Channel, row), next)
          /\ shared' = [shared EXCEPT ![t] = {request[t].u} \ {None}]
          /\ UNCHANGED <<local, emitted>>
      BY <1>1, <2>4 DEF InsertIfAbsent
    <3>2. row \in ChannelRow
      BY <2>2 DEF ChannelRow, Status
    <3>3. {request[t].u} \ {None} \in SUBSET User
      BY <2>2
    <3>4. /\ next \in Position /\ next \in StatementsOf[request[t].op]
          /\ next # "incrementReplyCount" /\ next # "decrementReplyCount"
          /\ next = "addOwner" => request[t].u # None
      BY <2>1 DEF Position, StatementsOf
    <3> HIDE DEF row, next
    <3>. QED
      BY <2>1, <3>1, <3>2, <3>3, <3>4, OneTyped, WriteOneInv
  <2>. QED
    BY <2>3, <2>4
<1>2. CASE AddOwner(t)
  <2>1. Running(t) /\ at[t] = "addOwner" /\ request[t].op = "create"
    BY <1>2, OpAt, RunsRunning DEF AddOwner
  <2>2. request[t].u \in User
    BY <2>1, RequestTyped DEF TypeInv, Positioned
  <2> DEFINE row == [joined |-> TRUE, read |-> 0]
  <2>3. row \in MemberRow
    BY DEF MemberRow
  <2>4. Write(t, One(Member(request[t].u), row), "commit") /\ UNCHANGED <<shared, local, emitted>>
    BY <1>2 DEF AddOwner
  <2>5. "commit" \in Position /\ "commit" \in StatementsOf[request[t].op]
    BY <2>1 DEF Position, StatementsOf
  <2> HIDE DEF row
  <2>. QED
    BY <2>1, <2>2, <2>3, <2>4, <2>5, OneTyped, WriteOneInv
<1>3. CASE UpdateChannel(t)
  <2>1. Running(t) /\ at[t] = "updateChannel" /\ request[t].op = "update"
    BY <1>3, OpAt, RunsRunning DEF UpdateChannel
  <2>2. CASE Quit(t)
    BY <2>2, QuitInv
  <2>3. CASE ~Quit(t)
    <3>1. PICK row : /\ Write(t, One(Channel, row), "persist")
                     /\ row = [db[Channel] EXCEPT !.status =
                          CASE local[t] = 0 -> "live" [] local[t] = 1 -> "frozen" [] OTHER -> @]
                     /\ UNCHANGED <<shared, local, emitted>>
      BY <1>3, <2>3 DEF UpdateChannel
    <3>2. row \in ChannelRow
      BY <3>1, DbTyped DEF TypeInv, ChannelRow, Status
    <3>3. "persist" \in Position /\ "persist" \in StatementsOf[request[t].op]
      BY <2>1 DEF Position, StatementsOf
    <3>. QED
      BY <2>1, <3>1, <3>2, <3>3, OneTyped, WriteOneInv
  <2>. QED
    BY <2>2, <2>3
<1>4. CASE SoftDeleteChannel(t)
  <2>1. Running(t) /\ at[t] = "softDeleteChannel" /\ request[t].op = "softDelete"
    BY <1>4, OpAt, RunsRunning DEF SoftDeleteChannel
  <2>2. CASE Quit(t)
    BY <2>2, QuitInv
  <2>3. CASE ~Quit(t)
    <3>1. PICK row : /\ Write(t, One(Channel, row), "persist")
                     /\ row = [db[Channel] EXCEPT !.status = "deleted"]
                     /\ UNCHANGED <<shared, local, emitted>>
      BY <1>4, <2>3 DEF SoftDeleteChannel
    <3>2. row \in ChannelRow
      BY <3>1, DbTyped DEF TypeInv, ChannelRow, Status
    <3>3. "persist" \in Position /\ "persist" \in StatementsOf[request[t].op]
      BY <2>1 DEF Position, StatementsOf
    <3>. QED
      BY <2>1, <3>1, <3>2, <3>3, OneTyped, WriteOneInv
  <2>. QED
    BY <2>2, <2>3
<1>. QED
  BY <1>1, <1>2, <1>3, <1>4 DEF ChannelStatement

LEMMA SendStatementTyped ==
  ASSUME TypeInv, NEW t \in Tx, BumpSeqForMessage(t) \/ InsertMessage(t) \/ IncrementReplyCount(t)
  PROVE  TypeInv'
<1>1. CASE BumpSeqForMessage(t)
  <2>1. Running(t) /\ at[t] = "bumpSeqForMessage" /\ request[t].op = "send"
    BY <1>1, OpAt, RunsRunning DEF BumpSeqForMessage
  <2>2. CASE Quit(t)
    BY <2>2, QuitInv
  <2>3. CASE ~Quit(t)
    <3>1. /\ Write(t, One(Channel, Bumped(t)), "insertMessage")
          /\ UNCHANGED <<shared, local, emitted>>
      BY <1>1, <2>3 DEF BumpSeqForMessage
    <3>2. "insertMessage" \in Position /\ "insertMessage" \in StatementsOf[request[t].op]
      BY <2>1 DEF Position, StatementsOf
    <3>. QED
      BY <2>1, <3>1, <3>2, BumpedTyped, OneTyped, WriteOneInv
  <2>. QED
    BY <2>2, <2>3
<1>2. CASE InsertMessage(t)
  <2>1. Running(t) /\ at[t] = "insertMessage" /\ request[t].op = "send"
    BY <1>2, OpAt, RunsRunning DEF InsertMessage
  <2>2. /\ request[t].m \in Message
        /\ request[t].u \in User \cup {None}
        /\ request[t].p \in Message \cup {None}
    BY <2>1, RequestTyped DEF TypeInv, Positioned
  <2>3. CASE Quit(t)
    BY <2>3, QuitInv
  <2>4. CASE ~Quit(t)
    <3> DEFINE seq == Seen(t, Channel).seq
               row == [seq |-> seq, author |-> request[t].u, parent |-> request[t].p,
                       replies |-> 0, text |-> TRUE, deleted |-> FALSE]
               next == IF request[t].p = None THEN "commit" ELSE "incrementReplyCount"
    <3>1. /\ Write(t, One(Msg(request[t].m), row), next)
          /\ emitted' = [emitted EXCEPT ![t] = {EventOf(t, seq)}]
          /\ shared' = [shared EXCEPT ![t] = {request[t].u} \ {None}]
          /\ UNCHANGED local
      BY <1>2, <2>4 DEF InsertMessage
    <3>2. seq \in Nat
      BY SeenTyped DEF TypeInv, ChannelRow
    <3>3. row \in MessageRow
      BY <2>2, <3>2 DEF MessageRow
    <3>4. EventOf(t, seq) \in Event
      BY <2>1, <3>2, EventTyped
    <3>5. {request[t].u} \ {None} \in SUBSET User
      BY <2>2
    <3>6. /\ next \in Position /\ next \in StatementsOf[request[t].op]
          /\ next # "addOwner" /\ next # "decrementReplyCount"
          /\ next = "incrementReplyCount" => request[t].p # None
      BY <2>1 DEF Position, StatementsOf
    <3> HIDE DEF seq, row, next
    <3>. QED
      BY <2>1, <2>2, <3>1, <3>3, <3>4, <3>5, <3>6, OneTyped, WriteOneInv
  <2>. QED
    BY <2>3, <2>4
<1>3. CASE IncrementReplyCount(t)
  <2>1. Running(t) /\ at[t] = "incrementReplyCount" /\ request[t].op = "send"
    BY <1>3, OpAt, RunsRunning DEF IncrementReplyCount
  <2>2. request[t].p \in Message
    BY <2>1, RequestTyped DEF TypeInv, Positioned
  <2> DEFINE row == Replied(Seen(t, Msg(request[t].p)))
  <2>3. /\ Write(t, One(Msg(request[t].p), row), "commit")
        /\ UNCHANGED <<shared, local, emitted>>
    BY <1>3 DEF IncrementReplyCount
  <2>4. row \in MessageRow
    <3>1. Seen(t, Msg(request[t].p)) \in MessageRow
      BY <2>2, SeenTyped DEF TypeInv
    <3>. QED
      BY <3>1 DEF Replied, MessageRow
  <2>5. "commit" \in Position /\ "commit" \in StatementsOf[request[t].op]
    BY <2>1 DEF Position, StatementsOf
  <2> HIDE DEF row
  <2>. QED
    BY <2>1, <2>2, <2>3, <2>4, <2>5, OneTyped, WriteOneInv
<1>. QED
  BY <1>1, <1>2, <1>3

LEMMA ChangeStatementTyped ==
  ASSUME TypeInv, NEW t \in Tx,
         \/ UpdateMessage(t) \/ SoftDeleteMessage(t) \/ DecrementReplyCount(t)
         \/ WithAttachment(t) \/ SetAttachments(t)
  PROVE  TypeInv'
<1>1. CASE UpdateMessage(t)
  <2>1. Running(t) /\ at[t] = "updateMessage" /\ request[t].op = "edit"
    BY <1>1, OpAt, RunsRunning DEF UpdateMessage
  <2>2. request[t].m \in Message
    BY <2>1, RequestTyped DEF TypeInv, Positioned
  <2>3. CASE Quit(t)
    BY <2>3, QuitInv
  <2>4. CASE ~Quit(t)
    <3> DEFINE row == [db[Msg(request[t].m)] EXCEPT !.text = TRUE]
    <3>1. Write(t, One(Msg(request[t].m), row), "persist") /\ UNCHANGED <<shared, local, emitted>>
      BY <1>1, <2>4 DEF UpdateMessage
    <3>2. row \in MessageRow
      BY <2>2, DbTyped DEF TypeInv, MessageRow
    <3>3. "persist" \in Position /\ "persist" \in StatementsOf[request[t].op]
      BY <2>1 DEF Position, StatementsOf
    <3> HIDE DEF row
    <3>. QED
      BY <2>1, <2>2, <3>1, <3>2, <3>3, OneTyped, WriteOneInv
  <2>. QED
    BY <2>3, <2>4
<1>2. CASE SoftDeleteMessage(t)
  <2>1. Running(t) /\ at[t] = "softDeleteMessage" /\ request[t].op = "delete"
    BY <1>2, OpAt, RunsRunning DEF SoftDeleteMessage
  <2>2. request[t].m \in Message
    BY <2>1, RequestTyped DEF TypeInv, Positioned
  <2>3. CASE Quit(t)
    BY <2>3, QuitInv
  <2>4. CASE ~Quit(t)
    <3> DEFINE row == [db[Msg(request[t].m)] EXCEPT !.deleted = TRUE, !.text = FALSE]
               next == IF db[Msg(request[t].m)].parent = None
                       THEN "persist" ELSE "decrementReplyCount"
    <3>1. Write(t, One(Msg(request[t].m), row), next) /\ UNCHANGED <<shared, local, emitted>>
      BY <1>2, <2>4 DEF SoftDeleteMessage
    <3>2. row \in MessageRow /\ row.parent = db[Msg(request[t].m)].parent
      BY <2>2, DbTyped DEF TypeInv, MessageRow
    <3>3. /\ next \in Position /\ next \in StatementsOf[request[t].op]
          /\ next # "addOwner" /\ next # "incrementReplyCount"
          /\ next = "decrementReplyCount" => row.parent # None
      BY <2>1, <3>2 DEF Position, StatementsOf
    <3> HIDE DEF row, next
    <3>. QED
      BY <2>1, <2>2, <3>1, <3>2, <3>3, OneTyped, WriteOneInv
  <2>. QED
    BY <2>3, <2>4
<1>3. CASE DecrementReplyCount(t)
  <2>1. Running(t) /\ at[t] = "decrementReplyCount" /\ request[t].op = "delete"
    BY <1>3, OpAt, RunsRunning DEF DecrementReplyCount
  <2>2. request[t].m \in Message
    BY <2>1, RequestTyped DEF TypeInv, Positioned
  <2> DEFINE p == Seen(t, Msg(request[t].m)).parent
  <2>3. p \in Message
    <3>1. Seen(t, Msg(request[t].m)) \in MessageRow
      BY <2>2, SeenTyped DEF TypeInv
    <3>2. p # None
      BY <2>1 DEF TypeInv, Positioned, Seen
    <3>. QED
      BY <3>1, <3>2 DEF MessageRow
  <2>4. PICK row : /\ Write(t, One(Msg(p), row), "persist")
                   /\ row = [Seen(t, Msg(p)) EXCEPT !.replies = IF @ > 0 THEN @ - 1 ELSE 0]
                   /\ UNCHANGED <<shared, local, emitted>>
    BY <1>3 DEF DecrementReplyCount
  <2> HIDE DEF p
  <2>5. row \in MessageRow
    <3>1. Seen(t, Msg(p)) \in MessageRow
      BY <2>3, SeenTyped DEF TypeInv
    <3>. QED
      BY <2>4, <3>1 DEF MessageRow
  <2>6. "persist" \in Position /\ "persist" \in StatementsOf[request[t].op]
    BY <2>1 DEF Position, StatementsOf
  <2>. QED
    BY <2>1, <2>3, <2>4, <2>5, <2>6, OneTyped, WriteOneInv
<1>4. CASE WithAttachment(t)
  <2>1. Running(t) /\ at[t] = "withAttachment" /\ request[t].op = "thumbnail"
    BY <1>4, OpAt, RunsRunning DEF WithAttachment
  <2>2. CASE Quit(t)
    BY <2>2, QuitInv
  <2>3. CASE ~Quit(t)
    <3>1. Read(t, "setAttachments") /\ local' \in [Tx -> Nat] /\ found' \in [Tx -> SUBSET Message]
      BY <1>4, <2>3 DEF WithAttachment, TypeInv, TypeOK
    <3>2. "setAttachments" \in Position /\ "setAttachments" \in StatementsOf[request[t].op]
      BY <2>1 DEF Position, StatementsOf
    <3>. QED
      BY <2>1, <3>1, <3>2, ReadInv
  <2>. QED
    BY <2>2, <2>3
<1>5. CASE SetAttachments(t)
  <2>1. Running(t) /\ at[t] = "setAttachments" /\ request[t].op = "thumbnail"
    BY <1>5, OpAt, RunsRunning DEF SetAttachments
  <2>2. request[t].m \in Message
    BY <2>1, RequestTyped DEF TypeInv, Positioned
  <2> DEFINE row == db[Msg(request[t].m)]
  <2>3. /\ Write(t, One(Msg(request[t].m), row), "persist")
        /\ UNCHANGED <<shared, local, emitted>>
    BY <1>5 DEF SetAttachments
  <2>4. row \in MessageRow
    BY <2>2, DbTyped DEF TypeInv
  <2>5. "persist" \in Position /\ "persist" \in StatementsOf[request[t].op]
    BY <2>1 DEF Position, StatementsOf
  <2> HIDE DEF row
  <2>. QED
    BY <2>1, <2>2, <2>3, <2>4, <2>5, OneTyped, WriteOneInv
<1>. QED
  BY <1>1, <1>2, <1>3, <1>4, <1>5

LEMMA MembershipTyped ==
  ASSUME TypeInv, NEW t \in Tx,
         GetChannel(t) \/ AddMember(t) \/ RemoveMember(t) \/ TargetSeq(t) \/ MarkRead(t)
  PROVE  TypeInv'
<1>1. CASE GetChannel(t)
  <2>1. Running(t) /\ at[t] = "getChannel" /\ request[t].op = "addMember"
    BY <1>1, OpAt, RunsRunning DEF GetChannel
  <2>2. CASE Quit(t)
    BY <2>2, QuitInv
  <2>3. CASE ~Quit(t)
    <3>1. Read(t, "addMember") /\ local' \in [Tx -> Nat] /\ found' \in [Tx -> SUBSET Message]
      BY <1>1, <2>3 DEF GetChannel, TypeInv, TypeOK
    <3>2. "addMember" \in Position /\ "addMember" \in StatementsOf[request[t].op]
      BY <2>1 DEF Position, StatementsOf
    <3>. QED
      BY <2>1, <3>1, <3>2, ReadInv
  <2>. QED
    BY <2>2, <2>3
<1>2. CASE AddMember(t)
  <2>1. Running(t) /\ at[t] = "addMember" /\ request[t].op = "addMember"
    BY <1>2, OpAt, RunsRunning DEF AddMember
  <2>2. request[t].u \in User
    BY <2>1, RequestTyped DEF TypeInv, Positioned
  <2>3. CASE Quit(t)
    BY <2>3, QuitInv
  <2>4. CASE ~Quit(t)
    <3> DEFINE row == [joined |-> TRUE, read |-> 0]
    <3>1. /\ Write(t, One(Member(request[t].u), row), "persist")
          /\ shared' = [shared EXCEPT ![t] = {request[t].u}]
          /\ UNCHANGED <<local, emitted>>
      BY <1>2, <2>4 DEF AddMember
    <3>2. row \in MemberRow
      BY DEF MemberRow
    <3>3. "persist" \in Position /\ "persist" \in StatementsOf[request[t].op]
      BY <2>1 DEF Position, StatementsOf
    <3>4. {request[t].u} \in SUBSET User
      BY <2>2
    <3> HIDE DEF row
    <3>. QED
      BY <2>1, <2>2, <3>1, <3>2, <3>3, <3>4, OneTyped, WriteOneInv
  <2>. QED
    BY <2>3, <2>4
<1>3. CASE RemoveMember(t)
  <2>1. Running(t) /\ at[t] = "removeMember" /\ request[t].op = "removeMember"
    BY <1>3, OpAt, RunsRunning DEF RemoveMember
  <2>2. request[t].u \in User
    BY <2>1, RequestTyped DEF TypeInv, Positioned
  <2>3. CASE Quit(t)
    BY <2>3, QuitInv
  <2>4. CASE ~Quit(t)
    <3>1. /\ Write(t, One(Member(request[t].u), NoMember), "persist")
          /\ UNCHANGED <<shared, local, emitted>>
      BY <1>3, <2>4 DEF RemoveMember
    <3>2. NoMember \in MemberRow
      BY DEF MemberRow, NoMember
    <3>3. "persist" \in Position /\ "persist" \in StatementsOf[request[t].op]
      BY <2>1 DEF Position, StatementsOf
    <3>. QED
      BY <2>1, <2>2, <3>1, <3>2, <3>3, OneTyped, WriteOneInv
  <2>. QED
    BY <2>3, <2>4
<1>4. CASE TargetSeq(t)
  <2>1. Running(t) /\ at[t] = "targetSeq" /\ request[t].op = "markRead"
    BY <1>4, OpAt, RunsRunning DEF TargetSeq
  <2>2. CASE Quit(t)
    BY <2>2, QuitInv
  <2>3. CASE ~Quit(t)
    <3>1. Read(t, "markRead") /\ found' \in [Tx -> SUBSET Message]
      BY <1>4, <2>3 DEF TargetSeq, TypeInv, TypeOK
    <3>2. local' = local \/ local' = [local EXCEPT ![t] = db[Channel].seq]
      BY <1>4, <2>3 DEF TargetSeq
    <3>3. local' \in [Tx -> Nat]
      BY <3>2, DbTyped DEF TypeInv, TypeOK, ChannelRow
    <3>4. "markRead" \in Position /\ "markRead" \in StatementsOf[request[t].op]
      BY <2>1 DEF Position, StatementsOf
    <3>. QED
      BY <2>1, <3>1, <3>3, <3>4, ReadInv
  <2>. QED
    BY <2>2, <2>3
<1>5. CASE MarkRead(t)
  <2>1. Running(t) /\ at[t] = "markRead" /\ request[t].op = "markRead"
    BY <1>5, OpAt, RunsRunning DEF MarkRead
  <2>2. request[t].u \in User
    BY <2>1, RequestTyped DEF TypeInv, Positioned
  <2>3. CASE Quit(t)
    BY <2>3, QuitInv
  <2>4. CASE ~Quit(t)
    <3> DEFINE read == Advanced(db[Member(request[t].u)].read, local[t])
               row == [joined |-> TRUE, read |-> read]
    <3>1. /\ Write(t, One(Member(request[t].u), row), "persist")
          /\ local' = [local EXCEPT ![t] = read]
          /\ UNCHANGED <<shared, emitted>>
      BY <1>5, <2>4 DEF MarkRead
    <3>2. read \in Nat
      <4>1. db[Member(request[t].u)] \in MemberRow /\ local[t] \in Nat
        BY <2>2, DbTyped DEF TypeInv, TypeOK
      <4>. QED
        BY <4>1 DEF MemberRow, Advanced
    <3> HIDE DEF read
    <3>3. row \in MemberRow
      BY <3>2 DEF MemberRow
    <3>4. "persist" \in Position /\ "persist" \in StatementsOf[request[t].op]
      BY <2>1 DEF Position, StatementsOf
    <3> HIDE DEF row
    <3>. QED
      BY <2>1, <2>2, <3>1, <3>2, <3>3, <3>4, OneTyped, WriteOneInv
  <2>. QED
    BY <2>3, <2>4
<1>. QED
  BY <1>1, <1>2, <1>3, <1>4, <1>5

LEMMA ReactionTyped ==
  ASSUME TypeInv, NEW t \in Tx,
         ExistsInChannel(t) \/ AddReaction(t) \/ RemoveReaction(t) \/ CountsByType(t)
  PROVE  TypeInv'
<1>1. CASE ExistsInChannel(t)
  <2>1. /\ Running(t) /\ at[t] = "existsInChannel"
        /\ request[t].op \in {"react", "unreact"}
    BY <1>1, OpAt, RunsRunning DEF ExistsInChannel
  <2>2. CASE Quit(t)
    BY <2>2, QuitInv
  <2>3. CASE ~Quit(t)
    <3> DEFINE next == IF request[t].op = "react" THEN "addReaction" ELSE "removeReaction"
    <3>1. Read(t, next) /\ local' \in [Tx -> Nat] /\ found' \in [Tx -> SUBSET Message]
      BY <1>1, <2>3 DEF ExistsInChannel, TypeInv, TypeOK
    <3>2. /\ next \in Position /\ next \in StatementsOf[request[t].op]
          /\ next \notin {"addOwner", "incrementReplyCount", "decrementReplyCount"}
      BY <2>1 DEF Position, StatementsOf
    <3> HIDE DEF next
    <3>. QED
      BY <2>1, <3>1, <3>2, ReadInv
  <2>. QED
    BY <2>2, <2>3
<1>2. CASE AddReaction(t)
  <2>1. Running(t) /\ at[t] = "addReaction" /\ request[t].op = "react"
    BY <1>2, OpAt, RunsRunning DEF AddReaction
  <2>2. request[t].u \in User /\ request[t].m \in Message
    BY <2>1, RequestTyped DEF TypeInv, Positioned
  <2>3. CASE Quit(t)
    BY <2>3, QuitInv
  <2>4. CASE ~Quit(t)
    <3> DEFINE row == TRUE
    <3>1. /\ Write(t, One(Reaction(request[t].m, request[t].u), row), "countsByType")
          /\ shared' = [shared EXCEPT ![t] = {request[t].u}]
          /\ UNCHANGED <<local, emitted>>
      BY <1>2, <2>4 DEF AddReaction
    <3>2. "countsByType" \in Position /\ "countsByType" \in StatementsOf[request[t].op]
      BY <2>1 DEF Position, StatementsOf
    <3>3. {request[t].u} \in SUBSET User
      BY <2>2
    <3>4. row \in BOOLEAN
      OBVIOUS
    <3> HIDE DEF row
    <3>5. /\ WellTyped(One(Reaction(request[t].m, request[t].u), row))
          /\ DOMAIN One(Reaction(request[t].m, request[t].u), row) \subseteq Row
      BY <2>2, <3>4, OneTyped
    <3>. QED
      BY <2>1, <3>1, <3>2, <3>3, <3>5, WriteOneInv
  <2>. QED
    BY <2>3, <2>4
<1>3. CASE RemoveReaction(t)
  <2>1. Running(t) /\ at[t] = "removeReaction" /\ request[t].op = "unreact"
    BY <1>3, OpAt, RunsRunning DEF RemoveReaction
  <2>2. request[t].u \in User /\ request[t].m \in Message
    BY <2>1, RequestTyped DEF TypeInv, Positioned
  <2>3. CASE Quit(t)
    BY <2>3, QuitInv
  <2>4. CASE ~Quit(t)
    <3> DEFINE row == FALSE
    <3>1. /\ Write(t, One(Reaction(request[t].m, request[t].u), row), "countsByType")
          /\ UNCHANGED <<shared, local, emitted>>
      BY <1>3, <2>4 DEF RemoveReaction
    <3>2. "countsByType" \in Position /\ "countsByType" \in StatementsOf[request[t].op]
      BY <2>1 DEF Position, StatementsOf
    <3>4. row \in BOOLEAN
      OBVIOUS
    <3> HIDE DEF row
    <3>5. /\ WellTyped(One(Reaction(request[t].m, request[t].u), row))
          /\ DOMAIN One(Reaction(request[t].m, request[t].u), row) \subseteq Row
      BY <2>2, <3>4, OneTyped
    <3>. QED
      BY <2>1, <3>1, <3>2, <3>5, WriteOneInv
  <2>. QED
    BY <2>3, <2>4
<1>4. CASE CountsByType(t)
  <2>1. /\ Running(t) /\ at[t] = "countsByType"
        /\ request[t].op \in {"react", "unreact"}
    BY <1>4, OpAt, RunsRunning DEF CountsByType
  <2> DEFINE reacted == {u \in User : Seen(t, Reaction(request[t].m, u))}
  <2>2. Read(t, "persist") /\ local' = [local EXCEPT ![t] = Cardinality(reacted)]
    BY <1>4 DEF CountsByType
  <2>3. Cardinality(reacted) \in Nat
    BY StoreAssumption, FS_Subset, FS_CardinalityType
  <2>4. local' \in [Tx -> Nat]
    <3> HIDE DEF reacted
    <3>. QED
      BY <2>2, <2>3 DEF TypeInv, TypeOK
  <2>5. "persist" \in Position /\ "persist" \in StatementsOf[request[t].op]
    BY <2>1 DEF Position, StatementsOf
  <2>6. found' \in [Tx -> SUBSET Message]
    BY <1>4 DEF CountsByType, TypeInv, TypeOK
  <2>. QED
    BY <2>1, <2>2, <2>4, <2>5, <2>6, ReadInv
<1>. QED
  BY <1>1, <1>2, <1>3, <1>4

(* What deleting a user writes.                                            *)
LEMMA CascadedTyped ==
  ASSUME NEW t, NEW u \in User
  PROVE  DOMAIN Cascaded(t, u) \subseteq Row /\ WellTyped(Cascaded(t, u))
<1>1. DOMAIN Cascaded(t, u) =
        {Account(u), Member(u)} \cup {Reaction(m, u) : m \in Message}
  BY DEF Cascaded
<1>2. ASSUME NEW r \in DOMAIN Cascaded(t, u)
      PROVE  /\ r = Member(u) => Cascaded(t, u)[r] = NoMember
             /\ r # Member(u) => Cascaded(t, u)[r] = FALSE
  BY <1>1 DEF Cascaded
<1>3. NoMember \in MemberRow
  BY DEF NoMember, MemberRow
<1>4. \A v \in User : Member(v) \in DOMAIN Cascaded(t, u) => Member(v) = Member(u)
  BY <1>1, RowsDistinct
<1>5. DOMAIN Cascaded(t, u) \subseteq Row
  BY <1>1, InRow
<1>6. Channel \notin DOMAIN Cascaded(t, u) /\ \A m : Msg(m) \notin DOMAIN Cascaded(t, u)
  BY <1>1, RowsDistinct
<1>7. \A m, v : Reaction(m, v) # Member(u) /\ Account(v) # Member(u)
  BY RowsDistinct
<1>. QED
  BY <1>2, <1>3, <1>4, <1>5, <1>6, <1>7 DEF WellTyped

LEMMA NulledTyped ==
  ASSUME TypeOK, NEW t \in Tx, NEW u \in User
  PROVE  DOMAIN Nulled(t, u) \subseteq Row /\ WellTyped(Nulled(t, u))
<1>1. DOMAIN Nulled(t, u) = {Msg(m) : m \in Authored(u)}
                              \cup (IF db[Channel].creator = u THEN {Channel} ELSE {})
  BY DEF Nulled
<1>2. ASSUME NEW r \in DOMAIN Nulled(t, u)
      PROVE  Nulled(t, u)[r] = IF r = Channel THEN [db[Channel] EXCEPT !.creator = None]
                                              ELSE [Seen(t, r) EXCEPT !.author = None]
  BY <1>1 DEF Nulled
<1>3. ASSUME NEW r \in DOMAIN Nulled(t, u)
      PROVE  r = Channel \/ \E m \in Message : r = Msg(m)
  BY <1>1 DEF Authored
<1>4. Channel \in DOMAIN Nulled(t, u) => Nulled(t, u)[Channel] \in ChannelRow
  BY <1>2, DbTyped DEF ChannelRow
<1>5. ASSUME NEW m \in Message, Msg(m) \in DOMAIN Nulled(t, u)
      PROVE  Nulled(t, u)[Msg(m)] \in MessageRow
  <2>1. Nulled(t, u)[Msg(m)] = [Seen(t, Msg(m)) EXCEPT !.author = None]
    BY <1>2, <1>5, RowsDistinct
  <2>2. Seen(t, Msg(m)) \in MessageRow
    BY SeenTyped
  <2>. QED
    BY <2>1, <2>2 DEF MessageRow
<1>6. DOMAIN Nulled(t, u) \subseteq Row
  BY <1>3, InRow
<1>. QED
  BY <1>3, <1>4, <1>5, <1>6, RowsDistinct DEF WellTyped

(* What an upsert changes: one account, and its transaction is over.       *)
LEMMA UpsertDoes ==
  ASSUME TypeInv, NEW t \in Tx, UpsertUser(t)
  PROVE  /\ Running(t) /\ at[t] = "upsertUser" /\ request[t].u \in User /\ End(t)
         /\ Account(request[t].u) \in Wants(t) /\ Blockers(t) = {}
         /\ UNCHANGED <<log, erased>>
         /\ DOMAIN db' = Row /\ db'[Account(request[t].u)] = TRUE
         /\ \A r \in Row : r # Account(request[t].u) => db'[r] = db[r]
<1>1. Running(t) /\ at[t] = "upsertUser" /\ request[t].op = "upsertUser" /\ End(t)
  BY OpAt, RunsRunning DEF UpsertUser
<1>2. request[t].u \in User
  BY <1>1, RequestTyped DEF TypeInv, Positioned
<1>3. db' = [db EXCEPT ![Account(request[t].u)] = TRUE] /\ DOMAIN db = Row
  BY DEF UpsertUser, TypeInv, TypeOK
<1>4. Account(request[t].u) \in Row
  BY <1>2, InRow
<1>5. Account(request[t].u) \in Wants(t)
  BY <1>1 DEF Wants
<1>. QED
  BY <1>1, <1>2, <1>3, <1>4, <1>5 DEF UpsertUser, Runs

(* How a transaction ends without an event: it quits, or an upsert has     *)
(* made the row of an account.                                             *)
Over(t) ==
  /\ End(t)
  /\ UNCHANGED <<log, erased>>
  /\ DOMAIN db' = DOMAIN db
  /\ \A r \in Row : db'[r] = db[r] \/ \E u \in User : r = Account(u) /\ db'[r] = TRUE

LEMMA QuitOver ==
  ASSUME NEW t \in Tx, Quit(t)
  PROVE  Over(t)
BY DEF Quit, Over

LEMMA UpsertOver ==
  ASSUME TypeInv, NEW t \in Tx, UpsertUser(t)
  PROVE  Over(t)
BY UpsertDoes DEF Over, TypeInv, TypeOK

(* What that leaves as it was.                                             *)
LEMMA OverKeeps ==
  ASSUME TypeInv, NEW t \in Tx, Over(t)
  PROVE  /\ TypeInv' /\ End(t) /\ UNCHANGED <<log, erased>>
         /\ db'[Channel] = db[Channel]
         /\ \A m \in Message : db'[Msg(m)] = db[Msg(m)]
         /\ \A u \in User : db'[Member(u)] = db[Member(u)]
         /\ \A m \in Message, u \in User : db'[Reaction(m, u)] = db[Reaction(m, u)]
         /\ \A u \in User : db'[Account(u)] = db[Account(u)] \/ db'[Account(u)] = TRUE
<1>1. End(t) /\ UNCHANGED <<log, erased>> /\ DOMAIN db' = Row
  BY DEF Over, TypeInv, TypeOK
<1>2. \A r \in Row : (\A u \in User : r # Account(u)) => db'[r] = db[r]
  BY DEF Over
<1>3. /\ db'[Channel] = db[Channel]
      /\ \A m \in Message : db'[Msg(m)] = db[Msg(m)]
      /\ \A u \in User : db'[Member(u)] = db[Member(u)]
      /\ \A m \in Message, u \in User : db'[Reaction(m, u)] = db[Reaction(m, u)]
  BY <1>2, InRow, RowsDistinct
<1>4. \A u \in User : db'[Account(u)] = db[Account(u)] \/ db'[Account(u)] = TRUE
  BY InRow DEF Over
<1>5. WellTyped(db')
  BY <1>1, <1>3, <1>4 DEF WellTyped, TypeInv, TypeOK
<1>6. TypeInv'
  BY <1>1, <1>5, EndTyped, EndPositioned DEF TypeInv, TypeOK, WellTyped
<1>. QED
  BY <1>1, <1>3, <1>4, <1>6

LEMMA UserStatementTyped ==
  ASSUME TypeInv, NEW t \in Tx, UserStatement(t)
  PROVE  TypeInv'
<1>1. CASE ScrubAuthored(t)
  <2>1. Running(t) /\ at[t] = "scrubAuthored" /\ request[t].op = "deleteUser"
    BY <1>1, OpAt, RunsRunning DEF ScrubAuthored
  <2> DEFINE mine == {Msg(m) : m \in {k \in found[t] \cap Authored(request[t].u) : Live(k)}}
             rows == [r \in mine |-> [db[r] EXCEPT !.text = FALSE, !.deleted = TRUE]]
  <2>2. Write(t, rows, "deleteUser") /\ UNCHANGED <<shared, local, emitted>>
    BY <1>1 DEF ScrubAuthored
  <2>3. ASSUME NEW r \in mine
        PROVE  /\ \E m \in Message : r = Msg(m)
               /\ rows[r] = [db[r] EXCEPT !.text = FALSE, !.deleted = TRUE]
    BY DEF Authored
  <2>4. ASSUME NEW m \in Message, Msg(m) \in mine
        PROVE  rows[Msg(m)] \in MessageRow
    BY <2>3, <2>4, DbTyped DEF TypeInv, MessageRow
  <2>5. DOMAIN rows = mine
    OBVIOUS
  <2> HIDE DEF rows
  <2>6. mine \subseteq Row
    BY <2>3, InRow
  <2>7. \A r \in mine : \E m \in Message : r = Msg(m)
    BY <2>3
  <2> HIDE DEF mine
  <2>8. WellTyped(rows)
    BY <2>4, <2>5, <2>7, RowsDistinct DEF WellTyped
  <2>9. "deleteUser" \in Position /\ "deleteUser" \in StatementsOf[request[t].op]
    BY <2>1 DEF Position, StatementsOf
  <2>10. UNCHANGED <<shared, local, emitted>> /\ TypeOK
    BY <2>2 DEF TypeInv
  <2>11. /\ shared' \in [Tx -> SUBSET User] /\ local' \in [Tx -> Nat]
         /\ emitted' \in [Tx -> SUBSET Event]
    BY <2>10 DEF TypeOK
  <2>. QED
    BY <2>1, <2>2, <2>5, <2>6, <2>8, <2>9, <2>11, WriteInv
<1>2. CASE DeleteUser(t)
  <2>1. Running(t) /\ at[t] = "deleteUser" /\ request[t].op = "deleteUser"
    BY <1>2, OpAt, RunsRunning DEF DeleteUser
  <2>2. CASE Quit(t)
    BY <2>2, QuitInv
  <2>3. CASE ~Quit(t)
    <3> DEFINE u == request[t].u
               cascaded == Cascaded(t, u)
               nulled == Nulled(t, u)
               rows == [r \in DOMAIN cascaded \cup DOMAIN nulled |->
                          IF r \in DOMAIN cascaded THEN cascaded[r] ELSE nulled[r]]
    <3>1. Write(t, rows, "commit") /\ UNCHANGED <<shared, local, emitted>>
      BY <1>2, <2>3 DEF DeleteUser
    <3>2. u \in User
      BY <2>1, RequestTyped DEF TypeInv, Positioned
    <3>3. DOMAIN cascaded \subseteq Row /\ WellTyped(cascaded)
      BY <3>2, CascadedTyped
    <3>4. DOMAIN nulled \subseteq Row /\ WellTyped(nulled)
      BY <3>2, NulledTyped DEF TypeInv
    <3> HIDE DEF cascaded, nulled
    <3>5. DOMAIN rows \subseteq Row /\ WellTyped(rows)
      BY <3>3, <3>4 DEF WellTyped
    <3> HIDE DEF rows
    <3>6. "commit" \in Position /\ "commit" \in StatementsOf[request[t].op]
      BY <2>1 DEF Position, StatementsOf
    <3>7. /\ shared' \in [Tx -> SUBSET User] /\ local' \in [Tx -> Nat]
          /\ emitted' \in [Tx -> SUBSET Event]
      BY <3>1 DEF TypeInv, TypeOK
    <3>. QED
      BY <2>1, <3>1, <3>5, <3>6, <3>7, WriteInv
  <2>. QED
    BY <2>2, <2>3
<1>3. CASE FindAuthored(t)
  <2>1. Running(t) /\ at[t] = "findAuthored" /\ request[t].op = "deleteUser"
    BY <1>3, OpAt, RunsRunning DEF FindAuthored
  <2>2. Read(t, "scrubAuthored") /\ local' \in [Tx -> Nat]
    BY <1>3 DEF FindAuthored, TypeInv, TypeOK
  <2>3. found' \in [Tx -> SUBSET Message]
    BY <1>3 DEF FindAuthored, Authored, TypeInv, TypeOK
  <2>4. "scrubAuthored" \in Position /\ "scrubAuthored" \in StatementsOf[request[t].op]
    BY <2>1 DEF Position, StatementsOf
  <2>. QED
    BY <2>1, <2>2, <2>3, <2>4, ReadInv
<1>4. CASE UpsertUser(t)
  BY <1>4, UpsertOver, OverKeeps
<1>. QED
  BY <1>1, <1>2, <1>3, <1>4 DEF UserStatement

LEMMA PersistTyped ==
  ASSUME TypeInv, NEW t \in Tx, Persist(t)
  PROVE  TypeInv'
<1>1. /\ Running(t) /\ at[t] = "persist"
      /\ request[t].op \notin {"create", "send", "deleteUser", "upsertUser"}
  BY OpAt, RunsRunning DEF Persist
<1>2. /\ Write(t, One(Channel, Bumped(t)), "commit")
      /\ emitted' = [emitted EXCEPT ![t] = {EventOf(t, Bumped(t).seq)}]
      /\ UNCHANGED <<shared, local>>
  BY DEF Persist
<1>3. Bumped(t) \in ChannelRow /\ Bumped(t).seq \in Nat
  BY BumpedTyped DEF ChannelRow
<1>4. EventOf(t, Bumped(t).seq) \in Event
  BY <1>1, <1>3, EventTyped
<1>5. "commit" \in Position /\ "commit" \in StatementsOf[request[t].op]
  <2>1. request[t].op \in Operation
    BY <1>1, RequestTyped DEF TypeInv, Positioned
  <2>. QED
    BY <1>1, <2>1 DEF Position, StatementsOf, Operation
<1>. QED
  BY <1>1, <1>2, <1>3, <1>4, <1>5, OneTyped, WriteOneInv

LEMMA CommitTyped ==
  ASSUME TypeInv, NEW t \in Tx, Commit(t)
  PROVE  TypeInv'
<1>1. End(t) /\ db' = [r \in Row |-> Seen(t, r)] /\ log' = log \cup emitted[t]
  BY DEF Commit
<1>2. WellTyped(db') /\ DOMAIN db' = Row
  BY <1>1, SeenTyped, InRow DEF WellTyped, TypeInv
<1>3. log' \subseteq Event
  BY <1>1 DEF TypeInv, TypeOK
<1>4. erased' \in [User -> Nat]
  <2>1. db[Channel].seq \in Nat
    BY DbTyped DEF TypeInv, ChannelRow
  <2>. QED
    BY <2>1 DEF Commit, TypeInv, TypeOK
<1>. QED
  BY <1>1, <1>2, <1>3, <1>4, EndTyped, EndPositioned DEF TypeInv, TypeOK, WellTyped

LEMMA BeginTyped ==
  ASSUME TypeInv, NEW t \in Tx, Begin(t)
  PROVE  TypeInv'
<1>1. PICK q \in Requests :
        /\ request' = [request EXCEPT ![t] = q]
        /\ at' = [at EXCEPT ![t] = FirstStatement[q.op]]
        /\ local' = [local EXCEPT ![t] = q.n]
  BY DEF Begin
<1>2. UNCHANGED <<db, log, erased, draft, shared, found, emitted>>
  BY DEF Begin
<1>3. q.op \in Operation /\ q.n \in Nat
  BY RequestTyped
<1>4. /\ FirstStatement[q.op] \in StatementsOf[q.op]
      /\ FirstStatement[q.op] \in Position
      /\ FirstStatement[q.op] \notin {"addOwner", "incrementReplyCount", "decrementReplyCount"}
  BY <1>3 DEF FirstStatement, StatementsOf, Position, Operation
<1>5. request' \in [Tx -> Requests \cup {None}]
  BY <1>1 DEF TypeInv, TypeOK
<1>6. at' \in [Tx -> Position]
  BY <1>1, <1>4 DEF TypeInv, TypeOK
<1>7. local' \in [Tx -> Nat]
  BY <1>1, <1>3 DEF TypeInv, TypeOK
<1>8. TypeOK'
  BY <1>2, <1>5, <1>6, <1>7 DEF TypeInv, TypeOK, WellTyped
<1>9. ASSUME NEW s \in Tx PROVE Positioned(s)'
  <2>1. CASE s = t
    <3>1. at'[t] = FirstStatement[q.op] /\ request'[t] = q
      BY <1>1 DEF TypeInv, TypeOK
    <3>. QED
      BY <2>1, <3>1, <1>4 DEF Positioned
  <2>2. CASE s # t
    <3>1. at'[s] = at[s] /\ request'[s] = request[s] /\ draft'[s] = draft[s]
      BY <1>1, <1>2, <2>2 DEF TypeInv, TypeOK
    <3>. QED
      BY <3>1 DEF TypeInv, Positioned, Running
  <2>. QED
    BY <2>1, <2>2
<1>. QED
  BY <1>8, <1>9 DEF TypeInv

LEMMA InitTyped == Init => TypeInv
<1>. SUFFICES ASSUME Init PROVE TypeInv
  OBVIOUS
<1>1. DOMAIN NoRow = {} /\ WellTyped(NoRow)
  BY DEF NoRow, WellTyped
<1>2. PICK creator \in User \cup {None}, status \in {"absent", "live"} :
        db = [r \in Row |->
                CASE r = Channel -> [status |-> status, seq |-> 0, creator |-> creator]
                  [] r[1] = "message" -> Absent
                  [] r[1] = "member" -> [joined |-> r[2] = creator, read |-> 0]
                  [] r[1] = "reaction" -> FALSE
                  [] r[1] = "user" -> TRUE]
  BY DEF Init
<1>3. db[Channel] = [status |-> status, seq |-> 0, creator |-> creator]
  BY <1>2, InRow DEF Channel
<1>4. ASSUME NEW m \in Message PROVE db[Msg(m)] = Absent
  BY <1>2, InRow, RowsDistinct DEF Msg, Channel
<1>5. ASSUME NEW u \in User PROVE db[Member(u)] = [joined |-> u = creator, read |-> 0]
  BY <1>2, InRow, RowsDistinct DEF Member, Channel
<1>6. ASSUME NEW m \in Message, NEW u \in User PROVE db[Reaction(m, u)] = FALSE
  BY <1>2, InRow, RowsDistinct DEF Reaction, Channel
<1>7. ASSUME NEW u \in User PROVE db[Account(u)] = TRUE
  BY <1>2, InRow, RowsDistinct DEF Account, Channel
<1>8. db[Channel] \in ChannelRow
  BY <1>3 DEF ChannelRow, Status
<1>9. Absent \in MessageRow
  BY DEF Absent, MessageRow
<1>10. \A u \in User : db[Member(u)] \in MemberRow
  <2>1. \A b \in BOOLEAN : [joined |-> b, read |-> 0] \in MemberRow
    BY DEF MemberRow
  <2>2. \A u \in User : (u = creator) \in BOOLEAN
    OBVIOUS
  <2>. QED
    BY <1>5, <2>1, <2>2, Zenon
<1>11. WellTyped(db) /\ DOMAIN db = Row
  BY <1>2, <1>4, <1>6, <1>7, <1>8, <1>9, <1>10 DEF WellTyped
<1>. QED
  BY <1>1, <1>11 DEF Init, TypeInv, TypeOK, Position, Positioned, Running

(* Every variable, and every version of every row, keeps its type,         *)
(* whichever requests run and however their statements interleave.         *)
THEOREM StoreTypeCorrect == Spec => []TypeOK
<1>1. TypeInv /\ [Next]_vars => TypeInv'
  <2>. SUFFICES ASSUME TypeInv, [Next]_vars PROVE TypeInv'
    OBVIOUS
  <2>1. CASE UNCHANGED vars
    BY <2>1 DEF vars, txVars, TypeInv, TypeOK, WellTyped, Positioned, Running
  <2>2. ASSUME NEW t \in Tx, Begin(t) PROVE TypeInv'
    BY <2>2, BeginTyped
  <2>3. ASSUME NEW t \in Tx, Rollback(t) PROVE TypeInv'
    BY <2>3, QuitInv DEF Rollback
  <2>4. ASSUME NEW t \in Tx, Statement(t) PROVE TypeInv'
    BY <2>4, ChannelStatementTyped, SendStatementTyped, ChangeStatementTyped,
       MembershipTyped, ReactionTyped, UserStatementTyped, PersistTyped, CommitTyped
       DEF Statement, MessageStatement, MemberStatement
  <2>. QED
    BY <2>1, <2>2, <2>3, <2>4 DEF Next
<1>2. TypeInv => TypeOK
  BY DEF TypeInv
<1>. QED
  BY <1>1, <1>2, InitTyped, PTL DEF Spec
=============================================================================
