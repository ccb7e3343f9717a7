---------------------------- MODULE ChannelStore ----------------------------
(***************************************************************************)
(* The services of one channel over Postgres: every request is a           *)
(* transaction at READ COMMITTED, one statement after the other, and the   *)
(* statements of concurrent requests interleave.  A statement that updates *)
(* a row waits until no other open transaction has changed it, then reads  *)
(* its newest committed version; a plain select waits for nothing and sees *)
(* what is committed.  A transaction's writes show to others at commit.    *)
(*                                                                         *)
(* ChannelEvents.persist allocates the seq by updating the channel row, so *)
(* its lock is what orders the log.                                        *)
(***************************************************************************)
EXTENDS Naturals, FiniteSets

CONSTANTS
  Tx,          \* request lifetimes: each runs one transaction
  Message,     \* message ids (callers may choose them)
  User,
  Requests,    \* what clients ask for: the bound on the operations
  None         \* no user, no parent message

Operation == {"create", "send", "edit", "delete", "thumbnail", "update",
              "softDelete", "addMember", "removeMember", "react", "unreact",
              "markRead", "deleteUser", "upsertUser"}

(* m: the message; u: the acting or affected user; p: the parent message;  *)
(* n: markRead's upTo (0 for none), update's frozen (0, 1, or 2 for none). *)
Request == [op : Operation, m : Message \cup {None}, u : User \cup {None},
            p : Message \cup {None}, n : Nat]

ASSUME StoreAssumption ==
  /\ IsFiniteSet(User)
  /\ None \notin Message \cup User
  /\ Requests \subseteq Request
  /\ \A q \in Requests :
       /\ q.op \notin {"create", "send", "edit", "delete", "thumbnail", "update",
                      "softDelete"} => q.u # None
       /\ q.op \in {"send", "edit", "delete", "thumbnail", "react", "unreact"} => q.m # None

(* Rows are named by table and key. *)
Channel == <<"channel">>
Msg(m) == <<"message", m>>
Member(u) == <<"member", u>>
Reaction(m, u) == <<"reaction", m, u>>
Account(u) == <<"user", u>>

Row == {Channel} \cup {Msg(m) : m \in Message} \cup {Member(u) : u \in User}
         \cup {Reaction(m, u) : m \in Message, u \in User}
         \cup {Account(u) : u \in User}

Status == {"absent", "live", "frozen", "deleted"}
ChannelRow == [status : Status, seq : Nat, creator : User \cup {None}]

(* seq is 0 while the row does not exist; text says whether there is any.  *)
MessageRow == [seq : Nat, author : User \cup {None},
               parent : Message \cup {None}, replies : Nat, text : BOOLEAN,
               deleted : BOOLEAN]
MemberRow == [joined : BOOLEAN, read : Nat]

EventType == {"message.new", "message.updated", "message.deleted",
              "channel.updated", "channel.deleted", "member.added",
              "member.removed", "reaction.new", "reaction.deleted",
              "read.updated"}

(* data: the frozen flag, reaction count or read pointer of the payload.    *)
Event == [seq : Nat, type : EventType, m : Message \cup {None},
          u : User \cup {None}, data : Nat]

VARIABLES
  db,          \* [Row -> its committed version]
  log,         \* committed channel_events
  request,     \* [Tx -> its request while it runs]
  at,          \* [Tx -> its next statement, "idle" before and "done" after]
  draft,       \* [Tx -> its uncommitted rows, which it has locked]
  shared,      \* [Tx -> users whose rows its foreign keys hold FOR KEY SHARE]
  local,       \* [Tx -> the request's n, then what the transaction has read]
  found,       \* [Tx -> messages its scrub has found, to lock them next]
  emitted,     \* [Tx -> its uncommitted channel_events row, if any]
  erased       \* history: [User -> current_seq at their last erasure, or 0]

txVars == <<request, at, draft, shared, local, found, emitted>>
vars == <<db, log, erased, txVars>>

NoRow == [r \in {} |-> 0]
Absent == [seq |-> 0, author |-> None, parent |-> None, replies |-> 0,
           text |-> FALSE, deleted |-> FALSE]

(* No channel yet, or one that has just been created.                      *)
Init ==
  /\ \E creator \in User \cup {None}, status \in {"absent", "live"} :
       /\ status = "absent" => creator = None
       /\ db = [r \in Row |->
                  CASE r = Channel -> [status |-> status, seq |-> 0, creator |-> creator]
                    [] r[1] = "message" -> Absent
                    [] r[1] = "member" -> [joined |-> r[2] = creator, read |-> 0]
                    [] r[1] = "reaction" -> FALSE
                    [] r[1] = "user" -> TRUE]
  /\ log = {}
  /\ request = [t \in Tx |-> None]
  /\ at = [t \in Tx |-> "idle"]
  /\ draft = [t \in Tx |-> NoRow]
  /\ shared = [t \in Tx |-> {}]
  /\ local = [t \in Tx |-> 0]
  /\ found = [t \in Tx |-> {}]
  /\ emitted = [t \in Tx |-> {}]
  /\ erased = [u \in User |-> 0]

-----------------------------------------------------------------------------
(* Postgres.  What transaction t sees of a row: its own version, or the    *)
(* newest committed one.                                                   *)
Seen(t, r) == IF r \in DOMAIN draft[t] THEN draft[t][r] ELSE db[r]

(* Wrong variant, for the mutation checks: deleted messages still match.   *)
LiveOrDeleted(m) == db[Msg(m)].seq > 0

(* "deleted_at is null" on messages and on channels; "not frozen" too.     *)
Live(m) == db[Msg(m)].seq > 0 /\ ~db[Msg(m)].deleted
Open == {"live", "frozen"}
Authored(u) == {m \in Message : db[Msg(m)].author = u}

(* Wrong variant: a frozen channel accepts messages.                       *)
SendableFrozen == db[Channel].status \in Open

Sendable == db[Channel].status = "live"

(* The rows t's next statement has to lock.  A row that fails the          *)
(* statement's condition as committed is not waited for.                   *)
Wants(t) ==
  LET q == request[t]
      If(condition, rows) == IF condition THEN rows ELSE {}
  IN  CASE at[t] = "insertIfAbsent" -> 
             If(db[Channel].status = "absent", {Channel, Account(q.u)})
        [] at[t] = "bumpSeqForMessage" -> If(Sendable, {Channel})
        [] at[t] = "insertMessage" -> {Msg(q.m), Account(q.u)}
        [] at[t] = "incrementReplyCount" -> {Msg(q.p)}
        [] at[t] \in {"updateMessage", "softDeleteMessage"} -> If(Live(q.m), {Msg(q.m)})
        [] at[t] = "decrementReplyCount" -> {Msg(Seen(t, Msg(q.m)).parent)}
        [] at[t] = "setAttachments" -> {Msg(q.m)}
        [] at[t] \in {"updateChannel", "softDeleteChannel"} ->
             If(db[Channel].status \in Open, {Channel})
        [] at[t] = "addMember" -> {Member(q.u), Account(q.u)}
        [] at[t] \in {"removeMember", "markRead"} -> If(db[Member(q.u)].joined, {Member(q.u)})
        [] at[t] = "addReaction" -> {Reaction(q.m, q.u), Account(q.u)}
        [] at[t] = "removeReaction" -> If(db[Reaction(q.m, q.u)], {Reaction(q.m, q.u)})
        [] at[t] = "persist" -> If(db[Channel].status # "absent", {Channel})
        [] at[t] = "scrubAuthored" -> {Msg(m) : m \in {k \in found[t] \cap Authored(q.u) : Live(k)}}
        [] at[t] = "deleteUser" ->
             If(db[Account(q.u)],
                {Account(q.u), Member(q.u)} \cup {Reaction(m, q.u) : m \in Message}
                  \cup {Msg(m) : m \in Authored(q.u)}
                  \cup If(db[Channel].creator = q.u, {Channel}))
        [] at[t] = "upsertUser" -> {Account(q.u)}
        [] OTHER -> {}

(* The open transactions t has to wait for.  FOR KEY SHARE conflicts only  *)
(* with the deletion of the row.                                           *)
Blockers(t) ==
  {s \in Tx \ {t} : \/ Wants(t) \cap DOMAIN draft[s] # {}
                    \/ at[t] = "deleteUser" /\ request[t].u \in shared[s]}

Runs(t, statement) == at[t] = statement /\ Blockers(t) = {}

One(r, row) == [x \in {r} |-> row]

(* The statement writes these rows and the transaction goes on.            *)
Write(t, rows, next) ==
  /\ draft' = [draft EXCEPT ![t] =
       [r \in DOMAIN @ \cup DOMAIN rows |-> IF r \in DOMAIN rows THEN rows[r] ELSE @[r]]]
  /\ at' = [at EXCEPT ![t] = next]
  /\ UNCHANGED <<db, log, erased, request, found>>

Read(t, next) ==
  /\ at' = [at EXCEPT ![t] = next]
  /\ UNCHANGED <<db, log, erased, request, draft, shared, emitted>>

End(t) ==
  /\ request' = [request EXCEPT ![t] = None]
  /\ at' = [at EXCEPT ![t] = "done"]
  /\ draft' = [draft EXCEPT ![t] = NoRow]
  /\ shared' = [shared EXCEPT ![t] = {}]
  /\ local' = [local EXCEPT ![t] = 0]
  /\ found' = [found EXCEPT ![t] = {}]
  /\ emitted' = [emitted EXCEPT ![t] = {}]

(* Nothing to commit: the row was not there, or a constraint was violated. *)
Quit(t) == End(t) /\ UNCHANGED <<db, log, erased>>

Commit(t) ==
  /\ at[t] = "commit"
  /\ db' = [r \in Row |-> Seen(t, r)]
  /\ log' = log \cup emitted[t]
  /\ erased' = [u \in User |->
                  IF Account(u) \in DOMAIN draft[t] THEN db[Channel].seq ELSE erased[u]]
  /\ End(t)

(* The connection is lost, the process dies, the statement fails, or       *)
(* Postgres breaks a deadlock.                                             *)
Rollback(t) ==
  /\ at[t] \notin {"idle", "done"}
  /\ Quit(t)

-----------------------------------------------------------------------------
(* Wrong variant: an event type the protocol does not have.                *)
EventNameUnknown == [send |-> "message.new", edit |-> "message.edited",
              thumbnail |-> "message.updated", delete |-> "message.deleted",
              update |-> "channel.updated", softDelete |-> "channel.deleted",
              addMember |-> "member.added", removeMember |-> "member.removed",
              react |-> "reaction.new", unreact |-> "reaction.deleted",
              markRead |-> "read.updated"]

EventName == [send |-> "message.new", edit |-> "message.updated",
              thumbnail |-> "message.updated", delete |-> "message.deleted",
              update |-> "channel.updated", softDelete |-> "channel.deleted",
              addMember |-> "member.added", removeMember |-> "member.removed",
              react |-> "reaction.new", unreact |-> "reaction.deleted",
              markRead |-> "read.updated"]

EventOf(t, seq) ==
  LET q == request[t] IN
    [seq |-> seq, type |-> EventName[q.op], m |-> q.m, u |-> q.u, data |-> local[t]]

(* Wrong variant: the current seq is read, not advanced.                   *)
NotBumped(t) == Seen(t, Channel)

Bumped(t) == [Seen(t, Channel) EXCEPT !.seq = @ + 1]

(* ChannelEvents.persist, the last statements of every transaction but     *)
(* send's: the next seq, and the event row with it.                        *)
Persist(t) ==
  /\ Runs(t, "persist")
  /\ db[Channel].status # "absent"
  /\ Write(t, One(Channel, Bumped(t)), "commit")
  /\ emitted' = [emitted EXCEPT ![t] = {EventOf(t, Bumped(t).seq)}]
  /\ UNCHANGED <<shared, local>>

-----------------------------------------------------------------------------
(* The foreign key on users.                                               *)
Referable(u) == u # None => db[Account(u)]

(* ChannelService.create: get-or-create, the creator becoming the owner.   *)
InsertIfAbsent(t) ==
  /\ Runs(t, "insertIfAbsent")
  /\ \/ /\ db[Channel].status = "absent"
        /\ Referable(request[t].u)
        /\ Write(t, One(Channel, [status |-> "live", seq |-> 0, creator |-> request[t].u]),
                 IF request[t].u = None THEN "commit" ELSE "addOwner")
        /\ shared' = [shared EXCEPT ![t] = {request[t].u} \ {None}]
        /\ UNCHANGED <<local, emitted>>
     \/ /\ db[Channel].status = "absent" => ~Referable(request[t].u)
        /\ Quit(t)

AddOwner(t) ==
  /\ Runs(t, "addOwner")
  /\ Write(t, One(Member(request[t].u), [joined |-> TRUE, read |-> 0]), "commit")
  /\ UNCHANGED <<shared, local, emitted>>

(* ChannelService.update: archiving and custom data leave the status.      *)
UpdateChannel(t) ==
  /\ Runs(t, "updateChannel")
  /\ \/ /\ db[Channel].status \in Open
        /\ Write(t, One(Channel, [db[Channel] EXCEPT !.status =
                   CASE local[t] = 0 -> "live" [] local[t] = 1 -> "frozen" [] OTHER -> @]),
                 "persist")
        /\ UNCHANGED <<shared, local, emitted>>
     \/ /\ db[Channel].status \notin Open
        /\ Quit(t)

SoftDeleteChannel(t) ==
  /\ Runs(t, "softDeleteChannel")
  /\ \/ /\ db[Channel].status \in Open
        /\ Write(t, One(Channel, [db[Channel] EXCEPT !.status = "deleted"]), "persist")
        /\ UNCHANGED <<shared, local, emitted>>
     \/ /\ db[Channel].status \notin Open
        /\ Quit(t)

-----------------------------------------------------------------------------
(* MessageService.send.                                                    *)
BumpSeqForMessage(t) ==
  /\ Runs(t, "bumpSeqForMessage")
  /\ \/ /\ Sendable
        /\ Write(t, One(Channel, Bumped(t)), "insertMessage")
        /\ UNCHANGED <<shared, local, emitted>>
     \/ /\ ~Sendable
        /\ Quit(t)

(* The primary key and both foreign keys; a message may be its own parent. *)
Insertable(q) ==
  /\ db[Msg(q.m)].seq = 0
  /\ Referable(q.u)
  /\ q.p \notin {None, q.m} => db[Msg(q.p)].seq > 0

InsertMessage(t) ==
  LET q == request[t]
      seq == Seen(t, Channel).seq
  IN  /\ Runs(t, "insertMessage")
      /\ \/ /\ Insertable(q)
            /\ Write(t, One(Msg(q.m), [seq |-> seq, author |-> q.u, parent |-> q.p,
                                       replies |-> 0, text |-> TRUE, deleted |-> FALSE]),
                     IF q.p = None THEN "commit" ELSE "incrementReplyCount")
            /\ emitted' = [emitted EXCEPT ![t] = {EventOf(t, seq)}]
            /\ shared' = [shared EXCEPT ![t] = {q.u} \ {None}]
            /\ UNCHANGED local
         \/ /\ ~Insertable(q)
            /\ Quit(t)

(* Wrong variant: a deleted parent no longer counts its replies.           *)
RepliedToLive(row) == IF row.deleted THEN row ELSE [row EXCEPT !.replies = @ + 1]

Replied(row) == [row EXCEPT !.replies = @ + 1]

IncrementReplyCount(t) ==
  LET parent == Msg(request[t].p) IN
    /\ Runs(t, "incrementReplyCount")
    /\ Write(t, One(parent, Replied(Seen(t, parent))), "commit")
    /\ UNCHANGED <<shared, local, emitted>>

(* MessageService.edit.                                                    *)
UpdateMessage(t) ==
  LET m == request[t].m IN
    /\ Runs(t, "updateMessage")
    /\ \/ /\ Live(m)
          /\ Write(t, One(Msg(m), [db[Msg(m)] EXCEPT !.text = TRUE]), "persist")
          /\ UNCHANGED <<shared, local, emitted>>
       \/ /\ ~Live(m)
          /\ Quit(t)

(* MessageService.delete.                                                  *)
SoftDeleteMessage(t) ==
  LET m == request[t].m IN
    /\ Runs(t, "softDeleteMessage")
    /\ \/ /\ Live(m)
          /\ Write(t, One(Msg(m), [db[Msg(m)] EXCEPT !.deleted = TRUE, !.text = FALSE]),
                   IF db[Msg(m)].parent = None THEN "persist" ELSE "decrementReplyCount")
          /\ UNCHANGED <<shared, local, emitted>>
       \/ /\ ~Live(m)
          /\ Quit(t)

DecrementReplyCount(t) ==
  LET parent == Msg(Seen(t, Msg(request[t].m)).parent)
      row == Seen(t, parent)
  IN  /\ Runs(t, "decrementReplyCount")
      /\ Write(t, One(parent, [row EXCEPT !.replies = IF @ > 0 THEN @ - 1 ELSE 0]), "persist")
      /\ UNCHANGED <<shared, local, emitted>>

(* MessageService.attachThumbnail: the message is found outside the        *)
(* transaction that patches it, whatever became of it meanwhile.           *)
WithAttachment(t) ==
  /\ Runs(t, "withAttachment")
  /\ \/ /\ Live(request[t].m)
        /\ Read(t, "setAttachments")
        /\ UNCHANGED <<local, found>>
     \/ /\ ~Live(request[t].m)
        /\ Quit(t)

SetAttachments(t) ==
  LET m == request[t].m IN
    /\ Runs(t, "setAttachments")
    /\ Write(t, One(Msg(m), db[Msg(m)]), "persist")
    /\ UNCHANGED <<shared, local, emitted>>

-----------------------------------------------------------------------------
(* A wrong variant first: the channel is looked up "for update".           *)
GetChannelLocked(t) ==
  /\ Runs(t, "getChannel")
  /\ db[Channel].status \in Open
  /\ \A s \in Tx : Channel \notin DOMAIN draft[s]
  /\ Write(t, One(Channel, db[Channel]), "addMember")
  /\ UNCHANGED <<shared, local, emitted>>

(* ChannelService.addMember: the channel is looked up before the           *)
(* transaction that adds to it.                                            *)
GetChannel(t) ==
  /\ Runs(t, "getChannel")
  /\ \/ /\ db[Channel].status \in Open
        /\ Read(t, "addMember")
        /\ UNCHANGED <<local, found>>
     \/ /\ db[Channel].status \notin Open
        /\ Quit(t)

(* Wrong variant: a repeated add is an add.                                *)
AddableAgain(u) == db[Account(u)]

Addable(u) == ~db[Member(u)].joined /\ db[Account(u)]

AddMember(t) ==
  LET u == request[t].u IN
    /\ Runs(t, "addMember")
    /\ \/ /\ Addable(u)
          /\ Write(t, One(Member(u), [joined |-> TRUE, read |-> 0]), "persist")
          /\ shared' = [shared EXCEPT ![t] = {u}]
          /\ UNCHANGED <<local, emitted>>
       \/ /\ ~Addable(u)
          /\ Quit(t)

(* ChannelService.removeMember.                                            *)
NoMember == [joined |-> FALSE, read |-> 0]

RemoveMember(t) ==
  LET u == request[t].u IN
    /\ Runs(t, "removeMember")
    /\ \/ /\ db[Member(u)].joined
          /\ Write(t, One(Member(u), NoMember), "persist")
          /\ UNCHANGED <<shared, local, emitted>>
       \/ /\ ~db[Member(u)].joined
          /\ Quit(t)

(* ReadService.markRead: the target is upTo, or the channel's current seq; *)
(* upTo is not checked against it.                                         *)
TargetSeq(t) ==
  /\ Runs(t, "targetSeq")
  /\ \/ /\ local[t] > 0
        /\ Read(t, "markRead")
        /\ UNCHANGED <<local, found>>
     \/ /\ local[t] = 0 /\ db[Channel].status \in Open
        /\ Read(t, "markRead")
        /\ local' = [local EXCEPT ![t] = db[Channel].seq]
        /\ UNCHANGED found
     \/ /\ local[t] = 0 /\ db[Channel].status \notin Open
        /\ Quit(t)

(* Wrong variant: the pointer goes where the reader says.                  *)
Overwritten(read, target) == target

Advanced(read, target) == IF target > read THEN target ELSE read

MarkRead(t) ==
  LET u == request[t].u
      read == Advanced(db[Member(u)].read, local[t])
  IN  /\ Runs(t, "markRead")
      /\ \/ /\ db[Member(u)].joined
            /\ Write(t, One(Member(u), [joined |-> TRUE, read |-> read]), "persist")
            /\ local' = [local EXCEPT ![t] = read]
            /\ UNCHANGED <<shared, emitted>>
         \/ /\ ~db[Member(u)].joined
            /\ Quit(t)

-----------------------------------------------------------------------------
(* ReactionService.mutate, for one reaction type.                          *)
ExistsInChannel(t) ==
  /\ Runs(t, "existsInChannel")
  /\ \/ /\ Live(request[t].m)
        /\ Read(t, IF request[t].op = "react" THEN "addReaction" ELSE "removeReaction")
        /\ UNCHANGED <<local, found>>
     \/ /\ ~Live(request[t].m)
        /\ Quit(t)

Reactable(m, u) == ~db[Reaction(m, u)] /\ db[Account(u)]

AddReaction(t) ==
  LET q == request[t] IN
    /\ Runs(t, "addReaction")
    /\ \/ /\ Reactable(q.m, q.u)
          /\ Write(t, One(Reaction(q.m, q.u), TRUE), "countsByType")
          /\ shared' = [shared EXCEPT ![t] = {q.u}]
          /\ UNCHANGED <<local, emitted>>
       \/ /\ ~Reactable(q.m, q.u)
          /\ Quit(t)

RemoveReaction(t) ==
  LET q == request[t] IN
    /\ Runs(t, "removeReaction")
    /\ \/ /\ db[Reaction(q.m, q.u)]
          /\ Write(t, One(Reaction(q.m, q.u), FALSE), "countsByType")
          /\ UNCHANGED <<shared, local, emitted>>
       \/ /\ ~db[Reaction(q.m, q.u)]
          /\ Quit(t)

CountsByType(t) ==
  /\ Runs(t, "countsByType")
  /\ local' = [local EXCEPT ![t] =
       Cardinality({u \in User : Seen(t, Reaction(request[t].m, u))})]
  /\ Read(t, "persist")
  /\ UNCHANGED found

-----------------------------------------------------------------------------
(* UserService.delete: scrub what the user wrote, then delete the user.    *)
(* The scrub is one update: its snapshot, taken when it starts, says which *)
(* rows it will lock, and when it has their locks it changes those that    *)
(* still match.                                                            *)
FindAuthored(t) ==
  /\ Runs(t, "findAuthored")
  /\ Read(t, "scrubAuthored")
  /\ found' = [found EXCEPT ![t] = {m \in Authored(request[t].u) : Live(m)}]
  /\ UNCHANGED local

ScrubAuthored(t) ==
  LET mine == {Msg(m) : m \in {k \in found[t] \cap Authored(request[t].u) : Live(k)}} IN
    /\ Runs(t, "scrubAuthored")
    /\ Write(t, [r \in mine |-> [db[r] EXCEPT !.text = FALSE, !.deleted = TRUE]],
             "deleteUser")
    /\ UNCHANGED <<shared, local, emitted>>

(* Wrong variant: memberships outlive their user.                          *)
CascadedWithoutMembers(t, u) ==
  [r \in {Account(u)} \cup {Reaction(m, u) : m \in Message} |-> FALSE]

(* The foreign keys' "on delete cascade" rows ...                          *)
Cascaded(t, u) ==
  [r \in {Account(u), Member(u)} \cup {Reaction(m, u) : m \in Message} |->
     IF r = Member(u) THEN NoMember ELSE FALSE]

(* ... and their "on delete set null" ones.                                *)
Nulled(t, u) ==
  [r \in {Msg(m) : m \in Authored(u)}
           \cup (IF db[Channel].creator = u THEN {Channel} ELSE {}) |->
     IF r = Channel THEN [db[Channel] EXCEPT !.creator = None]
                    ELSE [Seen(t, r) EXCEPT !.author = None]]

DeleteUser(t) ==
  LET u == request[t].u
      cascaded == Cascaded(t, u)
      nulled == Nulled(t, u)
  IN  /\ Runs(t, "deleteUser")
      /\ \/ /\ db[Account(u)]
            /\ Write(t, [r \in DOMAIN cascaded \cup DOMAIN nulled |->
                           IF r \in DOMAIN cascaded THEN cascaded[r] ELSE nulled[r]],
                     "commit")
            /\ UNCHANGED <<shared, local, emitted>>
         \/ /\ ~db[Account(u)]
            /\ Quit(t)

(* UserService.upsert: one statement on its own.  It creates the user, or  *)
(* creates again one that was deleted.                                     *)
UpsertUser(t) ==
  /\ Runs(t, "upsertUser")
  /\ db' = [db EXCEPT ![Account(request[t].u)] = TRUE]
  /\ End(t)
  /\ UNCHANGED <<log, erased>>

-----------------------------------------------------------------------------
FirstStatement == [create |-> "insertIfAbsent", send |-> "bumpSeqForMessage",
                   edit |-> "updateMessage", delete |-> "softDeleteMessage",
                   thumbnail |-> "withAttachment", update |-> "updateChannel",
                   softDelete |-> "softDeleteChannel", addMember |-> "getChannel",
                   removeMember |-> "removeMember", react |-> "existsInChannel",
                   unreact |-> "existsInChannel", markRead |-> "targetSeq",
                   deleteUser |-> "findAuthored", upsertUser |-> "upsertUser"]

Begin(t) ==
  /\ at[t] = "idle"
  /\ \E q \in Requests :
       /\ request' = [request EXCEPT ![t] = q]
       /\ at' = [at EXCEPT ![t] = FirstStatement[q.op]]
       /\ local' = [local EXCEPT ![t] = q.n]
  /\ UNCHANGED <<db, log, erased, draft, shared, found, emitted>>

ChannelStatement(t) ==
  InsertIfAbsent(t) \/ AddOwner(t) \/ UpdateChannel(t) \/ SoftDeleteChannel(t)

MessageStatement(t) ==
  \/ BumpSeqForMessage(t) \/ InsertMessage(t) \/ IncrementReplyCount(t)
  \/ UpdateMessage(t) \/ SoftDeleteMessage(t) \/ DecrementReplyCount(t)
  \/ WithAttachment(t) \/ SetAttachments(t)

MemberStatement(t) ==
  \/ GetChannel(t) \/ AddMember(t) \/ RemoveMember(t) \/ TargetSeq(t) \/ MarkRead(t)
  \/ ExistsInChannel(t) \/ AddReaction(t) \/ RemoveReaction(t) \/ CountsByType(t)

UserStatement(t) ==
  FindAuthored(t) \/ ScrubAuthored(t) \/ DeleteUser(t) \/ UpsertUser(t)

Statement(t) ==
  \/ ChannelStatement(t) \/ MessageStatement(t) \/ MemberStatement(t)
  \/ UserStatement(t) \/ Persist(t) \/ Commit(t)

Next == \E t \in Tx : Begin(t) \/ Statement(t) \/ Rollback(t)

Spec == Init /\ [][Next]_vars

-----------------------------------------------------------------------------
Position == {"idle", "done", "commit", "persist", "insertIfAbsent", "addOwner",
             "updateChannel", "softDeleteChannel", "bumpSeqForMessage",
             "insertMessage", "incrementReplyCount", "updateMessage",
             "softDeleteMessage", "decrementReplyCount", "withAttachment",
             "setAttachments", "getChannel", "addMember", "removeMember",
             "targetSeq", "markRead", "existsInChannel", "addReaction",
             "removeReaction", "countsByType", "findAuthored", "scrubAuthored",
             "deleteUser", "upsertUser"}

(* Every variable, and every version of every row, has its type.           *)
WellTyped(rows) ==
  /\ Channel \in DOMAIN rows => rows[Channel] \in ChannelRow
  /\ \A m \in Message : Msg(m) \in DOMAIN rows => rows[Msg(m)] \in MessageRow
  /\ \A u \in User : Member(u) \in DOMAIN rows => rows[Member(u)] \in MemberRow
  /\ \A m \in Message, u \in User :
       Reaction(m, u) \in DOMAIN rows => rows[Reaction(m, u)] \in BOOLEAN
  /\ \A u \in User : Account(u) \in DOMAIN rows => rows[Account(u)] \in BOOLEAN

TypeOK ==
  /\ DOMAIN db = Row /\ WellTyped(db)
  /\ log \subseteq Event
  /\ request \in [Tx -> Requests \cup {None}]
  /\ at \in [Tx -> Position]
  /\ DOMAIN draft = Tx
  /\ \A t \in Tx : DOMAIN draft[t] \subseteq Row /\ WellTyped(draft[t])
  /\ shared \in [Tx -> SUBSET User]
  /\ local \in [Tx -> Nat]
  /\ found \in [Tx -> SUBSET Message]
  /\ emitted \in [Tx -> SUBSET Event]
  /\ erased \in [User -> Nat]

(* The log: what a client that replays it learns.                          *)
EventsOf(types) == {e \in log : e.type \in types}
Last(events) == CHOOSE e \in events : \A f \in events : f.seq <= e.seq

(* Events of one subject that switch it on and off, each only when it      *)
(* changes something, and the last one says how the table has it.          *)
Switches(events, on, initially, now) ==
  LET After(es) == IF es = {} THEN initially ELSE Last(es).type = on IN
    /\ now = After(events)
    /\ \A e \in events : (e.type = on) # After({f \in events : f.seq < e.seq})

(* SPEC.md section 5, "monotonic seq, allocated transactionally with the   *)
(* write": the committed events are numbered 1 to current_seq, each number *)
(* once.                                                                   *)
LogDense ==
  /\ \A e, f \in log : e.seq = f.seq => e = f
  /\ {e.seq : e \in log} = 1 .. db[Channel].seq

(* A message row and its message.new event commit together, under one seq; *)
(* its other events come later, and it is deleted once.                    *)
RowsMatchLog ==
  \A m \in Message :
    LET events == {e \in EventsOf({"message.new", "message.updated", "message.deleted"}) : e.m = m}
        created == {e \in events : e.type = "message.new"}
        deleted == {e \in events : e.type = "message.deleted"}
    IN  /\ {e.seq : e \in created} = {db[Msg(m)].seq} \ {0}
        /\ \A e \in events : db[Msg(m)].seq > 0 /\ e.seq >= db[Msg(m)].seq
        /\ Cardinality(deleted) <= 1
        /\ deleted # {} => db[Msg(m)].deleted

(* reply_count counts the replies that have not been deleted through       *)
(* MessageService.delete; a reply scrubbed with its author stays counted.  *)
ReplyCountExact ==
  \A p \in Message :
    db[Msg(p)].replies =
      Cardinality({m \in Message :
        /\ db[Msg(m)].seq > 0
        /\ db[Msg(m)].parent = p
        /\ \A e \in EventsOf({"message.deleted"}) : e.m # m})

(* A deleted message stays deleted and its text never comes back, whatever *)
(* edits and thumbnails were under way.                                    *)
DeletedForGood ==
  [][\A m \in Message : db[Msg(m)].deleted =>
       db'[Msg(m)].deleted /\ ~db'[Msg(m)].text]_vars

(* Transactions that wait for each other in a circle: Postgres aborts one  *)
(* of them.                                                                *)
Deadlocked(S) == S # {} /\ \A s \in S : Blockers(s) \cap S # {}

(* Every service locks its own rows first and the channel row last, when   *)
(* it persists its event, and of two messages the reply before its parent. *)
(* Only a send, which takes the channel row first and then a message row,  *)
(* and an erasure, which takes rows of every kind, can close a circle.     *)
LocksInOrder ==
  \A S \in SUBSET Tx : Deadlocked(S) =>
    \E s \in S : \/ at[s] \in {"insertMessage", "incrementReplyCount"}
                 \/ request[s].op = "deleteUser"

(* The members are what member.added and member.removed say, each emitted  *)
(* once per change.  The owner a channel is created with has no event, and *)
(* an erasure ends a membership without one, so that whoever folds the log *)
(* has to forget an erased user there, who may be created again.           *)
MembersMatchLog ==
  \A u \in User :
    Switches({e \in EventsOf({"member.added", "member.removed"}) :
                e.u = u /\ e.seq > erased[u]},
             "member.added", u = db[Channel].creator, db[Member(u)].joined)

(* The reactions are what reaction.new and reaction.deleted say, with the  *)
(* same exception.                                                         *)
ReactionsMatchLog ==
  \A m \in Message, u \in User :
    Switches({e \in EventsOf({"reaction.new", "reaction.deleted"}) :
                e.m = m /\ e.u = u /\ e.seq > erased[u]},
             "reaction.new", FALSE, db[Reaction(m, u)])

(* Whoever folds the log of a channel, starting over for a user where that *)
(* user was erased, has its members and its reactions, however calls that  *)
(* add and remove the same one race or are repeated, and whether or not    *)
(* the user is created again (UserRepo.upsert).                            *)
SetsMatchLog == MembersMatchLog /\ ReactionsMatchLog

(* A reader's receipts never go back while the membership lasts, and the   *)
(* last one is the pointer.                                                *)
ReceiptsInOrder ==
  \A u \in User :
    LET joined == {e.seq : e \in {f \in EventsOf({"member.added"}) : f.u = u}}
        receipts == {e \in EventsOf({"read.updated"}) :
                       e.u = u /\ \A n \in joined : n < e.seq}
    IN  /\ \A e, f \in receipts : e.seq < f.seq => e.data <= f.data
        /\ receipts # {} /\ db[Member(u)].joined => db[Member(u)].read = Last(receipts).data

(* Nothing refers to a user that is gone, whatever was being written for   *)
(* them when they were deleted.                                            *)
NoOrphans ==
  \A u \in User : ~db[Account(u)] =>
    /\ ~db[Member(u)].joined
    /\ db[Channel].creator # u
    /\ \A m \in Message : ~db[Reaction(m, u)] /\ db[Msg(m)].author # u

(* UserService.delete: the text of what a deleted user wrote is erased.    *)
(* (Attachments, and the payloads in channel_events, are left in place.)   *)
ErasedWithUser ==
  \A e \in EventsOf({"message.new"}) :
    (e.u # None /\ ~db[Account(e.u)]) => ~db[Msg(e.m)].text
==============================================================================
