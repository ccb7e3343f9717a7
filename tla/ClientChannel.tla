--------------------------- MODULE ClientChannel ---------------------------
(***************************************************************************)
(* The client SDK's handle on one channel: a cache of the channel that is  *)
(* filled by REST snapshots, kept by the event stream and touched by the   *)
(* answers of the client's own sends, while the connection comes and goes. *)
(*                                                                         *)
(* The server is what the other modules promise of it: a log of committed  *)
(* events, snapshots of any moment between a request and its answer, and   *)
(* one subscription per connection that delivers from a resume point on,   *)
(* in order, and exactly.                                                  *)
(*                                                                         *)
(* What the log changes are messages, the channel's own data (meta: the    *)
(* row, members and receipts) and the user's own read state, who stays a   *)
(* member.  The content of each is the seq of the event it is taken from,  *)
(* so "newer" and "missing" can be told.                                   *)
(***************************************************************************)
EXTENDS Naturals, Sequences, FiniteSetsExt

CONSTANTS
  Other,       \* messages that others send
  Own,         \* messages this client sends, with their nonces
  Meta,        \* the channel's own data
  Read,        \* the connected user's own read state
  MaxSeq,      \* bounds the log
  MaxTurns     \* bounds calls of the application and lost connections

ASSUME ClientAssumption ==
  /\ MaxSeq \in Nat /\ MaxTurns \in Nat
  /\ Other \cap Own = {}
  /\ Meta # Read /\ {Meta, Read} \cap (Other \cup Own) = {}

Message == Other \cup Own
Entity == Message \cup {Meta, Read}
Event == [e : Entity, gone : BOOLEAN]

Call == {"watch", "resync", "hydrate", "hydrateAndWatch"}

VARIABLES
  log,         \* the channel's committed events; an event's seq is its index
  floor,       \* retention has removed the events up to this seq
  connected,   \* is there a connection that has said hello
  up,          \* resume points of subscribe frames on their way to the server
  feed,        \* the server's subscription: the next seq to send, 0 for none
  down,        \* frames on their way to the client: a seq, 0 for resync_required
  requests,    \* snapshot requests under way: [call, since: Len(log) then]
  post,        \* [Own -> what has become of the POST that sends it]
  view,        \* [Entity -> seq of the event it shows, 0 when not in the cache]
  lastSeq,     \* the resume watermark
  watching,
  outbox,      \* [Own -> "none", "sending" or "failed"]
  turns,       \* calls and lost connections so far
  base,        \* history: what a preview left out lies at or below this seq
  suspect      \* history: something has happened that the cache cannot know

server == <<log, floor, feed>>
wires == <<connected, up, down>>
cache == <<view, lastSeq, base, suspect>>
vars == <<server, wires, requests, post, cache, watching, outbox, turns>>

Init ==
  /\ log = <<>> /\ floor = 0 /\ feed = 0
  /\ connected = FALSE /\ up = <<>> /\ down = <<>>
  /\ requests = {}
  /\ post = [o \in Own |-> "none"]
  /\ view = [e \in Entity |-> 0] /\ lastSeq = 0 /\ base = 0
  /\ watching = FALSE
  /\ outbox = [o \in Own |-> "none"]
  /\ turns = 0
  /\ suspect = FALSE

-----------------------------------------------------------------------------
(* The server's data as of its k-th event.                                 *)

Changes(e, k) == {i \in 1 .. k : log[i].e = e}
Version(e, k) == Max(Changes(e, k) \cup {0})
SeqOf(m) == Min(Changes(m, Len(log)))
Gone(m, k) == \E i \in Changes(m, k) : log[i].gone
LiveAt(k) == {m \in Message : Changes(m, k) # {} /\ ~Gone(m, k)}
NewestSeq(k) == Max({SeqOf(m) : m \in LiveAt(k)} \cup {0})

(* Messages are sent by others, edited and deleted by anybody, the channel *)
(* is changed, and the user marks it read, here or on another device.  A   *)
(* message is deleted once; a thumbnail that is ready late still changes   *)
(* it after that.                                                          *)
CommitOther ==
  /\ Len(log) < MaxSeq
  /\ \E event \in Event :
       /\ event.e \in Own => Changes(event.e, Len(log)) # {}
       /\ event.gone => event.e \in LiveAt(Len(log))
       /\ log' = Append(log, event)
  /\ UNCHANGED <<floor, feed, wires, requests, post, cache, watching, outbox, turns>>

(* The server stores a message whose POST the client waits for, or has     *)
(* given up on.                                                            *)
CommitOwn(o) ==
  /\ Len(log) < MaxSeq
  /\ post[o] \in {"sent", "abandoned"}
  /\ post' = [post EXCEPT ![o] = IF @ = "sent" THEN "stored" ELSE "over"]
  /\ log' = Append(log, [e |-> o, gone |-> FALSE])
  /\ UNCHANGED <<floor, feed, wires, requests, cache, watching, outbox, turns>>

(* Retention removes old events, the newest one excepted.                  *)
Prune ==
  /\ \E n \in (floor + 1) .. (Len(log) - 1) : floor' = n
  /\ UNCHANGED <<log, feed, wires, requests, post, cache, watching, outbox, turns>>

(* The gateway handles a subscribe frame: it tells a client whose resume   *)
(* point is too old, and goes live; else it delivers what comes after.     *)
Subscribe ==
  /\ up # <<>>
  /\ up' = Tail(up)
  /\ LET from == Head(up) IN
       \/ /\ 0 < from /\ from < floor
          /\ down' = Append(down, 0)
          /\ feed' = Len(log) + 1
       \/ /\ ~(0 < from /\ from < floor)
          /\ feed' = Max({from, floor}) + 1
          /\ UNCHANGED down
  /\ UNCHANGED <<log, floor, connected, requests, post, cache, watching, outbox, turns>>

Deliver ==
  /\ feed \in 1 .. Len(log)
  /\ down' = Append(down, feed)
  /\ feed' = feed + 1
  /\ UNCHANGED <<log, floor, connected, up, requests, post, cache, watching, outbox, turns>>

-----------------------------------------------------------------------------
(* The connection.  On hello the client resubscribes the watched channel.  *)

Hello ==
  /\ ~connected
  /\ connected' = TRUE
  /\ up' = IF watching THEN <<lastSeq>> ELSE <<>>
  /\ UNCHANGED <<server, down, requests, post, cache, watching, outbox, turns>>

Drop ==
  /\ connected /\ turns < MaxTurns
  /\ turns' = turns + 1
  /\ connected' = FALSE /\ up' = <<>> /\ down' = <<>> /\ feed' = 0
  /\ UNCHANGED <<log, floor, requests, post, cache, watching, outbox>>

(* A frame that is sent without a connection is silently not sent.         *)
SubscribeFrom(seq) == up' = IF connected THEN Append(up, seq) ELSE up

-----------------------------------------------------------------------------
(* The reducer.  An event is applied when it arrives, whatever the cache   *)
(* shows; the watermark takes the largest seq.                             *)

(* A later change of e is already behind the watermark: it will not come   *)
(* again after version s of e has been put into the cache.                 *)
Outdated(e, s) == \E i \in Changes(e, lastSeq) : i > s

OutOfTurn(s) == s > lastSeq + 1 \/ Outdated(log[s].e, s)

ApplyEvent(s) ==
  /\ view' = [view EXCEPT ![log[s].e] = s]
  /\ lastSeq' = Max({lastSeq, s})
  /\ suspect' = (suspect \/ OutOfTurn(s))
  /\ UNCHANGED base

(* A wrong variant: a send that has failed stays in the outbox.            *)
ConfirmedSending(ms) ==
  [o \in Own |-> IF o \in ms /\ outbox[o] = "sending" THEN "none" ELSE outbox[o]]

Confirmed(ms) == [o \in Own |-> IF o \in ms THEN "none" ELSE outbox[o]]

HandleEvent ==
  /\ down # <<>> /\ Head(down) > 0
  /\ down' = Tail(down)
  /\ ApplyEvent(Head(down))
  /\ LET event == log[Head(down)] IN
       outbox' = Confirmed(IF event.gone THEN {} ELSE {event.e})
  /\ UNCHANGED <<server, connected, up, requests, post, watching, turns>>

(* resync_required: the client asks for new snapshots.                     *)
HandleResync ==
  /\ down # <<>> /\ Head(down) = 0
  /\ down' = Tail(down)
  /\ requests' = requests \cup {[call |-> "resync", since |-> Len(log)]}
  /\ UNCHANGED <<server, connected, up, post, cache, watching, outbox, turns>>

-----------------------------------------------------------------------------
(* Snapshots.  watch() and queryChannels() are calls of the application;   *)
(* each statement of a request reads the server at a moment of its own.    *)

Ask(call) ==
  /\ call # "resync" /\ turns < MaxTurns
  /\ turns' = turns + 1
  /\ requests' = requests \cup {[call |-> call, since |-> Len(log)]}
  /\ UNCHANGED <<server, wires, post, cache, watching, outbox>>

(* Wrong variants: resume where the row stands, or behind it.              *)
LoadedSeqOfRow(head, page) == head
LoadedSeqNext(head, page) == head + 1

(* readFrom: a snapshot never takes back a newer read state.               *)
ReadFrom(k) == Max({view[Read], Version(Read, k)})

(* The state that loadInitial builds from the channel row as of event head *)
(* and the page of messages as of event page.                              *)
LoadedSeq(head, page) == Min({head, NewestSeq(page)})

LoadInitial(head, page) ==
  /\ view' = [e \in Entity |->
                CASE e = Meta -> Version(Meta, head)
                  [] e = Read -> ReadFrom(head)
                  [] e \in LiveAt(page) -> Version(e, page)
                  [] OTHER -> 0]
  /\ lastSeq' = LoadedSeq(head, page)
  /\ base' = 0 /\ suspect' = FALSE
  /\ outbox' = Confirmed(LiveAt(page))

(* watch() subscribes; resync() does if the channel is watched.            *)
Load(r) ==
  /\ r \in requests /\ r.call \in {"watch", "resync"}
  /\ requests' = requests \ {r}
  /\ \E head, page \in r.since .. Len(log) : LoadInitial(head, page)
  /\ watching' = (watching \/ r.call = "watch")
  /\ IF watching' THEN SubscribeFrom(lastSeq') ELSE UNCHANGED up
  /\ UNCHANGED <<server, connected, down, post, turns>>

(* The latest message as of event body, if there is one.                   *)
Latest(body) == {m \in LiveAt(body) : SeqOf(m) = NewestSeq(body)}

HydrateWatched(head, body) ==
  LET added == {m \in Latest(body) : view[m] = 0} IN
  /\ view' = [e \in Entity |->
                CASE e = Read -> ReadFrom(head)
                  [] e \in added -> Version(e, body)
                  [] OTHER -> view[e]]
  /\ suspect' = (suspect \/ \E m \in added : Outdated(m, Version(m, body)))
  /\ UNCHANGED <<lastSeq, base>>

HydratePreview(head, body) ==
  /\ view' = [e \in Entity |->
                CASE e = Meta -> Version(Meta, head)
                  [] e = Read -> ReadFrom(head)
                  [] e \in Latest(body) -> Version(e, body)
                  [] OTHER -> 0]
  /\ lastSeq' = head /\ base' = head /\ suspect' = FALSE

(* The hydrated channel: its row is read first, its latest message later.  *)
Hydrate(r) ==
  /\ r \in requests /\ r.call \in {"hydrate", "hydrateAndWatch"}
  /\ requests' = requests \ {r}
  /\ \E head \in r.since .. Len(log) : \E body \in head .. Len(log) :
       /\ IF watching THEN HydrateWatched(head, body) ELSE HydratePreview(head, body)
       /\ outbox' = Confirmed(Latest(body))
  /\ watching' = (watching \/ r.call = "hydrateAndWatch")
  /\ IF r.call = "hydrateAndWatch" THEN SubscribeFrom(lastSeq') ELSE UNCHANGED up
  /\ UNCHANGED <<server, connected, down, post, turns>>

(* The request fails: nothing asks again, not even after a resync_required *)
(* whose events the client has not got.                                    *)
RequestFails(r) ==
  /\ r \in requests
  /\ requests' = requests \ {r}
  /\ suspect' = (suspect \/ r.call = "resync")
  /\ UNCHANGED <<server, wires, post, view, lastSeq, base, watching, outbox, turns>>

Unwatch ==
  /\ watching /\ turns < MaxTurns
  /\ turns' = turns + 1
  /\ watching' = FALSE
  /\ UNCHANGED <<server, wires, requests, post, cache, outbox>>

(* Beside its event, a new read state comes as the answer of markRead and  *)
(* as a notification to the user, late or not at all.  Both are taken as   *)
(* they come and move no watermark.                                        *)
ReadArrives(s) ==
  /\ s \in Changes(Read, Len(log))
  /\ view' = [view EXCEPT ![Read] = s]
  /\ suspect' = (suspect \/ Outdated(Read, s))
  /\ UNCHANGED <<server, wires, requests, post, lastSeq, base, watching, outbox, turns>>

-----------------------------------------------------------------------------
(* Optimistic sends.                                                       *)

SendMessage(o) ==
  /\ post[o] = "none"
  /\ post' = [post EXCEPT ![o] = "sent"]
  /\ outbox' = [outbox EXCEPT ![o] = "sending"]
  /\ UNCHANGED <<server, wires, requests, cache, watching, turns>>

(* The answer carries the message as the send stored it.                   *)
SendAnswered(o) ==
  /\ post[o] = "stored"
  /\ post' = [post EXCEPT ![o] = "over"]
  /\ ApplyEvent(SeqOf(o))
  /\ outbox' = Confirmed({o})
  /\ UNCHANGED <<server, wires, requests, watching, turns>>

(* The request fails, before or after the server has stored the message.   *)
SendFails(o) ==
  /\ post[o] \in {"sent", "stored"}
  /\ post' = [post EXCEPT ![o] = IF @ = "sent" THEN "abandoned" ELSE "over"]
  /\ outbox' = [outbox EXCEPT ![o] = IF @ = "none" THEN @ ELSE "failed"]
  /\ UNCHANGED <<server, wires, requests, cache, watching, turns>>

-----------------------------------------------------------------------------
Receive == HandleEvent \/ HandleResync

Next ==
  \/ CommitOther \/ Prune \/ Subscribe \/ Deliver
  \/ Hello \/ Drop \/ Receive \/ Unwatch
  \/ \E call \in Call : Ask(call)
  \/ \E r \in requests : Load(r) \/ Hydrate(r) \/ RequestFails(r)
  \/ \E s \in 1 .. Len(log) : ReadArrives(s)
  \/ \E o \in Own : CommitOwn(o) \/ SendMessage(o) \/ SendAnswered(o) \/ SendFails(o)

Spec == Init /\ [][Next]_vars

-----------------------------------------------------------------------------
TypeOK ==
  /\ log \in Seq(Event) /\ floor \in 0 .. Len(log) /\ feed \in 0 .. Len(log) + 1
  /\ connected \in BOOLEAN /\ watching \in BOOLEAN
  /\ up \in Seq(0 .. Len(log)) /\ down \in Seq(0 .. Len(log))
  /\ requests \subseteq [call : Call, since : 0 .. Len(log)]
  /\ post \in [Own -> {"none", "sent", "stored", "abandoned", "over"}]
  /\ view \in [Entity -> 0 .. Len(log)] /\ lastSeq \in 0 .. Len(log)
  /\ outbox \in [Own -> {"none", "sending", "failed"}]
  /\ turns \in Nat /\ base \in Nat /\ suspect \in BOOLEAN

(* The cache shows the newest version of everything, except for what a     *)
(* preview never loaded and for deleted messages a snapshot left out.      *)
Exact ==
  \A e \in Entity :
    LET newest == Version(e, Len(log)) IN
      \/ view[e] = newest
      \/ view[e] = 0 /\ (newest <= base \/ Gone(e, Len(log)))

(* Nothing is on its way that could still change the cache.                *)
Settled ==
  /\ connected /\ watching /\ requests = {}
  /\ up = <<>> /\ down = <<>> /\ feed \notin 1 .. Len(log)

(* SPEC.md:65: every event "replays over the rebuilt state", and a late    *)
(* snapshot does not "permanently revert an edit or delete".  Whatever     *)
(* snapshots, events, sends and reconnections came in which order, a cache *)
(* that has nothing to wait for is exact, unless one of three things has   *)
(* happened since it was loaded: an event past a gap was applied, a        *)
(* version whose successor had passed by was put back, or a resync failed. *)
Converges == Settled /\ ~suspect => Exact /\ lastSeq = Len(log)

(* state.ts:20: lastSeq "is the resume watermark", and protocol.md:46: "no  *)
(* gap".  A cache that has nothing to wait for holds some version of       *)
(* everything that was not deleted or left out by a preview, with no       *)
(* exception for what the answers of sends do to the watermark.            *)
NothingMissed ==
  Settled => \A e \in Entity :
    view[e] > 0 \/ Version(e, Len(log)) <= base \/ Gone(e, Len(log))

(* outbox.ts: "order-independent and never duplicates".  A message is      *)
(* never shown as confirmed and as optimistic at the same time.            *)
ShownOnce ==
  \A o \in Own : outbox[o] # "none" => view[o] = 0 \/ log[view[o]].gone
=============================================================================
