------------------------------- MODULE Gateway -------------------------------
(***************************************************************************)
(* The WebSocket gateway of one channel: request handlers commit events to *)
(* the channel's log and publish them to the in-process backplane, and     *)
(* every connection splices a replay of the log with the live stream.      *)
(*                                                                         *)
(* A connection is two fibers: "receive" runs the subscribe frames one     *)
(* after the other, "live" drains the connection's topic queue.  They      *)
(* share the ResumeBuffer phase, which each reads and writes atomically    *)
(* (Ref.modify), and the outbound queue.  Everything else interleaves: the *)
(* commit of an event, its publication, each per-connection send, the two  *)
(* log queries of a replay, each frame offered to the socket.              *)
(***************************************************************************)
EXTENDS Naturals, Sequences, FiniteSets

CONSTANTS
  Conn,        \* connection lifetimes: a reconnect is another element
  Writer,      \* request-handler fibers that commit and publish events
  MaxSeq,      \* bound: events committed to the channel
  MaxSubs,     \* bound: subscribe frames handled on one connection
  LastSeen,    \* the resume points clients send
  MaxQueued    \* capacity of a connection's topic queue (1024 in the code)

ASSUME GatewayAssumption ==
  /\ MaxSeq \in Nat
  /\ MaxSubs \in Nat
  /\ LastSeen \subseteq Nat
  /\ MaxQueued \in Nat \ {0}

VARIABLES
  head,        \* highest committed seq: the log is 1..head
  floor,       \* highest pruned seq: rows floor+1..head are still readable
  job,         \* [Writer -> "idle", "committed" or "publishing"]
  event,       \* [Writer -> the seq the handler committed, 0 when idle]
  todo,        \* [Writer -> topic subscribers publish1 has still to send to]
  open,        \* [Conn -> "new", "open" or "closed"]
  attached,    \* [Conn -> the live fiber holds a topic subscription]
  inbox,       \* [Conn -> seqs queued for the live fiber]
  phase,       \* [Conn -> "none", "replaying" or "live"] (ResumeBuffer)
  buffer,      \* [Conn -> seqs captured while replaying]
  hwm,         \* [Conn -> high-water seq while live]
  reading,     \* [Conn -> where the receive fiber is in subscribeChannel]
  pending,     \* [Conn -> seqs the receive fiber has still to emit]
  mark,        \* [Conn -> highest seq the running replay has covered]
  chosen,      \* [Conn -> the frame the live fiber has decided to emit]
  asked,       \* [Conn -> one record per subscribe frame] (history)
  out          \* [Conn -> frames offered to the socket, in order] (history)

connVars == <<open, attached, inbox, phase, buffer, hwm, reading, pending,
              mark, chosen, asked, out>>
writerVars == <<job, event, todo>>
vars == <<head, floor, writerVars, connVars>>

-----------------------------------------------------------------------------
(* A frame carries the number of the subscription whose state let it       *)
(* through; seq 0 is the resync_required frame.                            *)
Frame == [sub : Nat, seq : Nat]
NoFrame == [sub |-> 0, seq |-> 0]

Subscription(c) == Len(asked[c])

Init ==
  /\ head = 0
  /\ floor = 0
  /\ job = [w \in Writer |-> "idle"]
  /\ event = [w \in Writer |-> 0]
  /\ todo = [w \in Writer |-> {}]
  /\ open = [c \in Conn |-> "new"]
  /\ attached = [c \in Conn |-> FALSE]
  /\ inbox = [c \in Conn |-> <<>>]
  /\ phase = [c \in Conn |-> "none"]
  /\ buffer = [c \in Conn |-> {}]
  /\ hwm = [c \in Conn |-> 0]
  /\ reading = [c \in Conn |-> "idle"]
  /\ pending = [c \in Conn |-> {}]
  /\ mark = [c \in Conn |-> 0]
  /\ chosen = [c \in Conn |-> NoFrame]
  /\ asked = [c \in Conn |-> <<>>]
  /\ out = [c \in Conn |-> <<>>]

-----------------------------------------------------------------------------
(* Request handlers.  Allocating the seq, writing the rows and committing  *)
(* is one step: the transaction holds the channel row's lock from the      *)
(* allocation to the commit, so transactions commit in seq order.          *)
Commit(w) ==
  /\ job[w] = "idle"
  /\ head < MaxSeq
  /\ head' = head + 1
  /\ job' = [job EXCEPT ![w] = "committed"]
  /\ event' = [event EXCEPT ![w] = head + 1]
  /\ UNCHANGED <<floor, todo, connVars>>

(* Topic.publish1 reads the subscribers once ...                           *)
Publish(w) ==
  /\ job[w] = "committed"
  /\ job' = [job EXCEPT ![w] = "publishing"]
  /\ todo' = [todo EXCEPT ![w] = {c \in Conn : attached[c]}]
  /\ UNCHANGED <<head, floor, event, connVars>>

(* Wrong variant, for the mutation checks: a send to a subscriber that has *)
(* gone waits for it.                                                      *)
SendToGone(w, c) ==
  /\ job[w] = "publishing"
  /\ c \in todo[w]
  /\ attached[c]
  /\ Len(inbox[c]) < MaxQueued
  /\ todo' = [todo EXCEPT ![w] = @ \ {c}]
  /\ inbox' = [inbox EXCEPT ![c] = Append(@, event[w])]
  /\ UNCHANGED <<head, floor, job, event, open, attached, phase, buffer, hwm,
                 reading, pending, mark, chosen, asked, out>>

(* ... and sends to them one by one, waiting while a queue is full; a send *)
(* to a subscriber that has gone is dropped.                               *)
SendTo(w, c) ==
  /\ job[w] = "publishing"
  /\ c \in todo[w]
  /\ todo' = [todo EXCEPT ![w] = @ \ {c}]
  /\ \/ /\ attached[c]
        /\ Len(inbox[c]) < MaxQueued
        /\ inbox' = [inbox EXCEPT ![c] = Append(@, event[w])]
     \/ /\ ~attached[c]
        /\ UNCHANGED inbox
  /\ UNCHANGED <<head, floor, job, event, open, attached, phase, buffer, hwm,
                 reading, pending, mark, chosen, asked, out>>

Published(w) ==
  /\ job[w] = "publishing"
  /\ todo[w] = {}
  /\ job' = [job EXCEPT ![w] = "idle"]
  /\ event' = [event EXCEPT ![w] = 0]
  /\ UNCHANGED <<head, floor, todo, connVars>>

(* Retention is external: nothing in the server deletes channel_events,    *)
(* but the gateway is written for a log whose oldest rows are gone.        *)
Prune ==
  /\ \E f \in (floor + 1) .. head : floor' = f
  /\ UNCHANGED <<head, writerVars, connVars>>

-----------------------------------------------------------------------------
(* Connection lifetime.  accept builds the queue and the ResumeBuffer; the *)
(* live fiber subscribes to the topic on its own time.                     *)
Accept(c) ==
  /\ open[c] = "new"
  /\ open' = [open EXCEPT ![c] = "open"]
  /\ UNCHANGED <<head, floor, writerVars, attached, inbox, phase, buffer, hwm,
                 reading, pending, mark, chosen, asked, out>>

Attach(c) ==
  /\ open[c] = "open"
  /\ ~attached[c]
  /\ attached' = [attached EXCEPT ![c] = TRUE]
  /\ UNCHANGED <<head, floor, writerVars, open, inbox, phase, buffer, hwm,
                 reading, pending, mark, chosen, asked, out>>

(* The socket ends (client, network or watchdog): both fibers are cut      *)
(* wherever they are and their state is garbage.                           *)
Dropped(S) ==
  /\ open' = [c \in Conn |-> IF c \in S THEN "closed" ELSE open[c]]
  /\ attached' = [c \in Conn |-> attached[c] /\ c \notin S]
  /\ inbox' = [c \in Conn |-> IF c \in S THEN <<>> ELSE inbox[c]]
  /\ phase' = [c \in Conn |-> IF c \in S THEN "none" ELSE phase[c]]
  /\ buffer' = [c \in Conn |-> IF c \in S THEN {} ELSE buffer[c]]
  /\ hwm' = [c \in Conn |-> IF c \in S THEN 0 ELSE hwm[c]]
  /\ reading' = [c \in Conn |-> IF c \in S THEN "idle" ELSE reading[c]]
  /\ pending' = [c \in Conn |-> IF c \in S THEN {} ELSE pending[c]]
  /\ mark' = [c \in Conn |-> IF c \in S THEN 0 ELSE mark[c]]
  /\ chosen' = [c \in Conn |-> IF c \in S THEN NoFrame ELSE chosen[c]]
  /\ UNCHANGED <<asked, out>>

Close(c) ==
  /\ open[c] = "open"
  /\ Dropped({c})
  /\ UNCHANGED <<head, floor, writerVars>>

(* The process dies and comes back: committed rows survive, publications   *)
(* in flight and every connection do not.                                  *)
Restart ==
  /\ \E c \in Conn : open[c] = "open"
  /\ Dropped({c \in Conn : open[c] = "open"})
  /\ job' = [w \in Writer |-> "idle"]
  /\ event' = [w \in Writer |-> 0]
  /\ todo' = [w \in Writer |-> {}]
  /\ UNCHANGED <<head, floor>>

-----------------------------------------------------------------------------
(* The receive fiber: subscribeChannel.                                    *)

(* Wrong variant: the resume point itself is replayed again.               *)
ResumeAtInclusive(c, lastSeen) ==
  /\ asked' = [asked EXCEPT ![c] = Append(@, [from |-> lastSeen])]
  /\ mark' = [mark EXCEPT ![c] = lastSeen - 1]

ResumeAt(c, lastSeen) ==
  /\ asked' = [asked EXCEPT ![c] = Append(@, [from |-> lastSeen])]
  /\ mark' = [mark EXCEPT ![c] = lastSeen]

BeginReplay(c) ==
  /\ open[c] = "open"
  /\ reading[c] = "idle"
  /\ Subscription(c) < MaxSubs
  /\ \E lastSeen \in LastSeen : ResumeAt(c, lastSeen)
  /\ phase' = [phase EXCEPT ![c] = "replaying"]
  /\ buffer' = [buffer EXCEPT ![c] = {}]
  /\ hwm' = [hwm EXCEPT ![c] = 0]
  /\ reading' = [reading EXCEPT ![c] = "earliest"]
  /\ UNCHANGED <<head, floor, writerVars, open, attached, inbox, pending,
                 chosen, out>>

(* Wrong variant: a gap at the start of the log is never noticed.          *)
AlwaysRecoverable(lastSeen) == FALSE

(* earliest is null when no row is retained, and a null is never           *)
(* unrecoverable; lastSeen = 0 never is either.                            *)
Unrecoverable(lastSeen) ==
  /\ lastSeen > 0
  /\ floor < head
  /\ floor + 1 > lastSeen + 1

EarliestSeq(c) ==
  /\ reading[c] = "earliest"
  /\ \/ /\ Unrecoverable(mark[c])
        /\ out' = [out EXCEPT ![c] = Append(@, [sub |-> Subscription(c), seq |-> 0])]
        /\ reading' = [reading EXCEPT ![c] = "emit"]
     \/ /\ ~Unrecoverable(mark[c])
        /\ reading' = [reading EXCEPT ![c] = "since"]
        /\ UNCHANGED out
  /\ UNCHANGED <<head, floor, writerVars, open, attached, inbox, phase, buffer,
                 hwm, pending, mark, chosen, asked>>

(* Wrong variant: the newest row is missed.                                *)
RetainedBeforeHead == (floor + 1) .. (head - 1)

Retained == (floor + 1) .. head

Since(c) ==
  /\ reading[c] = "since"
  /\ pending' = [pending EXCEPT ![c] = {s \in Retained : s > mark[c]}]
  /\ reading' = [reading EXCEPT ![c] = "emit"]
  /\ UNCHANGED <<head, floor, writerVars, open, attached, inbox, phase, buffer,
                 hwm, mark, chosen, asked, out>>

(* events.traverse_(emit) and pending.traverse_(emit): ascending, one      *)
(* offer at a time.  When pending is empty mark is the seq of its last     *)
(* event, the watermark that flush and its loop are called with.           *)
Emit(c) ==
  /\ reading[c] = "emit"
  /\ \E s \in pending[c] :
       /\ \A t \in pending[c] : s <= t
       /\ out' = [out EXCEPT ![c] = Append(@, [sub |-> Subscription(c), seq |-> s])]
       /\ pending' = [pending EXCEPT ![c] = @ \ {s}]
       /\ mark' = [mark EXCEPT ![c] = s]
  /\ UNCHANGED <<head, floor, writerVars, open, attached, inbox, phase, buffer,
                 hwm, reading, chosen, asked>>

(* Wrong variants: the flush repeats what the replay covered; or drops     *)
(* what arrived during it.                                                 *)
FreshUnfiltered(c) == buffer[c]
FreshForgotten(c) == {}

(* What flush takes from the buffer.  The buffer is a set because flush    *)
(* removes duplicates and sorts.                                           *)
Fresh(c) == {s \in buffer[c] : s > mark[c]}

(* One turn of flush's loop, a single modify: take what was buffered past  *)
(* the mark, or go live when nothing was.                                  *)
Flush(c) ==
  /\ reading[c] = "emit"
  /\ pending[c] = {}
  /\ buffer' = [buffer EXCEPT ![c] = {}]
  /\ \/ /\ Fresh(c) = {}
        /\ phase' = [phase EXCEPT ![c] = "live"]
        /\ hwm' = [hwm EXCEPT ![c] = mark[c]]
        /\ reading' = [reading EXCEPT ![c] = "idle"]
        /\ UNCHANGED pending
     \/ /\ Fresh(c) # {}
        /\ pending' = [pending EXCEPT ![c] = Fresh(c)]
        /\ UNCHANGED <<phase, hwm, reading>>
  /\ UNCHANGED <<head, floor, writerVars, open, attached, inbox, mark, chosen,
                 asked, out>>

-----------------------------------------------------------------------------

NewToLive(c, s) == s > hwm[c]

(* The live fiber: onLive decides on one event, and only then is the event *)
(* offered to the socket.                                                  *)
OnLive(c) ==
  /\ inbox[c] # <<>>
  /\ chosen[c] = NoFrame
  /\ inbox' = [inbox EXCEPT ![c] = Tail(@)]
  /\ LET s == Head(inbox[c]) IN
       \/ /\ phase[c] = "replaying"
          /\ buffer' = [buffer EXCEPT ![c] = @ \cup {s}]
          /\ UNCHANGED <<hwm, chosen>>
       \/ /\ phase[c] = "live"
          /\ NewToLive(c, s)
          /\ hwm' = [hwm EXCEPT ![c] = s]
          /\ chosen' = [chosen EXCEPT ![c] = [sub |-> Subscription(c), seq |-> s]]
          /\ UNCHANGED buffer
       \/ /\ phase[c] = "none" \/ (phase[c] = "live" /\ ~NewToLive(c, s))
          /\ UNCHANGED <<buffer, hwm, chosen>>
  /\ UNCHANGED <<head, floor, writerVars, open, attached, phase, reading,
                 pending, mark, asked, out>>

LiveEmit(c) ==
  /\ chosen[c] # NoFrame
  /\ out' = [out EXCEPT ![c] = Append(@, chosen[c])]
  /\ chosen' = [chosen EXCEPT ![c] = NoFrame]
  /\ UNCHANGED <<head, floor, writerVars, open, attached, inbox, phase, buffer,
                 hwm, reading, pending, mark, asked>>

-----------------------------------------------------------------------------
WriterStep(w) ==
  Commit(w) \/ Publish(w) \/ Published(w) \/ \E c \in Conn : SendTo(w, c)

ReceiveStep(c) == EarliestSeq(c) \/ Since(c) \/ Emit(c) \/ Flush(c)

LiveStep(c) == Attach(c) \/ OnLive(c) \/ LiveEmit(c)

Next ==
  \/ \E w \in Writer : WriterStep(w)
  \/ \E c \in Conn : Accept(c) \/ BeginReplay(c) \/ ReceiveStep(c)
                     \/ LiveStep(c) \/ Close(c)
  \/ Restart
  \/ Prune

Spec == Init /\ [][Next]_vars

(* The effect runtime schedules every runnable fiber and the database      *)
(* answers; clients, requests, crashes and retention owe nothing.          *)
Fairness ==
  /\ \A w \in Writer : WF_vars(Publish(w)) /\ WF_vars(Published(w))
  /\ \A w \in Writer, c \in Conn : WF_vars(SendTo(w, c))
  /\ \A c \in Conn : WF_vars(ReceiveStep(c)) /\ WF_vars(LiveStep(c))

FairSpec == Spec /\ Fairness

-----------------------------------------------------------------------------
(* Every variable has its type.                                            *)
TypeOK ==
  /\ head \in Nat
  /\ floor \in Nat
  /\ job \in [Writer -> {"idle", "committed", "publishing"}]
  /\ event \in [Writer -> Nat]
  /\ todo \in [Writer -> SUBSET Conn]
  /\ open \in [Conn -> {"new", "open", "closed"}]
  /\ attached \in [Conn -> BOOLEAN]
  /\ inbox \in [Conn -> Seq(Nat)]
  /\ phase \in [Conn -> {"none", "replaying", "live"}]
  /\ buffer \in [Conn -> SUBSET Nat]
  /\ hwm \in [Conn -> Nat]
  /\ reading \in [Conn -> {"idle", "earliest", "since", "emit"}]
  /\ pending \in [Conn -> SUBSET Nat]
  /\ mark \in [Conn -> Nat]
  /\ chosen \in [Conn -> Frame]
  /\ asked \in [Conn -> Seq([from : Nat])]
  /\ out \in [Conn -> Seq(Frame)]

(* ResumeBuffer's "exactly once, in seq order": the frames one             *)
(* subscription lets through leave the connection in strictly ascending    *)
(* seq order, however the handlers' publications, the replay, the flush    *)
(* and the live fiber interleave, and however often the client             *)
(* resubscribes.                                                           *)
OrderedOnce ==
  \A c \in Conn : \A i, j \in 1 .. Len(out[c]) :
    (i < j /\ out[c][i].sub = out[c][j].sub) => out[c][i].seq < out[c][j].seq

(* A subscription delivers only events that are committed and lie past the *)
(* resume point its subscribe frame named: a frame chosen under one        *)
(* subscription and emitted under the next included.                       *)
OnlyAskedFor ==
  \A c \in Conn : \A i \in 1 .. Len(out[c]) :
    LET f == out[c][i] IN
      /\ f.sub \in 1 .. Len(asked[c])
      /\ f.seq > 0 => f.seq > asked[c][f.sub].from /\ f.seq <= head

(* All frames let through by subscription n of c so far are at most s.     *)
UpTo(c, n, s) ==
  \A i \in 1 .. Len(out[c]) : out[c][i].sub = n => out[c][i].seq <= s

(* Every seq on its way to a connection is the seq of a committed event.   *)
InFlight ==
  /\ \A w \in Writer : job[w] # "idle" => event[w] \in 1 .. head
  /\ \A c \in Conn : \A i \in 1 .. Len(inbox[c]) : inbox[c][i] \in 1 .. head
  /\ \A c \in Conn : buffer[c] \subseteq 1 .. head

(* The receive fiber's position and the ResumeBuffer phase agree; what the *)
(* running subscription has let through is bounded by mark while it        *)
(* replays and by hwm once it is live, and what it will still let through  *)
(* lies above.                                                             *)
Splice(c) ==
  /\ reading[c] = "idle" <=> phase[c] # "replaying"
  /\ phase[c] # "none" => asked[c] # <<>>
  /\ reading[c] # "emit" => pending[c] = {}
  /\ reading[c] \in {"earliest", "since"} =>
       /\ mark[c] = asked[c][Subscription(c)].from
       /\ \A i \in 1 .. Len(out[c]) : out[c][i].sub # Subscription(c)
  /\ reading[c] = "emit" =>
       /\ asked[c][Subscription(c)].from <= mark[c]
       /\ UpTo(c, Subscription(c), mark[c])
       /\ \A s \in pending[c] : mark[c] < s /\ s <= head
  /\ phase[c] = "live" =>
       /\ asked[c][Subscription(c)].from <= hwm[c]
       /\ UpTo(c, Subscription(c), hwm[c])

(* A frame the live fiber has decided on is still the newest of the        *)
(* subscription that let it through, even if another one runs by now.      *)
Decision(c) ==
  chosen[c] # NoFrame =>
    /\ chosen[c].sub \in 1 .. Len(asked[c])
    /\ asked[c][chosen[c].sub].from < chosen[c].seq
    /\ chosen[c].seq <= head
    /\ \A i \in 1 .. Len(out[c]) :
         out[c][i].sub = chosen[c].sub => out[c][i].seq < chosen[c].seq
    /\ chosen[c].sub = Subscription(c) =>
         phase[c] = "live" /\ chosen[c].seq <= hwm[c]

(* The splice is exact in every state between two steps of its two fibers: *)
(* the inductive invariant behind OrderedOnce and OnlyAskedFor.            *)
SpliceInv ==
  /\ InFlight
  /\ \A c \in Conn : Splice(c) /\ Decision(c)

(* The seqs subscription n of connection c has put on the socket.          *)
Delivered(c, n) ==
  {out[c][i].seq : i \in {k \in 1 .. Len(out[c]) : out[c][k].sub = n}}

(* WsRoutes' "loses nothing": the events of one subscription leave no hole *)
(* between them, and none before the first unless the client was told to   *)
(* resync; a client with no resume point may miss what retention removed.  *)
NoGap ==
  \A c \in Conn : \A n \in 1 .. Len(asked[c]) :
    LET seqs == Delivered(c, n)
        from == asked[c][n].from
    IN  \A s \in seqs \ {0} :
          \/ s - 1 \in seqs \cup {from}
          \/ 0 \in seqs /\ \A t \in seqs : t = 0 \/ s <= t
          \/ from = 0 /\ s <= floor + 1

(* Once a connection has answered a subscribe frame, every committed event *)
(* past its resume point reaches the socket, unless the client was told to *)
(* resync, subscribed again or went away, or retention removed the event.  *)
EventuallyDelivered ==
  \A c \in Conn : \A n \in 1 .. MaxSubs : \A s \in 1 .. MaxSeq :
    (Subscription(c) = n /\ s <= head /\ s > asked[c][n].from)
      ~> \/ s \in Delivered(c, n) \/ 0 \in Delivered(c, n)
         \/ Subscription(c) # n \/ open[c] # "open" \/ s <= floor

(* A handler's request is answered: publishing an event always finishes,   *)
(* whatever the subscribers' queues and connections do meanwhile.          *)
PublishTerminates ==
  \A w \in Writer : job[w] # "idle" ~> job[w] = "idle"
==============================================================================
