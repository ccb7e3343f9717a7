----------------------------- MODULE GatewayFeed -----------------------------
(* The environments the gateway's promises need, and the mapping under     *)
(* which it implements SeqFeed: what a subscriber sees is the frames on    *)
(* its socket, which do not say what subscription they belong to; its      *)
(* cursor is the last event its current subscription put there.            *)
EXTENDS Gateway

(* The live fiber has joined the topic before the first subscribe frame is *)
(* handled: nothing in the code waits for it, but the fiber is started     *)
(* with the connection and the frame needs a round trip and two queries.   *)
AttachFirst == \A c \in Conn : asked'[c] # asked[c] => attached[c]

(* Retention keeps the newest row and does not run between a subscribe     *)
(* frame's two log queries.                                                *)
GentlePrune ==
  floor' # floor => /\ floor' < head
                    /\ \A c \in Conn : reading[c] # "since"

(* Handlers publish in the order they committed and send to each           *)
(* connection in that order, which nothing in the code sees to either.     *)
InTurn ==
  \A v, w \in Writer : job[v] # "idle" /\ event[v] < event[w] =>
    /\ job[v] = "committed" => job'[w] # "publishing"
    /\ \A c \in todo[v] : inbox'[c] # Append(inbox[c], event[w])

(* The environment under which the splice loses nothing.                   *)
GentleSpec == Init /\ [][Next /\ AttachFirst /\ GentlePrune /\ InTurn]_vars
GentleFairSpec == GentleSpec /\ Fairness

(* A log nobody prunes.                                                    *)
KeptSpec == Init /\ [][Next /\ AttachFirst /\ floor' = floor]_vars

-----------------------------------------------------------------------------

Asking(c) == open[c] = "open" /\ asked[c] # <<>>

Received(c) == Delivered(c, Subscription(c))

StatusOf(c) ==
  CASE ~Asking(c) -> "off"
    [] Asking(c) /\ Received(c) = {0} -> "resync"
    [] OTHER -> "exact"

CursorOf(c) ==
  IF Asking(c)
  THEN LET reached == Received(c) \cup {asked[c][Subscription(c)].from}
       IN  CHOOSE s \in reached : \A t \in reached : t <= s
  ELSE 0

(* The live fiber holds an event it chose for an earlier subscription.     *)
StrayOf(c) ==
  IF chosen[c] # NoFrame /\ chosen[c].sub # Subscription(c) THEN chosen[c].seq ELSE 0

WireOf(c) == [i \in 1 .. Len(out[c]) |-> out[c][i].seq]

Feed == INSTANCE SeqFeed WITH
  committed <- head,
  pruned <- floor,
  status <- [c \in Conn |-> StatusOf(c)],
  cursor <- [c \in Conn |-> CursorOf(c)],
  stray <- [c \in Conn |-> StrayOf(c)],
  wire <- [c \in Conn |-> WireOf(c)]

(* The gateway implements the feed: with publications reaching each        *)
(* connection in seq order, every frame that replay, flush, live delivery, *)
(* resubscription, crash and retention put on a socket is the next event   *)
(* of its subscription, a resync that retention makes necessary, or the    *)
(* one event of the previous subscription that a resubscription overtook.  *)
ImplementsFeed == Feed!Spec
==============================================================================
