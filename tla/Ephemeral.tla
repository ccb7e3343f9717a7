------------------------------ MODULE Ephemeral ------------------------------
(***************************************************************************)
(* What the gateway tells but never stores: who is online and who types.   *)
(* The registry counts the connections of a user, a tracker per connection *)
(* holds what its user types.  Both decide in one atomic step whether      *)
(* something is to be told, and tell it later, from whichever fiber        *)
(* decided: the handler of a frame, an expiry timer, the cleanup of a      *)
(* connection, or a fiber of its own.                                      *)
(*                                                                         *)
(* One peer, who shares one channel with everybody and watches it, stands  *)
(* for all; it shows what it was told last.  A decision that waits to be   *)
(* told is marked while it is the newest one of its user or connection, so *)
(* that it can be said whether the last one told was the last one made.    *)
(***************************************************************************)
EXTENDS Naturals

CONSTANTS
  User,
  Conn,        \* connections
  Owner,       \* [Conn -> User]
  MaxStarts    \* [Conn -> Nat], bounds the typing.start frames

ASSUME EphemeralAssumption ==
  /\ Owner \in [Conn -> User]
  /\ MaxStarts \in [Conn -> Nat]

VARIABLES
  conn,      \* [Conn -> where its life is]
  count,     \* [User -> perUser of the registry]
  notices,   \* presence decisions not told yet
  informed,  \* [User -> was the newest presence decision the last one told]
  online,    \* [User -> does the peer show the user online]
  entry,     \* [Conn -> generation of the tracker's entry, 0 for none]
  gen,       \* [Conn -> the tracker's generations counter]
  armed,     \* [Conn -> generations whose expiry timer is running]
  signals,   \* typing decisions not told yet
  current,   \* [Conn -> was the newest typing decision the last one told]
  shown,     \* [User -> does the peer show a typing indicator]
  typing     \* history: [Conn -> generation of the last start frame, or 0
             \*            after a stop frame or the end of the connection]

presence == <<conn, count, notices, informed, online>>
tracker == <<entry, gen, armed, signals, current, shown, typing>>
vars == <<presence, tracker>>

(* A presence decision is named by the connection that came or went, a     *)
(* typing decision by the generation that began or ended.                  *)
Notice == [c : Conn, online : BOOLEAN, newest : BOOLEAN]
Signal == [c : Conn, gen : Nat, start : BOOLEAN, newest : BOOLEAN,
           by : {"frame", "timer", "cleanup"}]

Init ==
  /\ conn = [c \in Conn |-> "none"]
  /\ count = [u \in User |-> 0]
  /\ notices = {}
  /\ informed = [u \in User |-> TRUE]
  /\ online = [u \in User |-> FALSE]
  /\ entry = [c \in Conn |-> 0]
  /\ gen = [c \in Conn |-> 0]
  /\ armed = [c \in Conn |-> {}]
  /\ signals = {}
  /\ current = [c \in Conn |-> TRUE]
  /\ shown = [u \in User |-> FALSE]
  /\ typing = [c \in Conn |-> 0]

(* A connection that is in the registry.                                   *)
Registered(c) == conn[c] \in {"accepted", "open", "shut"}

-----------------------------------------------------------------------------
(* Presence.  A transition of the registry that is to be told.             *)
Decide(c, on) ==
  LET u == Owner[c] IN
  /\ informed' = [informed EXCEPT ![u] = FALSE]
  /\ notices' =
       {[a EXCEPT !.newest = a.newest /\ Owner[a.c] # u] : a \in notices}
         \cup {[c |-> c, online |-> on, newest |-> TRUE]}

(* register() and its wrong variant: only the user's first one ever.       *)
FirstEver(u) == \A c \in Conn : Owner[c] = u => conn[c] = "none"

First(u) == count[u] = 0

(* accept: registers, and has the first connection of a user announced by  *)
(* a fiber nobody waits for.                                               *)
Accept(c) ==
  /\ conn[c] = "none"
  /\ conn' = [conn EXCEPT ![c] = "accepted"]
  /\ count' = [count EXCEPT ![Owner[c]] = @ + 1]
  /\ IF First(Owner[c]) THEN Decide(c, TRUE) ELSE UNCHANGED <<informed, notices>>
  /\ UNCHANGED <<online, tracker>>

(* The streams of the response run, and with them the only thing that      *)
(* unregisters: a request that ends before that stays "accepted" for good. *)
StreamsStart(c) ==
  /\ conn[c] = "accepted"
  /\ conn' = [conn EXCEPT ![c] = "open"]
  /\ UNCHANGED <<count, notices, informed, online, tracker>>

(* unregister() and its wrong variant: an off-by-one.                      *)
NoneBefore(u) == count[u] = 0

Last(u) == count[u] = 1

(* The cleanup, after the tracker was shut down and has told so.           *)
Unregister(c) ==
  /\ conn[c] = "shut"
  /\ \A s \in signals : ~(s.c = c /\ s.by = "cleanup")
  /\ conn' = [conn EXCEPT ![c] = "gone"]
  /\ count' = [count EXCEPT ![Owner[c]] = @ - 1]
  /\ IF Last(Owner[c]) THEN Decide(c, FALSE) ELSE UNCHANGED <<informed, notices>>
  /\ UNCHANGED <<online, tracker>>

(* PresenceService: the peers are looked up, the disconnect is recorded,   *)
(* and each peer is told.  Best effort: a failed query ends it.            *)
FanOut(a) ==
  /\ a \in notices
  /\ notices' = notices \ {a}
  /\ informed' = [informed EXCEPT ![Owner[a.c]] = a.newest]
  /\ online' = [online EXCEPT ![Owner[a.c]] = a.online]
  /\ UNCHANGED <<conn, count, tracker>>

FanOutFails(a) ==
  /\ a \in notices
  /\ notices' = notices \ {a}
  /\ UNCHANGED <<conn, count, informed, online, tracker>>

-----------------------------------------------------------------------------
(* Typing.  A change of a tracker that is to be told.                      *)
Emit(c, g, start, by) ==
  /\ current' = [current EXCEPT ![c] = FALSE]
  /\ signals' =
       {[s EXCEPT !.newest = s.newest /\ s.c # c] : s \in signals}
         \cup {[c |-> c, gen |-> g, start |-> start, newest |-> TRUE, by |-> by]}

(* Frames of one connection are handled one after the other, each to its   *)
(* end, while the connection is open and while it is being cleaned up.     *)
Receives(c) ==
  /\ conn[c] \in {"open", "shut"}
  /\ \A s \in signals : ~(s.c = c /\ s.by = "frame")

(* The generation of a start: the counter is advanced and read in one.     *)
(* A wrong variant: it is only read.                                       *)
SameGenerations(c) == gen

Generations(c) == [gen EXCEPT ![c] = @ + 1]

(* Every start has a timer.  A wrong variant: only one that is told.       *)
ArmedIfTold(c, emit) ==
  IF emit THEN [armed EXCEPT ![c] = @ \cup {gen[c] + 1}] ELSE armed

Armed(c, emit) == [armed EXCEPT ![c] = @ \cup {gen[c] + 1}]

(* start(): told unless the user was known to type and the throttle, which *)
(* has its own clock, has not passed.                                      *)
Start(c) ==
  /\ Receives(c) /\ gen[c] < MaxStarts[c]
  /\ gen' = Generations(c)
  /\ entry' = [entry EXCEPT ![c] = gen[c] + 1]
  /\ typing' = [typing EXCEPT ![c] = gen[c] + 1]
  /\ \E emit \in IF entry[c] = 0 THEN {TRUE} ELSE BOOLEAN :
       /\ armed' = Armed(c, emit)
       /\ IF emit THEN Emit(c, gen[c] + 1, TRUE, "frame")
                  ELSE UNCHANGED <<current, signals>>
  /\ UNCHANGED <<shown, presence>>

Remove(c, by) ==
  /\ entry' = [entry EXCEPT ![c] = 0]
  /\ IF entry[c] # 0
     THEN Emit(c, entry[c], FALSE, by)
     ELSE UNCHANGED <<current, signals>>

Stop(c) ==
  /\ Receives(c)
  /\ Remove(c, "frame")
  /\ typing' = [typing EXCEPT ![c] = 0]
  /\ UNCHANGED <<gen, armed, shown, presence>>

(* expire(): only the timer of the entry.  A wrong variant: any timer.     *)
AnyTimer(c, g) == entry[c] # 0

CurrentTimer(c, g) == entry[c] = g

Expire(c, g) ==
  /\ g \in armed[c]
  /\ armed' = [armed EXCEPT ![c] = @ \ {g}]
  /\ IF CurrentTimer(c, g)
     THEN Remove(c, "timer")
     ELSE UNCHANGED <<entry, current, signals>>
  /\ UNCHANGED <<gen, shown, typing, presence>>

(* The connection ends: the first part of its cleanup is shutdown().       *)
Shutdown(c) ==
  /\ conn[c] = "open"
  /\ conn' = [conn EXCEPT ![c] = "shut"]
  /\ Remove(c, "cleanup")
  /\ typing' = [typing EXCEPT ![c] = 0]
  /\ UNCHANGED <<gen, armed, shown, count, notices, informed, online>>

Tell(s) ==
  /\ s \in signals
  /\ signals' = signals \ {s}
  /\ current' = [current EXCEPT ![s.c] = s.newest]
  /\ shown' = [shown EXCEPT ![Owner[s.c]] = s.start]
  /\ UNCHANGED <<entry, gen, armed, typing, presence>>

(* A handler that is interrupted with its connection tells nothing.        *)
HandlerInterrupted(s) ==
  /\ s \in signals /\ s.by = "frame" /\ conn[s.c] = "gone"
  /\ signals' = signals \ {s}
  /\ UNCHANGED <<entry, gen, armed, current, shown, typing, presence>>

-----------------------------------------------------------------------------
Next ==
  \/ \E c \in Conn :
       \/ Accept(c) \/ StreamsStart(c)
       \/ Shutdown(c) \/ Unregister(c)
       \/ Start(c) \/ Stop(c)
       \/ \E g \in armed[c] : Expire(c, g)
  \/ \E a \in notices : FanOut(a) \/ FanOutFails(a)
  \/ \E s \in signals : Tell(s) \/ HandlerInterrupted(s)

Spec == Init /\ [][Next]_vars

(* Timers fire, fibers that have decided tell, and a cleanup that has      *)
(* begun goes on.  Nothing makes a client connect, type or leave.          *)
Fairness ==
  /\ \A c \in Conn :
       /\ WF_vars(Unregister(c))
       /\ WF_vars(\E g \in armed[c] : Expire(c, g))
  /\ WF_vars(\E a \in notices : FanOut(a) \/ FanOutFails(a))
  /\ WF_vars(\E s \in signals : Tell(s) \/ HandlerInterrupted(s))

FairSpec == Spec /\ Fairness

-----------------------------------------------------------------------------
TypeOK ==
  /\ conn \in [Conn -> {"none", "accepted", "open", "shut", "gone"}]
  /\ count \in [User -> Nat]
  /\ notices \subseteq Notice
  /\ informed \in [User -> BOOLEAN]
  /\ online \in [User -> BOOLEAN]
  /\ gen \in [Conn -> Nat] /\ entry \in [Conn -> Nat]
  /\ armed \in [Conn -> SUBSET (Nat \ {0})]
  /\ \A c \in Conn : entry[c] <= gen[c] /\ gen[c] <= MaxStarts[c]
  /\ signals \subseteq Signal
  /\ current \in [Conn -> BOOLEAN]
  /\ shown \in [User -> BOOLEAN]
  /\ typing \in [Conn -> Nat]

(* A peer who was told the last transition last knows the truth: a user is *)
(* shown online exactly while one of their connections is in the registry, *)
(* however connects and disconnects overlap (ConnectionRegistry.scala:8).  *)
(* A handshake that failed after it registered stays there for good.       *)
PresenceTruth ==
  \A u \in User :
    informed[u] =>
      (online[u] <=> \E c \in Conn : Owner[c] = u /\ Registered(c))

(* An indicator is never stuck (TypingTracker.scala:18-20): when what each *)
(* of a user's trackers decided last was also told last, an indicator that *)
(* is shown has an entry behind it whose own timer is still running.       *)
NeverStuck ==
  \A u \in User :
    (shown[u] /\ \A c \in Conn : Owner[c] = u => current[c]) =>
      \E c \in Conn : Owner[c] = u /\ entry[c] # 0 /\ entry[c] \in armed[c]

(* A timer that a newer start has superseded does nothing: from the last   *)
(* start frame to its own timer, a stop frame or the end of the connection *)
(* the user counts as typing (TypingTracker.scala:22-25).                  *)
NotCutShort ==
  \A c \in Conn :
    typing[c] # 0 /\ typing[c] \in armed[c] => entry[c] = typing[c]

(* The last decision will not be told: it was, before an earlier one, or   *)
(* its handler was interrupted.                                            *)
Misheard(c) == ~current[c] /\ \A s \in signals : s.c # c
MisheardOf(u) == ~informed[u] /\ \A a \in notices : Owner[a.c] # u

(* Whatever the client does or fails to do, an indicator goes off again,   *)
(* unless the last decision of a tracker was overtaken or interrupted.     *)
IndicatorClears ==
  \A u \in User :
    shown[u] ~> ~shown[u] \/ \E c \in Conn : Owner[c] = u /\ Misheard(c)

(* A user whose last connection is gone is shown offline in the end,       *)
(* unless they come back or the announcement failed or was overtaken.      *)
GoesOffline ==
  \A u \in User :
    count[u] = 0 ~> ~online[u] \/ count[u] # 0 \/ MisheardOf(u)
=============================================================================
