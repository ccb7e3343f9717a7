-------------------------- MODULE ClientConnection --------------------------
(***************************************************************************)
(* The client SDK's connections.  A Connection is one object with one      *)
(* reference to a socket, one to a timer and one to the promise of a       *)
(* connect() call, but its callbacks do not look at who calls them: each   *)
(* connect() starts a chain of its own, that waits for a URL, dials, is    *)
(* live, waits for its reconnect timer and starts over, and the chains of  *)
(* one object act on the same references.                                  *)
(*                                                                         *)
(* A chain is named by the connect() call that started it.  A socket that  *)
(* is closed tells so later, in a callback; between the two it delivers    *)
(* nothing.                                                                *)
(***************************************************************************)
EXTENDS Naturals

CONSTANTS
  Conn,        \* Connection objects
  Call,        \* calls of connect()
  Token,       \* what a token provider answers
  None,
  MaxRetries   \* the policy's limit of reconnects in a row

ASSUME ConnectionAssumption ==
  /\ MaxRetries \in Nat
  /\ None \notin Conn \cup Call \cup Token

Status == {"idle", "connecting", "connected", "reconnecting", "closed"}
Phase == {"unused", "await", "dialing", "live", "closing", "timer", "over", "threw"}

VARIABLES
  status, attempt, userClosed,   \* [Conn -> ...], the fields of the object
  socket,      \* [Conn -> chain whose socket the object refers to, or None]
  timer,       \* [Conn -> chain whose timer the object refers to, or None]
  settle,      \* [Conn -> call whose promise the object can settle, or None]
  watching,    \* [Conn -> is a channel of this client watched]
  of,          \* [Call -> the object it was made on]
  phase,       \* [Call -> where its chain is]
  cred,        \* [Call -> the token in the URL of its attempt, or None]
  promise,     \* [Call -> "none", "pending", "resolved" or "rejected"]
  subscribed,  \* [Call -> has its socket been sent the subscriptions]
  doubled      \* history: objects that were connected with a chain under way

fields == <<status, attempt, userClosed, socket, timer, settle, watching>>
chains == <<of, phase, cred, promise, subscribed>>
connVars == <<fields, chains, doubled>>

ConnInit ==
  /\ status = [k \in Conn |-> "idle"]
  /\ attempt = [k \in Conn |-> 0]
  /\ userClosed = [k \in Conn |-> FALSE]
  /\ socket = [k \in Conn |-> None]
  /\ timer = [k \in Conn |-> None]
  /\ settle = [k \in Conn |-> None]
  /\ watching = [k \in Conn |-> FALSE]
  /\ of = [c \in Call |-> None]
  /\ phase = [c \in Call |-> "unused"]
  /\ cred = [c \in Call |-> None]
  /\ promise = [c \in Call |-> "none"]
  /\ subscribed = [c \in Call |-> FALSE]
  /\ doubled = {}

Active(k) == {c \in Call : of[c] = k /\ phase[c] \notin {"unused", "over", "threw"}}

(* resolve() and reject(): the promise the object refers to, if any.  A    *)
(* wrong variant first: the reference is dropped before it is used.        *)
SettleNone(k, outcome) ==
  /\ settle' = [settle EXCEPT ![k] = None]
  /\ UNCHANGED promise

Settle(k, outcome) ==
  /\ settle' = [settle EXCEPT ![k] = None]
  /\ promise' = [c \in Call |-> IF c = settle[k] THEN outcome ELSE promise[c]]

-----------------------------------------------------------------------------
(* connect().  A connected object has nothing to do.                       *)
Connected(k, c) ==
  /\ phase[c] = "unused" /\ status[k] = "connected"
  /\ of' = [of EXCEPT ![c] = k]
  /\ phase' = [phase EXCEPT ![c] = "over"]
  /\ promise' = [promise EXCEPT ![c] = "resolved"]
  /\ UNCHANGED <<fields, cred, subscribed, doubled>>

(* Any other forgets that it was closed, takes up the new promise in the   *)
(* place of an older one, and asks the URL provider, whose answer has the  *)
(* token t of this moment.                                                 *)
Connect(k, c, t) ==
  /\ phase[c] = "unused" /\ status[k] # "connected"
  /\ userClosed' = [userClosed EXCEPT ![k] = FALSE]
  /\ attempt' = [attempt EXCEPT ![k] = 0]
  /\ settle' = [settle EXCEPT ![k] = c]
  /\ status' = [status EXCEPT ![k] = "connecting"]
  /\ of' = [of EXCEPT ![c] = k]
  /\ phase' = [phase EXCEPT ![c] = "await"]
  /\ cred' = [cred EXCEPT ![c] = t]
  /\ promise' = [promise EXCEPT ![c] = "pending"]
  /\ doubled' = IF Active(k) # {} THEN doubled \cup {k} ELSE doubled
  /\ UNCHANGED <<socket, timer, watching, subscribed>>

(* close(): the socket and the timer the object refers to.  A wrong        *)
(* variant first: the timer goes on.                                       *)
ClosedPhaseTimer(k, c) == IF c = socket[k] THEN "closing" ELSE phase[c]

ClosedPhase(k, c) ==
  IF c = timer[k] THEN "over" ELSE IF c = socket[k] THEN "closing" ELSE phase[c]

Close(k) ==
  /\ userClosed' = [userClosed EXCEPT ![k] = TRUE]
  /\ phase' = [c \in Call |-> ClosedPhase(k, c)]
  /\ timer' = [timer EXCEPT ![k] = None]
  /\ socket' = [socket EXCEPT ![k] = None]
  /\ status' = [status EXCEPT ![k] = "closed"]
  /\ Settle(k, "rejected")
  /\ UNCHANGED <<attempt, watching, of, cred, subscribed, doubled>>

(* The limit of reconnects in a row.  A wrong variant: one too many.       *)
RetriesOnceMore(k) == attempt[k] <= MaxRetries

Retries(k) == attempt[k] < MaxRetries

(* onClose(): of a socket, of whichever chain, or of a failed provider.    *)
OnClose(k, c) ==
  /\ socket' = [socket EXCEPT ![k] = None]
  /\ \/ /\ userClosed[k]
        /\ status' = [status EXCEPT ![k] = "closed"]
        /\ phase' = [phase EXCEPT ![c] = "over"]
        /\ UNCHANGED <<attempt, timer, settle, promise>>
     \/ /\ ~userClosed[k] /\ Retries(k)
        /\ attempt' = [attempt EXCEPT ![k] = @ + 1]
        /\ status' = [status EXCEPT ![k] = "reconnecting"]
        /\ phase' = [phase EXCEPT ![c] = "timer"]
        /\ timer' = [timer EXCEPT ![k] = c]
        /\ UNCHANGED <<settle, promise>>
     \/ /\ ~userClosed[k] /\ ~Retries(k)
        /\ status' = [status EXCEPT ![k] = "closed"]
        /\ phase' = [phase EXCEPT ![c] = "over"]
        /\ Settle(k, "rejected")
        /\ UNCHANGED <<attempt, timer>>
  /\ cred' = [cred EXCEPT ![c] = None]
  /\ subscribed' = [subscribed EXCEPT ![c] = FALSE]
  /\ UNCHANGED <<userClosed, watching, of, doubled>>

-----------------------------------------------------------------------------
(* The chains.  The provider answers, unless it fails or has no token.     *)
(* Making the socket may throw, for a malformed URL; no handler is there   *)
(* to catch it, and the chain ends as it is.                               *)

(* A wrong variant: close() during the wait is not noticed.                *)
DialsAnyway(k) == TRUE

StillWanted(k) == ~userClosed[k]

UrlReady(c) ==
  /\ phase[c] = "await" /\ cred[c] # None
  /\ LET k == of[c] IN
       \/ /\ StillWanted(k)
          /\ phase' = [phase EXCEPT ![c] = "dialing"]
          /\ socket' = [socket EXCEPT ![k] = c]
          /\ UNCHANGED cred
       \/ /\ StillWanted(k)
          /\ phase' = [phase EXCEPT ![c] = "threw"]
          /\ cred' = [cred EXCEPT ![c] = None]
          /\ UNCHANGED socket
       \/ /\ ~StillWanted(k)
          /\ phase' = [phase EXCEPT ![c] = "over"]
          /\ cred' = [cred EXCEPT ![c] = None]
          /\ UNCHANGED socket
  /\ UNCHANGED <<status, attempt, userClosed, timer, settle, watching,
                 of, promise, subscribed, doubled>>

UrlFails(c) ==
  /\ phase[c] = "await"
  /\ OnClose(of[c], c)

(* resubscribe() sends on the object's socket, which may be another one.   *)
(* Sending on a socket that is still dialing throws, and what follows in   *)
(* the handler is not done.                                                *)
Sendable(k, c) == socket[k] = c \/ socket[k] = None \/ phase[socket[k]] = "live"

(* A wrong variant: hello does not resubscribe.                            *)
NotResubscribed(k) == subscribed

Resubscribed(k) ==
  [d \in Call |-> IF watching[k] /\ d = socket[k] THEN TRUE ELSE subscribed[d]]

Hello(c) ==
  /\ phase[c] = "dialing"
  /\ phase' = [phase EXCEPT ![c] = "live"]
  /\ LET k == of[c] IN
       /\ attempt' = [attempt EXCEPT ![k] = 0]
       /\ status' = [status EXCEPT ![k] = "connected"]
       /\ IF watching[k] /\ ~Sendable(k, c)
          THEN UNCHANGED <<settle, promise, subscribed>>
          ELSE Settle(k, "resolved") /\ subscribed' = Resubscribed(k)
  /\ UNCHANGED <<userClosed, socket, timer, watching, of, cred, doubled>>

SocketCloses(c) ==
  /\ phase[c] \in {"dialing", "live", "closing"}
  /\ OnClose(of[c], c)

(* The timer's callback drops the object's reference to a timer, its own   *)
(* or not, and starts over.                                                *)
TimerFires(c, t) ==
  /\ phase[c] = "timer"
  /\ LET k == of[c] IN
       /\ timer' = [timer EXCEPT ![k] = None]
       /\ status' = [status EXCEPT ![k] =
                       IF attempt[k] = 0 THEN "connecting" ELSE "reconnecting"]
  /\ phase' = [phase EXCEPT ![c] = "await"]
  /\ cred' = [cred EXCEPT ![c] = t]
  /\ UNCHANGED <<attempt, userClosed, socket, settle, watching, of, promise,
                 subscribed, doubled>>

(* A channel of the client is watched: it subscribes on a connected        *)
(* object's socket; a frame without a connection is silently not sent.     *)
Watch(k) ==
  /\ ~watching[k]
  /\ watching' = [watching EXCEPT ![k] = TRUE]
  /\ subscribed' =
       [c \in Call |-> \/ subscribed[c]
                       \/ status[k] = "connected" /\ c = socket[k] /\ phase[c] = "live"]
  /\ UNCHANGED <<status, attempt, userClosed, socket, timer, settle,
                 of, phase, cred, promise, doubled>>

-----------------------------------------------------------------------------
ConnNext ==
  \/ \E k \in Conn :
       \/ Close(k) \/ Watch(k)
       \/ \E c \in Call : Connected(k, c) \/ \E t \in Token \cup {None} : Connect(k, c, t)
  \/ \E c \in Call :
       \/ UrlReady(c) \/ UrlFails(c) \/ Hello(c) \/ SocketCloses(c)
       \/ \E t \in Token \cup {None} : TimerFires(c, t)

ConnSpec == ConnInit /\ [][ConnNext]_connVars

-----------------------------------------------------------------------------
ConnTypeOK ==
  /\ status \in [Conn -> Status]
  /\ attempt \in [Conn -> 0..MaxRetries]
  /\ userClosed \in [Conn -> BOOLEAN]
  /\ socket \in [Conn -> Call \cup {None}]
  /\ timer \in [Conn -> Call \cup {None}]
  /\ settle \in [Conn -> Call \cup {None}]
  /\ watching \in [Conn -> BOOLEAN]
  /\ of \in [Call -> Conn \cup {None}]
  /\ phase \in [Call -> Phase]
  /\ cred \in [Call -> Token \cup {None}]
  /\ promise \in [Call -> {"none", "pending", "resolved", "rejected"}]
  /\ subscribed \in [Call -> BOOLEAN]
  /\ doubled \in SUBSET Conn

(* What the fields of an object say of its only chain c.                   *)
Describes(k, c) ==
  /\ socket[k] = (IF phase[c] \in {"dialing", "live"} THEN c ELSE None)
  /\ timer[k] = (IF phase[c] = "timer" THEN c ELSE None)
  /\ status[k] = "connected" <=> phase[c] = "live"
  /\ phase[c] \in {"await", "dialing"} /\ ~userClosed[k] =>
       status[k] \in {"connecting", "reconnecting"}
  /\ phase[c] = "timer" => status[k] = "reconnecting"
  /\ phase[c] = "closing" => status[k] = "closed"
  /\ userClosed[k] => status[k] = "closed" /\ phase[c] \in {"await", "closing"}

(* What they say when no chain is left.  A chain that threw leaves the     *)
(* object as if it were still dialing, until close() or connect() is       *)
(* called (connection.ts:157).                                             *)
Resting(k) ==
  /\ socket[k] = None /\ timer[k] = None
  /\ \/ status[k] \in {"idle", "closed"}
     \/ /\ status[k] \in {"connecting", "reconnecting"} /\ ~userClosed[k]
        /\ \E c \in Call : of[c] = k /\ phase[c] = "threw"

Honest(k) ==
  /\ \A c, d \in Active(k) : c = d
  /\ \A c \in Active(k) : Describes(k, c)
  /\ Active(k) = {} => Resting(k)

(* An object that was never connected with a chain under way has at most   *)
(* one chain, which its fields describe: "connected" is a live socket it   *)
(* refers to, a timer is one it can still clear, and with no chain left it *)
(* has neither and is idle or closed (connection.ts:82-87), or is stuck at *)
(* "connecting" or "reconnecting" because making the socket threw (:157).  *)
(* close() is for good: whatever was under way when it was called, no      *)
(* socket is open and no timer runs afterwards ("no reconnect follows",    *)
(* :126).                                                                  *)
FieldsHonest == \A k \in Conn \ doubled : Honest(k)

(* Every hello resubscribes: while the object is connected, its socket     *)
(* carries the watched channels, whenever they were watched and however    *)
(* many sockets came before (connection.ts:72, channel.ts watch).          *)
WatchedIsSubscribed ==
  \A k \in Conn \ doubled :
    status[k] = "connected" /\ watching[k] => subscribed[socket[k]]

(* connect() resolves on the first hello and rejects when the retries are  *)
(* exhausted or close() is called (connection.ts:107): as long as its      *)
(* promise is pending, its chain waits, dials or is to retry.  Of an       *)
(* object connected twice at once only the promise it still refers to is   *)
(* sure to have its chain left, live when another chain's socket kept its  *)
(* hello from resolving.  The code breaks the comment in one more case,    *)
(* which is excepted: when making the socket threw (:157) no chain is left *)
(* and nothing but close() settles the promise.                            *)
PendingIsPursued ==
  \A c \in Call :
    promise[c] = "pending" /\ phase[c] # "threw" =>
      IF of[c] \in doubled
      THEN settle[of[c]] = c => phase[c] \in {"await", "dialing", "timer", "live"}
      ELSE settle[of[c]] = c /\ phase[c] \in {"await", "dialing", "timer"}
=============================================================================
