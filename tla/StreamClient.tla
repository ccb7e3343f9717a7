---------------------------- MODULE StreamClient ----------------------------
(***************************************************************************)
(* The Stream-compatible facade in a browser: one StreamChat object that   *)
(* replaces its FiremootClient whenever a user connects.  connectUser is   *)
(* asynchronous: it may give way before it has a client, and again until   *)
(* that client is connected, and it looks at nothing afterwards.           *)
(*                                                                         *)
(* A FiremootClient is named by the connectUser call that makes it, so     *)
(* that its Connection is one of ClientConnection's objects and its first  *)
(* chain has the same name.  A token is the user it was issued to.  What   *)
(* runs in one turn of the event loop is one action; sockets and timers    *)
(* speak between turns, not while a continuation is due.                   *)
(***************************************************************************)
EXTENDS ClientConnection

CONSTANT Cid   \* channels

ASSUME StreamAssumption ==
  /\ Call \subseteq Nat /\ Conn = Call

VARIABLES
  client,       \* the FiremootClient of the facade, or None
  currentUser,  \* the connected user, or None
  token,        \* the token the facade answers all its clients with, or None
  who,          \* [Call -> the user a connectUser call was given, or None]
  pend,         \* [Call -> where a connectUser call is]
  facade,       \* [Cid -> the client whose channel is memoised, or None]
  asked,        \* the client with a queryChannels answer under way, or None
  lapped,       \* history: clients that a resumed connectUser replaced
  late,         \* history: currentUser was set by a call that was overtaken
  stale         \* history: channels memoised by an answer that came too late

session == <<client, currentUser, token, who, pend, facade, asked>>
history == <<lapped, late, stale>>
vars == <<connVars, session, history>>

Init ==
  /\ ConnInit
  /\ client = None /\ currentUser = None /\ token = None
  /\ who = [c \in Call |-> None]
  /\ pend = [c \in Call |-> "none"]
  /\ facade = [g \in Cid |-> None]
  /\ asked = None /\ lapped = {} /\ late = FALSE /\ stale = {}

(* Calls are named in the order they are made.                             *)
Made(c) == phase[c] # "unused" \/ pend[c] # "none"
Fresh(c) == ~Made(c) /\ \A d \in Call : d < c => Made(d)

(* A continuation is due in this turn.                                     *)
Due == \E c \in Call : \/ pend[c] = "yielded"
                       \/ pend[c] = "connecting" /\ promise[c] = "resolved"

-----------------------------------------------------------------------------
(* The part of connectUser that makes the client and connects it.          *)
Open(c, u) ==
  /\ token' = u
  /\ client' = c
  /\ pend' = [pend EXCEPT ![c] = "connecting"]
  /\ lapped' = IF client # None THEN lapped \cup {client} ELSE lapped
  /\ Connect(c, c, u)
  /\ UNCHANGED <<currentUser, facade, asked, late, stale>>

(* What disconnectUser forgets.  Two wrong variants first: without the     *)
(* memoised channels, and without the user.                                *)
KeepsChannels ==
  /\ client' = None /\ currentUser' = None /\ token' = None
  /\ late' = FALSE
  /\ UNCHANGED <<facade, asked, lapped, stale>>

KeepsUser ==
  /\ client' = None /\ token' = None
  /\ facade' = [g \in Cid |-> None]
  /\ late' = FALSE /\ stale' = {}
  /\ UNCHANGED <<currentUser, asked, lapped>>

Forget ==
  /\ client' = None /\ currentUser' = None /\ token' = None
  /\ facade' = [g \in Cid |-> None]
  /\ late' = FALSE /\ stale' = {}
  /\ UNCHANGED <<asked, lapped>>

(* A wrong variant: the client is dropped and not closed.                  *)
DropClient == Forget /\ UNCHANGED connVars

Leave == Forget /\ Close(client)

(* connectUser: for the connected user nothing happens, with no client it  *)
(* opens one, and with one it disconnects that and gives way.              *)
ConnectUser(c, u) ==
  /\ Fresh(c)
  /\ ~(client # None /\ currentUser = u)
  /\ who' = [who EXCEPT ![c] = u]
  /\ \/ client = None /\ Open(c, u)
     \/ /\ client # None
        /\ Leave
        /\ pend' = [pend EXCEPT ![c] = "yielded"]

Resume(c) ==
  /\ pend[c] = "yielded"
  /\ Open(c, who[c])
  /\ UNCHANGED who

(* connect() resolved: the user is the connected one, whoever the client   *)
(* belongs to by now.  A rejected one ends in an error and changes nothing.*)
Finish(c) ==
  /\ pend[c] = "connecting" /\ promise[c] = "resolved"
  /\ pend' = [pend EXCEPT ![c] = "done"]
  /\ currentUser' = who[c]
  /\ late' = (client # c)
  /\ UNCHANGED <<connVars, client, token, who, facade, asked, lapped, stale>>

DisconnectUser ==
  /\ client # None
  /\ Leave
  /\ UNCHANGED <<who, pend>>

CloseConnection ==
  /\ client # None
  /\ Close(client)
  /\ UNCHANGED <<session, history>>

OpenConnection(c) ==
  /\ Fresh(c) /\ client # None
  /\ Connected(client, c) \/ Connect(client, c, token)
  /\ UNCHANGED <<session, history>>

-----------------------------------------------------------------------------
(* An application asks for channels as soon as there is a client.  Bound:  *)
(* one query at a time.                                                    *)
Asks == client # None

(* channel(): memoised, and in the place of what was there when it carries *)
(* data to create the channel with.                                        *)
Channel(g) ==
  /\ Asks /\ facade[g] # client
  /\ facade' = [facade EXCEPT ![g] = client]
  /\ stale' = stale \ {g}
  /\ UNCHANGED <<connVars, client, currentUser, token, who, pend, asked, lapped, late>>

(* queryChannels: the answer memoises channels of the client it was asked  *)
(* of, in the place of what was there.                                     *)
QueryChannels ==
  /\ Asks /\ asked = None
  /\ asked' = client
  /\ UNCHANGED <<connVars, client, currentUser, token, who, pend, facade, history>>

QueryAnswered ==
  /\ asked # None
  /\ asked' = None
  /\ \E found \in SUBSET Cid :
       /\ facade' = [g \in Cid |-> IF g \in found THEN asked ELSE facade[g]]
       /\ stale' = IF asked # client THEN stale \cup found ELSE stale \ found
  /\ UNCHANGED <<connVars, client, currentUser, token, who, pend, lapped, late>>

(* A channel of the session is watched.  Bound: once its user was          *)
(* connected, whose connection may be down again.                          *)
WatchChannel ==
  /\ Asks /\ currentUser # None
  /\ \E g \in Cid : facade[g] = client
  /\ Watch(client)
  /\ UNCHANGED <<session, history>>

-----------------------------------------------------------------------------
Provide(c) ==
  /\ UrlReady(c) \/ UrlFails(c)
  /\ UNCHANGED <<session, history>>

Network(c) ==
  /\ ~Due
  /\ Hello(c) \/ SocketCloses(c)
  /\ UNCHANGED <<session, history>>

(* resolveToken: whichever client asks, the answer is the facade's token.  *)
Timer(c) ==
  /\ ~Due
  /\ TimerFires(c, token)
  /\ UNCHANGED <<session, history>>

Next ==
  \/ \E c \in Call :
       \/ \E u \in Token : ConnectUser(c, u)
       \/ Resume(c) \/ Finish(c) \/ OpenConnection(c)
       \/ Provide(c) \/ Network(c) \/ Timer(c)
  \/ \E g \in Cid : Channel(g)
  \/ QueryChannels \/ QueryAnswered \/ WatchChannel
  \/ DisconnectUser \/ CloseConnection

Spec == Init /\ [][Next]_vars

-----------------------------------------------------------------------------
TypeOK ==
  /\ ConnTypeOK
  /\ client \in Conn \cup {None}
  /\ currentUser \in Token \cup {None}
  /\ token \in Token \cup {None}
  /\ who \in [Call -> Token \cup {None}]
  /\ pend \in [Call -> {"none", "yielded", "connecting", "done"}]
  /\ facade \in [Cid -> Conn \cup {None}]
  /\ asked \in Conn \cup {None}
  /\ lapped \in SUBSET Conn /\ stale \in SUBSET Cid
  /\ late \in BOOLEAN

(* An open socket carries the token of the user its client was made for,   *)
(* although every client asks the facade for the token of the moment, and  *)
(* belongs to the session of the moment, across user switches and          *)
(* reconnects; and whatever client is not the session's was closed.  The   *)
(* exceptions: clients that overlapping connectUser calls lost, and        *)
(* sockets of clients that were connected twice at once                    *)
(* (client.ts:346-370).                                                    *)
OpenAsSelf ==
  /\ \A c \in Call :
       phase[c] \in {"dialing", "live"} /\ of[c] \notin lapped =>
         /\ cred[c] = who[of[c]]
         /\ of[c] = client \/ of[c] \in doubled
  /\ \A k \in Conn \ lapped :
       status[k] # "idle" /\ k # client => userClosed[k]

(* The user the facade shows, and takes a second connectUser for a no-op   *)
(* of, is the user of its client, unless a connectUser that was overtaken  *)
(* by a disconnect or by another one ended last (client.ts:358, :369).     *)
UserIsClients ==
  currentUser # None /\ ~late => client # None /\ who[client] = currentUser

(* A memoised channel is one of the session's client, unless the answer of *)
(* a query outlived its session or a lapped client memoised it.            *)
FacadeFresh ==
  \A g \in Cid :
    facade[g] \notin {None, client} => g \in stale \/ facade[g] \in lapped
=============================================================================
