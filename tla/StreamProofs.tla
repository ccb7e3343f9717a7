---------------------------- MODULE StreamProofs ----------------------------
(***************************************************************************)
(* Proofs about StreamClient, for any calls, users and channels.  Whatever *)
(* the facade does, each of its clients' connections behaves as one of     *)
(* ClientConnection, so what is proved of those holds here.  What the      *)
(* facade promises rests on three more facts: the token of the facade is   *)
(* that of its client's user, a client it has dropped was closed and can   *)
(* therefore not dial again, and nobody's connect() resolves in the turn   *)
(* in which a connectUser call is to go on.                                *)
(***************************************************************************)
EXTENDS StreamClient, ClientConnectionProofs

SessionType ==
  /\ client \in Conn \cup {None}
  /\ currentUser \in Token \cup {None}
  /\ token \in Token \cup {None}
  /\ who \in [Call -> Token \cup {None}]
  /\ pend \in [Call -> {"none", "yielded", "connecting", "done"}]
  /\ facade \in [Cid -> Conn \cup {None}]
  /\ asked \in Conn \cup {None}
  /\ lapped \in SUBSET Conn /\ stale \in SUBSET Cid
  /\ late \in BOOLEAN

(* A client exists once its connectUser call got there, and a chain's      *)
(* client exists and is not idle.                                          *)
Exists(k) == pend[k] \in {"connecting", "done"}

ClientsExist ==
  /\ client # None => Exists(client) /\ token = who[client]
  /\ \A c \in Call : phase[c] # "unused" => Exists(of[c]) /\ status[of[c]] # "idle"
  /\ \A c \in Call : pend[c] = "yielded" => who[c] # None

(* What a chain was told when it asked for a URL.                          *)
AskedAsSelf == \A c \in Call :
  phase[c] = "await" /\ of[c] = client /\ of[c] \notin lapped /\ cred[c] # None =>
    cred[c] = who[of[c]]

DialedAsSelf == \A c \in Call :
  phase[c] \in {"dialing", "live"} /\ of[c] \notin lapped => cred[c] = who[of[c]]

OpenIsSessions == \A c \in Call :
  phase[c] \in {"dialing", "live"} /\ of[c] \notin lapped =>
    of[c] = client \/ of[c] \in doubled

DroppedIsClosed == \A k \in Conn \ lapped :
  status[k] # "idle" /\ k # client => userClosed[k]

Yielded == \E c \in Call : pend[c] = "yielded"

TurnOK ==
  Yielded => /\ currentUser = None \/ late
             /\ \A d \in Call : pend[d] = "connecting" /\ promise[d] = "resolved" => d # client

StreamInv ==
  /\ ConnInv /\ SessionType /\ ClientsExist
  /\ AskedAsSelf /\ DialedAsSelf /\ OpenIsSessions /\ DroppedIsClosed
  /\ TurnOK /\ UserIsClients /\ FacadeFresh

-----------------------------------------------------------------------------
(* Every step of the facade is a step of the connections or none.          *)
LEMMA StepIsConnStep ==
  ASSUME StreamAssumption, SessionType, [Next]_vars
  PROVE  [ConnNext]_connVars
<1>. USE DEF StreamAssumption
<1>1. ASSUME NEW c \in Call, NEW u \in Token, ConnectUser(c, u) PROVE ConnNext
  BY <1>1 DEF ConnectUser, Open, Leave, SessionType, ConnNext
<1>2. ASSUME NEW c \in Call, Resume(c) PROVE ConnNext
  <2>1. Connect(c, c, who[c]) /\ who[c] \in Token \cup {None}
    BY <1>2 DEF Resume, Open, SessionType
  <2>. QED
    BY <2>1 DEF ConnNext
<1>3. ASSUME NEW c \in Call, OpenConnection(c) PROVE ConnNext
  BY <1>3 DEF OpenConnection, SessionType, ConnNext
<1>4. ASSUME NEW c \in Call, Provide(c) PROVE ConnNext
  BY <1>4 DEF Provide, ConnNext
<1>5. ASSUME NEW c \in Call, Network(c) PROVE ConnNext
  BY <1>5 DEF Network, ConnNext
<1>6. ASSUME NEW c \in Call, Timer(c) PROVE ConnNext
  <2>1. TimerFires(c, token) /\ token \in Token \cup {None}
    BY <1>6 DEF Timer, SessionType
  <2>. QED
    BY <2>1 DEF ConnNext
<1>7. ASSUME WatchChannel \/ DisconnectUser \/ CloseConnection PROVE ConnNext
  BY <1>7 DEF WatchChannel, Asks, DisconnectUser, Leave, CloseConnection, SessionType, ConnNext
<1>8. ASSUME \/ \E c \in Call : Finish(c)
             \/ \E g \in Cid : Channel(g)
             \/ QueryChannels \/ QueryAnswered \/ UNCHANGED vars
      PROVE  UNCHANGED connVars
  BY <1>8 DEF Finish, Channel, QueryChannels, QueryAnswered, vars
<1>. QED
  BY <1>1, <1>2, <1>3, <1>4, <1>5, <1>6, <1>7, <1>8 DEF Next
-----------------------------------------------------------------------------
(* What a step of the connections may do, as the facade sees it, when no   *)
(* connectUser or disconnectUser is involved: only the session's client    *)
(* gets chains and forgets that it was closed, a chain asks with the       *)
(* facade's token, and dials with what it was told unless it was closed.   *)
ChainKeeps(d) ==
  /\ phase'[d] # "unused" =>
       \/ phase[d] # "unused" /\ of'[d] = of[d]
       \/ of'[d] = client /\ client # None /\ status'[client] # "idle"
  /\ phase'[d] = "await" =>
       \/ phase[d] = "await" /\ of'[d] = of[d] /\ cred'[d] = cred[d]
       \/ cred'[d] = token
  /\ phase'[d] \in {"dialing", "live"} =>
       /\ of'[d] = of[d] /\ cred'[d] = cred[d]
       /\ \/ phase[d] \in {"dialing", "live"}
          \/ phase[d] = "await" /\ cred[d] # None /\ ~userClosed[of[d]]
  /\ promise'[d] = "resolved" /\ pend[d] = "connecting" /\ Yielded =>
       promise[d] = "resolved"

ObjectKeeps(j) ==
  /\ status'[j] = "idle" => status[j] = "idle"
  /\ j # client => /\ status[j] = "idle" => status'[j] = "idle"
                   /\ userClosed'[j] = userClosed[j]
  /\ j \in doubled => j \in doubled'

Calm ==
  /\ UNCHANGED <<session, history>>
  /\ \A d \in Call : ChainKeeps(d)
  /\ \A j \in Conn : ObjectKeeps(j)

(* The facts about a chain that is under way.                              *)
LEMMA ChainFacts ==
  ASSUME StreamAssumption, ConnectionAssumption, StreamInv, NEW d \in Call, phase[d] # "unused"
  PROVE  of[d] \in Conn /\ of[d] # None /\ Exists(of[d]) /\ status[of[d]] # "idle"
BY DEF StreamInv, ConnInv, ConnTypeOK, UnusedOK, ClientsExist, ConnectionAssumption

LEMMA CalmKeeps ==
  ASSUME StreamAssumption, ConnectionAssumption, StreamInv, ConnInv', Calm
  PROVE  StreamInv'
<1>1. /\ UNCHANGED <<client, currentUser, token, who, pend, facade, asked, lapped, late, stale>>
      /\ \A k : Exists(k)' <=> Exists(k)
      /\ Yielded' <=> Yielded
  BY DEF Calm, session, history, Exists, Yielded
<1>2. ASSUME NEW d \in Call PROVE ChainKeeps(d) /\ of'[d] \in Conn \cup {None}
  BY DEF Calm, ConnInv, ConnTypeOK
<1>3. ASSUME NEW j \in Conn PROVE ObjectKeeps(j)
  BY DEF Calm
<1>4. SessionType' /\ FacadeFresh' /\ UserIsClients'
  BY <1>1 DEF StreamInv, SessionType, FacadeFresh, UserIsClients
<1>5. ClientsExist'
  <2>1. ASSUME NEW d \in Call, phase'[d] # "unused"
        PROVE  Exists(of'[d]) /\ status'[of'[d]] # "idle"
    <3>1. CASE phase[d] # "unused" /\ of'[d] = of[d]
      BY <1>3, <3>1, ChainFacts DEF ObjectKeeps
    <3>2. CASE of'[d] = client /\ client # None /\ status'[client] # "idle"
      BY <3>2 DEF StreamInv, ClientsExist
    <3>. QED
      BY <1>2, <2>1, <3>1, <3>2 DEF ChainKeeps
  <2>. QED
    BY <1>1, <2>1 DEF StreamInv, ClientsExist, Exists
<1>6. AskedAsSelf'
  <2>. SUFFICES ASSUME NEW d \in Call, phase'[d] = "await", of'[d] = client,
                       client \notin lapped, cred'[d] # None
                PROVE  cred'[d] = who[client]
    BY <1>1 DEF AskedAsSelf
  <2>1. client # None
    BY DEF ConnInv, UnusedOK
  <2>2. token = who[client]
    BY <2>1 DEF StreamInv, ClientsExist
  <2>. QED
    BY <1>2, <2>2 DEF ChainKeeps, StreamInv, AskedAsSelf
<1>7. ASSUME NEW d \in Call, phase'[d] \in {"dialing", "live"}, of'[d] \notin lapped
      PROVE  /\ of'[d] = of[d] /\ cred'[d] = who[of[d]]
             /\ of[d] = client \/ of[d] \in doubled
  <2>1. /\ of'[d] = of[d] /\ cred'[d] = cred[d]
        /\ \/ phase[d] \in {"dialing", "live"}
           \/ phase[d] = "await" /\ cred[d] # None /\ ~userClosed[of[d]]
    BY <1>2, <1>7 DEF ChainKeeps
  <2>2. CASE phase[d] \in {"dialing", "live"}
    BY <1>7, <2>1, <2>2 DEF StreamInv, DialedAsSelf, OpenIsSessions
  <2>3. CASE phase[d] = "await" /\ cred[d] # None /\ ~userClosed[of[d]]
    <3>1. of[d] \in Conn /\ status[of[d]] # "idle"
      BY <2>3, ChainFacts
    <3>2. of[d] = client
      BY <1>7, <2>1, <2>3, <3>1 DEF StreamInv, DroppedIsClosed
    <3>. QED
      BY <1>7, <2>1, <2>3, <3>2 DEF StreamInv, AskedAsSelf
  <2>. QED
    BY <2>1, <2>2, <2>3
<1>8. DialedAsSelf'
  BY <1>1, <1>7 DEF DialedAsSelf
<1>9. OpenIsSessions'
  <2>. SUFFICES ASSUME NEW d \in Call, phase'[d] \in {"dialing", "live"}, of'[d] \notin lapped
                PROVE  of'[d] = client \/ of'[d] \in doubled'
    BY <1>1 DEF OpenIsSessions
  <2>1. of'[d] = client \/ of'[d] \in doubled
    BY <1>7
  <2>2. doubled \subseteq Conn
    BY DEF StreamInv, ConnInv, ConnTypeOK
  <2>. QED
    BY <1>3, <2>1, <2>2 DEF ObjectKeeps
<1>10. DroppedIsClosed'
  BY <1>1, <1>3 DEF StreamInv, DroppedIsClosed, ObjectKeeps
<1>11. TurnOK'
  BY <1>1, <1>2 DEF StreamInv, TurnOK, ChainKeeps
<1>. QED
  BY <1>4, <1>5, <1>6, <1>8, <1>9, <1>10, <1>11 DEF StreamInv
-----------------------------------------------------------------------------
(* The steps of the connections are of that kind.                          *)
LEMMA OnCloseIsCalm ==
  ASSUME StreamAssumption, ConnectionAssumption, StreamInv, UNCHANGED <<session, history>>,
         NEW c \in Call, NEW k \in Conn, of[c] = k, phase[c] # "unused", OnClose(k, c)
  PROVE  Calm
<1>1. /\ UNCHANGED <<of, userClosed, doubled>>
      /\ phase'[c] \in {"timer", "over"} /\ status'[k] # "idle"
      /\ \A d \in Call : d # c => phase'[d] = phase[d] /\ cred'[d] = cred[d]
      /\ \A j \in Conn : j # k => status'[j] = status[j]
  BY DEF OnClose, StreamInv, ConnInv, ConnTypeOK
<1>2. \A d \in Call : promise'[d] = "resolved" => promise[d] = "resolved"
  BY DEF OnClose, Settle, StreamInv, ConnInv, ConnTypeOK
<1>3. status[k] # "idle"
  BY ChainFacts
<1>. QED
  BY <1>1, <1>2, <1>3 DEF Calm, ChainKeeps, ObjectKeeps

LEMMA CloseIsCalm ==
  ASSUME StreamAssumption, ConnectionAssumption, StreamInv, CloseConnection
  PROVE  Calm
<1>1. client \in Conn /\ Close(client) /\ UNCHANGED <<session, history>>
  BY DEF CloseConnection, StreamInv, SessionType
<1>. PICK k \in Conn : k = client
  BY <1>1
<1>2. \A d \in Call : \/ phase'[d] = phase[d]
                      \/ phase[d] # "unused" /\ phase'[d] \in {"over", "closing"}
  BY <1>1, CloseOwn DEF StreamInv, ConnInv
<1>3. /\ UNCHANGED <<of, cred, doubled>> /\ status'[k] = "closed"
      /\ \A j \in Conn : j # k => status'[j] = status[j] /\ userClosed'[j] = userClosed[j]
      /\ \A d \in Call : promise'[d] = "resolved" => promise[d] = "resolved"
  BY <1>1 DEF Close, Settle, StreamInv, ConnInv, ConnTypeOK
<1>. QED
  BY <1>1, <1>2, <1>3 DEF Calm, ChainKeeps, ObjectKeeps

LEMMA OpenConnectionIsCalm ==
  ASSUME StreamAssumption, ConnectionAssumption, StreamInv, NEW c \in Call, OpenConnection(c)
  PROVE  Calm
<1>1. /\ client \in Conn /\ client # None /\ UNCHANGED <<session, history>>
      /\ Connected(client, c) \/ Connect(client, c, token)
      /\ pend[c] = "none"
  BY DEF OpenConnection, Fresh, Made, StreamInv, SessionType
<1>. PICK k \in Conn : k = client
  BY <1>1
<1>2. CASE Connected(k, c)
  <2>1. /\ of'[c] = k /\ phase'[c] = "over" /\ status[k] = "connected"
        /\ UNCHANGED <<status, userClosed, cred, doubled>>
        /\ \A d \in Call : d # c => /\ of'[d] = of[d] /\ phase'[d] = phase[d]
                                    /\ promise'[d] = promise[d]
    BY <1>2 DEF Connected, fields, StreamInv, ConnInv, ConnTypeOK
  <2>2. \A d \in Call : ChainKeeps(d)
    BY <1>1, <2>1 DEF ChainKeeps
  <2>3. \A j \in Conn : ObjectKeeps(j)
    BY <2>1 DEF ObjectKeeps
  <2>. QED
    BY <1>1, <2>2, <2>3 DEF Calm
<1>3. CASE Connect(k, c, token)
  <2>1. /\ of'[c] = k /\ phase'[c] = "await" /\ cred'[c] = token
        /\ promise'[c] = "pending" /\ status'[k] = "connecting"
        /\ \A d \in Call : d # c => /\ of'[d] = of[d] /\ phase'[d] = phase[d]
                                    /\ promise'[d] = promise[d] /\ cred'[d] = cred[d]
        /\ \A j \in Conn : j # k => status'[j] = status[j] /\ userClosed'[j] = userClosed[j]
        /\ \A j \in Conn : j \in doubled => j \in doubled'
    BY <1>3 DEF Connect, StreamInv, ConnInv, ConnTypeOK
  <2>2. \A d \in Call : ChainKeeps(d)
    BY <1>1, <2>1 DEF ChainKeeps
  <2>3. \A j \in Conn : ObjectKeeps(j)
    BY <2>1 DEF ObjectKeeps
  <2>. QED
    BY <1>1, <2>2, <2>3 DEF Calm
<1>. QED
  BY <1>1, <1>2, <1>3

LEMMA WatchIsCalm ==
  ASSUME WatchChannel
  PROVE  Calm
BY DEF WatchChannel, Watch, Calm, ChainKeeps, ObjectKeeps

LEMMA ProvideIsCalm ==
  ASSUME StreamAssumption, ConnectionAssumption, StreamInv, NEW c \in Call, Provide(c)
  PROVE  Calm
<1>. PICK k \in Conn : k = of[c]
  BY ChainFacts DEF Provide, UrlReady, UrlFails
<1>1. UNCHANGED <<session, history>> /\ phase[c] = "await"
  BY DEF Provide, UrlReady, UrlFails
<1>2. CASE UrlFails(c)
  BY <1>1, <1>2, OnCloseIsCalm DEF UrlFails
<1>3. CASE UrlReady(c)
  <2>1. /\ UNCHANGED <<status, userClosed, of, promise, doubled>>
        /\ \A d \in Call : d # c => phase'[d] = phase[d] /\ cred'[d] = cred[d]
    BY <1>3 DEF UrlReady, StreamInv, ConnInv, ConnTypeOK
  <2>2. \/ phase'[c] \in {"over", "threw"}
        \/ phase'[c] = "dialing" /\ cred'[c] = cred[c] /\ cred[c] # None /\ ~userClosed[k]
    BY <1>3 DEF UrlReady, StillWanted, StreamInv, ConnInv, ConnTypeOK
  <2>3. \A d \in Call : ChainKeeps(d)
    BY <1>1, <2>1, <2>2 DEF ChainKeeps
  <2>4. \A j \in Conn : ObjectKeeps(j)
    BY <2>1 DEF ObjectKeeps
  <2>. QED
    BY <1>1, <2>3, <2>4 DEF Calm
<1>. QED
  BY <1>2, <1>3 DEF Provide

LEMMA NetworkIsCalm ==
  ASSUME StreamAssumption, ConnectionAssumption, StreamInv, NEW c \in Call, Network(c)
  PROVE  Calm
<1>1. UNCHANGED <<session, history>> /\ ~Yielded /\ phase[c] \in {"dialing", "live", "closing"}
  BY DEF Network, Due, Yielded, Hello, SocketCloses
<1>. PICK k \in Conn : k = of[c]
  BY <1>1, ChainFacts
<1>2. CASE SocketCloses(c)
  BY <1>1, <1>2, OnCloseIsCalm DEF SocketCloses
<1>3. CASE Hello(c)
  <2>1. /\ UNCHANGED <<userClosed, of, cred, doubled>>
        /\ phase[c] = "dialing" /\ phase'[c] = "live" /\ status'[k] = "connected"
        /\ \A d \in Call : d # c => phase'[d] = phase[d]
        /\ \A j \in Conn : j # k => status'[j] = status[j]
    BY <1>3 DEF Hello, StreamInv, ConnInv, ConnTypeOK
  <2>2. \A d \in Call : ChainKeeps(d)
    BY <1>1, <2>1 DEF ChainKeeps
  <2>3. status[k] # "idle"
    BY <1>1, ChainFacts
  <2>4. \A j \in Conn : ObjectKeeps(j)
    BY <2>1, <2>3 DEF ObjectKeeps
  <2>. QED
    BY <1>1, <2>2, <2>4 DEF Calm
<1>. QED
  BY <1>2, <1>3 DEF Network

LEMMA TimerIsCalm ==
  ASSUME StreamAssumption, ConnectionAssumption, StreamInv, NEW c \in Call, Timer(c)
  PROVE  Calm
<1>1. UNCHANGED <<session, history>> /\ phase[c] = "timer" /\ TimerFires(c, token)
  BY DEF Timer, TimerFires
<1>. PICK k \in Conn : k = of[c]
  BY <1>1, ChainFacts
<1>2. /\ UNCHANGED <<userClosed, of, promise, doubled>>
      /\ phase'[c] = "await" /\ cred'[c] = token /\ status'[k] # "idle"
      /\ \A d \in Call : d # c => phase'[d] = phase[d] /\ cred'[d] = cred[d]
      /\ \A j \in Conn : j # k => status'[j] = status[j]
  BY <1>1 DEF TimerFires, StreamInv, ConnInv, ConnTypeOK
<1>3. \A d \in Call : ChainKeeps(d)
  BY <1>1, <1>2 DEF ChainKeeps
<1>4. status[k] # "idle"
  BY <1>1, ChainFacts
<1>5. \A j \in Conn : ObjectKeeps(j)
  BY <1>2, <1>4 DEF ObjectKeeps
<1>. QED
  BY <1>1, <1>3, <1>5 DEF Calm
-----------------------------------------------------------------------------
(* A new client: no call of the facade has this name yet, so nothing that  *)
(* is said of existing clients is said of it.                              *)
LEMMA OpenKeeps ==
  ASSUME StreamAssumption, ConnectionAssumption, StreamInv, ConnInv',
         NEW c \in Call, NEW u \in Token, Open(c, u), ~Exists(c),
         currentUser = None \/ late, SessionType',
         who'[c] = u, \A d \in Call : d # c => who'[d] = who[d]
  PROVE  StreamInv'
<1>1. /\ client' = c /\ token' = u
      /\ pend'[c] = "connecting" /\ \A d \in Call : d # c => pend'[d] = pend[d]
      /\ lapped' = (IF client # None THEN lapped \cup {client} ELSE lapped)
      /\ UNCHANGED <<currentUser, facade, late, stale>>
      /\ c # None /\ u # None
  BY DEF Open, StreamInv, SessionType, StreamAssumption, ConnectionAssumption
<1>2. /\ of'[c] = c /\ phase'[c] = "await" /\ cred'[c] = u
      /\ promise'[c] = "pending" /\ status'[c] = "connecting"
      /\ \A d \in Call : d # c => /\ of'[d] = of[d] /\ phase'[d] = phase[d]
                                  /\ cred'[d] = cred[d]
      /\ \A j \in Conn : j # c => status'[j] = status[j] /\ userClosed'[j] = userClosed[j]
      /\ doubled \subseteq doubled'
  BY DEF Open, Connect, StreamInv, ConnInv, ConnTypeOK, StreamAssumption
<1>3. ASSUME NEW d \in Call, d # c, phase'[d] # "unused"
      PROVE  /\ of[d] \in Conn /\ of[d] # c /\ of[d] # None /\ of'[d] = of[d]
             /\ Exists(of[d]) /\ status[of[d]] # "idle" /\ phase'[d] = phase[d]
             /\ cred'[d] = cred[d] /\ pend'[of[d]] = pend[of[d]] /\ who'[of[d]] = who[of[d]]
  BY <1>1, <1>2, <1>3, ChainFacts DEF StreamAssumption
<1>4. ClientsExist'
  <2>1. ASSUME NEW d \in Call, phase'[d] # "unused"
        PROVE  (Exists(of[d]) /\ status[of[d]] # "idle")'
    <3>1. CASE d = c
      BY <1>1, <1>2, <3>1 DEF Exists
    <3>2. CASE d # c
      <4>1. of[d] \in Conn /\ of[d] # c /\ of'[d] = of[d] /\ Exists(of[d]) /\ status[of[d]] # "idle"
        BY <1>3, <2>1, <3>2
      <4>2. pend'[of[d]] = pend[of[d]] /\ status'[of[d]] = status[of[d]]
        BY <1>1, <1>2, <4>1 DEF StreamAssumption
      <4>. QED
        BY <4>1, <4>2 DEF Exists
    <3>. QED
      BY <3>1, <3>2
  <2>2. ASSUME NEW d \in Call, pend'[d] = "yielded" PROVE who'[d] # None
    BY <1>1, <2>2 DEF StreamInv, ClientsExist
  <2>. QED
    BY <1>1, <2>1, <2>2 DEF ClientsExist, Exists
<1>5. AskedAsSelf'
  BY <1>1, <1>2, <1>3 DEF AskedAsSelf
<1>6. ASSUME NEW d \in Call, phase'[d] \in {"dialing", "live"}, of'[d] \notin lapped'
      PROVE  /\ d # c /\ phase[d] \in {"dialing", "live"} /\ of'[d] = of[d]
             /\ of[d] \notin lapped /\ of[d] # client
             /\ cred'[d] = cred[d] /\ who'[of[d]] = who[of[d]]
  <2>1. d # c
    BY <1>2, <1>6
  <2>. QED
    BY <1>1, <1>3, <1>6, <2>1
<1>7. DialedAsSelf'
  <2>. SUFFICES ASSUME NEW d \in Call, phase'[d] \in {"dialing", "live"}, of'[d] \notin lapped'
                PROVE  cred'[d] = who'[of'[d]]
    BY DEF DialedAsSelf
  <2>. QED
    BY <1>6 DEF StreamInv, DialedAsSelf
<1>8. OpenIsSessions'
  <2>. SUFFICES ASSUME NEW d \in Call, phase'[d] \in {"dialing", "live"}, of'[d] \notin lapped'
                PROVE  of'[d] \in doubled'
    BY DEF OpenIsSessions
  <2>. QED
    BY <1>2, <1>6 DEF StreamInv, OpenIsSessions
<1>9. DroppedIsClosed'
  BY <1>1, <1>2, ConnectionAssumption DEF StreamInv, DroppedIsClosed, ConnectionAssumption
<1>10. TurnOK'
  BY <1>1, <1>2 DEF TurnOK
<1>11. UserIsClients'
  BY <1>1 DEF StreamInv, UserIsClients
<1>12. FacadeFresh'
  BY <1>1 DEF StreamInv, FacadeFresh
<1>. QED
  BY <1>4, <1>5, <1>7, <1>8, <1>9, <1>10, <1>11, <1>12 DEF StreamInv

(* disconnectUser: its client is closed with whatever chain it has, unless *)
(* it was connected twice at once.                                         *)
LEMMA LeaveKeeps ==
  ASSUME StreamAssumption, ConnectionAssumption, StreamInv, ConnInv',
         client # None, Leave, SessionType',
         \A d \in Call : Exists(d) => pend'[d] = pend[d] /\ who'[d] = who[d],
         \A d \in Call : pend'[d] = "yielded" => who'[d] # None
  PROVE  StreamInv'
<1>. PICK k \in Conn : k = client
  BY DEF StreamInv, SessionType
<1>1. /\ client' = None /\ currentUser' = None /\ late' = FALSE /\ lapped' = lapped
      /\ facade' = [g \in Cid |-> None] /\ Close(k)
  BY DEF Leave, Forget
<1>2. /\ of' = of /\ cred' = cred /\ doubled' = doubled
      /\ status'[k] = "closed" /\ userClosed'[k] = TRUE
      /\ \A j \in Conn : j # k => status'[j] = status[j] /\ userClosed'[j] = userClosed[j]
  BY <1>1 DEF Close, StreamInv, ConnInv, ConnTypeOK
<1>3. \A d \in Call :
        \/ phase'[d] = phase[d] /\ d # socket[k]
        \/ phase[d] # "unused" /\ phase'[d] \in {"over", "closing"}
  BY <1>1, CloseOwn DEF StreamInv, ConnInv
<1>4. ClientsExist'
  <2>1. ASSUME NEW d \in Call, phase'[d] # "unused"
        PROVE  (Exists(of[d]) /\ status[of[d]] # "idle")'
    <3>1. of[d] \in Conn /\ Exists(of[d]) /\ status[of[d]] # "idle"
      BY <1>3, <2>1, ChainFacts
    <3>. QED
      BY <1>2, <3>1 DEF Exists, StreamAssumption
  <2>. QED
    BY <1>1, <2>1 DEF ClientsExist
<1>5. AskedAsSelf'
  <2>. SUFFICES ASSUME NEW d \in Call, phase'[d] = "await", of'[d] = client' PROVE FALSE
    BY DEF AskedAsSelf
  <2>1. phase[d] # "unused"
    BY <1>3
  <2>. QED
    BY <1>1, <1>2, <2>1, ChainFacts
<1>6. ASSUME NEW d \in Call, phase'[d] \in {"dialing", "live"}, of'[d] \notin lapped'
      PROVE  cred'[d] = who'[of'[d]] /\ of'[d] \in doubled'
  <2>1. phase[d] = phase'[d] /\ d # socket[k]
    BY <1>3, <1>6
  <2>2. of[d] \in Conn /\ Exists(of[d])
    BY <1>6, <2>1, ChainFacts
  <2>3. cred[d] = who[of[d]]
    BY <1>1, <1>2, <1>6, <2>1 DEF StreamInv, DialedAsSelf
  <2>4. of[d] = k => k \in doubled
    <3>. SUFFICES ASSUME of[d] = k, k \notin doubled PROVE FALSE
      OBVIOUS
    <3>1. phase[d] \notin {"unused", "over", "threw"} /\ ObjectOK(k)
      BY <1>6, <2>1 DEF StreamInv, ConnInv
    <3>2. Describes(k, d)
      BY <3>1, SoleChain
    <3>. QED
      BY <1>6, <2>1, <3>2 DEF Describes
  <2>5. of[d] \in doubled
    BY <1>1, <1>2, <1>6, <2>1, <2>4 DEF StreamInv, OpenIsSessions
  <2>. QED
    BY <1>2, <2>2, <2>3, <2>5 DEF StreamAssumption
<1>7. DialedAsSelf' /\ OpenIsSessions'
  BY <1>6 DEF DialedAsSelf, OpenIsSessions
<1>8. DroppedIsClosed'
  BY <1>1, <1>2 DEF StreamInv, DroppedIsClosed
<1>9. TurnOK'
  BY <1>1 DEF TurnOK, StreamAssumption, ConnectionAssumption
<1>10. UserIsClients' /\ FacadeFresh'
  BY <1>1 DEF UserIsClients, FacadeFresh
<1>. QED
  BY <1>4, <1>5, <1>7, <1>8, <1>9, <1>10 DEF StreamInv

(* What only the facade itself remembers.                                  *)
LEMMA MemoKeeps ==
  ASSUME StreamAssumption, ConnectionAssumption, StreamInv, ConnInv',
         \/ \E c \in Call : Finish(c)
         \/ \E g \in Cid : Channel(g)
         \/ QueryChannels \/ QueryAnswered \/ UNCHANGED vars
  PROVE  StreamInv'
<1>1. CASE \E c \in Call : Finish(c)
  <2>. PICK c \in Call : Finish(c)
    BY <1>1
  <2>1. /\ UNCHANGED <<connVars, client, token, who, facade, asked, lapped, stale>>
        /\ pend[c] = "connecting" /\ promise[c] = "resolved"
        /\ pend'[c] = "done" /\ \A d \in Call : d # c => pend'[d] = pend[d]
        /\ currentUser' = who[c] /\ late' = (client # c) /\ pend' = [pend EXCEPT ![c] = "done"]
    BY DEF Finish, StreamInv, SessionType
  <2>2. SessionType'
    BY <2>1 DEF StreamInv, SessionType
  <2>3. \A d \in Call : Exists(d)' <=> Exists(d)
    BY <2>1 DEF Exists
  <2>4. ClientsExist'
    <3>1. \A d \in Call : phase[d] # "unused" => of[d] \in Call
      BY ChainFacts DEF StreamAssumption
    <3>2. client # None => client \in Call
      BY DEF StreamInv, SessionType, StreamAssumption
    <3>3. \A d \in Call : pend'[d] = "yielded" => pend[d] = "yielded"
      BY <2>1
    <3>. QED
      BY <2>1, <2>3, <3>1, <3>2, <3>3
      DEF StreamInv, ClientsExist, connVars, fields, chains
  <2>5. AskedAsSelf' /\ DialedAsSelf' /\ OpenIsSessions' /\ DroppedIsClosed'
    BY <2>1 DEF StreamInv, AskedAsSelf, DialedAsSelf, OpenIsSessions, DroppedIsClosed,
                connVars, fields, chains
  <2>6. TurnOK'
    <3>1. Yielded' <=> Yielded
      BY <2>1 DEF Yielded
    <3>2. Yielded => client # c
      BY <2>1 DEF StreamInv, TurnOK
    <3>. QED
      BY <2>1, <3>1, <3>2 DEF StreamInv, TurnOK, connVars, chains
  <2>7. UserIsClients'
    <3>1. c # None
      BY DEF StreamAssumption, ConnectionAssumption
    <3>. QED
      BY <2>1, <3>1 DEF UserIsClients
  <2>8. FacadeFresh'
    BY <2>1 DEF StreamInv, FacadeFresh
  <2>. QED
    BY <2>2, <2>4, <2>5, <2>6, <2>7, <2>8 DEF StreamInv
<1>2. ASSUME /\ UNCHANGED <<connVars, client, currentUser, token, who, pend, lapped, late>>
             /\ SessionType' /\ FacadeFresh'
      PROVE  StreamInv'
  <2>1. ClientsExist' /\ AskedAsSelf' /\ DialedAsSelf' /\ OpenIsSessions' /\ DroppedIsClosed'
    BY <1>2 DEF StreamInv, ClientsExist, Exists, AskedAsSelf, DialedAsSelf, OpenIsSessions,
                DroppedIsClosed, connVars, fields, chains
  <2>2. TurnOK' /\ UserIsClients'
    BY <1>2 DEF StreamInv, TurnOK, Yielded, UserIsClients, connVars, chains
  <2>. QED
    BY <1>2, <2>1, <2>2 DEF StreamInv
<1>3. CASE \E g \in Cid : Channel(g)
  BY <1>2, <1>3 DEF Channel, Asks, StreamInv, SessionType, FacadeFresh, history
<1>4. CASE QueryChannels
  BY <1>2, <1>4 DEF QueryChannels, Asks, StreamInv, SessionType, FacadeFresh, history
<1>5. CASE QueryAnswered
  <2>1. PICK found \in SUBSET Cid :
          /\ facade' = [g \in Cid |-> IF g \in found THEN asked ELSE facade[g]]
          /\ stale' = IF asked # client THEN stale \cup found ELSE stale \ found
    BY <1>5 DEF QueryAnswered
  <2>2. /\ asked' = None /\ asked # None
        /\ UNCHANGED <<connVars, client, currentUser, token, who, pend, lapped, late>>
    BY <1>5 DEF QueryAnswered
  <2>3. SessionType'
    BY <2>1, <2>2 DEF StreamInv, SessionType
  <2>4. FacadeFresh'
    BY <2>1, <2>2 DEF StreamInv, FacadeFresh
  <2>. QED
    BY <1>2, <2>2, <2>3, <2>4
<1>6. CASE UNCHANGED vars
  BY <1>2, <1>6 DEF vars, session, history, StreamInv, SessionType, FacadeFresh
<1>. QED
  BY <1>1, <1>3, <1>4, <1>5, <1>6
-----------------------------------------------------------------------------
LEMMA StreamInvInit ==
  ASSUME StreamAssumption, ConnectionAssumption, Init
  PROVE  StreamInv
<1>1. ConnInv
  BY ConnInvInit DEF Init
<1>2. /\ SessionType /\ ClientsExist /\ AskedAsSelf /\ DialedAsSelf /\ OpenIsSessions
      /\ DroppedIsClosed
  BY DEF Init, ConnInit, SessionType, ClientsExist, AskedAsSelf, DialedAsSelf,
         OpenIsSessions, DroppedIsClosed
<1>3. TurnOK /\ UserIsClients /\ FacadeFresh
  BY DEF Init, TurnOK, UserIsClients, FacadeFresh
<1>. QED
  BY <1>1, <1>2, <1>3 DEF StreamInv

LEMMA StreamInvNext ==
  ASSUME StreamAssumption, ConnectionAssumption, StreamInv, [Next]_vars
  PROVE  StreamInv'
<1>1. ConnInv'
  BY StepIsConnStep, ConnInvNext DEF StreamInv
<1>2. ASSUME NEW c \in Call, NEW u \in Token, ConnectUser(c, u) PROVE StreamInv'
  <2>1. /\ pend[c] = "none" /\ ~Exists(c) /\ who' = [who EXCEPT ![c] = u]
        /\ who'[c] = u /\ \A d \in Call : d # c => who'[d] = who[d]
    BY <1>2 DEF ConnectUser, Fresh, Made, Exists, StreamInv, SessionType
  <2>2. CASE client = None /\ Open(c, u)
    <3>1. currentUser = None \/ late
      BY <2>2 DEF StreamInv, UserIsClients
    <3>2. SessionType'
      BY <2>1, <2>2 DEF Open, StreamInv, SessionType, StreamAssumption
    <3>. QED
      BY <1>1, <2>1, <2>2, <3>1, <3>2, OpenKeeps
  <2>3. CASE client # None /\ Leave /\ pend' = [pend EXCEPT ![c] = "yielded"]
    <3>1. SessionType'
      BY <2>1, <2>3 DEF Leave, Forget, StreamInv, SessionType, StreamAssumption
    <3>2. \A d \in Call : Exists(d) => pend'[d] = pend[d] /\ who'[d] = who[d]
      BY <2>1, <2>3 DEF Exists, StreamInv, SessionType
    <3>3. \A d \in Call : pend'[d] = "yielded" => who'[d] # None
      BY <2>1, <2>3 DEF StreamInv, SessionType, ClientsExist, ConnectionAssumption
    <3>. QED
      BY <1>1, <2>3, <3>1, <3>2, <3>3, LeaveKeeps
  <2>. QED
    BY <1>2, <2>2, <2>3 DEF ConnectUser
<1>3. ASSUME NEW c \in Call, Resume(c) PROVE StreamInv'
  <2>. PICK u \in Token : u = who[c]
    BY <1>3 DEF Resume, StreamInv, SessionType, ClientsExist
  <2>1. Open(c, u) /\ who' = who /\ ~Exists(c) /\ Yielded
    BY <1>3 DEF Resume, Exists, Yielded
  <2>2. currentUser = None \/ late
    BY <2>1 DEF StreamInv, TurnOK
  <2>3. SessionType'
    BY <2>1 DEF Open, StreamInv, SessionType, StreamAssumption
  <2>. QED
    BY <1>1, <2>1, <2>2, <2>3, OpenKeeps
<1>4. CASE DisconnectUser
  <2>1. SessionType'
    BY <1>4 DEF DisconnectUser, Leave, Forget, StreamInv, SessionType
  <2>2. /\ client # None /\ Leave /\ UNCHANGED <<who, pend>>
        /\ \A d \in Call : pend'[d] = "yielded" => who'[d] # None
    BY <1>4 DEF DisconnectUser, StreamInv, ClientsExist
  <2>. QED
    BY <1>1, <2>1, <2>2, LeaveKeeps
<1>5. CASE \E c \in Call : OpenConnection(c) \/ Provide(c) \/ Network(c) \/ Timer(c)
  BY <1>1, <1>5, OpenConnectionIsCalm, ProvideIsCalm, NetworkIsCalm, TimerIsCalm, CalmKeeps
<1>6. CASE WatchChannel \/ CloseConnection
  BY <1>1, <1>6, WatchIsCalm, CloseIsCalm, CalmKeeps
<1>7. CASE \/ \E c \in Call : Finish(c)
           \/ \E g \in Cid : Channel(g)
           \/ QueryChannels \/ QueryAnswered \/ UNCHANGED vars
  BY <1>1, <1>7, MemoKeeps
<1>. QED
  BY <1>2, <1>3, <1>4, <1>5, <1>6, <1>7 DEF Next

LEMMA StreamInvMeans ==
  ASSUME StreamAssumption, ConnectionAssumption, StreamInv
  PROVE  /\ TypeOK /\ FieldsHonest /\ PendingIsPursued /\ WatchedIsSubscribed
         /\ OpenAsSelf /\ UserIsClients /\ FacadeFresh
<1>1. ConnTypeOK /\ FieldsHonest /\ PendingIsPursued /\ WatchedIsSubscribed
  BY ConnInvMeans DEF StreamInv
<1>2. TypeOK
  BY <1>1 DEF StreamInv, SessionType, TypeOK
<1>3. OpenAsSelf
  BY DEF StreamInv, DialedAsSelf, OpenIsSessions, DroppedIsClosed, OpenAsSelf
<1>. QED
  BY <1>1, <1>2, <1>3 DEF StreamInv

LEMMA StreamInvAlways == Spec => []StreamInv
<1>1. Init => StreamInv
  BY StreamInvInit, StreamAssumption, ConnectionAssumption
<1>2. StreamInv /\ [Next]_vars => StreamInv'
  BY StreamInvNext, StreamAssumption, ConnectionAssumption
<1>. QED
  BY <1>1, <1>2, PTL DEF Spec

-----------------------------------------------------------------------------
(* The facade implements the connections: hiding what it adds, each of its *)
(* behaviours is one of theirs, step by step.                              *)
THEOREM FacadeImplementsConnections == Spec => ConnSpec
<1>1. Init => ConnInit
  BY DEF Init
<1>2. StreamInv /\ [Next]_vars => [ConnNext]_connVars
  BY StepIsConnStep, StreamAssumption DEF StreamInv
<1>. QED
  BY <1>1, <1>2, StreamInvAlways, PTL DEF Spec, ConnSpec

(* The facade keeps its types and those of its connections.                *)
THEOREM StreamTypeCorrect == Spec => []TypeOK
<1>1. StreamInv => TypeOK
  BY StreamInvMeans, StreamAssumption, ConnectionAssumption
<1>. QED
  BY <1>1, StreamInvAlways, PTL

(* No socket is open with another user's token, and none of another        *)
(* session, but for the two exceptions the property names.                 *)
THEOREM SocketsAreTheUsers == Spec => []OpenAsSelf
<1>1. StreamInv => OpenAsSelf
  BY StreamInvMeans, StreamAssumption, ConnectionAssumption
<1>. QED
  BY <1>1, StreamInvAlways, PTL

(* The user the facade shows is the user of its client.                    *)
THEOREM ShownUserIsClients == Spec => []UserIsClients
<1>1. StreamInv => UserIsClients
  BY StreamInvMeans, StreamAssumption, ConnectionAssumption
<1>. QED
  BY <1>1, StreamInvAlways, PTL

(* No memoised channel outlives its session but through a late answer.     *)
THEOREM MemoisedIsFresh == Spec => []FacadeFresh
<1>1. StreamInv => FacadeFresh
  BY StreamInvMeans, StreamAssumption, ConnectionAssumption
<1>. QED
  BY <1>1, StreamInvAlways, PTL
=============================================================================
