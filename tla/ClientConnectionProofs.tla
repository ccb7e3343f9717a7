----------------------- MODULE ClientConnectionProofs -----------------------
(***************************************************************************)
(* Proofs about ClientConnection, for any objects, calls, tokens and limit *)
(* of retries.  Every action acts on one object and on chains of that      *)
(* object only, so the invariant is stated per object: what it refers to   *)
(* is a chain of its own in the right phase, whose promise it can settle   *)
(* is pending with a chain left that will settle it unless making its      *)
(* socket threw, and, as long as the object was never connected twice at   *)
(* once, its fields describe its only chain.                               *)
(***************************************************************************)
EXTENDS ClientConnection, TLAPS

UnusedOK == \A c \in Call :
  /\ phase[c] = "unused" <=> of[c] = None
  /\ phase[c] = "unused" => promise[c] = "none"

RefsOK(k) ==
  /\ socket[k] # None => of[socket[k]] = k /\ phase[socket[k]] \in {"dialing", "live"}
  /\ timer[k] # None => of[timer[k]] = k /\ phase[timer[k]] = "timer"

Unsettled == {"await", "dialing", "timer", "live", "threw"}

SettleOK(k) ==
  /\ userClosed[k] => settle[k] = None
  /\ settle[k] # None => /\ of[settle[k]] = k /\ promise[settle[k]] = "pending"
                         /\ phase[settle[k]] \in Unsettled

SoleOK(k) == k \notin doubled => Honest(k)

PursuitOK(k) ==
  k \notin doubled =>
    \A c \in Call : of[c] = k /\ promise[c] = "pending" /\ phase[c] # "threw" =>
      settle[k] = c /\ phase[c] \in {"await", "dialing", "timer"}

SubscribedOK(k) ==
  k \notin doubled /\ status[k] = "connected" /\ watching[k] => subscribed[socket[k]]

ObjectOK(k) ==
  RefsOK(k) /\ SettleOK(k) /\ SoleOK(k) /\ PursuitOK(k) /\ SubscribedOK(k)

ConnInv == ConnTypeOK /\ UnusedOK /\ \A k \in Conn : ObjectOK(k)

-----------------------------------------------------------------------------
(* The types.                                                              *)
LEMMA SettleType ==
  ASSUME ConnTypeOK, ConnectionAssumption, NEW k \in Conn,
         NEW outcome \in {"resolved", "rejected"}, Settle(k, outcome)
  PROVE  /\ settle' \in [Conn -> Call \cup {None}]
         /\ promise' \in [Call -> {"none", "pending", "resolved", "rejected"}]
BY DEF ConnTypeOK, Settle

LEMMA OnCloseType ==
  ASSUME ConnTypeOK, ConnectionAssumption, NEW k \in Conn, NEW c \in Call,
         OnClose(k, c)
  PROVE  ConnTypeOK'
<1>1. CASE userClosed[k]
  BY <1>1 DEF OnClose, ConnTypeOK, Status, Phase
<1>2. CASE ~userClosed[k] /\ Retries(k)
  <2>1. attempt[k] + 1 \in 0 .. MaxRetries
    BY <1>2 DEF Retries, ConnTypeOK, ConnectionAssumption
  <2>. QED
    BY <1>2, <2>1 DEF OnClose, ConnTypeOK, Status, Phase
<1>3. CASE ~userClosed[k] /\ ~Retries(k)
  <2>1. Settle(k, "rejected")
    BY <1>3 DEF OnClose
  <2>. QED
    BY <1>3, <2>1, SettleType DEF OnClose, ConnTypeOK, Status, Phase
<1>. QED
  BY <1>1, <1>2, <1>3

LEMMA ConnTypeNext ==
  ASSUME ConnTypeOK, UnusedOK, ConnectionAssumption, [ConnNext]_connVars
  PROVE  ConnTypeOK'
<1>1. CASE UNCHANGED connVars
  BY <1>1 DEF connVars, fields, chains, ConnTypeOK
<1>2. ASSUME NEW k \in Conn, Close(k) PROVE ConnTypeOK'
  <2>1. Settle(k, "rejected")
    BY <1>2 DEF Close
  <2>2. phase' \in [Call -> Phase]
    BY <1>2 DEF Close, ClosedPhase, ConnTypeOK, Phase
  <2>. QED
    BY <1>2, <2>1, <2>2, SettleType DEF Close, ConnTypeOK, Status
<1>3. ASSUME NEW k \in Conn, Watch(k) PROVE ConnTypeOK'
  BY <1>3 DEF Watch, ConnTypeOK
<1>4. ASSUME NEW k \in Conn, NEW c \in Call, Connected(k, c) PROVE ConnTypeOK'
  BY <1>4 DEF Connected, fields, ConnTypeOK, Phase
<1>5. ASSUME NEW k \in Conn, NEW c \in Call, NEW t \in Token \cup {None},
             Connect(k, c, t)
      PROVE  ConnTypeOK'
  BY <1>5 DEF Connect, ConnTypeOK, ConnectionAssumption, Status, Phase
<1>6. ASSUME NEW c \in Call, UrlReady(c) PROVE ConnTypeOK'
  <2>1. of[c] \in Conn
    BY <1>6 DEF UrlReady, UnusedOK, ConnTypeOK
  <2>. QED
    BY <1>6, <2>1 DEF UrlReady, ConnTypeOK, Phase
<1>7. ASSUME NEW c \in Call, UrlFails(c) \/ SocketCloses(c) PROVE ConnTypeOK'
  <2>1. of[c] \in Conn /\ OnClose(of[c], c)
    BY <1>7 DEF UrlFails, SocketCloses, UnusedOK, ConnTypeOK
  <2>. QED
    BY <2>1, OnCloseType
<1>8. ASSUME NEW c \in Call, Hello(c) PROVE ConnTypeOK'
  <2>1. of[c] \in Conn
    BY <1>8 DEF Hello, UnusedOK, ConnTypeOK
  <2>2. /\ settle' \in [Conn -> Call \cup {None}]
        /\ promise' \in [Call -> {"none", "pending", "resolved", "rejected"}]
        /\ subscribed' \in [Call -> BOOLEAN]
    <3>1. CASE watching[of[c]] /\ ~Sendable(of[c], c)
      BY <1>8, <3>1 DEF Hello, ConnTypeOK
    <3>2. CASE ~(watching[of[c]] /\ ~Sendable(of[c], c))
      <4>1. Settle(of[c], "resolved") /\ subscribed' = Resubscribed(of[c])
        BY <1>8, <3>2 DEF Hello
      <4>. QED
        BY <2>1, <4>1, SettleType DEF Resubscribed, ConnTypeOK
    <3>. QED
      BY <3>1, <3>2
  <2>3. attempt' \in [Conn -> 0 .. MaxRetries]
    <3>1. 0 \in 0 .. MaxRetries
      BY DEF ConnectionAssumption
    <3>2. attempt' = [attempt EXCEPT ![of[c]] = 0]
      BY <1>8 DEF Hello
    <3>. QED
      BY <3>1, <3>2 DEF ConnTypeOK
  <2>. QED
    BY <1>8, <2>1, <2>2, <2>3 DEF Hello, ConnTypeOK, Status, Phase
<1>9. ASSUME NEW c \in Call, NEW t \in Token \cup {None}, TimerFires(c, t)
      PROVE  ConnTypeOK'
  <2>1. of[c] \in Conn
    BY <1>9 DEF TimerFires, UnusedOK, ConnTypeOK
  <2>2. status' \in [Conn -> Status]
    BY <1>9, <2>1 DEF TimerFires, ConnTypeOK, Status
  <2>. QED
    BY <1>9, <2>1, <2>2 DEF TimerFires, ConnTypeOK, Phase
<1>. QED
  BY <1>1, <1>2, <1>3, <1>4, <1>5, <1>6, <1>7, <1>8, <1>9 DEF ConnNext
-----------------------------------------------------------------------------
(* An object whose fields and chains a step leaves alone stays as it was.  *)
Same(k) ==
  /\ socket'[k] = socket[k] /\ timer'[k] = timer[k] /\ settle'[k] = settle[k]
  /\ status'[k] = status[k] /\ userClosed'[k] = userClosed[k]
  /\ watching'[k] = watching[k]
  /\ k \in doubled' <=> k \in doubled
  /\ \A c \in Call : of'[c] = k <=> of[c] = k
  /\ \A c \in Call : of[c] = k =>
       phase'[c] = phase[c] /\ promise'[c] = promise[c] /\ subscribed'[c] = subscribed[c]

LEMMA SameStays ==
  ASSUME NEW k \in Conn, ConnTypeOK, ConnTypeOK', ConnectionAssumption, ObjectOK(k), Same(k)
  PROVE  ObjectOK(k)'
<1>1. Active(k)' = Active(k)
  BY DEF Active, Same
<1>2. RefsOK(k)'
  BY DEF ObjectOK, RefsOK, Same, ConnTypeOK
<1>3. SettleOK(k)'
  BY <1>1 DEF ObjectOK, SettleOK, Unsettled, Same, ConnTypeOK
<1>4. SoleOK(k)'
  <2>. SUFFICES ASSUME k \notin doubled PROVE Honest(k)'
    BY DEF SoleOK, Same
  <2>1. Honest(k)
    BY DEF ObjectOK, SoleOK
  <2>2. ASSUME NEW c \in Active(k) PROVE Describes(k, c)'
    BY <2>1, <2>2 DEF Honest, Resting, Describes, Same, Active
  <2>. QED
    BY <1>1, <2>1, <2>2 DEF Honest, Resting, Same
<1>5. PursuitOK(k)'
  BY DEF ObjectOK, PursuitOK, Same
<1>6. SubscribedOK(k)'
  <2>. SUFFICES ASSUME k \notin doubled, status[k] = "connected", watching[k]
                PROVE  subscribed'[socket'[k]]
    BY DEF SubscribedOK, Same
  <2>1. subscribed[socket[k]]
    BY DEF ObjectOK, SubscribedOK
  <2>2. Active(k) # {}
    BY DEF ObjectOK, SoleOK, Honest, Resting
  <2>3. PICK c \in Active(k) : Describes(k, c)
    BY <2>2 DEF ObjectOK, SoleOK, Honest, Resting
  <2>4. socket[k] = c /\ c \in Call /\ of[c] = k
    BY <2>3 DEF Describes, Active
  <2>. QED
    BY <2>1, <2>4 DEF Same
<1>. QED
  BY <1>2, <1>3, <1>4, <1>5, <1>6 DEF ObjectOK
-----------------------------------------------------------------------------
(* The object an action is about, action by action.                        *)
LEMMA SoleChain ==
  ASSUME NEW k \in Conn, NEW c \in Call, of[c] = k, phase[c] \notin {"unused", "over", "threw"},
         ObjectOK(k), k \notin doubled
  PROVE  Active(k) = {c} /\ Describes(k, c)
BY DEF Active, ObjectOK, SoleOK, Honest, Resting

LEMMA OnCloseKeeps ==
  ASSUME NEW k \in Conn, NEW c \in Call, of[c] = k,
         phase[c] \in {"await", "dialing", "live", "closing"},
         ConnTypeOK, ConnTypeOK', ConnectionAssumption, ObjectOK(k), OnClose(k, c)
  PROVE  ObjectOK(k)'
<1>1. /\ of' = of /\ doubled' = doubled /\ userClosed' = userClosed
      /\ watching' = watching /\ socket'[k] = None
      /\ status'[k] \in {"closed", "reconnecting"}
      /\ phase'[c] \in {"timer", "over"}
      /\ \A d \in Call : d # c => phase'[d] = phase[d]
  BY DEF OnClose, ConnTypeOK
<1>2. k \notin doubled => Active(k) = {c} /\ Describes(k, c)
  BY SoleChain
<1>3. SubscribedOK(k)'
  BY <1>1 DEF SubscribedOK
<1>4. CASE userClosed[k]
  <2>1. status'[k] = "closed" /\ phase'[c] = "over" /\ UNCHANGED <<timer, settle, promise>>
    BY <1>4 DEF OnClose, ConnTypeOK
  <2>2. RefsOK(k)'
    BY <1>1, <2>1 DEF ObjectOK, RefsOK, ConnTypeOK
  <2>3. settle[k] = None
    BY <1>4 DEF ObjectOK, SettleOK, Unsettled
  <2>4. SettleOK(k)'
    BY <1>1, <2>1, <2>3 DEF SettleOK, Unsettled
  <2>5. PursuitOK(k)'
    BY <1>1, <2>1, <2>3 DEF ObjectOK, PursuitOK, ConnectionAssumption
  <2>6. SoleOK(k)'
    <3>. SUFFICES ASSUME k \notin doubled PROVE Honest(k)'
      BY <1>1 DEF SoleOK
    <3>1. Active(k)' = {}
      BY <1>1, <1>2, <2>1 DEF Active
    <3>2. timer'[k] = None
      BY <1>2, <2>1 DEF Describes
    <3>. QED
      BY <1>1, <2>1, <3>1, <3>2 DEF Honest, Resting
  <2>. QED
    BY <1>3, <2>2, <2>4, <2>5, <2>6 DEF ObjectOK
<1>5. CASE ~userClosed[k] /\ Retries(k)
  <2>1. /\ status'[k] = "reconnecting" /\ phase'[c] = "timer" /\ timer'[k] = c
        /\ UNCHANGED <<settle, promise>>
    BY <1>5 DEF OnClose, ConnTypeOK
  <2>2. RefsOK(k)'
    BY <1>1, <2>1 DEF RefsOK
  <2>3. SettleOK(k)'
    BY <1>1, <1>5, <2>1 DEF ObjectOK, SettleOK, Unsettled, ConnTypeOK
  <2>4. PursuitOK(k)'
    BY <1>1, <2>1 DEF ObjectOK, PursuitOK
  <2>5. SoleOK(k)'
    <3>. SUFFICES ASSUME k \notin doubled PROVE Honest(k)'
      BY <1>1 DEF SoleOK
    <3>1. Active(k)' = {c}
      BY <1>1, <1>2, <2>1 DEF Active
    <3>2. Describes(k, c)'
      BY <1>1, <1>5, <2>1 DEF Describes
    <3>. QED
      BY <3>1, <3>2 DEF Honest, Resting
  <2>. QED
    BY <1>3, <2>2, <2>3, <2>4, <2>5 DEF ObjectOK
<1>6. CASE ~userClosed[k] /\ ~Retries(k)
  <2>1. /\ status'[k] = "closed" /\ phase'[c] = "over" /\ timer' = timer
        /\ settle'[k] = None
        /\ \A d \in Call : promise'[d] = IF d = settle[k] THEN "rejected" ELSE promise[d]
    BY <1>6 DEF OnClose, Settle, ConnTypeOK
  <2>2. RefsOK(k)'
    BY <1>1, <2>1 DEF ObjectOK, RefsOK, ConnTypeOK
  <2>3. SettleOK(k)'
    BY <2>1 DEF SettleOK, Unsettled
  <2>4. PursuitOK(k)'
    BY <1>1, <2>1 DEF ObjectOK, PursuitOK
  <2>5. SoleOK(k)'
    <3>. SUFFICES ASSUME k \notin doubled PROVE Honest(k)'
      BY <1>1 DEF SoleOK
    <3>1. Active(k)' = {}
      BY <1>1, <1>2, <2>1 DEF Active
    <3>2. timer'[k] = None
      BY <1>2, <2>1 DEF Describes
    <3>. QED
      BY <1>1, <2>1, <3>1, <3>2 DEF Honest, Resting
  <2>. QED
    BY <1>3, <2>2, <2>3, <2>4, <2>5 DEF ObjectOK
<1>. QED
  BY <1>4, <1>5, <1>6

LEMMA ConnectedKeeps ==
  ASSUME NEW k \in Conn, NEW c \in Call, ConnTypeOK, UnusedOK, ConnectionAssumption,
         ObjectOK(k), Connected(k, c)
  PROVE  ObjectOK(k)'
<1>1. /\ UNCHANGED <<fields, subscribed, doubled>>
      /\ of[c] = None /\ of'[c] = k /\ phase[c] = "unused" /\ phase'[c] = "over"
      /\ promise'[c] = "resolved"
      /\ \A d \in Call : d # c => of'[d] = of[d] /\ phase'[d] = phase[d]
                                  /\ promise'[d] = promise[d]
  BY DEF Connected, ConnTypeOK, UnusedOK
<1>2. k # None
  BY DEF ConnectionAssumption
<1>3. Active(k)' = Active(k) /\ c \notin Active(k)
  BY <1>1 DEF Active
<1>4. RefsOK(k)'
  BY <1>1, <1>2 DEF ObjectOK, RefsOK, fields, ConnTypeOK
<1>5. SettleOK(k)'
  BY <1>1, <1>2, <1>3 DEF ObjectOK, SettleOK, Unsettled, fields, ConnTypeOK
<1>6. SoleOK(k)'
  <2>. SUFFICES ASSUME k \notin doubled PROVE Honest(k)'
    BY <1>1 DEF SoleOK
  <2>1. ASSUME NEW d \in Active(k) PROVE Describes(k, d)'
    <3>1. Describes(k, d) /\ d \in Call /\ d # c
      BY <1>3 DEF ObjectOK, SoleOK, Honest, Resting, Active
    <3>. QED
      BY <1>1, <3>1 DEF Describes, fields
  <2>. QED
    BY <1>1, <1>3, <2>1 DEF ObjectOK, SoleOK, Honest, Resting, fields
<1>7. PursuitOK(k)'
  BY <1>1 DEF ObjectOK, PursuitOK, fields
<1>8. SubscribedOK(k)'
  BY <1>1 DEF ObjectOK, SubscribedOK, fields
<1>. QED
  BY <1>4, <1>5, <1>6, <1>7, <1>8 DEF ObjectOK

LEMMA ConnectKeeps ==
  ASSUME NEW k \in Conn, NEW c \in Call, NEW t \in Token \cup {None},
         ConnTypeOK, UnusedOK, ConnectionAssumption, ObjectOK(k), Connect(k, c, t)
  PROVE  ObjectOK(k)'
<1>1. /\ UNCHANGED <<socket, timer, watching, subscribed>>
      /\ status'[k] = "connecting" /\ settle'[k] = c /\ userClosed'[k] = FALSE
      /\ of[c] = None /\ of'[c] = k /\ phase[c] = "unused" /\ phase'[c] = "await"
      /\ promise'[c] = "pending"
      /\ \A d \in Call : d # c => of'[d] = of[d] /\ phase'[d] = phase[d]
                                  /\ promise'[d] = promise[d]
  BY DEF Connect, ConnTypeOK, UnusedOK
<1>2. k \notin doubled' => k \notin doubled /\ Active(k) = {}
  BY DEF Connect, ConnTypeOK
<1>3. k # None
  BY DEF ConnectionAssumption
<1>4. RefsOK(k)'
  BY <1>1, <1>3 DEF ObjectOK, RefsOK, ConnTypeOK
<1>5. SettleOK(k)'
  BY <1>1 DEF SettleOK, Unsettled, Active
<1>6. SoleOK(k)'
  <2>. SUFFICES ASSUME k \notin doubled' PROVE Honest(k)'
    BY DEF SoleOK
  <2>1. Active(k)' = {c}
    BY <1>1, <1>2 DEF Active
  <2>2. socket[k] = None /\ timer[k] = None
    BY <1>2 DEF ObjectOK, SoleOK, Honest, Resting
  <2>3. Describes(k, c)'
    BY <1>1, <2>2 DEF Describes
  <2>. QED
    BY <2>1, <2>3 DEF Honest, Resting
<1>7. PursuitOK(k)'
  <2>. SUFFICES ASSUME k \notin doubled', NEW d \in Call, of'[d] = k,
                       promise'[d] = "pending", phase'[d] # "threw"
                PROVE  settle'[k] = d /\ phase'[d] \in {"await", "dialing", "timer"}
    BY DEF PursuitOK
  <2>1. CASE d = c
    BY <1>1, <2>1
  <2>2. CASE d # c
    <3>1. phase[d] \in {"await", "dialing", "timer"} /\ of[d] = k
      BY <1>1, <1>2, <2>2 DEF ObjectOK, PursuitOK
    <3>2. d \in Active(k)
      BY <3>1 DEF Active
    <3>. QED
      BY <1>2, <3>2
  <2>. QED
    BY <2>1, <2>2
<1>8. SubscribedOK(k)'
  BY <1>1 DEF SubscribedOK
<1>. QED
  BY <1>4, <1>5, <1>6, <1>7, <1>8 DEF ObjectOK

(* The chains close() touches are the object's own.                        *)
LEMMA CloseOwn ==
  ASSUME NEW k \in Conn, ConnTypeOK, ConnectionAssumption, ObjectOK(k), Close(k)
  PROVE  \A c \in Call :
           \/ phase'[c] = phase[c] /\ c # socket[k] /\ c # timer[k]
           \/ of[c] = k /\ phase[c] = "timer" /\ phase'[c] = "over"
           \/ of[c] = k /\ phase[c] \in {"dialing", "live"} /\ phase'[c] = "closing"
BY DEF Close, ClosedPhase, ObjectOK, RefsOK, ConnTypeOK

LEMMA CloseKeeps ==
  ASSUME NEW k \in Conn, ConnTypeOK, ConnTypeOK', UnusedOK, ConnectionAssumption,
         ObjectOK(k), Close(k)
  PROVE  ObjectOK(k)'
<1>1. /\ of' = of /\ doubled' = doubled /\ userClosed'[k] = TRUE
      /\ socket'[k] = None /\ timer'[k] = None /\ status'[k] = "closed"
      /\ settle'[k] = None
      /\ \A d \in Call : promise'[d] = IF d = settle[k] THEN "rejected" ELSE promise[d]
  BY DEF Close, Settle, ConnTypeOK
<1>2. RefsOK(k)' /\ SettleOK(k)' /\ SubscribedOK(k)'
  BY <1>1 DEF RefsOK, SettleOK, Unsettled, SubscribedOK
<1>3. PursuitOK(k)'
  <2>1. \A d \in Call : phase[d] = "threw" => phase'[d] = "threw"
    BY CloseOwn
  <2>. QED
    BY <1>1, <2>1 DEF ObjectOK, PursuitOK
<1>4. SoleOK(k)'
  <2>. SUFFICES ASSUME k \notin doubled PROVE Honest(k)'
    BY <1>1 DEF SoleOK
  <2>1. \A c \in Active(k)' : c \in Active(k)
    BY <1>1, CloseOwn DEF Active
  <2>2. ASSUME NEW c \in Active(k)' PROVE Describes(k, c)'
    <3>1. c \in Call /\ c \in Active(k) /\ Describes(k, c)
      BY <2>1, <2>2 DEF ObjectOK, SoleOK, Honest, Resting, Active
    <3>2. /\ phase'[c] \notin {"over", "threw"}
          /\ phase[c] \notin {"unused", "over", "threw"}
      BY <2>2, <3>1 DEF Active
    <3>3. phase'[c] \in {"await", "closing"}
      <4>1. CASE phase[c] \in {"dialing", "live", "timer"}
        BY <3>1, <3>2, <4>1, CloseOwn DEF Describes
      <4>2. CASE phase[c] \in {"await", "closing"}
        BY <3>1, <3>2, <4>2, CloseOwn
      <4>. QED
        BY <3>1, <3>2, <4>1, <4>2 DEF ConnTypeOK, Phase
    <3>. QED
      BY <1>1, <3>3 DEF Describes
  <2>3. \A c, d \in Active(k)' : c = d
    BY <2>1 DEF ObjectOK, SoleOK, Honest, Resting
  <2>. QED
    BY <1>1, <2>2, <2>3 DEF Honest, Resting
<1>. QED
  BY <1>2, <1>3, <1>4 DEF ObjectOK

LEMMA WatchKeeps ==
  ASSUME NEW k \in Conn, ConnTypeOK, ConnectionAssumption, ObjectOK(k), Watch(k)
  PROVE  ObjectOK(k)'
<1>1. /\ UNCHANGED <<status, attempt, userClosed, socket, timer, settle, of, phase,
                     cred, promise, doubled>>
      /\ \A c \in Call : subscribed'[c] <=>
           \/ subscribed[c]
           \/ status[k] = "connected" /\ c = socket[k] /\ phase[c] = "live"
  BY DEF Watch
<1>2. Active(k)' = Active(k)
  BY <1>1 DEF Active
<1>3. RefsOK(k)' /\ PursuitOK(k)'
  BY <1>1 DEF ObjectOK, RefsOK, PursuitOK
<1>4. SettleOK(k)'
  BY <1>1, <1>2 DEF ObjectOK, SettleOK, Unsettled
<1>5. SoleOK(k)'
  BY <1>1, <1>2 DEF ObjectOK, SoleOK, Honest, Resting, Describes
<1>6. SubscribedOK(k)'
  <2>. SUFFICES ASSUME k \notin doubled, status[k] = "connected"
                PROVE  subscribed'[socket[k]]
    BY <1>1 DEF SubscribedOK
  <2>1. PICK c \in Active(k) : Describes(k, c)
    BY DEF ObjectOK, SoleOK, Honest, Resting
  <2>2. c \in Call /\ phase[c] = "live" /\ socket[k] = c
    BY <2>1 DEF Describes, Active
  <2>. QED
    BY <1>1, <2>2
<1>. QED
  BY <1>3, <1>4, <1>5, <1>6 DEF ObjectOK

LEMMA UrlReadyKeeps ==
  ASSUME NEW c \in Call, NEW k \in Conn, of[c] = k, ConnTypeOK, ConnectionAssumption,
         ObjectOK(k), UrlReady(c)
  PROVE  ObjectOK(k)'
<1>1. /\ UNCHANGED <<status, attempt, userClosed, timer, settle, watching,
                     of, promise, subscribed, doubled>>
      /\ status[k] = "connected" => k \in doubled
      /\ \A d \in Call : d # c => phase'[d] = phase[d]
  <2>1. phase[c] = "await"
    BY DEF UrlReady
  <2>2. k \notin doubled => Describes(k, c)
    BY <2>1, SoleChain
  <2>. QED
    BY <2>1, <2>2 DEF UrlReady, Describes, ConnTypeOK
<1>2. phase[c] = "await"
  BY DEF UrlReady
<1>3. k \notin doubled => Active(k) = {c} /\ Describes(k, c)
  BY <1>2, SoleChain
<1>4. SubscribedOK(k)'
  BY <1>1, <1>2, <1>3 DEF SubscribedOK, Describes
<1>5. CASE phase'[c] = "dialing"
  <2>1. phase'[c] = "dialing" /\ socket'[k] = c /\ ~userClosed[k]
    BY <1>5 DEF UrlReady, StillWanted, ConnTypeOK
  <2>2. RefsOK(k)'
    BY <1>1, <1>2, <2>1 DEF ObjectOK, RefsOK, ConnTypeOK
  <2>3. SettleOK(k)'
    BY <1>1, <2>1 DEF ObjectOK, SettleOK, Unsettled, ConnTypeOK
  <2>4. PursuitOK(k)'
    BY <1>1, <1>2, <2>1 DEF ObjectOK, PursuitOK
  <2>5. SoleOK(k)'
    <3>. SUFFICES ASSUME k \notin doubled PROVE Honest(k)'
      BY <1>1 DEF SoleOK
    <3>1. Active(k)' = {c}
      BY <1>1, <1>3, <2>1 DEF Active
    <3>2. Describes(k, c)
      BY <1>3
    <3>3. status[k] \in {"connecting", "reconnecting"}
      BY <1>2, <2>1, <3>2 DEF Describes
    <3>4. Describes(k, c)'
      BY <1>1, <1>2, <2>1, <3>2, <3>3 DEF Describes
    <3>. QED
      BY <3>1, <3>4 DEF Honest, Resting
  <2>. QED
    BY <1>4, <2>2, <2>3, <2>4, <2>5 DEF ObjectOK
<1>6. CASE phase'[c] = "over"
  <2>1. phase'[c] = "over" /\ socket' = socket /\ userClosed[k]
    BY <1>6 DEF UrlReady, StillWanted, ConnTypeOK
  <2>2. RefsOK(k)'
    BY <1>1, <1>2, <2>1 DEF ObjectOK, RefsOK, ConnTypeOK
  <2>3. settle[k] = None
    BY <2>1 DEF ObjectOK, SettleOK, Unsettled
  <2>4. SettleOK(k)' /\ PursuitOK(k)'
    BY <1>1, <1>2, <2>3 DEF ObjectOK, SettleOK, Unsettled, PursuitOK, ConnectionAssumption
  <2>5. SoleOK(k)'
    <3>. SUFFICES ASSUME k \notin doubled PROVE Honest(k)'
      BY <1>1 DEF SoleOK
    <3>1. Active(k)' = {}
      BY <1>1, <1>3, <2>1 DEF Active
    <3>2. Describes(k, c)
      BY <1>3
    <3>. QED
      BY <1>1, <1>2, <2>1, <3>1, <3>2 DEF Honest, Resting, Describes
  <2>. QED
    BY <1>4, <2>2, <2>4, <2>5 DEF ObjectOK
<1>7. CASE phase'[c] = "threw"
  <2>1. phase'[c] = "threw" /\ socket' = socket /\ ~userClosed[k]
    BY <1>7 DEF UrlReady, StillWanted, ConnTypeOK
  <2>2. RefsOK(k)'
    BY <1>1, <1>2, <2>1 DEF ObjectOK, RefsOK, ConnTypeOK
  <2>3. SettleOK(k)'
    BY <1>1, <2>1 DEF ObjectOK, SettleOK, Unsettled, ConnTypeOK
  <2>4. PursuitOK(k)'
    BY <1>1, <2>1 DEF ObjectOK, PursuitOK
  <2>5. SoleOK(k)'
    <3>. SUFFICES ASSUME k \notin doubled PROVE Honest(k)'
      BY <1>1 DEF SoleOK
    <3>1. Active(k)' = {}
      BY <1>1, <1>3, <2>1 DEF Active
    <3>2. Describes(k, c)
      BY <1>3
    <3>. QED
      BY <1>1, <1>2, <2>1, <3>1, <3>2 DEF Honest, Resting, Describes
  <2>. QED
    BY <1>4, <2>2, <2>3, <2>4, <2>5 DEF ObjectOK
<1>. QED
  BY <1>5, <1>6, <1>7 DEF UrlReady, ConnTypeOK

LEMMA HelloKeeps ==
  ASSUME NEW c \in Call, NEW k \in Conn, of[c] = k, ConnTypeOK, ConnectionAssumption,
         ObjectOK(k), Hello(c)
  PROVE  ObjectOK(k)'
<1>1. /\ UNCHANGED <<userClosed, socket, timer, watching, of, cred, doubled>>
      /\ phase[c] = "dialing" /\ phase'[c] = "live" /\ status'[k] = "connected"
      /\ \A d \in Call : d # c => phase'[d] = phase[d]
  BY DEF Hello, ConnTypeOK
<1>2. k \notin doubled => Active(k) = {c} /\ Describes(k, c)
  BY <1>1, SoleChain
<1>3. \/ UNCHANGED <<settle, promise, subscribed>> /\ watching[k] /\ ~Sendable(k, c)
      \/ Settle(k, "resolved") /\ subscribed' = Resubscribed(k)
  BY DEF Hello
<1>4. k \notin doubled => Settle(k, "resolved") /\ subscribed' = Resubscribed(k)
  BY <1>1, <1>2, <1>3 DEF Sendable, Describes
<1>5. RefsOK(k)'
  BY <1>1 DEF ObjectOK, RefsOK, ConnTypeOK
<1>6. SettleOK(k)'
  <2>2. CASE UNCHANGED <<settle, promise, subscribed>>
    BY <1>1, <2>2 DEF ObjectOK, SettleOK, Unsettled, ConnTypeOK
  <2>3. CASE Settle(k, "resolved")
    BY <2>3 DEF Settle, SettleOK, Unsettled, ConnTypeOK
  <2>. QED
    BY <1>3, <2>2, <2>3
<1>7. SoleOK(k)'
  <2>. SUFFICES ASSUME k \notin doubled PROVE Honest(k)'
    BY <1>1 DEF SoleOK
  <2>1. Active(k)' = {c}
    BY <1>1, <1>2 DEF Active
  <2>2. Describes(k, c)'
    BY <1>1, <1>2 DEF Describes
  <2>. QED
    BY <2>1, <2>2 DEF Honest, Resting
<1>8. PursuitOK(k)'
  <2>. SUFFICES ASSUME k \notin doubled, NEW d \in Call, of[d] = k, promise'[d] = "pending",
                       phase'[d] # "threw"
                PROVE  FALSE
    BY <1>1 DEF PursuitOK
  <2>1. d # settle[k] /\ promise[d] = "pending"
    BY <1>4 DEF Settle, ConnTypeOK
  <2>2. phase[d] # "threw"
    BY <1>1
  <2>. QED
    BY <2>1, <2>2 DEF ObjectOK, PursuitOK
<1>9. SubscribedOK(k)'
  <2>. SUFFICES ASSUME k \notin doubled, watching[k] PROVE subscribed'[socket[k]]
    BY <1>1 DEF SubscribedOK
  <2>1. socket[k] = c
    BY <1>1, <1>2 DEF Describes
  <2>. QED
    BY <1>4, <2>1 DEF Resubscribed
<1>. QED
  BY <1>5, <1>6, <1>7, <1>8, <1>9 DEF ObjectOK

LEMMA TimerKeeps ==
  ASSUME NEW c \in Call, NEW k \in Conn, of[c] = k, NEW t \in Token \cup {None},
         ConnTypeOK, ConnectionAssumption, ObjectOK(k), TimerFires(c, t)
  PROVE  ObjectOK(k)'
<1>1. /\ UNCHANGED <<attempt, userClosed, socket, settle, watching, of, promise,
                     subscribed, doubled>>
      /\ phase[c] = "timer" /\ phase'[c] = "await" /\ timer'[k] = None
      /\ status'[k] \in {"connecting", "reconnecting"}
      /\ \A d \in Call : d # c => phase'[d] = phase[d]
  BY DEF TimerFires, ConnTypeOK
<1>2. k \notin doubled => Active(k) = {c} /\ Describes(k, c)
  BY <1>1, SoleChain
<1>3. RefsOK(k)'
  BY <1>1 DEF ObjectOK, RefsOK, ConnTypeOK
<1>4. SettleOK(k)'
  BY <1>1 DEF ObjectOK, SettleOK, Unsettled, ConnTypeOK
<1>5. SoleOK(k)'
  <2>. SUFFICES ASSUME k \notin doubled PROVE Honest(k)'
    BY <1>1 DEF SoleOK
  <2>1. Active(k)' = {c}
    BY <1>1, <1>2 DEF Active
  <2>2. Describes(k, c)'
    BY <1>1, <1>2 DEF Describes
  <2>. QED
    BY <2>1, <2>2 DEF Honest, Resting
<1>6. PursuitOK(k)' /\ SubscribedOK(k)'
  BY <1>1 DEF ObjectOK, PursuitOK, SubscribedOK
<1>. QED
  BY <1>3, <1>4, <1>5, <1>6 DEF ObjectOK
-----------------------------------------------------------------------------
(* What an action on another object does to object j: nothing.             *)
LEMMA OnCloseOthers ==
  ASSUME NEW k \in Conn, NEW c \in Call, of[c] = k, NEW j \in Conn, j # k,
         ConnTypeOK, ConnectionAssumption, ObjectOK(k), OnClose(k, c)
  PROVE  Same(j)
<1>1. /\ of' = of /\ doubled' = doubled /\ userClosed' = userClosed
      /\ watching' = watching /\ socket'[j] = socket[j]
      /\ \A d \in Call : d # c => /\ phase'[d] = phase[d]
                                  /\ subscribed'[d] = subscribed[d]
  BY DEF OnClose, ConnTypeOK
<1>2. status'[j] = status[j] /\ timer'[j] = timer[j]
  BY DEF OnClose, ConnTypeOK
<1>3. UNCHANGED <<settle, promise>> \/ Settle(k, "rejected")
  BY DEF OnClose
<1>4. settle'[j] = settle[j]
  BY <1>3 DEF Settle, ConnTypeOK
<1>5. \A d \in Call : of[d] = j => promise'[d] = promise[d]
  BY <1>3 DEF Settle, ObjectOK, SettleOK, Unsettled, ConnTypeOK
<1>. QED
  BY <1>1, <1>2, <1>4, <1>5 DEF Same

LEMMA CloseOthers ==
  ASSUME NEW k \in Conn, NEW j \in Conn, j # k,
         ConnTypeOK, ConnectionAssumption, ObjectOK(k), Close(k)
  PROVE  Same(j)
<1>1. \A d \in Call : of[d] = j => phase'[d] = phase[d]
  BY CloseOwn
<1>2. \A d \in Call : of[d] = j => promise'[d] = promise[d]
  BY DEF Close, Settle, ObjectOK, SettleOK, Unsettled, ConnTypeOK
<1>. QED
  BY <1>1, <1>2 DEF Close, Settle, Same, ConnTypeOK

LEMMA HelloOthers ==
  ASSUME NEW c \in Call, NEW k \in Conn, of[c] = k, NEW j \in Conn, j # k,
         ConnTypeOK, ConnectionAssumption, ObjectOK(k), Hello(c)
  PROVE  Same(j)
<1>1. /\ UNCHANGED <<userClosed, socket, timer, watching, of, doubled>>
      /\ status'[j] = status[j]
      /\ \A d \in Call : d # c => phase'[d] = phase[d]
  BY DEF Hello, ConnTypeOK
<1>2. \/ UNCHANGED <<settle, promise, subscribed>>
      \/ Settle(k, "resolved") /\ subscribed' = Resubscribed(k)
  BY DEF Hello
<1>3. settle'[j] = settle[j]
  BY <1>2 DEF Settle, ConnTypeOK
<1>4. \A d \in Call : of[d] = j => promise'[d] = promise[d]
  BY <1>2 DEF Settle, ObjectOK, SettleOK, Unsettled, ConnTypeOK
<1>5. \A d \in Call : of[d] = j => subscribed'[d] = subscribed[d]
  BY <1>2 DEF Resubscribed, ObjectOK, RefsOK, ConnTypeOK
<1>. QED
  BY <1>1, <1>3, <1>4, <1>5 DEF Same

LEMMA WatchOthers ==
  ASSUME NEW k \in Conn, NEW j \in Conn, j # k,
         ConnTypeOK, ConnectionAssumption, ObjectOK(k), Watch(k)
  PROVE  Same(j)
<1>1. \A d \in Call : of[d] = j => subscribed'[d] = subscribed[d]
  BY DEF Watch, ObjectOK, RefsOK, ConnTypeOK
<1>. QED
  BY <1>1 DEF Watch, Same, ConnTypeOK

-----------------------------------------------------------------------------
(* An action on object k keeps every object as it should be.               *)
LEMMA OneObject ==
  ASSUME ConnTypeOK, ConnTypeOK', ConnectionAssumption, \A k \in Conn : ObjectOK(k),
         NEW k \in Conn, ObjectOK(k)', \A j \in Conn : j # k => Same(j)
  PROVE  \A j \in Conn : ObjectOK(j)'
<1>. SUFFICES ASSUME NEW j \in Conn, j # k PROVE ObjectOK(j)'
  OBVIOUS
<1>1. ObjectOK(j) /\ Same(j)
  OBVIOUS
<1>. QED
  BY <1>1, SameStays

LEMMA ObjectsNext ==
  ASSUME ConnInv, ConnTypeOK', ConnectionAssumption, ConnNext
  PROVE  \A j \in Conn : ObjectOK(j)'
<1>. USE DEF ConnInv
<1>1. ASSUME NEW k \in Conn, Close(k) PROVE \A j \in Conn : ObjectOK(j)'
  <2>1. ObjectOK(k)'
    BY <1>1, CloseKeeps
  <2>2. \A j \in Conn : j # k => Same(j)
    BY <1>1, CloseOthers
  <2>. QED
    BY <2>1, <2>2, OneObject
<1>2. ASSUME NEW k \in Conn, Watch(k) PROVE \A j \in Conn : ObjectOK(j)'
  <2>1. ObjectOK(k)'
    BY <1>2, WatchKeeps
  <2>2. \A j \in Conn : j # k => Same(j)
    BY <1>2, WatchOthers
  <2>. QED
    BY <2>1, <2>2, OneObject
<1>3. ASSUME NEW k \in Conn, NEW c \in Call, Connected(k, c)
      PROVE  \A j \in Conn : ObjectOK(j)'
  <2>1. ObjectOK(k)'
    BY <1>3, ConnectedKeeps
  <2>2. \A j \in Conn : j # k => Same(j)
    BY <1>3 DEF Connected, UnusedOK, Same, fields, ConnTypeOK, ConnectionAssumption
  <2>. QED
    BY <2>1, <2>2, OneObject
<1>4. ASSUME NEW k \in Conn, NEW c \in Call, NEW t \in Token \cup {None}, Connect(k, c, t)
      PROVE  \A j \in Conn : ObjectOK(j)'
  <2>1. ObjectOK(k)'
    BY <1>4, ConnectKeeps
  <2>2. \A j \in Conn : j # k => Same(j)
    BY <1>4 DEF Connect, UnusedOK, Same, ConnTypeOK, ConnectionAssumption
  <2>. QED
    BY <2>1, <2>2, OneObject
<1>5. ASSUME NEW c \in Call, UrlReady(c) PROVE \A j \in Conn : ObjectOK(j)'
  <2>1. PICK k \in Conn : of[c] = k
    BY <1>5 DEF UrlReady, UnusedOK, ConnTypeOK
  <2>2. ObjectOK(k)'
    BY <1>5, <2>1, UrlReadyKeeps
  <2>3. \A j \in Conn : j # k => Same(j)
    BY <1>5, <2>1 DEF UrlReady, Same, ConnTypeOK
  <2>. QED
    BY <2>1, <2>2, <2>3, OneObject
<1>6. ASSUME NEW c \in Call, UrlFails(c) \/ SocketCloses(c)
      PROVE  \A j \in Conn : ObjectOK(j)'
  <2>1. PICK k \in Conn : /\ of[c] = k /\ OnClose(k, c)
                         /\ phase[c] \in {"await", "dialing", "live", "closing"}
    BY <1>6 DEF UrlFails, SocketCloses, UnusedOK, ConnTypeOK
  <2>2. ObjectOK(k)'
    BY <2>1, OnCloseKeeps
  <2>3. \A j \in Conn : j # k => Same(j)
    BY <2>1, OnCloseOthers
  <2>. QED
    BY <2>1, <2>2, <2>3, OneObject
<1>7. ASSUME NEW c \in Call, Hello(c) PROVE \A j \in Conn : ObjectOK(j)'
  <2>1. PICK k \in Conn : of[c] = k
    BY <1>7 DEF Hello, UnusedOK, ConnTypeOK
  <2>2. ObjectOK(k)'
    BY <1>7, <2>1, HelloKeeps
  <2>3. \A j \in Conn : j # k => Same(j)
    BY <1>7, <2>1, HelloOthers
  <2>. QED
    BY <2>1, <2>2, <2>3, OneObject
<1>8. ASSUME NEW c \in Call, NEW t \in Token \cup {None}, TimerFires(c, t)
      PROVE  \A j \in Conn : ObjectOK(j)'
  <2>1. PICK k \in Conn : of[c] = k
    BY <1>8 DEF TimerFires, UnusedOK, ConnTypeOK
  <2>2. ObjectOK(k)'
    BY <1>8, <2>1, TimerKeeps
  <2>3. \A j \in Conn : j # k => Same(j)
    BY <1>8, <2>1 DEF TimerFires, Same, ConnTypeOK
  <2>. QED
    BY <2>1, <2>2, <2>3, OneObject
<1>. QED
  BY <1>1, <1>2, <1>3, <1>4, <1>5, <1>6, <1>7, <1>8 DEF ConnNext

(* No action takes up a call that is over, and none but connect() a new    *)
(* one.                                                                    *)
LEMMA UnusedNext ==
  ASSUME ConnInv, ConnectionAssumption, ConnNext
  PROVE  UnusedOK'
<1>. USE DEF ConnInv
<1>1. ASSUME NEW k \in Conn, Settle(k, "rejected") \/ Settle(k, "resolved")
      PROVE  \A c \in Call : phase[c] = "unused" => promise'[c] = promise[c]
  BY <1>1 DEF Settle, ObjectOK, SettleOK, Unsettled, UnusedOK, ConnTypeOK
<1>2. ASSUME NEW k \in Conn, Close(k) PROVE UnusedOK'
  <2>1. \A c \in Call : phase'[c] = "unused" <=> phase[c] = "unused"
    BY <1>2, CloseOwn
  <2>2. of' = of /\ Settle(k, "rejected")
    BY <1>2 DEF Close
  <2>. QED
    BY <1>1, <2>1, <2>2 DEF UnusedOK
<1>3. ASSUME NEW k \in Conn, Watch(k) PROVE UnusedOK'
  BY <1>3 DEF Watch, UnusedOK
<1>4. ASSUME NEW k \in Conn, NEW c \in Call, Connected(k, c) PROVE UnusedOK'
  BY <1>4 DEF Connected, UnusedOK, ConnTypeOK, ConnectionAssumption
<1>5. ASSUME NEW k \in Conn, NEW c \in Call, NEW t \in Token \cup {None}, Connect(k, c, t)
      PROVE  UnusedOK'
  BY <1>5 DEF Connect, UnusedOK, ConnTypeOK, ConnectionAssumption
<1>6. ASSUME NEW c \in Call, UrlReady(c) PROVE UnusedOK'
  <2>1. of' = of /\ promise' = promise /\ phase[c] # "unused" /\ phase'[c] # "unused"
    BY <1>6 DEF UrlReady, ConnTypeOK
  <2>2. \A d \in Call : d # c => phase'[d] = phase[d]
    BY <1>6 DEF UrlReady, ConnTypeOK
  <2>. QED
    BY <2>1, <2>2 DEF UnusedOK
<1>7. ASSUME NEW c \in Call, UrlFails(c) \/ SocketCloses(c) PROVE UnusedOK'
  <2>1. of[c] \in Conn /\ OnClose(of[c], c) /\ phase[c] # "unused"
    BY <1>7 DEF UrlFails, SocketCloses, UnusedOK, ConnTypeOK
  <2>2. /\ of' = of /\ phase'[c] # "unused"
        /\ \A d \in Call : d # c => phase'[d] = phase[d]
    BY <2>1 DEF OnClose, ConnTypeOK
  <2>3. promise' = promise \/ Settle(of[c], "rejected")
    BY <2>1 DEF OnClose
  <2>. QED
    BY <1>1, <2>1, <2>2, <2>3 DEF UnusedOK
<1>8. ASSUME NEW c \in Call, Hello(c) PROVE UnusedOK'
  <2>1. /\ of[c] \in Conn /\ of' = of /\ phase[c] # "unused" /\ phase'[c] # "unused"
        /\ \A d \in Call : d # c => phase'[d] = phase[d]
    BY <1>8 DEF Hello, UnusedOK, ConnTypeOK
  <2>2. promise' = promise \/ Settle(of[c], "resolved")
    BY <1>8 DEF Hello
  <2>. QED
    BY <1>1, <2>1, <2>2 DEF UnusedOK
<1>9. ASSUME NEW c \in Call, NEW t \in Token \cup {None}, TimerFires(c, t) PROVE UnusedOK'
  BY <1>9 DEF TimerFires, UnusedOK, ConnTypeOK
<1>. QED
  BY <1>2, <1>3, <1>4, <1>5, <1>6, <1>7, <1>8, <1>9 DEF ConnNext

LEMMA ConnInvInit ==
  ASSUME ConnectionAssumption, ConnInit
  PROVE  ConnInv
<1>1. ConnTypeOK
  BY DEF ConnInit, ConnTypeOK, ConnectionAssumption, Status, Phase
<1>2. UnusedOK
  BY DEF ConnInit, UnusedOK
<1>3. ASSUME NEW k \in Conn PROVE ObjectOK(k)
  <2>1. Active(k) = {}
    BY DEF ConnInit, Active
  <2>2. RefsOK(k) /\ SettleOK(k)
    BY DEF ConnInit, RefsOK, SettleOK, Unsettled
  <2>3. SoleOK(k)
    BY <2>1 DEF ConnInit, SoleOK, Honest, Resting
  <2>4. PursuitOK(k)
    BY DEF ConnInit, PursuitOK
  <2>5. SubscribedOK(k)
    BY DEF ConnInit, SubscribedOK
  <2>. QED
    BY <2>2, <2>3, <2>4, <2>5 DEF ObjectOK
<1>. QED
  BY <1>1, <1>2, <1>3 DEF ConnInv

LEMMA ConnInvNext ==
  ASSUME ConnectionAssumption, ConnInv, [ConnNext]_connVars
  PROVE  ConnInv'
<1>1. ConnTypeOK'
  BY ConnTypeNext DEF ConnInv
<1>2. CASE ConnNext
  BY <1>1, <1>2, ObjectsNext, UnusedNext DEF ConnInv
<1>3. CASE UNCHANGED connVars
  <2>1. UnusedOK'
    BY <1>3 DEF connVars, fields, chains, ConnInv, UnusedOK
  <2>2. ASSUME NEW k \in Conn PROVE ObjectOK(k)'
    <3>1. Same(k)
      BY <1>3 DEF connVars, fields, chains, Same
    <3>. QED
      BY <1>1, <3>1, SameStays DEF ConnInv
  <2>. QED
    BY <1>1, <2>1, <2>2 DEF ConnInv
<1>. QED
  BY <1>2, <1>3

LEMMA ConnInvMeans ==
  ASSUME ConnectionAssumption, ConnInv
  PROVE  ConnTypeOK /\ FieldsHonest /\ WatchedIsSubscribed /\ PendingIsPursued
<1>1. FieldsHonest
  BY DEF ConnInv, ObjectOK, SoleOK, FieldsHonest
<1>2. WatchedIsSubscribed
  BY DEF ConnInv, ObjectOK, SubscribedOK, WatchedIsSubscribed
<1>3. PendingIsPursued
  <2>. SUFFICES ASSUME NEW c \in Call, promise[c] = "pending", phase[c] # "threw"
                PROVE  IF of[c] \in doubled
                       THEN settle[of[c]] = c =>
                              phase[c] \in {"await", "dialing", "timer", "live"}
                       ELSE settle[of[c]] = c /\ phase[c] \in {"await", "dialing", "timer"}
    BY DEF PendingIsPursued
  <2>1. of[c] \in Conn
    BY DEF ConnInv, UnusedOK, ConnTypeOK
  <2>2. SettleOK(of[c]) /\ PursuitOK(of[c])
    BY <2>1 DEF ConnInv, ObjectOK
  <2>. QED
    BY <2>1, <2>2 DEF SettleOK, Unsettled, PursuitOK, ConnectionAssumption
<1>. QED
  BY <1>1, <1>2, <1>3 DEF ConnInv

-----------------------------------------------------------------------------
(* Every behaviour of the connections keeps the types.                     *)
THEOREM ConnTypeCorrect == ConnSpec => []ConnTypeOK
BY ConnectionAssumption, ConnInvInit, ConnInvNext, ConnInvMeans, PTL DEF ConnSpec

(* However close(), retries and late callbacks interleave, the fields of   *)
(* an object that was never connected twice at once describe its only      *)
(* chain, and close() leaves neither a socket nor a timer behind.          *)
THEOREM FieldsAreHonest == ConnSpec => []FieldsHonest
BY ConnectionAssumption, ConnInvInit, ConnInvNext, ConnInvMeans, PTL DEF ConnSpec

(* Such an object, while connected, is subscribed to what it watches.      *)
THEOREM ConnectedIsSubscribed == ConnSpec => []WatchedIsSubscribed
BY ConnectionAssumption, ConnInvInit, ConnInvNext, ConnInvMeans, PTL DEF ConnSpec

(* A promise of connect() the object can still settle has its chain left   *)
(* to settle it, unless making the chain's socket threw.                   *)
THEOREM PromisesPursued == ConnSpec => []PendingIsPursued
BY ConnectionAssumption, ConnInvInit, ConnInvNext, ConnInvMeans, PTL DEF ConnSpec
=============================================================================
