--------------------------- MODULE EphemeralProofs ---------------------------
(***************************************************************************)
(* Proofs about Ephemeral, for any users and connections.  Presence rests  *)
(* on two facts: the registry's count is the number of registered          *)
(* connections, and the newest decision, while it waits, says what the     *)
(* count says.  The typing indicator rests on two like them: an entry's    *)
(* own timer is running, and the newest decision of a tracker, while it    *)
(* waits, says whether there is an entry.                                  *)
(***************************************************************************)
EXTENDS Ephemeral, FiniteSetTheorems, TLAPS

Online(u) == {c \in Conn : Owner[c] = u /\ Registered(c)}

CountExact == \A u \in User :
  IsFiniteSet(Online(u)) /\ count[u] = Cardinality(Online(u))

InformedOK == \A u \in User : informed[u] => (online[u] <=> count[u] # 0)

NoticesOK == \A a \in notices : a.newest => (a.online <=> count[Owner[a.c]] # 0)

PresenceInv == CountExact /\ InformedOK /\ NoticesOK

OwnTimer == \A c \in Conn : entry[c] # 0 => entry[c] \in armed[c]

SignalsOK == \A s \in signals : s.newest => (s.start <=> entry[s.c] # 0)

ShownOK == \A u \in User :
  (shown[u] /\ \A c \in Conn : Owner[c] = u => current[c]) =>
    \E c \in Conn : Owner[c] = u /\ entry[c] # 0

TypingInv == OwnTimer /\ SignalsOK /\ ShownOK /\ NotCutShort

PresenceType ==
  /\ conn \in [Conn -> {"none", "accepted", "open", "shut", "gone"}]
  /\ count \in [User -> Nat]
  /\ notices \subseteq Notice
  /\ informed \in [User -> BOOLEAN]
  /\ online \in [User -> BOOLEAN]

TypingType ==
  /\ gen \in [Conn -> Nat] /\ entry \in [Conn -> Nat]
  /\ armed \in [Conn -> SUBSET (Nat \ {0})]
  /\ \A c \in Conn : entry[c] <= gen[c] /\ gen[c] <= MaxStarts[c]
  /\ signals \subseteq Signal
  /\ current \in [Conn -> BOOLEAN]
  /\ shown \in [User -> BOOLEAN]
  /\ typing \in [Conn -> Nat]

EphInv == PresenceType /\ PresenceInv /\ TypingType /\ TypingInv

-----------------------------------------------------------------------------
(* The registry.  One connection more, or one less, of a user.             *)
LEMMA CountUp ==
  ASSUME EphemeralAssumption, PresenceType, CountExact, NEW c \in Conn, ~Registered(c),
         conn' = [conn EXCEPT ![c] = "accepted"],
         count' = [count EXCEPT ![Owner[c]] = @ + 1]
  PROVE  CountExact' /\ count' \in [User -> Nat] /\ conn'[c] = "accepted"
<1>1. /\ Owner[c] \in User /\ conn'[c] = "accepted"
      /\ \A d \in Conn : d # c => (Registered(d)' <=> Registered(d))
      /\ Registered(c)'
  BY DEF EphemeralAssumption, PresenceType, Registered
<1>2. ASSUME NEW u \in User
      PROVE  IsFiniteSet(Online(u)') /\ count'[u] = Cardinality(Online(u)') /\ count'[u] \in Nat
  <2>1. IsFiniteSet(Online(u)) /\ count[u] = Cardinality(Online(u)) /\ count[u] \in Nat
    BY DEF CountExact, PresenceType
  <2>2. CASE u = Owner[c]
    <3>1. Online(u)' = Online(u) \cup {c} /\ c \notin Online(u)
      BY <1>1, <2>2 DEF Online
    <3>2. IsFiniteSet(Online(u)') /\ Cardinality(Online(u)') = Cardinality(Online(u)) + 1
      BY <2>1, <3>1, FS_AddElement
    <3>. QED
      BY <1>1, <2>1, <2>2, <3>2 DEF PresenceType
  <2>3. CASE u # Owner[c]
    <3>1. Online(u)' = Online(u)
      BY <1>1, <2>3 DEF Online
    <3>. QED
      BY <1>1, <2>1, <2>3, <3>1 DEF PresenceType
  <2>. QED
    BY <2>2, <2>3
<1>. QED
  BY <1>1, <1>2 DEF CountExact, PresenceType

LEMMA CountDown ==
  ASSUME EphemeralAssumption, PresenceType, CountExact, NEW c \in Conn, Registered(c),
         conn' = [conn EXCEPT ![c] = "gone"],
         count' = [count EXCEPT ![Owner[c]] = @ - 1]
  PROVE  CountExact' /\ count' \in [User -> Nat] /\ count[Owner[c]] # 0
<1>1. /\ Owner[c] \in User
      /\ \A d \in Conn : d # c => (Registered(d)' <=> Registered(d))
      /\ ~Registered(c)'
  BY DEF EphemeralAssumption, PresenceType, Registered
<1>2. ASSUME NEW u \in User
      PROVE  /\ IsFiniteSet(Online(u)') /\ count'[u] = Cardinality(Online(u)')
             /\ count'[u] \in Nat
             /\ u = Owner[c] => count[u] # 0
  <2>1. IsFiniteSet(Online(u)) /\ count[u] = Cardinality(Online(u)) /\ count[u] \in Nat
    BY DEF CountExact, PresenceType
  <2>2. CASE u = Owner[c]
    <3>1. Online(u)' = Online(u) \ {c} /\ c \in Online(u)
      BY <1>1, <2>2 DEF Online
    <3>2. IsFiniteSet(Online(u)') /\ Cardinality(Online(u)') = Cardinality(Online(u)) - 1
      BY <2>1, <3>1, FS_RemoveElement
    <3>3. Cardinality(Online(u)') \in Nat
      BY <3>2, FS_CardinalityType
    <3>. QED
      BY <1>1, <2>1, <2>2, <3>2, <3>3 DEF PresenceType
  <2>3. CASE u # Owner[c]
    <3>1. Online(u)' = Online(u)
      BY <1>1, <2>3 DEF Online
    <3>. QED
      BY <1>1, <2>1, <2>3, <3>1 DEF PresenceType
  <2>. QED
    BY <2>2, <2>3
<1>. QED
  BY <1>1, <1>2 DEF CountExact, PresenceType

(* A decision that says what the count says then is the newest of its user.*)
LEMMA DecideKeeps ==
  ASSUME EphemeralAssumption, PresenceType, InformedOK, NoticesOK,
         NEW c \in Conn, NEW on \in BOOLEAN, Decide(c, on),
         count' \in [User -> Nat], on <=> count'[Owner[c]] # 0,
         \A u \in User : u # Owner[c] => count'[u] = count[u], online' = online
  PROVE  /\ InformedOK' /\ NoticesOK'
         /\ informed' \in [User -> BOOLEAN] /\ notices' \subseteq Notice
<1>1. Owner[c] \in User /\ informed' = [informed EXCEPT ![Owner[c]] = FALSE]
  BY DEF Decide, EphemeralAssumption
<1>2. InformedOK' /\ informed' \in [User -> BOOLEAN]
  BY <1>1 DEF InformedOK, PresenceType
<1>3. ASSUME NEW b \in notices'
      PROVE  b \in Notice /\ (b.newest => (b.online <=> count'[Owner[b.c]] # 0))
  <2>1. CASE b = [c |-> c, online |-> on, newest |-> TRUE]
    BY <2>1 DEF Notice
  <2>2. ASSUME NEW a \in notices, b = [a EXCEPT !.newest = a.newest /\ Owner[a.c] # Owner[c]]
        PROVE  b \in Notice /\ (b.newest => (b.online <=> count'[Owner[b.c]] # 0))
    <3>1. a \in Notice /\ Owner[a.c] \in User
      BY DEF PresenceType, Notice, EphemeralAssumption
    <3>2. /\ b \in Notice /\ b.c = a.c /\ b.online = a.online
          /\ b.newest => a.newest /\ Owner[a.c] # Owner[c]
      BY <2>2, <3>1 DEF Notice
    <3>. QED
      BY <3>1, <3>2 DEF NoticesOK
  <2>. QED
    BY <2>1, <2>2 DEF Decide
<1>. QED
  BY <1>2, <1>3 DEF NoticesOK

(* The steps of presence; those of typing leave it alone.                  *)
LEMMA PresenceNext ==
  ASSUME EphemeralAssumption, PresenceType, PresenceInv, [Next]_vars
  PROVE  PresenceType' /\ PresenceInv'
<1>. USE DEF PresenceInv
<1>1. ASSUME NEW c \in Conn, Accept(c) PROVE PresenceType' /\ PresenceInv'
  <2>1. /\ ~Registered(c) /\ conn' = [conn EXCEPT ![c] = "accepted"]
        /\ count' = [count EXCEPT ![Owner[c]] = @ + 1] /\ online' = online
    BY <1>1 DEF Accept, Registered
  <2>2. CountExact' /\ count' \in [User -> Nat]
    BY <2>1, CountUp
  <2>3. conn' \in [Conn -> {"none", "accepted", "open", "shut", "gone"}]
    BY <2>1 DEF PresenceType
  <2>4. /\ Owner[c] \in User /\ count'[Owner[c]] = count[Owner[c]] + 1 /\ count'[Owner[c]] # 0
        /\ \A u \in User : u # Owner[c] => count'[u] = count[u]
    BY <2>1 DEF PresenceType, EphemeralAssumption
  <2>5. CASE First(Owner[c])
    <3>1. Decide(c, TRUE)
      BY <1>1, <2>5 DEF Accept
    <3>. QED
      BY <2>1, <2>2, <2>3, <2>4, <3>1, DecideKeeps DEF PresenceType
  <2>6. CASE ~First(Owner[c])
    <3>1. UNCHANGED <<informed, notices>> /\ count[Owner[c]] # 0
      BY <1>1, <2>6 DEF Accept, First
    <3>2. \A u \in User : count'[u] # 0 <=> count[u] # 0
      BY <2>4, <3>1
    <3>3. \A a \in notices : Owner[a.c] \in User
      BY DEF PresenceType, Notice, EphemeralAssumption
    <3>. QED
      BY <2>1, <2>2, <2>3, <3>1, <3>2, <3>3 DEF PresenceType, InformedOK, NoticesOK
  <2>. QED
    BY <2>5, <2>6
<1>2. ASSUME NEW c \in Conn, Unregister(c) PROVE PresenceType' /\ PresenceInv'
  <2>1. /\ Registered(c) /\ conn' = [conn EXCEPT ![c] = "gone"]
        /\ count' = [count EXCEPT ![Owner[c]] = @ - 1] /\ online' = online
    BY <1>2 DEF Unregister, Registered
  <2>2. CountExact' /\ count' \in [User -> Nat] /\ count[Owner[c]] # 0
    BY <2>1, CountDown
  <2>3. conn' \in [Conn -> {"none", "accepted", "open", "shut", "gone"}]
    BY <2>1 DEF PresenceType
  <2>4. /\ Owner[c] \in User /\ count'[Owner[c]] = count[Owner[c]] - 1
        /\ \A u \in User : u # Owner[c] => count'[u] = count[u]
    BY <2>1 DEF PresenceType, EphemeralAssumption
  <2>5. CASE Last(Owner[c])
    <3>1. Decide(c, FALSE)
      BY <1>2, <2>5 DEF Unregister
    <3>2. count'[Owner[c]] = 0
      BY <2>4, <2>5 DEF Last
    <3>. QED
      BY <2>1, <2>2, <2>3, <2>4, <3>1, <3>2, DecideKeeps DEF PresenceType
  <2>6. CASE ~Last(Owner[c])
    <3>1. UNCHANGED <<informed, notices>> /\ count[Owner[c]] # 1
      BY <1>2, <2>6 DEF Unregister, Last
    <3>2. \A u \in User : count'[u] # 0 <=> count[u] # 0
      BY <2>2, <2>4, <3>1 DEF PresenceType
    <3>3. \A a \in notices : Owner[a.c] \in User
      BY DEF PresenceType, Notice, EphemeralAssumption
    <3>. QED
      BY <2>1, <2>2, <2>3, <3>1, <3>2, <3>3 DEF PresenceType, InformedOK, NoticesOK
  <2>. QED
    BY <2>5, <2>6
<1>3. ASSUME NEW c \in Conn, StreamsStart(c) \/ Shutdown(c) PROVE PresenceType' /\ PresenceInv'
  <2>1. /\ UNCHANGED <<count, notices, informed, online>>
        /\ conn' \in [Conn -> {"none", "accepted", "open", "shut", "gone"}]
        /\ \A d \in Conn : Registered(d)' <=> Registered(d)
    BY <1>3 DEF StreamsStart, Shutdown, PresenceType, Registered
  <2>2. \A u \in User : Online(u)' = Online(u)
    BY <2>1 DEF Online
  <2>. QED
    BY <2>1, <2>2 DEF PresenceType, CountExact, InformedOK, NoticesOK
<1>4. ASSUME NEW a \in notices, FanOut(a) PROVE PresenceType' /\ PresenceInv'
  <2>1. /\ UNCHANGED <<conn, count>> /\ notices' = notices \ {a}
        /\ informed' = [informed EXCEPT ![Owner[a.c]] = a.newest]
        /\ online' = [online EXCEPT ![Owner[a.c]] = a.online]
        /\ Owner[a.c] \in User /\ a.newest \in BOOLEAN /\ a.online \in BOOLEAN
    BY <1>4 DEF FanOut, PresenceType, Notice, EphemeralAssumption
  <2>2. PresenceType' /\ NoticesOK'
    BY <2>1 DEF PresenceType, NoticesOK
  <2>3. CountExact'
    BY <2>1 DEF CountExact, Online, Registered
  <2>4. InformedOK'
    BY <2>1 DEF InformedOK, NoticesOK, PresenceType
  <2>. QED
    BY <2>2, <2>3, <2>4
<1>5. ASSUME NEW a \in notices, FanOutFails(a) PROVE PresenceType' /\ PresenceInv'
  BY <1>5 DEF FanOutFails, PresenceType, CountExact, Online, Registered, InformedOK, NoticesOK
<1>6. ASSUME \/ \E c \in Conn : Start(c) \/ Stop(c) \/ \E g \in armed[c] : Expire(c, g)
             \/ \E s \in signals : Tell(s) \/ HandlerInterrupted(s)
             \/ UNCHANGED vars
      PROVE  PresenceType' /\ PresenceInv'
  <2>1. UNCHANGED presence
    BY <1>6 DEF Start, Stop, Expire, Tell, HandlerInterrupted, vars
  <2>. QED
    BY <2>1 DEF presence, PresenceType, CountExact, Online, Registered, InformedOK, NoticesOK
<1>. QED
  BY <1>1, <1>2, <1>3, <1>4, <1>5, <1>6 DEF Next

-----------------------------------------------------------------------------
(* The trackers.  A decision that says what the entry says then is the     *)
(* newest of its connection, and nobody who was told the ones before it    *)
(* was told the last.                                                      *)
LEMMA EmitKeeps ==
  ASSUME EphemeralAssumption, TypingType, SignalsOK, ShownOK,
         NEW c \in Conn, NEW g \in Nat, NEW start \in BOOLEAN,
         NEW by \in {"frame", "timer", "cleanup"}, Emit(c, g, start, by),
         start <=> entry'[c] # 0, \A d \in Conn : d # c => entry'[d] = entry[d], shown' = shown
  PROVE  /\ SignalsOK' /\ ShownOK'
         /\ signals' \subseteq Signal /\ current' \in [Conn -> BOOLEAN]
<1>1. current' = [current EXCEPT ![c] = FALSE]
  BY DEF Emit
<1>2. ASSUME NEW b \in signals'
      PROVE  b \in Signal /\ (b.newest => (b.start <=> entry'[b.c] # 0))
  <2>1. CASE b = [c |-> c, gen |-> g, start |-> start, newest |-> TRUE, by |-> by]
    BY <2>1 DEF Signal
  <2>2. ASSUME NEW s \in signals, b = [s EXCEPT !.newest = s.newest /\ s.c # c]
        PROVE  b \in Signal /\ (b.newest => (b.start <=> entry'[b.c] # 0))
    <3>1. s \in Signal
      BY DEF TypingType
    <3>2. /\ b \in Signal /\ b.c = s.c /\ b.start = s.start
          /\ b.newest => s.newest /\ s.c # c
      BY <2>2, <3>1 DEF Signal
    <3>3. s.c \in Conn
      BY <3>1 DEF Signal
    <3>. QED
      BY <3>2, <3>3 DEF SignalsOK
  <2>. QED
    BY <2>1, <2>2 DEF Emit
<1>3. ShownOK'
  <2>. SUFFICES ASSUME NEW u \in User, shown[u], \A d \in Conn : Owner[d] = u => current'[d]
                PROVE  \E d \in Conn : Owner[d] = u /\ entry'[d] # 0
    BY DEF ShownOK
  <2>1. Owner[c] # u
    BY <1>1 DEF TypingType
  <2>2. PICK d \in Conn : Owner[d] = u /\ entry[d] # 0
    BY <1>1, <2>1 DEF ShownOK, TypingType
  <2>. QED
    BY <2>1, <2>2
<1>. QED
  BY <1>1, <1>2, <1>3 DEF SignalsOK, TypingType

LEMMA RemoveKeeps ==
  ASSUME EphemeralAssumption, TypingType, TypingInv, NEW c \in Conn,
         NEW by \in {"frame", "timer", "cleanup"}, Remove(c, by),
         gen' = gen, shown' = shown
  PROVE  /\ SignalsOK' /\ ShownOK' /\ entry' = [entry EXCEPT ![c] = 0]
         /\ signals' \subseteq Signal /\ current' \in [Conn -> BOOLEAN]
         /\ entry' \in [Conn -> Nat]
         /\ \A d \in Conn : entry'[d] <= gen'[d] /\ gen'[d] <= MaxStarts[d]
<1>1. entry' = [entry EXCEPT ![c] = 0]
  BY DEF Remove
<1>2. /\ entry' \in [Conn -> Nat]
      /\ \A d \in Conn : entry'[d] <= gen'[d] /\ gen'[d] <= MaxStarts[d]
  BY <1>1 DEF TypingType
<1>3. CASE entry[c] # 0
  <2>1. Emit(c, entry[c], FALSE, by)
    BY <1>3 DEF Remove
  <2>2. /\ entry'[c] = 0 /\ entry[c] \in Nat
        /\ \A d \in Conn : d # c => entry'[d] = entry[d]
    BY <1>1 DEF TypingType
  <2>. PICK g \in Nat : g = entry[c]
    BY <2>2
  <2>3. Emit(c, g, FALSE, by) /\ (FALSE <=> entry'[c] # 0)
    BY <2>1, <2>2
  <2>4. SignalsOK /\ ShownOK
    BY DEF TypingInv
  <2>5. /\ SignalsOK' /\ ShownOK'
        /\ signals' \subseteq Signal /\ current' \in [Conn -> BOOLEAN]
    BY <2>2, <2>3, <2>4, EmitKeeps
  <2>. QED
    BY <1>1, <1>2, <2>5
<1>4. CASE entry[c] = 0
  <2>1. entry' = entry /\ UNCHANGED <<current, signals>>
    BY <1>1, <1>4 DEF Remove, TypingType
  <2>. QED
    BY <1>1, <1>2, <2>1 DEF TypingInv, TypingType, SignalsOK, ShownOK
<1>. QED
  BY <1>3, <1>4

(* The steps of the trackers; those of presence leave them alone.          *)
LEMMA TypingNext ==
  ASSUME EphemeralAssumption, PresenceType, TypingType, TypingInv, [Next]_vars
  PROVE  TypingType' /\ TypingInv'
<1>1. ASSUME NEW c \in Conn, Start(c) PROVE TypingType' /\ TypingInv'
  <2>. DEFINE g == gen[c] + 1
  <2>1. g \in Nat \ {0} /\ g <= MaxStarts[c]
    BY <1>1 DEF Start, TypingType, EphemeralAssumption
  <2>2. /\ gen' = [gen EXCEPT ![c] = g] /\ entry' = [entry EXCEPT ![c] = g]
        /\ typing' = [typing EXCEPT ![c] = g] /\ armed' = [armed EXCEPT ![c] = @ \cup {g}]
        /\ shown' = shown
    BY <1>1 DEF Start, Generations, Armed
  <2>3. /\ gen' \in [Conn -> Nat] /\ entry' \in [Conn -> Nat] /\ typing' \in [Conn -> Nat]
        /\ armed' \in [Conn -> SUBSET (Nat \ {0})]
        /\ shown' \in [User -> BOOLEAN]
    BY <2>1, <2>2 DEF TypingType
  <2>4. \A d \in Conn : entry'[d] <= gen'[d] /\ gen'[d] <= MaxStarts[d]
    BY <2>1, <2>2 DEF TypingType
  <2>5. OwnTimer' /\ NotCutShort'
    BY <2>1, <2>2 DEF TypingType, TypingInv, OwnTimer, NotCutShort
  <2>6. entry'[c] # 0 /\ \A d \in Conn : d # c => entry'[d] = entry[d]
    BY <2>1, <2>2 DEF TypingType
  <2>7. /\ SignalsOK' /\ ShownOK'
        /\ signals' \subseteq Signal /\ current' \in [Conn -> BOOLEAN]
    <3>1. CASE Emit(c, g, TRUE, "frame")
      <4>. HIDE DEF g
      <4>. QED
        BY <2>1, <2>2, <2>6, <3>1, EmitKeeps DEF TypingInv
    <3>2. CASE entry[c] # 0 /\ UNCHANGED <<current, signals>>
      <4>. HIDE DEF g
      <4>1. \A d \in Conn : entry'[d] # 0 <=> entry[d] # 0
        BY <2>6, <3>2
      <4>2. \A s \in signals : s.c \in Conn
        BY DEF TypingType, Signal
      <4>3. SignalsOK'
        BY <3>2, <4>1, <4>2 DEF TypingInv, SignalsOK
      <4>4. ShownOK'
        BY <2>2, <3>2, <4>1 DEF TypingInv, ShownOK
      <4>. QED
        BY <3>2, <4>3, <4>4 DEF TypingType
    <3>3. Emit(c, g, TRUE, "frame") \/ (entry[c] # 0 /\ UNCHANGED <<current, signals>>)
      BY <1>1 DEF Start
    <3>. QED
      BY <3>1, <3>2, <3>3
  <2>. QED
    BY <2>3, <2>4, <2>5, <2>7 DEF TypingType, TypingInv
<1>2. ASSUME NEW c \in Conn, NEW by \in {"frame", "timer", "cleanup"}, Remove(c, by),
             UNCHANGED <<gen, shown>>, typing' = [typing EXCEPT ![c] = 0], armed' = armed
      PROVE  TypingType' /\ TypingInv'
  <2>1. /\ SignalsOK' /\ ShownOK' /\ entry' = [entry EXCEPT ![c] = 0]
        /\ signals' \subseteq Signal /\ current' \in [Conn -> BOOLEAN]
        /\ entry' \in [Conn -> Nat]
        /\ \A d \in Conn : entry'[d] <= gen'[d] /\ gen'[d] <= MaxStarts[d]
    BY <1>2, RemoveKeeps
  <2>2. OwnTimer' /\ NotCutShort'
    BY <1>2, <2>1 DEF TypingType, TypingInv, OwnTimer, NotCutShort
  <2>. QED
    BY <1>2, <2>1, <2>2 DEF TypingType, TypingInv
<1>3. ASSUME NEW c \in Conn, Stop(c) \/ Shutdown(c) PROVE TypingType' /\ TypingInv'
  BY <1>2, <1>3 DEF Stop, Shutdown
<1>4. ASSUME NEW c \in Conn, NEW g \in armed[c], Expire(c, g) PROVE TypingType' /\ TypingInv'
  <2>1. /\ armed' = [armed EXCEPT ![c] = @ \ {g}] /\ UNCHANGED <<gen, shown, typing>>
        /\ armed' \in [Conn -> SUBSET (Nat \ {0})]
    BY <1>4 DEF Expire, TypingType
  <2>2. CASE entry[c] = g
    <3>1. Remove(c, "timer")
      BY <1>4, <2>2 DEF Expire, CurrentTimer
    <3>2. /\ SignalsOK' /\ ShownOK' /\ entry' = [entry EXCEPT ![c] = 0]
          /\ signals' \subseteq Signal /\ current' \in [Conn -> BOOLEAN]
          /\ entry' \in [Conn -> Nat]
          /\ \A d \in Conn : entry'[d] <= gen'[d] /\ gen'[d] <= MaxStarts[d]
      BY <2>1, <3>1, RemoveKeeps
    <3>3. OwnTimer' /\ NotCutShort'
      BY <2>1, <2>2, <3>2 DEF TypingType, TypingInv, OwnTimer, NotCutShort
    <3>. QED
      BY <2>1, <3>2, <3>3 DEF TypingType, TypingInv
  <2>3. CASE entry[c] # g
    <3>1. UNCHANGED <<entry, current, signals>>
      BY <1>4, <2>3 DEF Expire, CurrentTimer
    <3>2. OwnTimer' /\ NotCutShort'
      BY <2>1, <2>3, <3>1 DEF TypingType, TypingInv, OwnTimer, NotCutShort
    <3>. QED
      BY <2>1, <3>1, <3>2 DEF TypingType, TypingInv, SignalsOK, ShownOK
  <2>. QED
    BY <2>2, <2>3
<1>5. ASSUME NEW s \in signals, Tell(s) PROVE TypingType' /\ TypingInv'
  <2>1. /\ signals' = signals \ {s} /\ UNCHANGED <<entry, gen, armed, typing>>
        /\ current' = [current EXCEPT ![s.c] = s.newest]
        /\ shown' = [shown EXCEPT ![Owner[s.c]] = s.start]
        /\ s.c \in Conn /\ Owner[s.c] \in User
        /\ s.newest \in BOOLEAN /\ s.start \in BOOLEAN
    BY <1>5 DEF Tell, TypingType, Signal, EphemeralAssumption
  <2>2. ShownOK'
    <3>. SUFFICES ASSUME NEW u \in User, shown'[u],
                         \A c \in Conn : Owner[c] = u => current'[c]
                  PROVE  \E c \in Conn : Owner[c] = u /\ entry[c] # 0
      BY <2>1 DEF ShownOK
    <3>1. CASE u = Owner[s.c]
      <4>1. s.start /\ s.newest
        BY <2>1, <3>1 DEF TypingType
      <4>. QED
        BY <2>1, <3>1, <4>1 DEF TypingInv, SignalsOK
    <3>2. CASE u # Owner[s.c]
      <4>1. shown[u] /\ \A c \in Conn : Owner[c] = u => current[c]
        BY <2>1, <3>2 DEF TypingType
      <4>. QED
        BY <4>1 DEF TypingInv, ShownOK
    <3>. QED
      BY <3>1, <3>2
  <2>3. SignalsOK' /\ OwnTimer' /\ NotCutShort'
    BY <2>1 DEF TypingInv, SignalsOK, OwnTimer, NotCutShort
  <2>4. TypingType'
    BY <2>1 DEF TypingType
  <2>. QED
    BY <2>2, <2>3, <2>4 DEF TypingInv
<1>6. ASSUME NEW s \in signals, HandlerInterrupted(s) PROVE TypingType' /\ TypingInv'
  BY <1>6 DEF HandlerInterrupted, TypingType, TypingInv, OwnTimer, SignalsOK, ShownOK, NotCutShort
<1>7. ASSUME \/ \E c \in Conn : Accept(c) \/ StreamsStart(c) \/ Unregister(c)
             \/ \E a \in notices : FanOut(a) \/ FanOutFails(a)
             \/ UNCHANGED vars
      PROVE  TypingType' /\ TypingInv'
  <2>1. UNCHANGED tracker
    BY <1>7 DEF Accept, StreamsStart, Unregister, FanOut, FanOutFails, vars
  <2>. QED
    BY <2>1 DEF tracker, TypingType, TypingInv, OwnTimer, SignalsOK, ShownOK, NotCutShort
<1>. QED
  BY <1>1, <1>3, <1>4, <1>5, <1>6, <1>7 DEF Next

-----------------------------------------------------------------------------
LEMMA EphInvInit ==
  ASSUME EphemeralAssumption, Init
  PROVE  EphInv
<1>1. PresenceType /\ TypingType
  BY DEF Init, PresenceType, TypingType, EphemeralAssumption
<1>2. \A u \in User : Online(u) = {}
  BY DEF Init, Online, Registered
<1>3. PresenceInv
  BY <1>2, FS_EmptySet DEF Init, PresenceInv, CountExact, InformedOK, NoticesOK
<1>4. TypingInv
  BY DEF Init, TypingInv, OwnTimer, SignalsOK, ShownOK, NotCutShort
<1>. QED
  BY <1>1, <1>3, <1>4 DEF EphInv

LEMMA EphInvMeans ==
  ASSUME EphemeralAssumption, EphInv
  PROVE  TypeOK /\ PresenceTruth /\ NeverStuck /\ NotCutShort
<1>1. TypeOK
  BY DEF EphInv, PresenceType, TypingType, TypeOK
<1>2. PresenceTruth
  <2>. SUFFICES ASSUME NEW u \in User
                PROVE  count[u] # 0 <=> \E c \in Conn : Owner[c] = u /\ Registered(c)
    BY DEF EphInv, PresenceInv, InformedOK, PresenceTruth
  <2>1. IsFiniteSet(Online(u)) /\ count[u] = Cardinality(Online(u))
    BY DEF EphInv, PresenceInv, CountExact
  <2>2. count[u] = 0 <=> Online(u) = {}
    BY <2>1, FS_EmptySet
  <2>. QED
    BY <2>2 DEF Online
<1>3. NeverStuck
  BY DEF EphInv, TypingInv, ShownOK, OwnTimer, NeverStuck
<1>. QED
  BY <1>1, <1>2, <1>3 DEF EphInv, TypingInv

LEMMA EphInvAlways == Spec => []EphInv
<1>1. Init => EphInv
  BY EphInvInit, EphemeralAssumption
<1>2. EphInv /\ [Next]_vars => EphInv'
  BY PresenceNext, TypingNext, EphemeralAssumption DEF EphInv
<1>. QED
  BY <1>1, <1>2, PTL DEF Spec

-----------------------------------------------------------------------------
(* The registry, the tracker and what they tell keep their types.          *)
THEOREM EphemeralTypeCorrect == Spec => []TypeOK
<1>1. EphInv => TypeOK
  BY EphInvMeans, EphemeralAssumption
<1>. QED
  BY <1>1, EphInvAlways, PTL

(* A peer told the newest transition last shows a user online exactly      *)
(* while a connection of theirs is registered.                             *)
THEOREM PresenceIsTrue == Spec => []PresenceTruth
<1>1. EphInv => PresenceTruth
  BY EphInvMeans, EphemeralAssumption
<1>. QED
  BY <1>1, EphInvAlways, PTL

(* An indicator that nobody misheard has a running timer behind it.        *)
THEOREM IndicatorNeverStuck == Spec => []NeverStuck
<1>1. EphInv => NeverStuck
  BY EphInvMeans, EphemeralAssumption
<1>. QED
  BY <1>1, EphInvAlways, PTL

(* A superseded timer ends nothing.                                        *)
THEOREM SupersededTimersIdle == Spec => []NotCutShort
<1>1. EphInv => NotCutShort
  BY EphInvMeans, EphemeralAssumption
<1>. QED
  BY <1>1, EphInvAlways, PTL
=============================================================================
