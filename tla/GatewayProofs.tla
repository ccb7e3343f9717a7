---------------------------- MODULE GatewayProofs ----------------------------
(***************************************************************************)
(* Proofs about Gateway for any set of connections and of handlers, any    *)
(* log length, any number of resubscriptions and any queue capacity: its   *)
(* types, the splice invariant with the order it gives, and, in the        *)
(* environment GentleSpec names, that nothing is lost and that the gateway *)
(* implements SeqFeed.                                                     *)
(***************************************************************************)
EXTENDS GatewayFeed, SequenceTheorems, TLAPS

-----------------------------------------------------------------------------
(* Typing.  One lemma per group of steps.                                  *)

LEMMA ExceptTyped ==
  ASSUME NEW S, NEW T, NEW f \in [S -> T], NEW x, NEW v \in T
  PROVE  [f EXCEPT ![x] = v] \in [S -> T]
OBVIOUS

LEMMA WriterTyped ==
  ASSUME TypeOK, NEW w \in Writer, WriterStep(w)
  PROVE  TypeOK'
<1>1. CASE Commit(w)
  BY <1>1 DEF TypeOK, Commit, connVars
<1>2. CASE Publish(w)
  BY <1>2 DEF TypeOK, Publish, connVars
<1>3. CASE Published(w)
  BY <1>3 DEF TypeOK, Published, connVars
<1>4. ASSUME NEW c \in Conn, SendTo(w, c)
      PROVE  TypeOK'
  <2>1. inbox' \in [Conn -> Seq(Nat)]
    <3>1. inbox[c] \in Seq(Nat) /\ event[w] \in Nat
      BY DEF TypeOK
    <3>2. Append(inbox[c], event[w]) \in Seq(Nat)
      BY <3>1, AppendProperties
    <3>3. QED
      BY <1>4, <3>2 DEF TypeOK, SendTo
  <2>2. QED
    BY <1>4, <2>1 DEF TypeOK, SendTo
<1>5. QED
  BY <1>1, <1>2, <1>3, <1>4 DEF WriterStep

LEMMA LifetimeTyped ==
  ASSUME TypeOK, NEW S \in SUBSET Conn, Dropped(S)
  PROVE  /\ open' \in [Conn -> {"new", "open", "closed"}]
         /\ attached' \in [Conn -> BOOLEAN]
         /\ inbox' \in [Conn -> Seq(Nat)]
         /\ phase' \in [Conn -> {"none", "replaying", "live"}]
         /\ buffer' \in [Conn -> SUBSET Nat]
         /\ hwm' \in [Conn -> Nat]
         /\ reading' \in [Conn -> {"idle", "earliest", "since", "emit"}]
         /\ pending' \in [Conn -> SUBSET Nat]
         /\ mark' \in [Conn -> Nat]
         /\ chosen' \in [Conn -> Frame]
         /\ asked' \in [Conn -> Seq([from : Nat])]
         /\ out' \in [Conn -> Seq(Frame)]
<1>1. NoFrame \in Frame
  BY DEF NoFrame, Frame
<1>2. inbox' \in [Conn -> Seq(Nat)]
  <2>1. << >> \in Seq(Nat)
    OBVIOUS
  <2>2. QED
    BY <2>1 DEF TypeOK, Dropped
<1>3. attached' \in [Conn -> BOOLEAN]
  BY DEF TypeOK, Dropped
<1>4. chosen' \in [Conn -> Frame]
  BY <1>1 DEF TypeOK, Dropped
<1>5. QED
  BY <1>2, <1>3, <1>4 DEF TypeOK, Dropped

LEMMA SubscribeTyped ==
  ASSUME TypeOK, NEW c \in Conn, BeginReplay(c)
  PROVE  TypeOK'
<1>1. PICK lastSeen \in LastSeen :
        /\ asked' = [asked EXCEPT ![c] = Append(@, [from |-> lastSeen])]
        /\ mark' = [mark EXCEPT ![c] = lastSeen]
  BY DEF BeginReplay, ResumeAt
<1>2. lastSeen \in Nat
  BY GatewayAssumption DEF GatewayAssumption
<1>3. Append(asked[c], [from |-> lastSeen]) \in Seq([from : Nat])
  <2>1. [from |-> lastSeen] \in [from : Nat]
    BY <1>2 DEF TypeOK
  <2>2. asked[c] \in Seq([from : Nat])
    BY DEF TypeOK
  <2>3. QED
    BY <2>1, <2>2, AppendProperties
<1>4. QED
  BY <1>1, <1>2, <1>3 DEF TypeOK, BeginReplay, writerVars

(* Offering a frame to the socket keeps the history of frames well typed.  *)
LEMMA OfferTyped ==
  ASSUME TypeOK, NEW c \in Conn, NEW f \in Frame,
         out' = [out EXCEPT ![c] = Append(@, f)]
  PROVE  out' \in [Conn -> Seq(Frame)]
<1>1. out[c] \in Seq(Frame)
  BY DEF TypeOK
<1>2. Append(out[c], f) \in Seq(Frame)
  BY <1>1, AppendProperties
<1>3. QED
  BY <1>2 DEF TypeOK

LEMMA SubscriptionTyped ==
  ASSUME TypeOK, NEW c \in Conn
  PROVE  Subscription(c) \in Nat
BY DEF TypeOK, Subscription

LEMMA ReceiveTyped ==
  ASSUME TypeOK, NEW c \in Conn, ReceiveStep(c)
  PROVE  TypeOK'
<1>1. CASE EarliestSeq(c)
  <2>1. [sub |-> Subscription(c), seq |-> 0] \in Frame
    BY SubscriptionTyped DEF Frame
  <2>2. out' \in [Conn -> Seq(Frame)]
    <3>1. CASE out' = out
      BY <3>1 DEF TypeOK
    <3>2. CASE out' = [out EXCEPT ![c] = Append(@, [sub |-> Subscription(c), seq |-> 0])]
      BY <2>1, <3>2, OfferTyped
    <3>3. QED
      BY <1>1, <3>1, <3>2 DEF EarliestSeq
  <2>3. QED
    BY <1>1, <2>2 DEF TypeOK, EarliestSeq, writerVars
<1>2. CASE Since(c)
  BY <1>2 DEF TypeOK, Since, Retained, writerVars
<1>3. CASE Emit(c)
  <2>1. PICK s \in pending[c] :
          /\ out' = [out EXCEPT ![c] = Append(@, [sub |-> Subscription(c), seq |-> s])]
          /\ pending' = [pending EXCEPT ![c] = @ \ {s}]
          /\ mark' = [mark EXCEPT ![c] = s]
    BY <1>3 DEF Emit
  <2>2. s \in Nat
    BY DEF TypeOK
  <2>3. out' \in [Conn -> Seq(Frame)]
    <3>1. [sub |-> Subscription(c), seq |-> s] \in Frame
      BY <2>2, SubscriptionTyped DEF Frame
    <3>2. QED
      BY <2>1, <3>1, OfferTyped
  <2>4. QED
    BY <1>3, <2>1, <2>2, <2>3 DEF TypeOK, Emit, writerVars
<1>4. CASE Flush(c)
  <2> DEFINE fresh == Fresh(c)
  <2>1. fresh \in SUBSET Nat
    BY DEF TypeOK, Fresh
  <2>2. /\ phase' \in [Conn -> {"none", "replaying", "live"}]
        /\ hwm' \in [Conn -> Nat]
        /\ reading' \in [Conn -> {"idle", "earliest", "since", "emit"}]
        /\ pending' \in [Conn -> SUBSET Nat]
    <3>1. \/ /\ phase' = [phase EXCEPT ![c] = "live"]
             /\ hwm' = [hwm EXCEPT ![c] = mark[c]]
             /\ reading' = [reading EXCEPT ![c] = "idle"]
             /\ pending' = pending
          \/ /\ pending' = [pending EXCEPT ![c] = fresh]
             /\ phase' = phase /\ hwm' = hwm /\ reading' = reading
      BY <1>4, Zenon DEF Flush
    <3> HIDE DEF fresh
    <3>2. /\ phase \in [Conn -> {"none", "replaying", "live"}]
          /\ hwm \in [Conn -> Nat] /\ mark[c] \in Nat
          /\ reading \in [Conn -> {"idle", "earliest", "since", "emit"}]
          /\ pending \in [Conn -> SUBSET Nat]
      BY DEF TypeOK
    <3>3. pending' \in [Conn -> SUBSET Nat]
      BY <2>1, <3>1, <3>2, ExceptTyped
    <3>4. QED
      BY <3>1, <3>2, <3>3
  <2>3. QED
    BY <1>4, <2>2 DEF TypeOK, Flush, writerVars
<1>5. QED
  BY <1>1, <1>2, <1>3, <1>4 DEF ReceiveStep

LEMMA LiveTyped ==
  ASSUME TypeOK, NEW c \in Conn, LiveStep(c)
  PROVE  TypeOK'
<1>1. CASE Attach(c)
  BY <1>1 DEF TypeOK, Attach, writerVars
<1>2. CASE OnLive(c)
  <2>1. Head(inbox[c]) \in Nat /\ Tail(inbox[c]) \in Seq(Nat)
    <3>1. inbox[c] \in Seq(Nat) /\ inbox[c] # << >>
      BY <1>2 DEF TypeOK, OnLive
    <3>2. QED
      BY <3>1, HeadTailProperties
  <2>2. [sub |-> Subscription(c), seq |-> Head(inbox[c])] \in Frame
    BY <2>1, SubscriptionTyped DEF Frame
  <2>3. /\ inbox' \in [Conn -> Seq(Nat)]
        /\ buffer' \in [Conn -> SUBSET Nat]
        /\ hwm' \in [Conn -> Nat]
        /\ chosen' \in [Conn -> Frame]
    <3> DEFINE s == Head(inbox[c])
    <3>1. \/ buffer' = [buffer EXCEPT ![c] = @ \cup {s}] /\ hwm' = hwm /\ chosen' = chosen
          \/ /\ buffer' = buffer
             /\ hwm' = [hwm EXCEPT ![c] = s]
             /\ chosen' = [chosen EXCEPT ![c] = [sub |-> Subscription(c), seq |-> s]]
          \/ buffer' = buffer /\ hwm' = hwm /\ chosen' = chosen
      BY <1>2, Zenon DEF OnLive
    <3>2. inbox' = [inbox EXCEPT ![c] = Tail(@)]
      BY <1>2 DEF OnLive
    <3> HIDE DEF s
    <3>3. s \in Nat
      BY <2>1 DEF s
    <3>4. [sub |-> Subscription(c), seq |-> s] \in Frame
      BY <2>2 DEF s
    <3>5. /\ inbox \in [Conn -> Seq(Nat)]
          /\ buffer \in [Conn -> SUBSET Nat]
          /\ hwm \in [Conn -> Nat]
          /\ chosen \in [Conn -> Frame]
      BY DEF TypeOK
    <3>6. buffer[c] \cup {s} \in SUBSET Nat
      BY <3>3, <3>5
    <3>7. buffer' \in [Conn -> SUBSET Nat]
      BY <3>1, <3>5, <3>6, ExceptTyped
    <3>8. chosen' \in [Conn -> Frame]
      BY <3>1, <3>4, <3>5, ExceptTyped
    <3>9. hwm' \in [Conn -> Nat]
      BY <3>1, <3>3, <3>5, ExceptTyped
    <3>10. QED
      BY <2>1, <3>2, <3>5, <3>7, <3>8, <3>9, ExceptTyped
  <2>4. QED
    BY <1>2, <2>3 DEF TypeOK, OnLive, writerVars
<1>3. CASE LiveEmit(c)
  <2>1. out' \in [Conn -> Seq(Frame)]
    BY <1>3, OfferTyped DEF LiveEmit, TypeOK
  <2>2. NoFrame \in Frame
    BY DEF NoFrame, Frame
  <2>3. QED
    BY <1>3, <2>1, <2>2 DEF TypeOK, LiveEmit, writerVars
<1>4. QED
  BY <1>1, <1>2, <1>3 DEF LiveStep

(* The gateway never leaves its types, whatever the constants.             *)
THEOREM TypeCorrect == Spec => []TypeOK
<1>1. Init => TypeOK
  <2>1. NoFrame \in Frame
    BY DEF NoFrame, Frame
  <2>2. QED
    BY <2>1 DEF Init, TypeOK
<1>2. TypeOK /\ [Next]_vars => TypeOK'
  <2> SUFFICES ASSUME TypeOK, [Next]_vars
               PROVE  TypeOK'
    OBVIOUS
  <2>1. ASSUME NEW w \in Writer, WriterStep(w)
        PROVE  TypeOK'
    BY <2>1, WriterTyped
  <2>2. ASSUME NEW c \in Conn, Accept(c)
        PROVE  TypeOK'
    BY <2>2 DEF TypeOK, Accept, writerVars
  <2>3. ASSUME NEW c \in Conn, BeginReplay(c)
        PROVE  TypeOK'
    BY <2>3, SubscribeTyped
  <2>4. ASSUME NEW c \in Conn, ReceiveStep(c)
        PROVE  TypeOK'
    BY <2>4, ReceiveTyped
  <2>5. ASSUME NEW c \in Conn, LiveStep(c)
        PROVE  TypeOK'
    BY <2>5, LiveTyped
  <2>6. ASSUME NEW c \in Conn, Close(c)
        PROVE  TypeOK'
    <3>1. Dropped({c})
      BY <2>6 DEF Close
    <3>2. QED
      BY <2>6, <3>1, LifetimeTyped DEF TypeOK, Close, writerVars
  <2>7. CASE Restart
    <3>1. Dropped({c \in Conn : open[c] = "open"})
      BY <2>7 DEF Restart
    <3>2. /\ open' \in [Conn -> {"new", "open", "closed"}]
          /\ attached' \in [Conn -> BOOLEAN]
          /\ inbox' \in [Conn -> Seq(Nat)]
          /\ phase' \in [Conn -> {"none", "replaying", "live"}]
          /\ buffer' \in [Conn -> SUBSET Nat]
          /\ hwm' \in [Conn -> Nat]
          /\ reading' \in [Conn -> {"idle", "earliest", "since", "emit"}]
          /\ pending' \in [Conn -> SUBSET Nat]
          /\ mark' \in [Conn -> Nat]
          /\ chosen' \in [Conn -> Frame]
          /\ asked' \in [Conn -> Seq([from : Nat])]
          /\ out' \in [Conn -> Seq(Frame)]
      BY <3>1, LifetimeTyped
    <3>3. QED
      BY <2>7, <3>2 DEF TypeOK, Restart
  <2>8. CASE Prune
    BY <2>8 DEF TypeOK, Prune, writerVars, connVars
  <2>9. CASE UNCHANGED vars
    BY <2>9 DEF TypeOK, vars, writerVars, connVars
  <2>10. QED
    BY <2>1, <2>2, <2>3, <2>4, <2>5, <2>6, <2>7, <2>8, <2>9 DEF Next
<1>3. QED
  BY <1>1, <1>2, PTL DEF Spec
-----------------------------------------------------------------------------
(* The splice.  A step touches one connection; what it leaves alone stays  *)
(* correct.                                                                *)

SameConn(d) ==
  /\ phase'[d] = phase[d] /\ hwm'[d] = hwm[d]
  /\ reading'[d] = reading[d] /\ pending'[d] = pending[d] /\ mark'[d] = mark[d]
  /\ chosen'[d] = chosen[d] /\ asked'[d] = asked[d] /\ out'[d] = out[d]

LEMMA Untouched ==
  ASSUME TypeOK, SpliceInv, head' \in Nat, head <= head',
         NEW d \in Conn, SameConn(d)
  PROVE  Splice(d)' /\ Decision(d)'
<1>1. head \in Nat /\ pending[d] \in SUBSET Nat /\ chosen[d] \in Frame
  BY DEF TypeOK
<1>2. Splice(d) /\ Decision(d)
  BY DEF SpliceInv
<1>3. Splice(d)'
  BY <1>1, <1>2 DEF SameConn, Splice, UpTo, Subscription
<1>4. Decision(d)'
  BY <1>1, <1>2 DEF SameConn, Decision, Subscription, Frame
<1>5. QED
  BY <1>3, <1>4

(* What Append does to the frames of a connection.                         *)
LEMMA Appended ==
  ASSUME TypeOK, NEW c \in Conn, NEW f \in Frame,
         out' = [out EXCEPT ![c] = Append(@, f)]
  PROVE  /\ Len(out[c]) \in Nat
         /\ Len(out'[c]) = Len(out[c]) + 1
         /\ out'[c][Len(out[c]) + 1] = f
         /\ \A i \in 1 .. Len(out[c]) : out'[c][i] = out[c][i]
         /\ \A i \in 1 .. Len(out[c]) : out[c][i] \in Frame
         /\ \A d \in Conn \ {c} : out'[d] = out[d]
<1>1. out[c] \in Seq(Frame) /\ out'[c] = Append(out[c], f)
  BY DEF TypeOK
<1>2. \A i \in 1 .. Len(out[c]) : out[c][i] \in Frame
  BY <1>1, ElementOfSeq
<1>3. Len(out[c]) \in Nat
  BY <1>1, LenProperties
<1>4. QED
  BY <1>1, <1>2, <1>3, AppendProperties DEF TypeOK

(* Offering a frame above all earlier ones of its subscription, and past   *)
(* that subscription's resume point, keeps both promises.                  *)
LEMMA Offered ==
  ASSUME TypeOK, OrderedOnce, OnlyAskedFor, NEW c \in Conn, NEW f \in Frame,
         out' = [out EXCEPT ![c] = Append(@, f)], asked' = asked, head' = head,
         f.sub \in 1 .. Len(asked[c]),
         f.seq > 0 => f.seq > asked[c][f.sub].from /\ f.seq <= head,
         \A i \in 1 .. Len(out[c]) : out[c][i].sub = f.sub => out[c][i].seq < f.seq
  PROVE  OrderedOnce' /\ OnlyAskedFor'
<1> DEFINE n == Len(out[c])
<1>1. /\ n \in Nat /\ Len(out'[c]) = n + 1 /\ out'[c][n + 1] = f
      /\ \A i \in 1 .. n : out'[c][i] = out[c][i]
      /\ \A d \in Conn \ {c} : out'[d] = out[d]
  BY Appended
<1>2. OrderedOnce'
  <2> SUFFICES ASSUME NEW d \in Conn,
                      NEW i \in 1 .. Len(out'[d]), NEW j \in 1 .. Len(out'[d]),
                      i < j, out'[d][i].sub = out'[d][j].sub
               PROVE  out'[d][i].seq < out'[d][j].seq
    BY DEF OrderedOnce
  <2>1. CASE d # c
    BY <1>1, <2>1 DEF OrderedOnce
  <2>2. CASE d = c /\ j = n + 1
    <3>1. i \in 1 .. n
      BY <1>1, <2>2
    <3>2. QED
      BY <1>1, <2>2, <3>1
  <2>3. CASE d = c /\ j # n + 1
    <3>1. i \in 1 .. n /\ j \in 1 .. n
      BY <1>1, <2>3
    <3>2. QED
      BY <1>1, <2>3, <3>1 DEF OrderedOnce
  <2>4. QED
    BY <2>1, <2>2, <2>3
<1>3. OnlyAskedFor'
  <2> SUFFICES ASSUME NEW d \in Conn, NEW i \in 1 .. Len(out'[d])
               PROVE  /\ out'[d][i].sub \in 1 .. Len(asked[d])
                      /\ out'[d][i].seq > 0 =>
                           /\ out'[d][i].seq > asked[d][out'[d][i].sub].from
                           /\ out'[d][i].seq <= head
    BY DEF OnlyAskedFor
  <2>1. CASE d # c
    BY <1>1, <2>1 DEF OnlyAskedFor
  <2>2. CASE d = c /\ i = n + 1
    BY <1>1, <2>2
  <2>3. CASE d = c /\ i # n + 1
    <3>1. i \in 1 .. n
      BY <1>1, <2>3
    <3>2. QED
      BY <1>1, <2>3, <3>1 DEF OnlyAskedFor
  <2>4. QED
    BY <2>1, <2>2, <2>3
<1>4. QED
  BY <1>2, <1>3

(* A step that offers nothing keeps both promises.                         *)
LEMMA NothingOffered ==
  ASSUME TypeOK, OrderedOnce, OnlyAskedFor,
         out' = out, asked' = asked, head' \in Nat, head <= head'
  PROVE  OrderedOnce' /\ OnlyAskedFor'
<1>1. OrderedOnce'
  BY DEF OrderedOnce
<1>2. OnlyAskedFor'
  <2> SUFFICES ASSUME NEW d \in Conn, NEW i \in 1 .. Len(out[d])
               PROVE  /\ out[d][i].sub \in 1 .. Len(asked[d])
                      /\ out[d][i].seq > 0 =>
                           /\ out[d][i].seq > asked[d][out[d][i].sub].from
                           /\ out[d][i].seq <= head'
    BY DEF OnlyAskedFor
  <2>1. out[d] \in Seq(Frame) /\ head \in Nat
    BY DEF TypeOK
  <2>2. out[d][i] \in Frame
    BY <2>1, ElementOfSeq
  <2>3. QED
    BY <2>1, <2>2 DEF OnlyAskedFor, Frame
<1>3. QED
  BY <1>1, <1>2

IInv == TypeOK /\ SpliceInv /\ OrderedOnce /\ OnlyAskedFor

LEMMA WriterKeeps ==
  ASSUME IInv, TypeOK', NEW w \in Writer, WriterStep(w)
  PROVE  IInv'
<1> USE DEF IInv
<1>1. /\ head' \in Nat /\ head \in Nat /\ head <= head'
      /\ out' = out /\ asked' = asked
      /\ \A d \in Conn : SameConn(d)
  <2>1. CASE Commit(w)
    BY <2>1 DEF Commit, connVars, TypeOK, SameConn
  <2>2. CASE Publish(w) \/ Published(w)
    BY <2>2 DEF Publish, Published, connVars, TypeOK, SameConn
  <2>3. ASSUME NEW c \in Conn, SendTo(w, c)
        PROVE  /\ head' = head /\ out' = out /\ asked' = asked
               /\ \A d \in Conn : SameConn(d)
    BY <2>3 DEF SendTo, SameConn
  <2>. QED
    BY <2>1, <2>2, <2>3 DEF WriterStep, TypeOK
<1>2. InFlight'
  <2>1. CASE Commit(w)
    BY <1>1, <2>1 DEF Commit, InFlight, SpliceInv, TypeOK, connVars
  <2>2. CASE Publish(w) \/ Published(w)
    <3>1. head' = head /\ inbox' = inbox /\ buffer' = buffer
      BY <2>2 DEF Publish, Published, connVars
    <3>2. ASSUME NEW v \in Writer, job'[v] # "idle"
          PROVE  job[v] # "idle" /\ event'[v] = event[v]
      BY <2>2, <3>2 DEF Publish, Published, TypeOK
    <3>3. \A v \in Writer : job'[v] # "idle" => event'[v] \in 1 .. head'
      BY <3>1, <3>2 DEF InFlight, SpliceInv
    <3>4. \A c \in Conn :
            /\ \A i \in 1 .. Len(inbox'[c]) : inbox'[c][i] \in 1 .. head'
            /\ buffer'[c] \subseteq 1 .. head'
      BY <3>1 DEF InFlight, SpliceInv
    <3>. QED
      BY <3>3, <3>4 DEF InFlight
  <2>3. ASSUME NEW c \in Conn, SendTo(w, c)
        PROVE  InFlight'
    <3> SUFFICES ASSUME NEW d \in Conn, NEW i \in 1 .. Len(inbox'[d])
                 PROVE  inbox'[d][i] \in 1 .. head
      BY <2>3 DEF SendTo, InFlight, SpliceInv
    <3>1. CASE inbox'[d] = inbox[d]
      BY <3>1 DEF InFlight, SpliceInv
    <3>2. CASE inbox'[d] = Append(inbox[d], event[w])
      <4>1. inbox[d] \in Seq(Nat) /\ event[w] \in Nat /\ event[w] \in 1 .. head
        BY <2>3 DEF TypeOK, SendTo, InFlight, SpliceInv
      <4>2. /\ Len(inbox[d]) \in Nat
            /\ Len(inbox'[d]) = Len(inbox[d]) + 1
            /\ inbox'[d][Len(inbox[d]) + 1] = event[w]
            /\ \A k \in 1 .. Len(inbox[d]) : inbox'[d][k] = inbox[d][k]
        BY <3>2, <4>1, AppendProperties, LenProperties
      <4>3. CASE i = Len(inbox[d]) + 1
        BY <4>1, <4>2, <4>3
      <4>4. CASE i # Len(inbox[d]) + 1
        <5>1. i \in 1 .. Len(inbox[d])
          BY <4>2, <4>4
        <5>2. inbox[d][i] \in 1 .. head
          BY <5>1 DEF InFlight, SpliceInv
        <5>3. QED
          BY <4>2, <5>1, <5>2
      <4>5. QED
        BY <4>3, <4>4
    <3>3. inbox'[d] = inbox[d] \/ inbox'[d] = Append(inbox[d], event[w])
      <4>1. inbox' = inbox \/ inbox' = [inbox EXCEPT ![c] = Append(@, event[w])]
        BY <2>3 DEF SendTo
      <4>2. d = c => [inbox EXCEPT ![c] = Append(@, event[w])][d] = Append(inbox[d], event[w])
        BY DEF TypeOK
      <4>3. d # c => [inbox EXCEPT ![c] = Append(@, event[w])][d] = inbox[d]
        BY DEF TypeOK
      <4>4. QED
        BY <4>1, <4>2, <4>3
    <3>4. QED
      BY <3>1, <3>2, <3>3
  <2>4. QED
    BY <2>1, <2>2, <2>3 DEF WriterStep
<1>3. QED
  BY <1>1, <1>2, Untouched, NothingOffered DEF SpliceInv

(* The other steps leave the handlers alone; what the fibers do to a       *)
(* connection keeps InFlight unless it moves an event into buffer.         *)
LEMMA InFlightKept ==
  ASSUME IInv, head' = head, job' = job, event' = event,
         \A d \in Conn : inbox'[d] = inbox[d] \/ inbox'[d] = << >>
                          \/ (inbox[d] # << >> /\ inbox'[d] = Tail(inbox[d])),
         \A d \in Conn : buffer'[d] \subseteq 1 .. head
  PROVE  InFlight'
<1> USE DEF IInv
<1>1. \A w \in Writer : job'[w] # "idle" => event'[w] \in 1 .. head'
  BY DEF InFlight, SpliceInv
<1>2. ASSUME NEW d \in Conn, NEW i \in 1 .. Len(inbox'[d])
      PROVE  inbox'[d][i] \in 1 .. head'
  <2>1. inbox[d] \in Seq(Nat)
    BY DEF TypeOK
  <2>2. CASE inbox'[d] = inbox[d]
    BY <1>2, <2>2 DEF InFlight, SpliceInv
  <2>3. CASE inbox'[d] = << >>
    BY <1>2, <2>3
  <2>4. CASE inbox[d] # << >> /\ inbox'[d] = Tail(inbox[d])
    <3>1. /\ Len(inbox'[d]) = Len(inbox[d]) - 1
          /\ inbox'[d][i] = inbox[d][i + 1]
      BY <1>2, <2>1, <2>4, HeadTailProperties
    <3>2. i + 1 \in 1 .. Len(inbox[d])
      BY <1>2, <2>1, <3>1, LenProperties
    <3>3. inbox[d][i + 1] \in 1 .. head
      BY <3>2 DEF InFlight, SpliceInv
    <3>4. QED
      BY <3>1, <3>3
  <2>5. QED
    BY <2>2, <2>3, <2>4
<1>3. QED
  BY <1>1, <1>2 DEF InFlight

LEMMA DropKeeps ==
  ASSUME IInv, TypeOK', NEW S \in SUBSET Conn, Dropped(S),
         head' = head, InFlight'
  PROVE  IInv'
<1> USE DEF IInv
<1>1. head \in Nat /\ out' = out /\ asked' = asked
  BY DEF TypeOK, Dropped
<1>2. ASSUME NEW d \in Conn
      PROVE  Splice(d)' /\ Decision(d)'
  <2>1. CASE d \in S
    BY <2>1 DEF Dropped, Splice, Decision
  <2>2. CASE d \notin S
    <3>1. SameConn(d)
      BY <2>2 DEF Dropped, SameConn
    <3>2. QED
      BY <1>1, <3>1, Untouched
  <2>3. QED
    BY <2>1, <2>2
<1>3. QED
  BY <1>1, <1>2, NothingOffered DEF SpliceInv

LEMMA SubscribeKeeps ==
  ASSUME IInv, TypeOK', NEW c \in Conn, BeginReplay(c)
  PROVE  IInv'
<1> USE DEF IInv
<1>1. PICK lastSeen \in LastSeen :
        /\ asked' = [asked EXCEPT ![c] = Append(@, [from |-> lastSeen])]
        /\ mark' = [mark EXCEPT ![c] = lastSeen]
  BY DEF BeginReplay, ResumeAt
<1> DEFINE n == Len(asked[c])
           sub == [from |-> lastSeen]
<1>2. /\ n \in Nat /\ Len(asked'[c]) = n + 1 /\ asked'[c][n + 1] = sub
      /\ \A k \in 1 .. n : asked'[c][k] = asked[c][k]
      /\ asked'[c] # << >>
      /\ \A d \in Conn \ {c} : asked'[d] = asked[d]
  <2>1. asked[c] \in Seq([from : Nat]) /\ sub \in [from : Nat]
    BY GatewayAssumption DEF TypeOK, GatewayAssumption
  <2>2. asked'[c] = Append(asked[c], sub)
    BY <1>1 DEF TypeOK
  <2>3. QED
    <3>1. n \in Nat
      BY <2>1, LenProperties
    <3>2. /\ Append(asked[c], sub) # << >>
          /\ Len(Append(asked[c], sub)) = n + 1
          /\ \A k \in 1 .. n : Append(asked[c], sub)[k] = asked[c][k]
          /\ Append(asked[c], sub)[n + 1] = sub
      <4> HIDE DEF sub
      <4>1. QED
        BY <2>1, AppendProperties
    <3>3. \A d \in Conn \ {c} : asked'[d] = asked[d]
      BY <1>1 DEF TypeOK
    <3>4. QED
      BY <2>2, <3>1, <3>2, <3>3
<1>3. head \in Nat /\ head' = head /\ out' = out /\ chosen' = chosen
  BY DEF BeginReplay, TypeOK
<1>4. \A d \in Conn \ {c} : SameConn(d)
  BY <1>1, <1>2 DEF BeginReplay, SameConn, TypeOK
<1>5. InFlight'
  <2>1. \A d \in Conn : buffer'[d] \subseteq 1 .. head
    BY DEF BeginReplay, TypeOK, InFlight, SpliceInv
  <2>2. QED
    BY <2>1, InFlightKept DEF BeginReplay, writerVars
<1>6. \A i \in 1 .. Len(out[c]) : out[c][i].sub \in 1 .. n
  BY DEF OnlyAskedFor
<1>7. Splice(c)'
  <2>1. reading'[c] = "earliest" /\ phase'[c] = "replaying" /\ mark'[c] = lastSeen
    BY <1>1 DEF BeginReplay, TypeOK
  <2>2. pending'[c] = {}
    BY DEF BeginReplay, SpliceInv, Splice
  <2>3. QED
    BY <1>2, <1>3, <1>6, <2>1, <2>2 DEF Splice, Subscription
<1>8. Decision(c)'
  <2> SUFFICES ASSUME chosen[c] # NoFrame
               PROVE  Decision(c)'
    BY <1>3 DEF Decision
  <2>1. chosen[c].sub \in 1 .. n
    BY DEF SpliceInv, Decision
  <2>2. chosen[c].sub # Len(asked'[c]) /\ chosen[c].sub \in 1 .. Len(asked'[c])
        /\ asked'[c][chosen[c].sub] = asked[c][chosen[c].sub]
    BY <1>2, <2>1
  <2>3. /\ asked[c][chosen[c].sub].from < chosen[c].seq /\ chosen[c].seq <= head
        /\ \A i \in 1 .. Len(out[c]) :
             out[c][i].sub = chosen[c].sub => out[c][i].seq < chosen[c].seq
    BY DEF SpliceInv, Decision
  <2>4. QED
    BY <1>3, <2>2, <2>3 DEF Decision, Subscription
<1>9. OrderedOnce'
  BY <1>3 DEF OrderedOnce
<1>10. OnlyAskedFor'
  <2> SUFFICES ASSUME NEW d \in Conn, NEW i \in 1 .. Len(out[d])
               PROVE  /\ out[d][i].sub \in 1 .. Len(asked'[d])
                      /\ out[d][i].seq > 0 =>
                           /\ out[d][i].seq > asked'[d][out[d][i].sub].from
                           /\ out[d][i].seq <= head
    BY <1>3 DEF OnlyAskedFor
  <2>1. CASE d # c
    BY <1>2, <2>1 DEF OnlyAskedFor
  <2>2. CASE d = c
    <3>1. out[c][i].sub \in 1 .. n
      BY <1>6, <2>2
    <3>2. asked'[c][out[c][i].sub] = asked[c][out[c][i].sub]
      BY <1>2, <3>1
    <3>3. out[c][i].sub \in 1 .. Len(asked'[c])
      BY <1>2, <3>1
    <3>4. out[c][i].seq > 0 => out[c][i].seq > asked[c][out[c][i].sub].from /\ out[c][i].seq <= head
      BY <2>2 DEF OnlyAskedFor
    <3>5. QED
      BY <2>2, <3>2, <3>3, <3>4
  <2>3. QED
    BY <2>1, <2>2
<1>11. QED
  BY <1>3, <1>4, <1>5, <1>7, <1>8, <1>9, <1>10, Untouched DEF SpliceInv

(* The receive fiber offers frames of the running subscription only, and   *)
(* while it replays the live fiber holds none of those.                    *)
LEMMA ReplayOffered ==
  ASSUME IInv, NEW c \in Conn, NEW f \in Frame,
         out' = [out EXCEPT ![c] = Append(@, f)],
         f.sub = Subscription(c), phase[c] = "replaying",
         asked' = asked, chosen' = chosen, head' = head,
         NEW bound \in Nat, f.seq <= bound,
         \A i \in 1 .. Len(out[c]) : out[c][i].sub = f.sub => out[c][i].seq <= bound
  PROVE  UpTo(c, Subscription(c), bound)' /\ Decision(c)'
<1> USE DEF IInv
<1> DEFINE m == Len(out[c])
<1>1. /\ m \in Nat /\ Len(out'[c]) = m + 1 /\ out'[c][m + 1] = f
      /\ \A i \in 1 .. m : out'[c][i] = out[c][i]
  BY Appended
<1>2. \A i \in 1 .. Len(out'[c]) : i \in 1 .. m \/ i = m + 1
  BY <1>1
<1>3. UpTo(c, Subscription(c), bound)'
  BY <1>1, <1>2 DEF UpTo, Subscription
<1>4. Decision(c)'
  <2> SUFFICES ASSUME chosen[c] # NoFrame
               PROVE  Decision(c)'
    BY DEF Decision
  <2>1. Decision(c)
    BY DEF SpliceInv
  <2>2. chosen[c].sub # Subscription(c)
    BY <2>1 DEF Decision
  <2>3. \A i \in 1 .. Len(out'[c]) :
          out'[c][i].sub = chosen[c].sub => out'[c][i].seq < chosen[c].seq
    BY <1>1, <1>2, <2>1, <2>2 DEF Decision
  <2>4. QED
    BY <2>1, <2>2, <2>3 DEF Decision, Subscription
<1>5. QED
  BY <1>3, <1>4

LEMMA ReceiveKeeps ==
  ASSUME IInv, TypeOK', NEW c \in Conn, ReceiveStep(c)
  PROVE  IInv'
<1> USE DEF IInv
<1> DEFINE n == Subscription(c)
           from == asked[c][n].from
<1>1. /\ head \in Nat /\ head' = head /\ asked' = asked /\ chosen' = chosen
      /\ inbox' = inbox /\ job' = job /\ event' = event
  BY DEF ReceiveStep, EarliestSeq, Since, Emit, Flush, writerVars, TypeOK
<1>2. InFlight'
  <2>1. \A d \in Conn : buffer'[d] = buffer[d] \/ buffer'[d] = {}
    <3>1. CASE buffer' = buffer
      BY <3>1
    <3>2. CASE buffer' = [buffer EXCEPT ![c] = {}]
      BY <3>2 DEF TypeOK
    <3>3. QED
      BY <3>1, <3>2 DEF ReceiveStep, EarliestSeq, Since, Emit, Flush
  <2>2. \A d \in Conn : buffer'[d] \subseteq 1 .. head
    BY <2>1 DEF InFlight, SpliceInv
  <2>3. QED
    BY <1>1, <2>2, InFlightKept
<1>3. \A d \in Conn \ {c} : SameConn(d)
  <2>1. CASE EarliestSeq(c)
    BY <2>1 DEF EarliestSeq, TypeOK, SameConn
  <2>2. CASE Since(c)
    BY <2>2 DEF Since, TypeOK, SameConn
  <2>3. CASE Emit(c)
    BY <2>3 DEF Emit, TypeOK, SameConn
  <2>4. CASE Flush(c)
    BY <2>4 DEF Flush, TypeOK, SameConn
  <2>5. QED
    BY <2>1, <2>2, <2>3, <2>4 DEF ReceiveStep
<1>4. reading[c] # "idle" /\ phase[c] = "replaying" /\ Splice(c) /\ Decision(c)
  BY DEF ReceiveStep, EarliestSeq, Since, Emit, Flush, SpliceInv, Splice
<1>5. n \in 1 .. Len(asked[c]) /\ from \in Nat
  <2>1. asked[c] # << >> /\ asked[c] \in Seq([from : Nat])
    BY <1>4 DEF Splice, TypeOK
  <2>2. Len(asked[c]) \in Nat \ {0}
    BY <2>1, EmptySeq
  <2>3. n \in 1 .. Len(asked[c])
    BY <2>2 DEF Subscription
  <2>4. asked[c][n] \in [from : Nat]
    BY <2>1, <2>3, ElementOfSeq
  <2>5. QED
    BY <2>3, <2>4
<1>6. mark[c] \in Nat /\ pending[c] \in SUBSET Nat
  BY DEF TypeOK
<1>7. CASE EarliestSeq(c) /\ Unrecoverable(mark[c])
  <2> DEFINE f == [sub |-> n, seq |-> 0]
  <2>1. f \in Frame /\ f.sub = n /\ f.seq = 0
    BY <1>5 DEF Frame
  <2>2. out' = [out EXCEPT ![c] = Append(@, f)]
    BY <1>7 DEF EarliestSeq
  <2>3. \A i \in 1 .. Len(out[c]) : out[c][i].sub # n
    BY <1>4, <1>7 DEF EarliestSeq, Splice
  <2>4. OrderedOnce' /\ OnlyAskedFor'
    <3>1. /\ f.seq > 0 => f.seq > asked[c][f.sub].from /\ f.seq <= head
          /\ f.sub \in 1 .. Len(asked[c])
          /\ \A i \in 1 .. Len(out[c]) : out[c][i].sub = f.sub => out[c][i].seq < f.seq
      BY <1>5, <2>1, <2>3
    <3> HIDE DEF f
    <3>2. QED
      BY <1>1, <2>1, <2>2, <3>1, Offered
  <2>5. PICK m \in Nat : m = mark[c]
    BY <1>6
  <2>6. UpTo(c, Subscription(c), m)' /\ Decision(c)'
    <3>1. \A i \in 1 .. Len(out[c]) : out[c][i].sub = n => out[c][i].seq <= m
      BY <2>3
    <3>2. f.seq <= m
      BY <2>1, <2>5
    <3> HIDE DEF f
    <3>3. QED
      BY <1>1, <1>4, <2>1, <2>2, <3>1, <3>2, ReplayOffered
  <2>7. Splice(c)'
    <3>1. /\ reading[c] = "earliest" /\ reading'[c] = "emit" /\ mark'[c] = m
          /\ phase' = phase /\ pending' = pending
      BY <1>7, <2>5 DEF EarliestSeq, TypeOK
    <3>2. mark[c] = from
      BY <1>4, <3>1 DEF Splice
    <3>3. QED
      BY <1>1, <1>4, <1>6, <2>5, <2>6, <3>1, <3>2 DEF Splice, Subscription, UpTo
  <2>8. QED
    BY <1>1, <1>2, <1>3, <2>4, <2>6, <2>7, Untouched DEF SpliceInv
<1>8. CASE EarliestSeq(c) /\ ~Unrecoverable(mark[c])
  <2>1. out' = out /\ pending' = pending /\ mark' = mark /\ phase' = phase /\ hwm' = hwm
    BY <1>8 DEF EarliestSeq
  <2>2. reading[c] = "earliest" /\ reading'[c] = "since"
    BY <1>8 DEF EarliestSeq, TypeOK
  <2>3. Splice(c)' /\ Decision(c)'
    BY <1>1, <1>4, <2>1, <2>2 DEF Splice, Decision, Subscription
  <2>4. QED
    BY <1>1, <1>2, <1>3, <2>1, <2>3, Untouched, NothingOffered DEF SpliceInv
<1>9. CASE Since(c)
  <2>1. out' = out /\ mark' = mark /\ phase' = phase /\ hwm' = hwm
    BY <1>9 DEF Since
  <2>2. /\ reading[c] = "since" /\ reading'[c] = "emit"
        /\ pending'[c] = {s \in Retained : s > mark[c]}
    BY <1>9 DEF Since, TypeOK
  <2>3. \A s \in pending'[c] : mark[c] < s /\ s <= head
    BY <1>1, <1>6, <2>2 DEF Retained, TypeOK
  <2>4. \A i \in 1 .. Len(out[c]) : out[c][i].sub # n
    BY <1>4, <2>2 DEF Splice
  <2>5. mark[c] = from
    BY <1>4, <2>2 DEF Splice
  <2>6. Splice(c)'
    BY <1>1, <1>4, <1>5, <2>1, <2>2, <2>3, <2>4, <2>5 DEF Splice, Subscription, UpTo
  <2>7. Decision(c)'
    BY <1>1, <1>4, <2>1 DEF Decision, Subscription
  <2>8. QED
    BY <1>1, <1>2, <1>3, <2>1, <2>6, <2>7, Untouched, NothingOffered DEF SpliceInv
<1>10. CASE Emit(c)
  <2>1. PICK s \in pending[c] :
          /\ \A t \in pending[c] : s <= t
          /\ out' = [out EXCEPT ![c] = Append(@, [sub |-> n, seq |-> s])]
          /\ pending' = [pending EXCEPT ![c] = @ \ {s}]
          /\ mark' = [mark EXCEPT ![c] = s]
    BY <1>10 DEF Emit
  <2> DEFINE f == [sub |-> n, seq |-> s]
  <2>2. f \in Frame /\ f.sub = n /\ f.seq = s /\ s \in Nat
    BY <1>5, <1>6 DEF Frame
  <2>3. /\ from <= mark[c] /\ mark[c] < s /\ s <= head
        /\ \A i \in 1 .. Len(out[c]) : out[c][i].sub = n => out[c][i].seq <= mark[c]
        /\ \A t \in pending[c] : mark[c] < t /\ t <= head
    BY <1>4, <1>10, <2>1 DEF Emit, Splice, UpTo
  <2>4. \A i \in 1 .. Len(out[c]) : out[c][i] \in Frame
    BY <2>1, <2>2, Appended
  <2>5. \A i \in 1 .. Len(out[c]) : out[c][i].sub = n => out[c][i].seq < s
    BY <1>6, <2>2, <2>3, <2>4 DEF Frame
  <2>6. OrderedOnce' /\ OnlyAskedFor'
    <3>1. f.seq > 0 => f.seq > asked[c][f.sub].from /\ f.seq <= head
      BY <1>5, <1>6, <2>2, <2>3
    <3>2. QED
      BY <1>1, <1>5, <2>1, <2>2, <2>5, <3>1, Offered
  <2>7. UpTo(c, Subscription(c), s)' /\ Decision(c)'
    <3>1. \A i \in 1 .. Len(out[c]) : out[c][i].sub = n => out[c][i].seq <= s
      BY <2>2, <2>4, <2>5 DEF Frame
    <3>2. QED
      BY <1>1, <1>4, <2>1, <2>2, <3>1, ReplayOffered
  <2>8. \A t \in pending'[c] : s < t /\ t <= head
    <3>1. pending'[c] = pending[c] \ {s}
      BY <2>1 DEF TypeOK
    <3>2. QED
      BY <1>6, <2>1, <2>2, <2>3, <3>1
  <2>9. Splice(c)'
    <3>1. reading' = reading /\ phase' = phase /\ reading[c] = "emit" /\ mark'[c] = s
      BY <1>10, <2>1 DEF Emit, TypeOK
    <3>2. from <= s
      BY <1>5, <1>6, <2>2, <2>3
    <3>3. QED
      BY <1>1, <1>4, <2>7, <2>8, <3>1, <3>2 DEF Splice, Subscription, UpTo
  <2>10. QED
    BY <1>1, <1>2, <1>3, <2>6, <2>7, <2>9, Untouched DEF SpliceInv
<1>11. CASE Flush(c)
  <2> DEFINE fresh == Fresh(c)
  <2>1. /\ out' = out /\ mark' = mark /\ reading[c] = "emit" /\ pending[c] = {}
        /\ \/ /\ phase'[c] = "live" /\ hwm'[c] = mark[c] /\ reading'[c] = "idle"
              /\ pending' = pending
           \/ /\ pending'[c] = fresh
              /\ phase' = phase /\ hwm' = hwm /\ reading' = reading
    BY <1>11 DEF Flush, TypeOK
  <2>2. /\ from <= mark[c]
        /\ \A i \in 1 .. Len(out[c]) : out[c][i].sub = n => out[c][i].seq <= mark[c]
    BY <1>4, <2>1 DEF Splice, UpTo
  <2>3. \A s \in fresh : mark[c] < s /\ s <= head
    BY <1>1, <1>6 DEF InFlight, SpliceInv, Fresh
  <2> HIDE DEF fresh
  <2>4. Splice(c)'
    BY <1>1, <1>4, <2>1, <2>2, <2>3 DEF Splice, Subscription, UpTo
  <2>5. Decision(c)'
    <3>1. chosen[c] # NoFrame => chosen[c].sub # n
      BY <1>4 DEF Decision
    <3>2. QED
      BY <1>1, <1>4, <2>1, <3>1 DEF Decision, Subscription
  <2>6. QED
    BY <1>1, <1>2, <1>3, <2>1, <2>4, <2>5, Untouched, NothingOffered DEF SpliceInv
<1>12. QED
  BY <1>7, <1>8, <1>9, <1>10, <1>11 DEF ReceiveStep

LEMMA LiveKeeps ==
  ASSUME IInv, TypeOK', NEW c \in Conn, LiveStep(c)
  PROVE  IInv'
<1> USE DEF IInv
<1>1. /\ head \in Nat /\ head' = head /\ asked' = asked
      /\ job' = job /\ event' = event
      /\ reading' = reading /\ phase' = phase /\ pending' = pending /\ mark' = mark
  BY DEF LiveStep, Attach, OnLive, LiveEmit, writerVars, TypeOK
<1>2. Splice(c) /\ Decision(c)
  BY DEF SpliceInv
<1>3. CASE Attach(c)
  <2>1. /\ \A d \in Conn : SameConn(d)
        /\ inbox' = inbox /\ buffer' = buffer /\ out' = out
    BY <1>3 DEF Attach, SameConn
  <2>2. InFlight'
    BY <1>1, <2>1, InFlightKept DEF InFlight, SpliceInv
  <2>3. QED
    BY <1>1, <2>1, <2>2, Untouched, NothingOffered DEF SpliceInv
<1>4. CASE OnLive(c)
  <2> DEFINE s == Head(inbox[c])
             f == [sub |-> Subscription(c), seq |-> s]
  <2>1. s \in 1 .. head
    <3>1. inbox[c] \in Seq(Nat) /\ inbox[c] # << >>
      BY <1>4 DEF OnLive, TypeOK
    <3>2. 1 \in 1 .. Len(inbox[c]) /\ s = inbox[c][1]
      BY <3>1, EmptySeq
    <3>3. QED
      BY <3>2 DEF InFlight, SpliceInv
  <2>2. /\ out' = out /\ chosen[c] = NoFrame
        /\ inbox' = [inbox EXCEPT ![c] = Tail(@)] /\ inbox[c] # << >>
        /\ \/ buffer' = [buffer EXCEPT ![c] = @ \cup {s}] /\ hwm' = hwm /\ chosen' = chosen
           \/ /\ phase[c] = "live" /\ s > hwm[c]
              /\ hwm' = [hwm EXCEPT ![c] = s]
              /\ chosen' = [chosen EXCEPT ![c] = f]
              /\ buffer' = buffer
           \/ buffer' = buffer /\ hwm' = hwm /\ chosen' = chosen
    BY <1>4, Zenon DEF OnLive, NewToLive
  <2>3. /\ f.sub = Subscription(c) /\ f.seq = s /\ f # NoFrame
    BY <2>1 DEF NoFrame
  <2> HIDE DEF s, f
  <2>4. InFlight'
    <3>1. ASSUME NEW d \in Conn
          PROVE  buffer'[d] \subseteq 1 .. head
      <4>1. buffer[d] \subseteq 1 .. head
        BY DEF InFlight, SpliceInv
      <4>2. CASE buffer' = buffer
        BY <4>1, <4>2
      <4>3. CASE buffer' = [buffer EXCEPT ![c] = @ \cup {s}]
        <5>1. buffer'[d] = buffer[d] \/ buffer'[d] = buffer[d] \cup {s}
          BY <4>3 DEF TypeOK
        <5>2. QED
          BY <2>1, <4>1, <5>1
      <4>4. QED
        BY <2>2, <4>2, <4>3
    <3>2. \A d \in Conn : inbox'[d] = inbox[d] \/ (inbox[d] # << >> /\ inbox'[d] = Tail(inbox[d]))
      BY <2>2 DEF TypeOK
    <3>3. QED
      BY <1>1, <3>1, <3>2, InFlightKept
  <2>5. \A d \in Conn \ {c} : SameConn(d)
    BY <1>1, <2>2 DEF SameConn, TypeOK
  <2>6. CASE hwm' = hwm /\ chosen' = chosen
    <3>1. SameConn(c)
      BY <1>1, <2>2, <2>6 DEF SameConn
    <3>2. QED
      BY <1>1, <2>2, <2>4, <2>5, <3>1, Untouched, NothingOffered DEF SpliceInv
  <2>7. CASE /\ phase[c] = "live" /\ s > hwm[c]
             /\ hwm' = [hwm EXCEPT ![c] = s] /\ chosen' = [chosen EXCEPT ![c] = f]
    <3>1. hwm'[c] = s /\ chosen'[c] = f /\ hwm[c] \in Nat /\ reading[c] = "idle"
      BY <1>2, <2>7 DEF TypeOK, Splice
    <3>2. /\ asked[c] # << >> /\ asked[c][Subscription(c)].from <= hwm[c]
          /\ \A i \in 1 .. Len(out[c]) : out[c][i].sub = Subscription(c) => out[c][i].seq <= hwm[c]
      BY <1>2, <2>7 DEF Splice, UpTo
    <3>3. /\ Subscription(c) \in 1 .. Len(asked[c])
          /\ asked[c][Subscription(c)].from \in Nat
      <4>1. asked[c] \in Seq([from : Nat])
        BY DEF TypeOK
      <4>2. Subscription(c) \in 1 .. Len(asked[c])
        BY <3>2, <4>1, EmptySeq DEF Subscription
      <4>3. asked[c][Subscription(c)] \in [from : Nat]
        BY <4>1, <4>2, ElementOfSeq
      <4>4. QED
        BY <4>2, <4>3
    <3>4. \A i \in 1 .. Len(out[c]) : out[c][i].seq \in Nat
      <4>1. out[c] \in Seq(Frame)
        BY DEF TypeOK
      <4>2. \A i \in 1 .. Len(out[c]) : out[c][i] \in Frame
        BY <4>1, ElementOfSeq
      <4>3. QED
        BY <4>2 DEF Frame
    <3>5. \A i \in 1 .. Len(out[c]) : out[c][i].sub = Subscription(c) => out[c][i].seq < s
      BY <2>1, <2>7, <3>1, <3>2, <3>4
    <3>6. asked[c][Subscription(c)].from < s
      BY <2>1, <2>7, <3>1, <3>2, <3>3
    <3>7. Splice(c)'
      BY <1>1, <1>2, <2>1, <2>2, <2>7, <3>1, <3>2, <3>3, <3>4, <3>5, <3>6
      DEF Splice, UpTo, Subscription
    <3>8. Decision(c)'
      BY <1>1, <2>1, <2>2, <2>3, <2>7, <3>1, <3>3, <3>5, <3>6 DEF Decision, Subscription
    <3>9. QED
      BY <1>1, <2>2, <2>4, <2>5, <3>7, <3>8, Untouched, NothingOffered DEF SpliceInv
  <2>8. QED
    BY <2>2, <2>6, <2>7
<1>5. CASE LiveEmit(c)
  <2>1. /\ out' = [out EXCEPT ![c] = Append(@, chosen[c])]
        /\ chosen' = [chosen EXCEPT ![c] = NoFrame]
        /\ chosen[c] # NoFrame
        /\ inbox' = inbox /\ buffer' = buffer /\ hwm' = hwm
    BY <1>5 DEF LiveEmit
  <2>2. PICK f \in Frame : f = chosen[c]
    BY DEF TypeOK
  <2>3. InFlight'
    BY <1>1, <2>1, InFlightKept DEF InFlight, SpliceInv
  <2>4. \A d \in Conn \ {c} : SameConn(d)
    BY <1>1, <2>1 DEF SameConn, TypeOK
  <2>5. /\ f.sub \in 1 .. Len(asked[c]) /\ asked[c][f.sub].from < f.seq /\ f.seq <= head
        /\ \A i \in 1 .. Len(out[c]) : out[c][i].sub = f.sub => out[c][i].seq < f.seq
        /\ f.sub = Subscription(c) => phase[c] = "live" /\ f.seq <= hwm[c]
    BY <1>2, <2>1, <2>2 DEF Decision
  <2>6. OrderedOnce' /\ OnlyAskedFor'
    BY <1>1, <2>1, <2>2, <2>5, Offered
  <2>7. /\ Len(out[c]) \in Nat /\ Len(out'[c]) = Len(out[c]) + 1
        /\ out'[c][Len(out[c]) + 1] = f
        /\ \A i \in 1 .. Len(out[c]) : out'[c][i] = out[c][i]
    BY <2>1, <2>2, Appended
  <2>8. \A i \in 1 .. Len(out'[c]) : i \in 1 .. Len(out[c]) \/ i = Len(out[c]) + 1
    BY <2>7
  <2>9. Splice(c)'
    <3>1. phase[c] = "live" => UpTo(c, Subscription(c), hwm[c])'
      BY <1>1, <1>2, <2>1, <2>5, <2>7, <2>8 DEF Splice, UpTo, Subscription
    <3>2. reading[c] = "emit" => UpTo(c, Subscription(c), mark[c])'
      BY <1>1, <1>2, <2>5, <2>7, <2>8 DEF Splice, UpTo, Subscription
    <3>3. reading[c] \in {"earliest", "since"} =>
            \A i \in 1 .. Len(out'[c]) : out'[c][i].sub # Subscription(c)
      BY <1>2, <2>5, <2>7, <2>8 DEF Splice
    <3>4. QED
      BY <1>1, <1>2, <2>1, <3>1, <3>2, <3>3 DEF Splice, Subscription, UpTo
  <2>10. Decision(c)'
    BY <2>1 DEF Decision, TypeOK
  <2>11. QED
    BY <1>1, <2>3, <2>4, <2>6, <2>9, <2>10, Untouched DEF SpliceInv
<1>6. QED
  BY <1>3, <1>4, <1>5 DEF LiveStep

LEMMA Inductive == Spec => []IInv
<1>1. Init => SpliceInv /\ OrderedOnce /\ OnlyAskedFor
  BY DEF Init, SpliceInv, InFlight, Splice, Decision, OrderedOnce, OnlyAskedFor
<1>2. IInv /\ TypeOK' /\ [Next]_vars => IInv'
  <2> SUFFICES ASSUME IInv, TypeOK', [Next]_vars
               PROVE  IInv'
    OBVIOUS
  <2>1. ASSUME NEW w \in Writer, WriterStep(w)
        PROVE  IInv'
    BY <2>1, WriterKeeps
  <2>2. ASSUME NEW c \in Conn, BeginReplay(c)
        PROVE  IInv'
    BY <2>2, SubscribeKeeps
  <2>3. ASSUME NEW c \in Conn, ReceiveStep(c)
        PROVE  IInv'
    BY <2>3, ReceiveKeeps
  <2>4. ASSUME NEW c \in Conn, LiveStep(c)
        PROVE  IInv'
    BY <2>4, LiveKeeps
  <2>5. ASSUME NEW S \in SUBSET Conn, Dropped(S), head' = head,
               \/ job' = job /\ event' = event
               \/ \A w \in Writer : job'[w] = "idle"
        PROVE  IInv'
    <3>1. \A d \in Conn : /\ inbox'[d] = inbox[d] \/ inbox'[d] = << >>
                          /\ buffer'[d] \subseteq 1 .. head
      BY <2>5 DEF Dropped, IInv, SpliceInv, InFlight
    <3>2. CASE job' = job /\ event' = event
      <4>1. InFlight'
        BY <2>5, <3>1, <3>2, InFlightKept
      <4>2. QED
        BY <2>5, <4>1, DropKeeps
    <3>3. CASE \A w \in Writer : job'[w] = "idle"
      <4>1. \A d \in Conn : \A i \in 1 .. Len(inbox'[d]) : inbox'[d][i] \in 1 .. head
        BY <3>1 DEF IInv, SpliceInv, InFlight
      <4>2. InFlight'
        BY <2>5, <3>1, <3>3, <4>1 DEF InFlight
      <4>3. QED
        BY <2>5, <4>2, DropKeeps
    <3>4. QED
      BY <2>5, <3>2, <3>3
  <2>6. ASSUME NEW c \in Conn, Close(c)
        PROVE  IInv'
    BY <2>5, <2>6 DEF Close, writerVars
  <2>7. CASE Restart
    <3>1. \A w \in Writer : job'[w] = "idle"
      BY <2>7 DEF Restart
    <3>2. {c \in Conn : open[c] = "open"} \in SUBSET Conn
      OBVIOUS
    <3>3. QED
      BY <2>5, <2>7, <3>1, <3>2 DEF Restart
  <2>8. CASE \/ \E c \in Conn : Accept(c)
             \/ Prune
             \/ UNCHANGED vars
    <3>1. /\ head' = head /\ head \in Nat /\ job' = job /\ event' = event
          /\ inbox' = inbox /\ buffer' = buffer /\ out' = out /\ asked' = asked
          /\ \A d \in Conn : SameConn(d)
      BY <2>8 DEF Accept, Prune, vars, connVars, writerVars, SameConn, IInv, TypeOK
    <3>2. InFlight'
      BY <3>1, InFlightKept DEF IInv, SpliceInv, InFlight
    <3>3. QED
      BY <3>1, <3>2, Untouched, NothingOffered DEF IInv, SpliceInv
  <2>9. QED
    BY <2>1, <2>2, <2>3, <2>4, <2>6, <2>7, <2>8 DEF Next
<1>3. QED
  BY <1>1, <1>2, TypeCorrect, PTL DEF Spec, IInv

(* The splice stays exact in every reachable state: the phase, the replay  *)
(* position and the frames in hand agree between any two steps.            *)
THEOREM SpliceExact == Spec => []SpliceInv
<1>1. IInv => SpliceInv
  BY DEF IInv
<1>2. QED
  BY <1>1, Inductive, PTL

(* Nothing the handlers, the replay and the live fiber do to each other    *)
(* makes a subscription repeat an event or deliver it out of seq order.    *)
THEOREM DeliveredInOrder == Spec => []OrderedOnce
<1>1. IInv => OrderedOnce
  BY DEF IInv
<1>2. QED
  BY <1>1, Inductive, PTL

(* Nor does it let through an event the client already has, or one that    *)
(* was never committed.                                                    *)
THEOREM DeliveredAsAsked == Spec => []OnlyAskedFor
<1>1. IInv => OnlyAskedFor
  BY DEF IInv
<1>2. QED
  BY <1>1, Inductive, PTL

-----------------------------------------------------------------------------
(* Nothing is lost.  While the handlers publish in turn the events reach a *)
(* connection's live fiber in seq order and without a hole: what they      *)
(* still owe it are the newest events of the log, Sent is the last one     *)
(* that has been queued for c, Low the last one its live fiber has taken.  *)
Unpublished == {event[w] : w \in {v \in Writer : job[v] = "committed"}}

Owed(c) ==
  {event[w] : w \in {v \in Writer :
     job[v] = "committed" \/ (job[v] = "publishing" /\ c \in todo[v])}}

(* S is the top of 1 .. h, and the seq below it.                           *)
IsTop(S, h) == \E n \in 0 .. h : S = (n + 1) .. h
Below(S, h) == IF IsTop(S, h) THEN CHOOSE n \in 0 .. h : S = (n + 1) .. h ELSE 0

Sent(c) == Below(Owed(c), head)
Low(c) == Sent(c) - Len(inbox[c])

From(c, n) == asked[c][n].from
Now(c) == Delivered(c, Subscription(c))

(* s may be the next event to follow seqs.                                 *)
Follows(s, seqs, from) ==
  \/ s - 1 \in seqs \cup {from}
  \/ seqs = {0}
  \/ from = 0 /\ seqs = {} /\ s <= floor + 1

Handlers ==
  /\ floor \in Nat /\ (floor = 0 \/ floor < head)
  /\ \A w \in Writer : job[w] # "idle" => event[w] \in 1 .. head
  /\ \A v, w \in Writer :
       job[v] # "idle" /\ job[w] # "idle" /\ event[v] = event[w] => v = w
  /\ \A v, w \in Writer :
       job[v] = "publishing" /\ job[w] = "committed" => event[v] < event[w]
  /\ IsTop(Unpublished, head)

(* No handler means to send c anything.                                    *)
Spared(c) == \A w \in Writer : c \notin todo[w]

Feeding(c) ==
  /\ attached[c] =>
       /\ open[c] = "open" /\ IsTop(Owed(c), head)
       /\ \A i \in 1 .. Len(inbox[c]) : inbox[c][i] = Low(c) + i
       /\ \A b \in buffer[c] : b <= Low(c) /\ \A s \in b .. Low(c) : s \in buffer[c]
  /\ ~attached[c] =>
       /\ inbox[c] = << >> /\ phase[c] = "none"
       /\ open[c] # "closed" => Spared(c)
  /\ phase[c] # "replaying" => buffer[c] = {}
  /\ phase[c] = "none" /\ open[c] # "closed" => asked[c] = << >>

GapFree(c, n) ==
  \A s \in Delivered(c, n) \ {0} :
    \/ s - 1 \in Delivered(c, n) \cup {From(c, n)}
    \/ 0 \in Delivered(c, n) /\ \A t \in Delivered(c, n) : t = 0 \/ s <= t
    \/ From(c, n) = 0 /\ s <= floor + 1

(* What the live fiber has decided on goes on from what it follows.        *)
InHand(c) ==
  chosen[c] # NoFrame =>
    Follows(chosen[c].seq, Delivered(c, chosen[c].sub), From(c, chosen[c].sub))

(* The client has been told to resync and nothing has followed: the stream *)
(* may pick up anywhere.                                                   *)
Loose(c) == Now(c) = {0} /\ pending[c] = {}

(* While it replays, what is pending goes on from mark, and whatever the   *)
(* live fiber has taken beyond is in the buffer.                           *)
Replayed(c) ==
  /\ reading[c] = "since" => From(c, Subscription(c)) = 0 \/ floor <= mark[c]
  /\ reading[c] = "emit" =>
       /\ mark[c] \in Now(c) \cup {From(c, Subscription(c))}
       /\ \A s \in pending[c] :
            \/ s - 1 \in pending[c] \cup {mark[c]}
            \/ /\ \A t \in pending[c] : s <= t
               /\ Follows(s, Now(c), From(c, Subscription(c)))
       /\ \/ Loose(c)
          \/ \A s \in 1 .. Low(c) :
               s > mark[c] /\ (\A t \in pending[c] : t < s) => s \in buffer[c]

(* Once it is live, the live fiber has let through all it has taken.       *)
Followed(c) ==
  phase[c] = "live" =>
    /\ \/ hwm[c] \in Now(c) \cup {From(c, Subscription(c))}
       \/ chosen[c].sub = Subscription(c) /\ chosen[c].seq = hwm[c]
    /\ \/ Low(c) <= hwm[c]
       \/ Loose(c) /\ chosen[c].sub # Subscription(c)

Whole(c) ==
  /\ Feeding(c) /\ InHand(c) /\ Replayed(c) /\ Followed(c)
  /\ \A n \in 1 .. Len(asked[c]) : GapFree(c, n)

GapInv == Handlers /\ \A c \in Conn : Whole(c)

-----------------------------------------------------------------------------
(* The delivered seqs of a subscription.                                   *)
LEMMA DeliveredIs ==
  ASSUME NEW c, NEW n, NEW s
  PROVE  s \in Delivered(c, n) <=>
           \E i \in 1 .. Len(out[c]) : out[c][i].sub = n /\ out[c][i].seq = s
BY DEF Delivered

LEMMA DeliveredSame ==
  ASSUME NEW c, out'[c] = out[c]
  PROVE  \A n : Delivered(c, n)' = Delivered(c, n)
<1>1. ASSUME NEW n, NEW s
      PROVE  s \in Delivered(c, n)' <=> s \in Delivered(c, n)
  BY DEF Delivered
<1>. QED
  <2>1. ASSUME NEW n PROVE Delivered(c, n)' = Delivered(c, n)
    BY <1>1
  <2>. QED BY <2>1

LEMMA DeliveredMore ==
  ASSUME TypeOK, NEW c \in Conn, NEW f \in Frame,
         out' = [out EXCEPT ![c] = Append(@, f)]
  PROVE  /\ Delivered(c, f.sub)' = Delivered(c, f.sub) \cup {f.seq}
         /\ \A n \in Nat : n # f.sub => Delivered(c, n)' = Delivered(c, n)
         /\ \A d \in Conn \ {c}, n \in Nat : Delivered(d, n)' = Delivered(d, n)
<1> DEFINE m == Len(out[c])
<1>1. /\ m \in Nat /\ Len(out'[c]) = m + 1 /\ out'[c][m + 1] = f
      /\ \A i \in 1 .. m : out'[c][i] = out[c][i]
      /\ \A d \in Conn \ {c} : out'[d] = out[d]
  BY Appended
<1>2. ASSUME NEW n, NEW s
      PROVE  s \in Delivered(c, n)' <=> s \in Delivered(c, n) \/ (f.sub = n /\ f.seq = s)
  <2>1. s \in Delivered(c, n)' <=> \E i \in 1 .. m + 1 : out'[c][i].sub = n /\ out'[c][i].seq = s
    BY <1>1 DEF Delivered
  <2>2. s \in Delivered(c, n) <=> \E i \in 1 .. m : out[c][i].sub = n /\ out[c][i].seq = s
    BY DeliveredIs
  <2>3. \A i \in 1 .. m + 1 : i \in 1 .. m \/ i = m + 1
    BY <1>1
  <2>4. 1 .. m \subseteq 1 .. m + 1 /\ m + 1 \in 1 .. m + 1
    BY <1>1
  <2> HIDE DEF m
  <2>. QED
    BY <1>1, <2>1, <2>2, <2>3, <2>4
<1>3. Delivered(c, f.sub)' = Delivered(c, f.sub) \cup {f.seq}
  BY <1>2
<1>4. ASSUME NEW n \in Nat, n # f.sub PROVE Delivered(c, n)' = Delivered(c, n)
  <2>1. ASSUME NEW s PROVE s \in Delivered(c, n)' <=> s \in Delivered(c, n)
    BY <1>2, <1>4
  <2>. QED
    BY <2>1
<1>5. ASSUME NEW d \in Conn \ {c}, NEW n \in Nat PROVE Delivered(d, n)' = Delivered(d, n)
  <2>1. out'[d] = out[d]
    BY <1>1
  <2>. QED
    BY <2>1, DeliveredSame
<1>. QED
  BY <1>3, <1>4, <1>5

(* The top of the log grows by a commit, and loses its least element.      *)
LEMMA BelowIs ==
  ASSUME NEW h \in Nat, NEW n \in 0 .. h
  PROVE  IsTop((n + 1) .. h, h) /\ Below((n + 1) .. h, h) = n
<1> DEFINE S == (n + 1) .. h
<1>1. IsTop(S, h)
  BY DEF IsTop
<1>2. ASSUME NEW m \in 0 .. h, S = (m + 1) .. h PROVE m = n
  <2>1. CASE m < n
    <3>1. m + 1 \in (m + 1) .. h /\ m + 1 \notin S
      BY <2>1
    <3>. QED BY <1>2, <3>1
  <2>2. CASE n < m
    <3>1. n + 1 \in S /\ n + 1 \notin (m + 1) .. h
      BY <2>2
    <3>. QED BY <1>2, <3>1
  <2>. QED BY <2>1, <2>2
<1> HIDE DEF S
<1>3. S = (n + 1) .. h
  BY DEF S
<1>4. (CHOOSE m \in 0 .. h : S = (m + 1) .. h) = n
  BY <1>2, <1>3
<1>5. Below(S, h) = n
  BY <1>1, <1>4 DEF Below
<1>. QED
  BY <1>1, <1>5 DEF S

LEMMA TopOf ==
  ASSUME NEW h \in Nat, NEW S, IsTop(S, h)
  PROVE  Below(S, h) \in 0 .. h /\ S = (Below(S, h) + 1) .. h
<1>1. PICK n \in 0 .. h : S = (n + 1) .. h
  BY DEF IsTop
<1>. QED
  BY <1>1, BelowIs

LEMMA BelowType ==
  ASSUME NEW h \in Nat, NEW S
  PROVE  Below(S, h) \in Nat /\ Below(S, h) <= h
<1>1. CASE IsTop(S, h)
  BY <1>1, TopOf
<1>2. CASE ~IsTop(S, h)
  BY <1>2 DEF Below
<1>. QED
  BY <1>1, <1>2

LEMMA TopGrows ==
  ASSUME NEW h \in Nat, NEW S, IsTop(S, h)
  PROVE  /\ IsTop(S \cup {h + 1}, h + 1)
         /\ Below(S \cup {h + 1}, h + 1) = Below(S, h)
<1>1. PICK n \in 0 .. h : n = Below(S, h) /\ S = (n + 1) .. h
  BY TopOf
<1>2. S \cup {h + 1} = (n + 1) .. (h + 1)
  <2>1. ASSUME NEW s PROVE s \in (n + 1) .. h \cup {h + 1} <=> s \in (n + 1) .. (h + 1)
    OBVIOUS
  <2>. QED
    BY <1>1, <2>1
<1>3. h + 1 \in Nat /\ n \in 0 .. (h + 1)
  OBVIOUS
<1>4. IsTop((n + 1) .. (h + 1), h + 1) /\ Below((n + 1) .. (h + 1), h + 1) = n
  BY <1>3, BelowIs
<1>. QED
  BY <1>1, <1>2, <1>4, Zenon

LEMMA TopShrinks ==
  ASSUME NEW h \in Nat, NEW S, IsTop(S, h), NEW e \in S, \A s \in S : e <= s
  PROVE  /\ e = Below(S, h) + 1
         /\ IsTop(S \ {e}, h) /\ Below(S \ {e}, h) = e
<1>1. PICK n \in 0 .. h : n = Below(S, h) /\ S = (n + 1) .. h
  BY TopOf
<1>2. e = n + 1 /\ e \in 0 .. h
  <2>1. e \in (n + 1) .. h
    BY <1>1
  <2>2. n + 1 \in (n + 1) .. h
    BY <2>1
  <2>3. e <= n + 1
    BY <1>1, <2>2
  <2>. QED
    BY <2>1, <2>3
<1>3. S \ {e} = (e + 1) .. h
  BY <1>1, <1>2
<1>. QED
  BY <1>1, <1>2, <1>3, BelowIs

(* The types a connection's invariant is about.                            *)
LEMMA ConnTypes ==
  ASSUME IInv, Handlers, NEW c \in Conn
  PROVE  /\ head \in Nat /\ floor \in Nat
         /\ inbox[c] \in Seq(Nat) /\ Len(inbox[c]) \in Nat
         /\ Sent(c) \in Nat /\ Sent(c) <= head /\ Low(c) \in Int /\ Low(c) <= head
         /\ buffer[c] \subseteq Nat /\ pending[c] \subseteq Nat
         /\ hwm[c] \in Nat /\ mark[c] \in Nat
         /\ chosen[c] \in Frame /\ chosen[c].sub \in Nat /\ chosen[c].seq \in Nat
         /\ Subscription(c) \in Nat /\ Len(asked[c]) = Subscription(c)
         /\ \A n : Delivered(c, n) \subseteq Nat
         /\ \A n \in 1 .. Len(asked[c]) : From(c, n) \in Nat
         /\ phase[c] # "none" => Subscription(c) \in 1 .. Len(asked[c])
<1>1. TypeOK /\ Splice(c)
  BY DEF IInv, SpliceInv
<1>2. /\ head \in Nat /\ floor \in Nat
      /\ inbox[c] \in Seq(Nat)
      /\ buffer[c] \subseteq Nat /\ pending[c] \subseteq Nat
      /\ hwm[c] \in Nat /\ mark[c] \in Nat
      /\ chosen[c] \in Frame /\ asked[c] \in Seq([from : Nat]) /\ out[c] \in Seq(Frame)
      /\ job \in [Writer -> {"idle", "committed", "publishing"}]
  BY <1>1 DEF TypeOK
<1>3. Len(inbox[c]) \in Nat /\ Len(asked[c]) \in Nat
  BY <1>2, LenProperties
<1>4. Sent(c) \in Nat /\ Sent(c) <= head
  BY <1>2, BelowType DEF Sent
<1>5. chosen[c].sub \in Nat /\ chosen[c].seq \in Nat
  BY <1>2 DEF Frame
<1>6. \A n : Delivered(c, n) \subseteq Nat
  <2>1. \A i \in 1 .. Len(out[c]) : out[c][i] \in Frame
    BY <1>2, ElementOfSeq
  <2>2. \A i \in 1 .. Len(out[c]) : out[c][i].seq \in Nat
    BY <2>1 DEF Frame
  <2>. QED
    BY <2>2 DEF Delivered
<1>7. ASSUME NEW n \in 1 .. Len(asked[c])
      PROVE  From(c, n) \in Nat
  <2>1. asked[c][n] \in [from : Nat]
    BY <1>2, ElementOfSeq
  <2>. QED
    BY <2>1 DEF From
<1>8. phase[c] # "none" => Subscription(c) \in 1 .. Len(asked[c])
  BY <1>1, <1>2, <1>3, EmptySeq DEF Splice, Subscription
<1>. QED
  BY <1>2, <1>3, <1>4, <1>5, <1>6, <1>7, <1>8 DEF Low, Subscription

(* A connection whose own state does not move stays whole, as long as the  *)
(* live fiber has taken as much as before.                                 *)
LEMMA WholeKept ==
  ASSUME IInv, Handlers, floor' \in Nat, NEW c \in Conn, Whole(c), SameConn(c), Feeding(c)',
         buffer'[c] = buffer[c],
         phase[c] # "none" => Low(c)' = Low(c),
         floor <= floor', reading[c] = "since" => floor' = floor
  PROVE  Whole(c)'
<1>1. /\ out'[c] = out[c] /\ asked'[c] = asked[c] /\ chosen'[c] = chosen[c]
      /\ phase'[c] = phase[c] /\ hwm'[c] = hwm[c]
      /\ reading'[c] = reading[c] /\ pending'[c] = pending[c] /\ mark'[c] = mark[c]
  BY DEF SameConn
<1>2. \A n : Delivered(c, n)' = Delivered(c, n)
  BY <1>1, DeliveredSame
<1>3. /\ floor \in Nat /\ pending[c] \subseteq Nat /\ mark[c] \in Nat
      /\ chosen[c].sub \in Nat /\ chosen[c].seq \in Nat
      /\ \A n : Delivered(c, n) \subseteq Nat
  BY ConnTypes
<1>4. Subscription(c)' = Subscription(c) /\ \A n : From(c, n)' = From(c, n)
  BY <1>1 DEF Subscription, From
<1>5. Now(c)' = Now(c)
  BY <1>2, <1>4 DEF Now
<1>6. \A s \in Nat : \A seqs, from : Follows(s, seqs, from) => Follows(s, seqs, from)'
  BY <1>3 DEF Follows
<1>7. InHand(c)'
  <2>1. PICK n, s : n = chosen[c].sub /\ s = chosen[c].seq
    OBVIOUS
  <2>2. chosen[c] # NoFrame => Follows(s, Delivered(c, n), From(c, n))
    BY <2>1 DEF InHand, Whole
  <2>3. chosen[c] # NoFrame => Follows(s, Delivered(c, n), From(c, n))'
    BY <1>2, <1>3, <1>4, <1>6, <2>1, <2>2 DEF Follows
  <2>. QED
    BY <1>1, <2>1, <2>3 DEF InHand
<1>8. reading[c] = "emit" => Low(c)' = Low(c)
  BY DEF IInv, SpliceInv, Splice
<1>9. Loose(c) <=> Loose(c)'
  BY <1>1, <1>5 DEF Loose
<1>10. Replayed(c)'
  BY <1>1, <1>3, <1>4, <1>5, <1>6, <1>8, <1>9 DEF Replayed, Whole, Follows
<1>11. Followed(c)'
  BY <1>1, <1>4, <1>5, <1>9 DEF Followed, Whole
<1>12. ASSUME NEW n \in 1 .. Len(asked[c])
       PROVE  GapFree(c, n)'
  BY <1>1, <1>2, <1>3, <1>4 DEF GapFree, Whole
<1>. QED
  BY <1>1, <1>7, <1>10, <1>11, <1>12 DEF Whole

LEMMA FeedingKept ==
  ASSUME NEW c \in Conn, Feeding(c), SameConn(c),
         open'[c] = open[c], attached'[c] = attached[c], inbox'[c] = inbox[c],
         buffer'[c] = buffer[c],
         attached[c] => Low(c)' = Low(c) /\ IsTop(Owed(c), head)',
         Spared(c) => Spared(c)'
  PROVE  Feeding(c)'
<1>1. PICK l : l = Low(c)
  OBVIOUS
<1>2. attached[c] => Low(c)' = l
  BY <1>1
<1>3. Feeding(c)!1 => (Feeding(c)!1)'
  BY <1>1, <1>2 DEF SameConn
<1>. QED
  BY <1>3 DEF Feeding, SameConn

(* Nothing is owed otherwise while the handlers stand still.               *)
LEMMA StillOwed ==
  ASSUME NEW c, UNCHANGED <<head, writerVars>>
  PROVE  /\ Sent(c)' = Sent(c) /\ (inbox'[c] = inbox[c] => Low(c)' = Low(c))
         /\ IsTop(Owed(c), head) <=> IsTop(Owed(c), head)'
         /\ Spared(c) <=> Spared(c)'
<1>1. head' = head /\ job' = job /\ event' = event /\ todo' = todo
  BY DEF writerVars
<1>2. Owed(c)' = Owed(c)
  BY <1>1 DEF Owed
<1>3. Sent(c)' = Sent(c)
  BY <1>1, <1>2 DEF Sent
<1>4. inbox'[c] = inbox[c] => Low(c)' = Low(c)
  BY <1>3 DEF Low
<1>5. IsTop(Owed(c), head) <=> IsTop(Owed(c), head)'
  BY <1>1, <1>2
<1>6. Spared(c) <=> Spared(c)'
  BY <1>1 DEF Spared
<1>. QED
  BY <1>3, <1>4, <1>5, <1>6

LEMMA HandlersStill ==
  ASSUME Handlers, UNCHANGED <<head, floor, writerVars>>
  PROVE  Handlers'
<1>1. Unpublished' = Unpublished
  BY DEF Unpublished, writerVars
<1>. QED
  BY <1>1 DEF Handlers, writerVars

(* A handler goes on only with the least event it may: the one after Sent. *)
LEMMA LeastOwed ==
  ASSUME TypeOK, Handlers, InTurn, NEW w \in Writer, NEW c \in Conn, SendTo(w, c), attached[c],
         IsTop(Owed(c), head)
  PROVE  /\ event[w] = Sent(c) + 1 /\ Sent(c)' = event[w]
         /\ IsTop(Owed(c), head)'
<1>1. /\ head \in Nat /\ event \in [Writer -> Nat] /\ todo \in [Writer -> SUBSET Conn]
      /\ job \in [Writer -> {"idle", "committed", "publishing"}]
      /\ inbox \in [Conn -> Seq(Nat)]
  BY DEF TypeOK
<1>2. /\ head' = head /\ job' = job /\ event' = event /\ job[w] = "publishing"
      /\ todo' = [todo EXCEPT ![w] = @ \ {c}] /\ c \in todo[w]
      /\ inbox' = [inbox EXCEPT ![c] = Append(@, event[w])]
  BY DEF SendTo
<1>3. event[w] \in Owed(c)
  BY <1>2 DEF Owed
<1>4. ASSUME NEW s \in Owed(c) PROVE event[w] <= s
  <2>1. PICK v \in Writer : /\ event[v] = s
                            /\ job[v] = "committed" \/ (job[v] = "publishing" /\ c \in todo[v])
    BY DEF Owed
  <2>2. CASE job[v] = "committed"
    BY <1>1, <1>2, <2>1, <2>2 DEF Handlers
  <2>3. CASE job[v] = "publishing" /\ c \in todo[v]
    <3>1. inbox'[c] = Append(inbox[c], event[w])
      BY <1>1, <1>2
    <3>2. ~(event[v] < event[w])
      BY <2>3, <3>1 DEF InTurn
    <3>. QED
      BY <1>1, <2>1, <3>2
  <2>. QED
    BY <2>1, <2>2, <2>3
<1>5. Owed(c)' = Owed(c) \ {event[w]}
  <2>1. ASSUME NEW v \in Writer
        PROVE  c \in todo'[v] <=> c \in todo[v] /\ v # w
    BY <1>1, <1>2
  <2>2. ASSUME NEW v \in Writer, job[v] # "idle"
        PROVE  event[v] = event[w] <=> v = w
    BY <1>2, <2>2 DEF Handlers
  <2>3. ASSUME NEW s PROVE s \in Owed(c)' <=> s \in Owed(c) /\ s # event[w]
    BY <1>2, <2>1, <2>2 DEF Owed
  <2>. QED
    BY <2>3
<1>6. /\ event[w] = Below(Owed(c), head) + 1
      /\ IsTop(Owed(c) \ {event[w]}, head) /\ Below(Owed(c) \ {event[w]}, head) = event[w]
  BY <1>1, <1>3, <1>4, TopShrinks
<1>. QED
  BY <1>2, <1>5, <1>6 DEF Sent

LEMMA HandlersKept ==
  ASSUME TypeOK, Handlers, InTurn, NEW w \in Writer, WriterStep(w)
  PROVE  Handlers'
<1>1. /\ head \in Nat /\ floor \in Nat /\ event \in [Writer -> Nat]
      /\ job \in [Writer -> {"idle", "committed", "publishing"}]
  BY DEF TypeOK
<1>2. CASE Commit(w)
  <2>1. /\ job[w] = "idle" /\ head' = head + 1 /\ floor' = floor
        /\ job' = [job EXCEPT ![w] = "committed"] /\ event' = [event EXCEPT ![w] = head + 1]
    BY <1>2 DEF Commit
  <2>2. Unpublished' = Unpublished \cup {head + 1}
    <3>1. ASSUME NEW s PROVE s \in Unpublished' <=> s \in Unpublished \/ s = head + 1
      BY <1>1, <2>1 DEF Unpublished
    <3>. QED
      BY <3>1
  <2>3. IsTop(Unpublished, head)'
    BY <1>1, <2>1, <2>2, TopGrows DEF Handlers
  <2>4. ASSUME NEW v \in Writer, job'[v] # "idle"
        PROVE  /\ v # w => job'[v] = job[v] /\ event'[v] = event[v] /\ event[v] \in 1 .. head
               /\ v = w => job'[v] = "committed" /\ event'[v] = head + 1
    BY <1>1, <2>1, <2>4 DEF Handlers
  <2>. QED
    BY <1>1, <2>1, <2>3, <2>4 DEF Handlers
<1>3. CASE Publish(w)
  <2>1. /\ job[w] = "committed" /\ head' = head /\ floor' = floor /\ event' = event
        /\ job' = [job EXCEPT ![w] = "publishing"]
    BY <1>3 DEF Publish
  <2>2. ASSUME NEW v \in Writer, job[v] = "committed", v # w PROVE event[w] < event[v]
    <3>1. ~(event[v] < event[w])
      BY <1>1, <2>1, <2>2 DEF InTurn
    <3>2. event[v] # event[w]
      BY <2>1, <2>2 DEF Handlers
    <3>. QED
      BY <1>1, <3>1, <3>2
  <2>3. event[w] \in Unpublished /\ \A s \in Unpublished : event[w] <= s
    BY <1>1, <2>1, <2>2 DEF Unpublished
  <2>4. Unpublished' = Unpublished \ {event[w]}
    <3>1. ASSUME NEW s PROVE s \in Unpublished' <=> s \in Unpublished /\ s # event[w]
      BY <1>1, <2>1, <2>2 DEF Unpublished
    <3>. QED
      BY <3>1
  <2>5. IsTop(Unpublished, head)'
    BY <1>1, <2>1, <2>3, <2>4, TopShrinks DEF Handlers
  <2>6. ASSUME NEW v \in Writer
        PROVE  /\ job'[v] # "idle" <=> job[v] # "idle"
               /\ job'[v] = "committed" <=> job[v] = "committed" /\ v # w
               /\ job'[v] = "publishing" <=> job[v] = "publishing" \/ v = w
    BY <1>1, <2>1
  <2>. QED
    BY <2>1, <2>2, <2>5, <2>6 DEF Handlers
<1>4. CASE Published(w)
  <2>1. /\ job[w] = "publishing" /\ head' = head /\ floor' = floor
        /\ job' = [job EXCEPT ![w] = "idle"] /\ event' = [event EXCEPT ![w] = 0]
    BY <1>4 DEF Published
  <2>2. ASSUME NEW v \in Writer, job'[v] # "idle"
        PROVE  v # w /\ job'[v] = job[v] /\ event'[v] = event[v]
    BY <1>1, <2>1, <2>2
  <2>3. Unpublished' = Unpublished
    <3>1. ASSUME NEW s PROVE s \in Unpublished' <=> s \in Unpublished
      BY <1>1, <2>1, <2>2 DEF Unpublished
    <3>. QED
      BY <3>1
  <2>. QED
    BY <2>1, <2>2, <2>3 DEF Handlers
<1>5. CASE \E c \in Conn : SendTo(w, c)
  <2>1. head' = head /\ floor' = floor /\ job' = job /\ event' = event
    BY <1>5 DEF SendTo
  <2>2. Unpublished' = Unpublished
    BY <2>1 DEF Unpublished
  <2>. QED
    BY <2>1, <2>2 DEF Handlers
<1>. QED
  BY <1>2, <1>3, <1>4, <1>5 DEF WriterStep

(* What a handler's step leaves owed to an attached connection it does not *)
(* send to.                                                                *)
LEMMA OwedKept ==
  ASSUME TypeOK, Handlers, NEW w \in Writer, WriterStep(w), NEW c \in Conn, ~SendTo(w, c),
         attached[c], IsTop(Owed(c), head)
  PROVE  inbox'[c] = inbox[c] /\ Sent(c)' = Sent(c) /\ IsTop(Owed(c), head)'
<1>1. /\ head \in Nat /\ event \in [Writer -> Nat] /\ todo \in [Writer -> SUBSET Conn]
      /\ job \in [Writer -> {"idle", "committed", "publishing"}]
      /\ inbox \in [Conn -> Seq(Nat)]
  BY DEF TypeOK
<1>2. CASE Commit(w)
  <2>1. /\ job[w] = "idle" /\ head' = head + 1 /\ todo' = todo /\ inbox' = inbox
        /\ job' = [job EXCEPT ![w] = "committed"] /\ event' = [event EXCEPT ![w] = head + 1]
    BY <1>2 DEF Commit, connVars
  <2>2. Owed(c)' = Owed(c) \cup {head + 1}
    <3>1. ASSUME NEW s PROVE s \in Owed(c)' <=> s \in Owed(c) \/ s = head + 1
      BY <1>1, <2>1 DEF Owed
    <3>. QED
      BY <3>1
  <2>. QED
    BY <1>1, <2>1, <2>2, TopGrows DEF Sent
<1>3. CASE Publish(w)
  <2>1. /\ job[w] = "committed" /\ head' = head /\ event' = event /\ inbox' = inbox
        /\ job' = [job EXCEPT ![w] = "publishing"]
        /\ todo' = [todo EXCEPT ![w] = {d \in Conn : attached[d]}]
    BY <1>3 DEF Publish, connVars
  <2>2. c \in todo'[w]
    BY <1>1, <2>1
  <2>3. Owed(c)' = Owed(c)
    <3>1. ASSUME NEW s PROVE s \in Owed(c)' <=> s \in Owed(c)
      BY <1>1, <2>1, <2>2 DEF Owed
    <3>. QED
      BY <3>1
  <2>. QED
    BY <2>1, <2>3 DEF Sent
<1>4. CASE Published(w)
  <2>1. /\ job[w] = "publishing" /\ todo[w] = {} /\ head' = head /\ todo' = todo
        /\ inbox' = inbox
        /\ job' = [job EXCEPT ![w] = "idle"] /\ event' = [event EXCEPT ![w] = 0]
    BY <1>4 DEF Published, connVars
  <2>2. Owed(c)' = Owed(c)
    <3>1. ASSUME NEW s PROVE s \in Owed(c)' <=> s \in Owed(c)
      BY <1>1, <2>1 DEF Owed
    <3>. QED
      BY <3>1
  <2>. QED
    BY <2>1, <2>2 DEF Sent
<1>5. ASSUME NEW d \in Conn, SendTo(w, d)
      PROVE  inbox'[c] = inbox[c] /\ Sent(c)' = Sent(c) /\ IsTop(Owed(c), head)'
  <2>1. /\ c # d /\ head' = head /\ job' = job /\ event' = event
        /\ todo' = [todo EXCEPT ![w] = @ \ {d}]
    BY <1>5 DEF SendTo
  <2>2. inbox'[c] = inbox[c]
    BY <1>1, <1>5, <2>1 DEF SendTo
  <2>3. \A v \in Writer : c \in todo'[v] <=> c \in todo[v]
    BY <1>1, <2>1
  <2>4. Owed(c)' = Owed(c)
    <3>1. ASSUME NEW s PROVE s \in Owed(c)' <=> s \in Owed(c)
      BY <2>1, <2>3 DEF Owed
    <3>. QED
      BY <3>1
  <2>. QED
    BY <2>1, <2>2, <2>4 DEF Sent
<1>. QED
  BY <1>2, <1>3, <1>4, <1>5 DEF WriterStep

(* A step of the handlers: what Low counts goes from the log to the inbox. *)
LEMMA WriterWhole ==
  ASSUME IInv, GapInv, TypeOK', NEW w \in Writer, WriterStep(w), InTurn
  PROVE  GapInv'
<1>1. /\ TypeOK /\ head \in Nat /\ floor \in Nat /\ floor' = floor
      /\ event \in [Writer -> Nat] /\ todo \in [Writer -> SUBSET Conn]
      /\ inbox \in [Conn -> Seq(Nat)]
  BY DEF IInv, TypeOK, WriterStep, Commit, Publish, Published, SendTo
<1>3. \A c \in Conn : /\ SameConn(c) /\ open'[c] = open[c] /\ attached'[c] = attached[c]
                      /\ buffer'[c] = buffer[c]
  BY DEF WriterStep, Commit, Publish, Published, SendTo, connVars, SameConn
<1>4. Handlers /\ \A c \in Conn : Whole(c) /\ Feeding(c)
  BY DEF GapInv, Whole
<1>5. Handlers'
  BY <1>1, <1>4, HandlersKept
<1>7. ASSUME NEW c \in Conn, SendTo(w, c), attached[c]
      PROVE  Feeding(c)' /\ Low(c)' = Low(c)
  <2> DEFINE m == Len(inbox[c])
  <2>1. inbox'[c] = Append(inbox[c], event[w]) /\ event[w] \in Nat
    BY <1>1, <1>7 DEF SendTo
  <2>2. /\ m \in Nat /\ Len(inbox'[c]) = m + 1 /\ inbox'[c][m + 1] = event[w]
        /\ \A i \in 1 .. m : inbox'[c][i] = inbox[c][i]
    <3>1. inbox[c] \in Seq(Nat)
      BY <1>1
    <3>. QED
      BY <2>1, <3>1, LenProperties, AppendProperties
  <2>3. IsTop(Owed(c), head)
    BY <1>4, <1>7 DEF Feeding
  <2>4. event[w] = Sent(c) + 1 /\ Sent(c)' = event[w] /\ IsTop(Owed(c), head)'
    BY <1>1, <1>4, <1>7, <2>3, LeastOwed
  <2>5. Sent(c) \in Nat
    BY <1>1, BelowType DEF Sent
  <2>6. Low(c) = Sent(c) - m /\ Low(c)' = event[w] - (m + 1)
    BY <2>2, <2>4 DEF Low
  <2>7. Low(c)' = Low(c) /\ event[w] = Low(c) + (m + 1) /\ Low(c) \in Int
    BY <2>2, <2>4, <2>5, <2>6
  <2> HIDE DEF m
  <2>8. \A i \in 1 .. m + 1 : i \in 1 .. m \/ i = m + 1
    BY <2>2
  <2>9. \A i \in 1 .. m : inbox[c][i] = Low(c) + i
    BY <1>4, <1>7 DEF Feeding, m
  <2>10. \A i \in 1 .. Len(inbox'[c]) : inbox'[c][i] = Low(c)' + i
    BY <2>2, <2>7, <2>8, <2>9
  <2>. QED
    BY <1>3, <1>4, <1>7, <2>4, <2>7, <2>10 DEF Feeding, SameConn
<1>8. ASSUME NEW c \in Conn
      PROVE  Feeding(c)' /\ (phase[c] # "none" => Low(c)' = Low(c))
  <2>1. phase[c] # "none" => attached[c]
    BY <1>4 DEF Feeding
  <2>2. CASE SendTo(w, c) /\ attached[c]
    BY <1>7, <2>2
  <2>3. CASE ~ attached[c]
    <3>1. inbox'[c] = inbox[c]
      BY <1>1, <2>3 DEF WriterStep, Commit, Publish, Published, SendTo, connVars
    <3>2. Spared(c) => Spared(c)'
      BY <1>1, <2>3 DEF Spared, WriterStep, Commit, Publish, Published, SendTo
    <3>. QED
      BY <1>3, <1>4, <2>1, <2>3, <3>1, <3>2, FeedingKept
  <2>4. CASE attached[c] /\ ~ SendTo(w, c)
    <3>1. inbox'[c] = inbox[c] /\ Sent(c)' = Sent(c) /\ IsTop(Owed(c), head)'
      BY <1>1, <1>4, <2>4, OwedKept DEF Feeding
    <3>2. Low(c)' = Low(c)
      BY <3>1 DEF Low
    <3>3. Feeding(c)'
      BY <1>3, <1>4, <2>4, <3>1, <3>2 DEF Feeding, SameConn
    <3>. QED
      BY <3>2, <3>3
  <2>. QED
    BY <2>2, <2>3, <2>4
<1>9. ASSUME NEW c \in Conn
      PROVE  Whole(c)'
  BY <1>1, <1>3, <1>4, <1>8, WholeKept
<1>. QED
  BY <1>5, <1>9 DEF GapInv

(* A step of one connection leaves the others whole.                       *)
SameFeed(d) ==
  open'[d] = open[d] /\ attached'[d] = attached[d] /\ inbox'[d] = inbox[d]
  /\ buffer'[d] = buffer[d]

LEMMA ElsewhereKept ==
  ASSUME IInv, Handlers, UNCHANGED <<head, floor, writerVars>>,
         NEW d \in Conn, Whole(d), SameConn(d), SameFeed(d)
  PROVE  Whole(d)'
<1>1. /\ Low(d)' = Low(d) /\ (Spared(d) => Spared(d)')
      /\ IsTop(Owed(d), head) => IsTop(Owed(d), head)'
  BY StillOwed DEF SameFeed
<1>2. Feeding(d)'
  <2>1. Feeding(d)
    BY DEF Whole
  <2>2. attached[d] => IsTop(Owed(d), head)'
    BY <1>1, <2>1 DEF Feeding
  <2>. QED
    BY <1>1, <2>1, <2>2, FeedingKept DEF SameFeed
<1>3. floor \in Nat
  BY DEF Handlers
<1>. QED
  BY <1>1, <1>2, <1>3, WholeKept DEF SameFeed

(* So a step of c alone has only c to answer for.                          *)
LEMMA OnlyHere ==
  ASSUME IInv, GapInv, UNCHANGED <<head, floor, writerVars>>, NEW c \in Conn, Whole(c)',
         \A d \in Conn \ {c} : SameConn(d) /\ SameFeed(d)
  PROVE  GapInv'
<1>1. Handlers'
  BY HandlersStill DEF GapInv
<1>2. ASSUME NEW d \in Conn \ {c} PROVE Whole(d)'
  BY <1>2, ElsewhereKept DEF GapInv
<1>. QED
  BY <1>1, <1>2 DEF GapInv

LEMMA AcceptWhole ==
  ASSUME IInv, GapInv, NEW c \in Conn, Accept(c)
  PROVE  GapInv'
<1>1. \A d \in Conn \ {c} : SameConn(d) /\ SameFeed(d)
  BY DEF Accept, SameConn, SameFeed, IInv, TypeOK
<1>2. /\ open[c] = "new" /\ open'[c] = "open" /\ SameConn(c)
      /\ attached'[c] = attached[c] /\ inbox'[c] = inbox[c] /\ buffer'[c] = buffer[c]
  BY DEF Accept, SameConn, IInv, TypeOK
<1>3. Feeding(c) /\ Whole(c) /\ Handlers
  BY DEF GapInv, Whole
<1>4. Feeding(c)' /\ Low(c)' = Low(c)
  BY <1>2, <1>3, StillOwed DEF Feeding, SameConn, Accept
<1>5. Whole(c)'
  BY <1>2, <1>3, <1>4, WholeKept DEF Accept, Handlers
<1>. QED
  BY <1>1, <1>5, OnlyHere DEF Accept

LEMMA AttachWhole ==
  ASSUME IInv, GapInv, NEW c \in Conn, Attach(c)
  PROVE  GapInv'
<1>1. \A d \in Conn \ {c} : SameConn(d) /\ SameFeed(d)
  BY DEF Attach, SameConn, SameFeed, IInv, TypeOK
<1>2. /\ open[c] = "open" /\ open'[c] = "open" /\ SameConn(c)
      /\ ~attached[c] /\ attached'[c] /\ inbox'[c] = inbox[c] /\ buffer'[c] = buffer[c]
  BY DEF Attach, SameConn, IInv, TypeOK
<1>3. Feeding(c) /\ Whole(c) /\ Handlers
  BY DEF GapInv, Whole
<1>4. Low(c)' = Low(c)
  BY <1>2, StillOwed DEF Attach
<1>5. inbox'[c] = << >> /\ buffer'[c] = {} /\ phase'[c] = "none"
  BY <1>2, <1>3 DEF Feeding, SameConn
<1>6. Feeding(c)'
  <2>1. Spared(c)
    BY <1>2, <1>3 DEF Feeding
  <2>2. Owed(c) = Unpublished
    BY <2>1 DEF Spared, Owed, Unpublished
  <2>3. IsTop(Owed(c), head)
    BY <1>3, <2>2 DEF Handlers
  <2>4. IsTop(Owed(c), head)'
    BY <2>3, StillOwed DEF Attach
  <2>. QED
    BY <1>2, <1>3, <1>5, <2>4, EmptySeq DEF Feeding, SameConn
<1>7. Whole(c)'
  BY <1>2, <1>3, <1>4, <1>6, WholeKept DEF Attach, Handlers
<1>. QED
  BY <1>1, <1>7, OnlyHere DEF Attach

(* The socket ends: a connection that went away waits for nothing.         *)
LEMMA GoneWhole ==
  ASSUME IInv, NEW S \in SUBSET Conn, Dropped(S), NEW c \in S, Whole(c), floor' = floor
  PROVE  Whole(c)'
<1>1. /\ open'[c] = "closed" /\ ~attached'[c] /\ inbox'[c] = << >> /\ phase'[c] = "none"
      /\ buffer'[c] = {} /\ reading'[c] = "idle" /\ chosen'[c] = NoFrame
      /\ out'[c] = out[c] /\ asked'[c] = asked[c]
  BY DEF Dropped
<1>2. \A n : Delivered(c, n)' = Delivered(c, n) /\ From(c, n)' = From(c, n)
  BY <1>1, DeliveredSame DEF From
<1>3. ASSUME NEW n \in 1 .. Len(asked[c])
      PROVE  GapFree(c, n)'
  BY <1>2 DEF Whole, GapFree
<1>. QED
  BY <1>1, <1>3 DEF Whole, Feeding, InHand, Replayed, Followed

LEMMA SparedSame ==
  ASSUME TypeOK, NEW S \in SUBSET Conn, Dropped(S), NEW d \in Conn \ S
  PROVE  SameConn(d) /\ SameFeed(d)
BY DEF Dropped, SameConn, SameFeed, TypeOK

LEMMA CloseWhole ==
  ASSUME IInv, GapInv, NEW c \in Conn, Close(c)
  PROVE  GapInv'
<1>1. Dropped({c}) /\ UNCHANGED <<head, floor, writerVars>> /\ TypeOK
  BY DEF Close, IInv
<1>2. Whole(c)'
  BY <1>1, GoneWhole DEF GapInv
<1>3. \A d \in Conn \ {c} : SameConn(d) /\ SameFeed(d)
  BY <1>1, SparedSame
<1>. QED
  BY <1>1, <1>2, <1>3, OnlyHere

LEMMA RestartWhole ==
  ASSUME IInv, GapInv, Restart
  PROVE  GapInv'
<1> DEFINE S == {c \in Conn : open[c] = "open"}
<1>1. Dropped(S) /\ floor' = floor /\ head' = head /\ job' = [w \in Writer |-> "idle"]
      /\ todo' = [w \in Writer |-> {}]
      /\ TypeOK /\ Handlers /\ floor \in Nat /\ head \in Nat
  BY DEF Restart, IInv, GapInv, Handlers, TypeOK
<1>2. Handlers'
  <2>1. Unpublished' = {} /\ (head + 1) .. head = {}
    BY <1>1 DEF Unpublished
  <2>2. IsTop(Unpublished, head)'
    BY <1>1, <2>1 DEF IsTop
  <2>. QED
    BY <1>1, <2>2 DEF Handlers
<1>3. ASSUME NEW d \in Conn, d \notin S PROVE Whole(d)'
  <2>1. SameConn(d) /\ SameFeed(d) /\ Whole(d)
    BY <1>1, <1>3, SparedSame DEF GapInv
  <2>2. ~attached[d] /\ phase[d] = "none"
    BY <1>3, <2>1 DEF Whole, Feeding
  <2>3. Feeding(d)'
    <3>1. Spared(d)'
      BY <1>1 DEF Spared
    <3>. QED
      BY <2>1, <2>2, <3>1, FeedingKept DEF SameFeed, Whole
  <2>. QED
    BY <1>1, <2>1, <2>2, <2>3, WholeKept DEF SameFeed
<1>4. ASSUME NEW d \in S PROVE Whole(d)'
  BY <1>1, <1>4, GoneWhole DEF GapInv
<1>. QED
  BY <1>2, <1>3, <1>4 DEF GapInv

LEMMA PruneWhole ==
  ASSUME IInv, GapInv, Prune, GentlePrune
  PROVE  GapInv'
<1>1. /\ UNCHANGED <<head, writerVars, connVars>> /\ floor' \in Nat /\ floor < floor'
      /\ floor' < head /\ \A c \in Conn : reading[c] # "since"
  <2>1. head \in Nat /\ floor \in Nat
    BY DEF IInv, TypeOK
  <2>2. PICK f \in (floor + 1) .. head : floor' = f
    BY DEF Prune
  <2>. QED
    BY <2>1, <2>2 DEF Prune, GentlePrune
<1>2. Handlers /\ Handlers'
  <2>1. Unpublished' = Unpublished
    BY <1>1 DEF Unpublished, writerVars
  <2>. QED
    BY <1>1, <2>1 DEF GapInv, Handlers, writerVars
<1>3. ASSUME NEW c \in Conn PROVE Whole(c)'
  <2>1. SameConn(c) /\ SameFeed(c) /\ Whole(c)
    BY <1>1 DEF connVars, SameConn, SameFeed, GapInv
  <2>2. Low(c)' = Low(c) /\ (attached[c] => IsTop(Owed(c), head)') /\ (Spared(c) => Spared(c)')
    BY <1>1, <2>1, StillOwed DEF connVars, Whole, Feeding
  <2>3. Feeding(c)'
    BY <2>1, <2>2, FeedingKept DEF Whole, SameFeed
  <2>. QED
    BY <1>1, <1>2, <2>1, <2>2, <2>3, WholeKept DEF SameFeed, Handlers
<1>. QED
  BY <1>2, <1>3 DEF GapInv

(* A subscribe frame starts with nothing delivered.                        *)
LEMMA SubscribeWhole ==
  ASSUME IInv, GapInv, NEW c \in Conn, BeginReplay(c), AttachFirst
  PROVE  GapInv'
<1>1. PICK lastSeen \in LastSeen : asked' = [asked EXCEPT ![c] = Append(@, [from |-> lastSeen])]
  BY DEF BeginReplay, ResumeAt
<1>2. /\ asked[c] \in Seq([from : Nat]) /\ asked \in [Conn -> Seq([from : Nat])]
      /\ [from |-> lastSeen] \in [from : Nat]
  BY GatewayAssumption DEF IInv, TypeOK, GatewayAssumption
<1>3. PICK m \in Nat : m = Len(asked[c])
  BY <1>2, LenProperties
<1>4. /\ m \in Nat /\ Len(asked'[c]) = m + 1
      /\ \A n \in 1 .. m : asked'[c][n] = asked[c][n]
  BY <1>1, <1>2, <1>3, LenProperties, AppendProperties
<1>5. attached[c]
  <2>1. asked'[c] # asked[c]
    BY <1>3, <1>4
  <2>. QED
    BY <2>1 DEF AttachFirst
<1>6. /\ out'[c] = out[c] /\ chosen'[c] = chosen[c] /\ open'[c] = open[c]
      /\ attached'[c] /\ inbox'[c] = inbox[c] /\ buffer'[c] = {}
      /\ phase'[c] = "replaying" /\ reading'[c] = "earliest"
      /\ UNCHANGED <<head, floor, writerVars>>
  BY <1>5 DEF BeginReplay, ResumeAt, IInv, TypeOK
<1>7. \A d \in Conn \ {c} : SameConn(d) /\ SameFeed(d)
  BY DEF BeginReplay, ResumeAt, SameConn, SameFeed, IInv, TypeOK
<1>8. Whole(c) /\ Handlers /\ Decision(c)
  BY DEF GapInv, IInv, SpliceInv
<1>9. \A n : Delivered(c, n)' = Delivered(c, n)
  BY <1>6, DeliveredSame
<1>10. \A n \in 1 .. m : From(c, n)' = From(c, n)
  BY <1>4 DEF From
<1>11. Low(c)' = Low(c) /\ (IsTop(Owed(c), head) => IsTop(Owed(c), head)')
  BY <1>6, StillOwed
<1>12. Feeding(c)'
  BY <1>5, <1>6, <1>8, <1>11 DEF Whole, Feeding
<1>13. InHand(c)'
  <2>1. CASE chosen[c] = NoFrame
    BY <1>6, <2>1 DEF InHand
  <2>2. CASE chosen[c] # NoFrame
    <3>1. PICK n, s : n = chosen[c].sub /\ s = chosen[c].seq
      OBVIOUS
    <3>2. n \in 1 .. m /\ Follows(s, Delivered(c, n), From(c, n))
      BY <1>8, <1>3, <2>2, <3>1 DEF Decision, Whole, InHand
    <3>3. Follows(s, Delivered(c, n), From(c, n))'
      BY <1>6, <1>9, <1>10, <3>2 DEF Follows
    <3>. QED
      BY <1>6, <3>1, <3>3 DEF InHand
  <2>. QED
    BY <2>1, <2>2
<1>14. Replayed(c)' /\ Followed(c)'
  BY <1>6 DEF Replayed, Followed
<1>15. ASSUME NEW n \in 1 .. m PROVE GapFree(c, n)'
  BY <1>6, <1>8, <1>9, <1>10, <1>3 DEF Whole, GapFree
<1>16. GapFree(c, m + 1)'
  <2>1. Delivered(c, m + 1) = {}
    BY <1>4, <1>3 DEF Delivered, IInv, OnlyAskedFor
  <2>. QED
    BY <1>9, <2>1 DEF GapFree
<1>17. Whole(c)'
  <2>1. \A n \in 1 .. m + 1 : n \in 1 .. m \/ n = m + 1
    BY <1>4
  <2>. QED
    BY <1>4, <1>12, <1>13, <1>14, <1>15, <1>16, <2>1 DEF Whole
<1>. QED
  BY <1>6, <1>7, <1>17, OnlyHere

-----------------------------------------------------------------------------
(* A frame that follows what its subscription delivered leaves no gap.     *)
LEMMA GapFreeMore ==
  ASSUME IInv, Handlers, NEW c \in Conn, NEW n, NEW s \in Nat, GapFree(c, n),
         s # 0 => Follows(s, Delivered(c, n), From(c, n)),
         \A t \in Delivered(c, n) : t <= s \/ s = 0,
         Delivered(c, n)' = Delivered(c, n) \cup {s}, From(c, n)' = From(c, n),
         s = 0 => Delivered(c, n) = {},
         floor' = floor
  PROVE  GapFree(c, n)'
<1>1. Delivered(c, n) \subseteq Nat /\ floor \in Nat
  BY ConnTypes
<1> DEFINE D == Delivered(c, n)
           F == From(c, n)
<1> SUFFICES ASSUME NEW t \in D \cup {s}, t # 0
             PROVE  \/ t - 1 \in D \cup {s} \cup {F}
                    \/ 0 \in D \cup {s} /\ \A u \in D \cup {s} : u = 0 \/ t <= u
                    \/ F = 0 /\ t <= floor + 1
  BY DEF GapFree
<1>2. CASE t = s
  BY <1>1, <1>2 DEF Follows
<1>3. CASE t # s
  <2>1. t \in D \ {0}
    BY <1>3
  <2>2. \/ t - 1 \in D \cup {F}
        \/ 0 \in D /\ \A u \in D : u = 0 \/ t <= u
        \/ F = 0 /\ t <= floor + 1
    BY <2>1 DEF GapFree
  <2>. QED
    BY <1>1, <2>1, <2>2
<1>. QED
  BY <1>2, <1>3

(* While a connection replays, its decision is of an earlier subscription. *)
LEMMA DecidedBefore ==
  ASSUME IInv, Handlers, NEW c \in Conn, reading[c] # "idle"
  PROVE  /\ phase[c] = "replaying" /\ Subscription(c) \in 1 .. Len(asked[c])
         /\ chosen[c].sub # Subscription(c)
<1>1. Splice(c) /\ Decision(c)
  BY DEF IInv, SpliceInv
<1>2. phase[c] = "replaying"
  BY <1>1 DEF Splice
<1>3. Subscription(c) \in 1 .. Len(asked[c]) /\ Subscription(c) \in Nat
  BY <1>2, ConnTypes
<1>4. chosen[c].sub # Subscription(c)
  BY <1>1, <1>2, <1>3 DEF Decision, NoFrame
<1>. QED
  BY <1>2, <1>3, <1>4

(* What a step of the receive fiber leaves to be shown for c.              *)
LEMMA ReceiveHere ==
  ASSUME IInv, GapInv, NEW c \in Conn, ReceiveStep(c),
         InHand(c)', Replayed(c)', Followed(c)',
         \A n \in 1 .. Len(asked[c]) : GapFree(c, n)'
  PROVE  GapInv'
<1>1. /\ UNCHANGED <<head, floor, writerVars>> /\ asked' = asked
      /\ open' = open /\ attached' = attached /\ inbox' = inbox
      /\ phase[c] = "replaying"
  BY DEF ReceiveStep, EarliestSeq, Since, Emit, Flush, IInv, SpliceInv, Splice
<1>2. \A d \in Conn \ {c} : SameConn(d) /\ SameFeed(d)
  <2>. SUFFICES ASSUME NEW d \in Conn \ {c} PROVE SameConn(d) /\ SameFeed(d)
    OBVIOUS
  <2>1. CASE EarliestSeq(c)
    BY <2>1 DEF EarliestSeq, SameConn, SameFeed, IInv, TypeOK
  <2>2. CASE Since(c)
    BY <2>2 DEF Since, SameConn, SameFeed, IInv, TypeOK
  <2>3. CASE Emit(c)
    BY <2>3 DEF Emit, SameConn, SameFeed, IInv, TypeOK
  <2>4. CASE Flush(c)
    BY <2>4 DEF Flush, SameConn, SameFeed, IInv, TypeOK
  <2>. QED
    BY <2>1, <2>2, <2>3, <2>4 DEF ReceiveStep
<1>3. /\ Low(c)' = Low(c) /\ (Spared(c) => Spared(c)')
      /\ IsTop(Owed(c), head) => IsTop(Owed(c), head)'
  BY <1>1, StillOwed
<1>4. /\ buffer'[c] = {} \/ (buffer'[c] = buffer[c] /\ phase'[c] = "replaying")
      /\ phase'[c] # "none"
  BY <1>1 DEF ReceiveStep, EarliestSeq, Since, Emit, Flush, IInv, TypeOK
<1>5. Feeding(c) /\ (attached[c] \/ phase[c] = "none")
  BY DEF GapInv, Whole, Feeding
<1>6. Feeding(c)'
  BY <1>1, <1>3, <1>4, <1>5 DEF Feeding
<1>7. Whole(c)'
  BY <1>1, <1>6 DEF Whole
<1>. QED
  BY <1>1, <1>2, <1>7, OnlyHere

(* A step that offers nothing leaves the frames and the decisions.         *)
LEMMA QuietHere ==
  ASSUME IInv, GapInv, NEW c \in Conn, floor' = floor,
         out'[c] = out[c], asked'[c] = asked[c], chosen'[c] = chosen[c]
  PROVE  /\ InHand(c)' /\ Now(c)' = Now(c) /\ Subscription(c)' = Subscription(c)
         /\ \A n : From(c, n)' = From(c, n)
         /\ \A n \in 1 .. Len(asked[c]) : GapFree(c, n)'
<1>1. \A n : Delivered(c, n)' = Delivered(c, n) /\ From(c, n)' = From(c, n)
  BY DeliveredSame DEF From
<1>2. Subscription(c)' = Subscription(c) /\ Now(c)' = Now(c)
  BY <1>1 DEF Subscription, Now
<1>3. ASSUME NEW n \in 1 .. Len(asked[c]) PROVE GapFree(c, n)'
  BY <1>1 DEF GapInv, Whole, GapFree
<1>4. InHand(c)'
  <2>1. PICK n, s : n = chosen[c].sub /\ s = chosen[c].seq
    OBVIOUS
  <2>2. chosen[c] # NoFrame => Follows(s, Delivered(c, n), From(c, n))
    BY <2>1 DEF GapInv, Whole, InHand
  <2>3. chosen[c] # NoFrame => Follows(s, Delivered(c, n), From(c, n))'
    BY <1>1, <2>2 DEF Follows
  <2>. QED
    BY <2>1, <2>3 DEF InHand
<1>. QED
  BY <1>1, <1>2, <1>3, <1>4

(* Offering a frame of subscription n under which nothing is decided: the  *)
(* other subscriptions, and the decision, are as before.                   *)
LEMMA OfferedHere ==
  ASSUME IInv, GapInv, NEW c \in Conn, NEW n \in 1 .. Len(asked[c]), NEW s \in Nat,
         floor' = floor, asked' = asked,
         out' = [out EXCEPT ![c] = Append(@, [sub |-> n, seq |-> s])],
         \/ chosen'[c] = chosen[c] /\ chosen[c].sub # n
         \/ chosen'[c] = NoFrame,
         s # 0 => Follows(s, Delivered(c, n), From(c, n)),
         \A t \in Delivered(c, n) : t <= s \/ s = 0,
         s = 0 => Delivered(c, n) = {}
  PROVE  /\ InHand(c)' /\ Delivered(c, n)' = Delivered(c, n) \cup {s}
         /\ \A k \in Nat \ {n} : Delivered(c, k)' = Delivered(c, k)
         /\ Subscription(c)' = Subscription(c)
         /\ \A k : From(c, k)' = From(c, k)
         /\ \A k \in 1 .. Len(asked[c]) : GapFree(c, k)'
<1>1. Len(asked[c]) \in Nat /\ n \in Nat /\ Handlers /\ TypeOK /\ floor \in Nat
      /\ chosen[c].sub \in Nat
  BY ConnTypes DEF GapInv, IInv
<1>2. PICK f \in Frame : f = [sub |-> n, seq |-> s]
  BY <1>1 DEF Frame
<1>3. /\ Delivered(c, n)' = Delivered(c, n) \cup {s}
      /\ \A k \in Nat \ {n} : Delivered(c, k)' = Delivered(c, k)
  <2>1. out' = [out EXCEPT ![c] = Append(@, f)] /\ f.sub = n /\ f.seq = s
    BY <1>2
  <2>2. /\ Delivered(c, f.sub)' = Delivered(c, f.sub) \cup {f.seq}
        /\ \A k \in Nat : k # f.sub => Delivered(c, k)' = Delivered(c, k)
    BY <1>1, <2>1, DeliveredMore
  <2>. QED
    BY <2>1, <2>2
<1>4. Subscription(c)' = Subscription(c) /\ \A k : From(c, k)' = From(c, k)
  BY DEF Subscription, From
<1>5. ASSUME NEW k \in 1 .. Len(asked[c]) PROVE GapFree(c, k)'
  <2>1. GapFree(c, k)
    BY DEF GapInv, Whole
  <2>2. CASE k = n
    BY <1>1, <1>3, <1>4, <2>1, <2>2, GapFreeMore
  <2>3. CASE k # n
    BY <1>1, <1>3, <1>4, <2>1, <2>3 DEF GapFree
  <2>. QED
    BY <2>2, <2>3
<1>6. InHand(c)'
  <2>1. CASE chosen'[c] = NoFrame
    BY <2>1 DEF InHand
  <2>2. CASE chosen'[c] = chosen[c] /\ chosen[c].sub # n
    <3>1. PICK k, t : k = chosen[c].sub /\ t = chosen[c].seq
      OBVIOUS
    <3>2. chosen[c] # NoFrame => Follows(t, Delivered(c, k), From(c, k))
      BY <3>1 DEF GapInv, Whole, InHand
    <3>3. k \in Nat \ {n}
      BY <1>1, <2>2, <3>1
    <3>4. Delivered(c, k)' = Delivered(c, k) /\ From(c, k)' = From(c, k)
      BY <1>3, <1>4, <3>3
    <3>5. chosen[c] # NoFrame => Follows(t, Delivered(c, k), From(c, k))'
      BY <3>2, <3>4 DEF Follows
    <3>. QED
      BY <2>2, <3>1, <3>5 DEF InHand
  <2>. QED
    BY <2>1, <2>2
<1>. QED
  BY <1>3, <1>4, <1>5, <1>6

LEMMA EarliestWhole ==
  ASSUME IInv, GapInv, NEW c \in Conn, EarliestSeq(c)
  PROVE  GapInv'
<1>1. /\ reading[c] = "earliest" /\ phase' = phase /\ pending' = pending /\ mark' = mark
      /\ hwm' = hwm /\ buffer' = buffer /\ chosen' = chosen /\ asked' = asked
      /\ floor' = floor /\ ReceiveStep(c)
  BY DEF EarliestSeq, ReceiveStep
<1>2. PICK n \in 1 .. Len(asked[c]) : n = Subscription(c)
  BY <1>1, DecidedBefore DEF GapInv
<1>3. phase[c] = "replaying" /\ chosen[c].sub # n
  BY <1>1, <1>2, DecidedBefore DEF GapInv
<1>4. /\ mark[c] = From(c, n) /\ pending[c] = {}
      /\ \A i \in 1 .. Len(out[c]) : out[c][i].sub # n
  BY <1>1, <1>2 DEF IInv, SpliceInv, Splice, From
<1>5. Delivered(c, n) = {}
  BY <1>4 DEF Delivered
<1>6. Followed(c)'
  BY <1>1, <1>3 DEF Followed
<1>7. floor \in Nat /\ head \in Nat /\ mark[c] \in Nat /\ Handlers
      /\ reading \in [Conn -> {"idle", "earliest", "since", "emit"}]
  BY DEF IInv, TypeOK, GapInv
<1>8. CASE /\ out' = [out EXCEPT ![c] = Append(@, [sub |-> Subscription(c), seq |-> 0])]
           /\ reading' = [reading EXCEPT ![c] = "emit"]
  <2>1. PICK z \in Nat : z = 0
    OBVIOUS
  <2>2. /\ out' = [out EXCEPT ![c] = Append(@, [sub |-> n, seq |-> z])]
        /\ z # 0 => Follows(z, Delivered(c, n), From(c, n))
        /\ \A t \in Delivered(c, n) : t <= z \/ z = 0
        /\ chosen'[c] = chosen[c] /\ chosen[c].sub # n
    BY <1>1, <1>2, <1>3, <1>8, <2>1
  <2>3. /\ InHand(c)' /\ Delivered(c, n)' = {0} /\ Subscription(c)' = n
        /\ From(c, n)' = From(c, n)
        /\ \A k \in 1 .. Len(asked[c]) : GapFree(c, k)'
    <3>1. /\ InHand(c)' /\ Delivered(c, n)' = Delivered(c, n) \cup {z}
          /\ Subscription(c)' = Subscription(c) /\ \A k : From(c, k)' = From(c, k)
          /\ \A k \in 1 .. Len(asked[c]) : GapFree(c, k)'
      BY <1>1, <1>5, <2>2, OfferedHere
    <3>. QED
      BY <1>2, <1>5, <2>1, <3>1
  <2>4. Now(c)' = {0}
    BY <2>3 DEF Now
  <2>5. From(c, Subscription(c))' = From(c, n)
    BY <2>3 DEF From
  <2>6. Replayed(c)'
    BY <1>1, <1>4, <1>7, <1>8, <2>4, <2>5 DEF Replayed, Loose
  <2>. QED
    BY <1>1, <1>6, <2>3, <2>6, ReceiveHere
<1>9. CASE ~Unrecoverable(mark[c]) /\ out' = out /\ reading' = [reading EXCEPT ![c] = "since"]
  <2>1. /\ InHand(c)' /\ Subscription(c)' = n /\ From(c, n)' = From(c, n)
        /\ \A k \in 1 .. Len(asked[c]) : GapFree(c, k)'
    BY <1>1, <1>2, <1>9, QuietHere
  <2>2. mark[c] = 0 \/ floor <= mark[c]
    BY <1>7, <1>9 DEF Unrecoverable, Handlers
  <2>3. From(c, Subscription(c))' = mark[c]
    BY <1>4, <2>1 DEF From
  <2>4. Replayed(c)'
    BY <1>1, <1>7, <1>9, <2>2, <2>3 DEF Replayed
  <2>. QED
    BY <1>1, <1>6, <2>1, <2>4, ReceiveHere
<1>. QED
  BY <1>8, <1>9 DEF EarliestSeq

LEMMA SinceWhole ==
  ASSUME IInv, GapInv, NEW c \in Conn, Since(c)
  PROVE  GapInv'
<1>1. /\ reading[c] = "since" /\ reading'[c] = "emit" /\ phase' = phase /\ mark' = mark
      /\ hwm' = hwm /\ buffer' = buffer /\ chosen' = chosen /\ asked' = asked
      /\ floor' = floor /\ head' = head /\ out' = out /\ ReceiveStep(c)
      /\ pending'[c] = {s \in (floor + 1) .. head : s > mark[c]}
  BY DEF Since, ReceiveStep, Retained, IInv, TypeOK
<1>2. PICK n \in 1 .. Len(asked[c]) : n = Subscription(c)
  BY <1>1, DecidedBefore DEF GapInv
<1>3. phase[c] = "replaying"
  BY <1>1, DecidedBefore DEF GapInv
<1>4. /\ mark[c] = From(c, n) /\ From(c, n) = From(c, Subscription(c))
      /\ \A i \in 1 .. Len(out[c]) : out[c][i].sub # n
  BY <1>1, <1>2 DEF IInv, SpliceInv, Splice, From
<1>5. Now(c) = {}
  BY <1>2, <1>4 DEF Delivered, Now
<1>6. floor \in Nat /\ head \in Nat /\ mark[c] \in Nat /\ Handlers /\ Low(c) \in Int
      /\ Low(c) <= head
  BY ConnTypes DEF GapInv
<1>7. /\ InHand(c)' /\ Now(c)' = {} /\ Subscription(c)' = n /\ From(c, n)' = From(c, n)
      /\ \A k \in 1 .. Len(asked[c]) : GapFree(c, k)'
  BY <1>1, <1>2, <1>5, QuietHere
<1>8. From(c, Subscription(c))' = mark[c]
  BY <1>4, <1>7 DEF From
<1>9. mark[c] = 0 \/ floor <= mark[c]
  BY <1>1, <1>2, <1>4 DEF GapInv, Whole, Replayed
<1>10. Followed(c)'
  BY <1>1, <1>3 DEF Followed
<1>11. Low(c)' = Low(c)
  BY StillOwed DEF Since
<1> DEFINE P == {s \in (floor + 1) .. head : s > mark[c]}
<1>12. ASSUME NEW s \in P
       PROVE  \/ s - 1 \in P \cup {mark[c]}
              \/ mark[c] = 0 /\ s = floor + 1 /\ \A t \in P : s <= t
  BY <1>6, <1>9
<1>13. ASSUME NEW s \in 1 .. Low(c), s > mark[c], \A t \in P : t < s
       PROVE  FALSE
  <2>1. s <= head /\ head > 0 /\ floor < head
    BY <1>6, <1>13 DEF Handlers
  <2>2. head \in P
    BY <1>6, <1>13, <2>1
  <2>. QED
    BY <1>6, <1>13, <2>1, <2>2
<1>14. Replayed(c)'
  <2>1. pending'[c] = P /\ P \subseteq Nat
    BY <1>1, <1>6
  <2> HIDE DEF P
  <2>2. \A s \in P : \/ s - 1 \in P \cup {mark[c]}
                     \/ (\A t \in P : s <= t) /\ Follows(s, {}, mark[c])'
    BY <1>1, <1>6, <1>12, <2>1 DEF Follows
  <2>3. \A s \in 1 .. Low(c)' : s > mark[c] /\ (\A t \in P : t < s) => s \in buffer'[c]
    BY <1>11, <1>13
  <2>. QED
    BY <1>1, <1>7, <1>8, <2>1, <2>2, <2>3 DEF Replayed, Follows
<1>. QED
  BY <1>1, <1>7, <1>10, <1>14, ReceiveHere

(* The replay's frames are at most mark.                                   *)
LEMMA ReplayedUpTo ==
  ASSUME IInv, NEW c \in Conn, reading[c] = "emit"
  PROVE  /\ \A t \in Now(c) : t <= mark[c]
         /\ \A s \in pending[c] : mark[c] < s
BY DEF IInv, SpliceInv, Splice, UpTo, Now, Delivered

LEMMA EmitWhole ==
  ASSUME IInv, GapInv, NEW c \in Conn, Emit(c)
  PROVE  GapInv'
<1>1. PICK s \in pending[c] :
        /\ \A t \in pending[c] : s <= t
        /\ out' = [out EXCEPT ![c] = Append(@, [sub |-> Subscription(c), seq |-> s])]
        /\ pending' = [pending EXCEPT ![c] = @ \ {s}]
        /\ mark' = [mark EXCEPT ![c] = s]
  BY DEF Emit
<1>2. /\ reading[c] = "emit" /\ reading' = reading /\ phase' = phase
      /\ hwm' = hwm /\ buffer' = buffer /\ chosen' = chosen /\ asked' = asked
      /\ floor' = floor /\ head' = head /\ ReceiveStep(c)
      /\ pending'[c] = pending[c] \ {s} /\ mark'[c] = s
  BY <1>1 DEF Emit, ReceiveStep, IInv, TypeOK
<1>3. PICK n \in 1 .. Len(asked[c]) : n = Subscription(c)
  BY <1>2, DecidedBefore DEF GapInv
<1>4. phase[c] = "replaying" /\ chosen[c].sub # n
  BY <1>2, <1>3, DecidedBefore DEF GapInv
<1>5. PICK m : m = mark[c]
  OBVIOUS
<1>6. /\ floor \in Nat /\ m \in Nat /\ pending[c] \subseteq Nat /\ s \in Nat
      /\ From(c, n) \in Nat /\ Delivered(c, n) \subseteq Nat /\ Low(c) \in Int
  BY <1>5, ConnTypes DEF GapInv
<1>7. Now(c) = Delivered(c, n) /\ From(c, Subscription(c)) = From(c, n)
  BY <1>3 DEF Now
<1>8. m < s /\ \A t \in Delivered(c, n) : t <= m
  BY <1>2, <1>5, <1>7, ReplayedUpTo
<1>9. /\ m \in Delivered(c, n) \cup {From(c, n)}
      /\ \A t \in pending[c] :
           \/ t - 1 \in pending[c] \cup {m}
           \/ (\A u \in pending[c] : t <= u) /\ Follows(t, Delivered(c, n), From(c, n))
      /\ \A t \in 1 .. Low(c) :
           t > m /\ (\A u \in pending[c] : u < t) => t \in buffer[c]
  <2>1. ~Loose(c)
    BY DEF Loose
  <2>. QED
    BY <1>2, <1>5, <1>7, <2>1 DEF GapInv, Whole, Replayed
<1>10. Follows(s, Delivered(c, n), From(c, n))
  <2>1. s - 1 \notin pending[c]
    BY <1>1, <1>6
  <2>2. s - 1 = m => Follows(s, Delivered(c, n), From(c, n))
    BY <1>9 DEF Follows
  <2>. QED
    BY <1>9, <2>1, <2>2
<1>11. /\ InHand(c)' /\ Delivered(c, n)' = Delivered(c, n) \cup {s}
       /\ Subscription(c)' = Subscription(c) /\ \A k : From(c, k)' = From(c, k)
       /\ \A k \in 1 .. Len(asked[c]) : GapFree(c, k)'
  <2>1. /\ out' = [out EXCEPT ![c] = Append(@, [sub |-> n, seq |-> s])]
        /\ chosen'[c] = chosen[c] /\ s # 0
        /\ \A t \in Delivered(c, n) : t <= s
    BY <1>1, <1>2, <1>3, <1>6, <1>8
  <2>. QED
    BY <1>2, <1>4, <1>6, <1>10, <2>1, OfferedHere
<1>12. Now(c)' = Delivered(c, n) \cup {s}
  BY <1>3, <1>11 DEF Now
<1>13. Low(c)' = Low(c)
  BY StillOwed DEF Emit
<1>14. Followed(c)'
  BY <1>2, <1>4 DEF Followed
<1>15. ASSUME NEW t \in pending[c] \ {s} PROVE t - 1 \in (pending[c] \ {s}) \cup {s}
  <2>1. s < t
    BY <1>1, <1>6
  <2>. QED
    BY <1>6, <1>8, <1>9, <2>1
<1>16. ASSUME NEW t \in 1 .. Low(c), t > s, \A u \in pending[c] \ {s} : u < t
       PROVE  t \in buffer[c]
  BY <1>6, <1>8, <1>9, <1>16
<1>17. Replayed(c)'
  BY <1>2, <1>12, <1>13, <1>15, <1>16 DEF Replayed
<1>. QED
  BY <1>2, <1>11, <1>14, <1>17, ReceiveHere

LEMMA FlushWhole ==
  ASSUME IInv, GapInv, NEW c \in Conn, Flush(c)
  PROVE  GapInv'
<1>1. /\ reading[c] = "emit" /\ pending[c] = {} /\ buffer'[c] = {}
      /\ mark' = mark /\ chosen' = chosen /\ asked' = asked /\ out' = out
      /\ floor' = floor /\ head' = head /\ ReceiveStep(c)
  BY DEF Flush, ReceiveStep, IInv, TypeOK
<1>2. PICK n \in 1 .. Len(asked[c]) : n = Subscription(c)
  BY <1>1, DecidedBefore DEF GapInv
<1>3. phase[c] = "replaying" /\ chosen[c].sub # n /\ NoFrame.sub # n
  BY <1>1, <1>2, DecidedBefore DEF GapInv, NoFrame
<1>4. PICK m : m = mark[c]
  OBVIOUS
<1>5. PICK l : l = Low(c)
  OBVIOUS
<1>6. PICK F : F = From(c, n)
  OBVIOUS
<1>7. floor \in Nat /\ m \in Nat /\ buffer[c] \subseteq Nat /\ l \in Int
  BY <1>4, <1>5, ConnTypes DEF GapInv
<1>8. /\ InHand(c)' /\ Now(c)' = Now(c) /\ Subscription(c)' = n
      /\ \A k : From(c, k)' = From(c, k)
      /\ \A k \in 1 .. Len(asked[c]) : GapFree(c, k)'
  BY <1>1, <1>2, QuietHere
<1>9. From(c, Subscription(c))' = F /\ From(c, Subscription(c)) = F
  BY <1>2, <1>6, <1>8 DEF From
<1>10. Low(c)' = l
  BY <1>5, StillOwed DEF Flush
<1>11. /\ m \in Now(c) \cup {F}
       /\ Loose(c) \/ \A s \in 1 .. l : s > m => s \in buffer[c]
  BY <1>1, <1>4, <1>5, <1>9 DEF GapInv, Whole, Replayed
<1>12. \A b \in buffer[c] : b <= l /\ \A s \in b .. l : s \in buffer[c]
  BY <1>3, <1>5 DEF GapInv, Whole, Feeding
<1> DEFINE fresh == {s \in buffer[c] : s > m}
<1>13. Fresh(c) = fresh
  BY <1>4 DEF Fresh
<1>14. CASE /\ fresh = {} /\ phase' = [phase EXCEPT ![c] = "live"]
            /\ hwm' = [hwm EXCEPT ![c] = mark[c]]
            /\ reading' = [reading EXCEPT ![c] = "idle"] /\ pending' = pending
  <2>1. phase'[c] = "live" /\ hwm'[c] = m /\ reading'[c] = "idle" /\ pending'[c] = pending[c]
    BY <1>4, <1>14 DEF IInv, TypeOK
  <2>2. Loose(c) \/ l <= m
    BY <1>7, <1>11, <1>14
  <2>3. Loose(c) => Loose(c)'
    BY <1>8, <2>1 DEF Loose
  <2>4. Followed(c)'
    BY <1>1, <1>3, <1>8, <1>9, <1>10, <1>11, <2>1, <2>2, <2>3 DEF Followed
  <2>5. Replayed(c)'
    BY <2>1 DEF Replayed
  <2>. QED
    BY <1>1, <1>8, <2>4, <2>5, ReceiveHere
<1>15. CASE /\ fresh # {} /\ pending' = [pending EXCEPT ![c] = fresh]
            /\ phase' = phase /\ hwm' = hwm /\ reading' = reading
  <2>1. pending'[c] = fresh /\ reading'[c] = "emit" /\ mark'[c] = m
    BY <1>1, <1>4, <1>15 DEF IInv, TypeOK
  <2>2. ASSUME NEW s \in fresh
        PROVE  s - 1 \in fresh \cup {m} \/ (Now(c) = {0} /\ \A t \in fresh : s <= t)
    <3>1. s \in Nat /\ s <= l /\ s > m
      BY <1>7, <1>12
    <3>2. CASE Loose(c)
      <4>1. ASSUME NEW t \in fresh, t < s PROVE s - 1 \in fresh
        <5>1. t \in Nat /\ s - 1 \in t .. l /\ s - 1 > m
          BY <1>7, <2>2, <3>1, <4>1
        <5>. QED
          BY <1>12, <5>1
      <4>2. \A t \in fresh : t \in Nat
        BY <1>7
      <4>. QED
        BY <3>1, <3>2, <4>1, <4>2 DEF Loose
    <3>3. CASE \A t \in 1 .. l : t > m => t \in buffer[c]
      BY <1>7, <3>1, <3>3
    <3>. QED
      BY <1>11, <3>2, <3>3
  <2>3. \E t \in fresh : l = t \/ l > t
    BY <1>7, <1>12, <1>15
  <2>4. l \in fresh
    BY <1>7, <1>12, <2>3
  <2>5. \A s \in 1 .. l : ~ \A t \in fresh : t < s
    BY <1>7, <2>4
  <2> HIDE DEF fresh
  <2>6. \A s \in fresh : Now(c) = {0} => Follows(s, Now(c), F)'
    BY <1>8 DEF Follows
  <2>7. Replayed(c)'
    BY <1>8, <1>9, <1>10, <1>11, <2>1, <2>2, <2>5, <2>6 DEF Replayed, Follows
  <2>8. Followed(c)'
    BY <1>3, <1>15 DEF Followed
  <2>. QED
    BY <1>1, <1>8, <2>7, <2>8, ReceiveHere
<1>. QED
  BY <1>13, <1>14, <1>15 DEF Flush

(* The live fiber takes the event after Low.                               *)
LEMMA Taken ==
  ASSUME IInv, GapInv, NEW c \in Conn, OnLive(c)
  PROVE  /\ attached[c] /\ Head(inbox[c]) = Low(c) + 1 /\ Low(c)' = Low(c) + 1
         /\ \A i \in 1 .. Len(inbox'[c]) : inbox'[c][i] = Low(c) + 1 + i
<1>1. inbox[c] # << >> /\ inbox'[c] = Tail(inbox[c]) /\ Handlers /\ Feeding(c)
  BY DEF OnLive, IInv, TypeOK, GapInv, Whole
<1>2. attached[c] /\ inbox[c] \in Seq(Nat) /\ Low(c) \in Int /\ Sent(c) \in Nat
  BY <1>1, ConnTypes DEF Feeding
<1>3. PICK m \in Nat : m = Len(inbox[c])
  BY <1>2, LenProperties
<1>4. /\ m > 0 /\ Head(inbox[c]) = inbox[c][1]
      /\ Len(inbox'[c]) = m - 1 /\ \A i \in 1 .. m - 1 : inbox'[c][i] = inbox[c][i + 1]
  BY <1>1, <1>2, <1>3, HeadTailProperties, EmptySeq
<1>5. \A i \in 1 .. m : inbox[c][i] = Low(c) + i
  BY <1>1, <1>2, <1>3 DEF Feeding
<1>6. Sent(c)' = Sent(c)
  BY StillOwed DEF OnLive
<1>7. Low(c)' = Low(c) + 1
  BY <1>2, <1>3, <1>4, <1>6 DEF Low
<1>8. PICK l \in Int : l = Low(c)
  BY <1>2
<1>9. ASSUME NEW i \in 1 .. m - 1 PROVE inbox'[c][i] = l + 1 + i
  <2>1. i + 1 \in 1 .. m /\ inbox'[c][i] = inbox[c][i + 1]
    BY <1>4
  <2>2. inbox[c][i + 1] = l + (i + 1)
    BY <1>5, <1>8, <2>1
  <2>. QED
    BY <2>1, <2>2
<1>10. Head(inbox[c]) = l + 1
  BY <1>4, <1>5, <1>8
<1>. QED
  BY <1>2, <1>4, <1>7, <1>8, <1>9, <1>10

LEMMA OnLiveWhole ==
  ASSUME IInv, GapInv, NEW c \in Conn, OnLive(c)
  PROVE  GapInv'
<1> DEFINE h == Head(inbox[c])
<1>1. PICK s : s = h
  OBVIOUS
<1>2. PICK l : l = Low(c)
  OBVIOUS
<1>3. PICK n \in Nat : n = Subscription(c)
  BY ConnTypes DEF GapInv
<1>4. /\ l \in Int /\ s = l + 1 /\ attached[c] /\ Low(c)' = s
      /\ \A i \in 1 .. Len(inbox'[c]) : inbox'[c][i] = s + i
      /\ hwm[c] \in Nat /\ buffer[c] \subseteq Nat /\ pending[c] \subseteq Nat
      /\ mark[c] \in Nat /\ floor \in Nat
  BY <1>1, <1>2, Taken, ConnTypes DEF GapInv
<1>5. /\ chosen[c] = NoFrame /\ open'[c] = open[c] /\ attached'[c] = attached[c]
      /\ phase'[c] = phase[c] /\ reading'[c] = reading[c] /\ pending'[c] = pending[c]
      /\ mark'[c] = mark[c] /\ asked'[c] = asked[c] /\ out'[c] = out[c]
      /\ floor' = floor /\ UNCHANGED <<head, floor, writerVars>>
  BY DEF OnLive
<1>6. \/ /\ phase[c] = "replaying" /\ buffer' = [buffer EXCEPT ![c] = @ \cup {s}]
         /\ hwm' = hwm /\ chosen' = chosen
      \/ /\ phase[c] = "live" /\ s > hwm[c] /\ buffer' = buffer
         /\ hwm' = [hwm EXCEPT ![c] = s]
         /\ chosen' = [chosen EXCEPT ![c] = [sub |-> n, seq |-> s]]
      \/ /\ phase[c] = "none" \/ (phase[c] = "live" /\ ~ s > hwm[c])
         /\ buffer' = buffer /\ hwm' = hwm /\ chosen' = chosen
  BY <1>1, <1>3, Zenon DEF OnLive, NewToLive
<1> HIDE DEF h
<1>7. \A d \in Conn \ {c} : SameConn(d) /\ SameFeed(d)
  <2>. SUFFICES ASSUME NEW d \in Conn \ {c} PROVE SameConn(d) /\ SameFeed(d)
    OBVIOUS
  <2>1. buffer'[d] = buffer[d] /\ hwm'[d] = hwm[d] /\ chosen'[d] = chosen[d]
    BY <1>6 DEF IInv, TypeOK
  <2>2. inbox'[d] = inbox[d]
    BY DEF OnLive, IInv, TypeOK
  <2>. QED
    BY <2>1, <2>2 DEF OnLive, SameConn, SameFeed
<1>8. \A k : Delivered(c, k)' = Delivered(c, k) /\ From(c, k)' = From(c, k)
  BY <1>5, DeliveredSame DEF From
<1>9. /\ Subscription(c)' = n /\ Now(c)' = Now(c)
      /\ From(c, Subscription(c))' = From(c, n) /\ From(c, Subscription(c)) = From(c, n)
  BY <1>3, <1>5, <1>8 DEF Subscription, Now, From
<1>10. Loose(c)' <=> Loose(c)
  BY <1>5, <1>9 DEF Loose
<1>11. \A k \in 1 .. Len(asked[c]) : GapFree(c, k)'
  BY <1>5, <1>8 DEF GapInv, Whole, GapFree
<1>12. Whole(c) /\ Feeding(c) /\ Replayed(c) /\ Followed(c) /\ Splice(c)
  BY DEF GapInv, Whole, IInv, SpliceInv
<1>13. IsTop(Owed(c), head)'
  BY <1>4, <1>5, <1>12, StillOwed DEF Feeding
<1>14. CASE /\ phase[c] = "replaying" /\ buffer' = [buffer EXCEPT ![c] = @ \cup {s}]
            /\ hwm' = hwm /\ chosen' = chosen
  <2>1. buffer'[c] = buffer[c] \cup {s}
    BY <1>14 DEF IInv, TypeOK
  <2>2. \A b \in buffer[c] : b <= l /\ \A t \in b .. l : t \in buffer[c]
    BY <1>2, <1>4, <1>12 DEF Feeding
  <2>3. \A b \in buffer'[c] : b <= s /\ \A t \in b .. s : t \in buffer'[c]
    BY <1>4, <2>1, <2>2
  <2>4. Feeding(c)'
    BY <1>4, <1>5, <1>12, <1>14, <1>13, <2>3 DEF Feeding
  <2>5. InHand(c)' /\ Followed(c)'
    BY <1>5, <1>14 DEF InHand, Followed
  <2>6. Replayed(c)'
    <3>1. CASE reading[c] = "emit"
      <4>1. \/ Loose(c)
            \/ \A t \in 1 .. l : t > mark[c] /\ (\A u \in pending[c] : u < t) => t \in buffer[c]
        BY <1>2, <1>12, <3>1 DEF Replayed
      <4>2. \/ Loose(c)
            \/ \A t \in 1 .. s : t > mark[c] /\ (\A u \in pending[c] : u < t) => t \in buffer'[c]
        BY <1>4, <2>1, <4>1
      <4>. QED
        BY <1>4, <1>5, <1>9, <1>10, <1>12, <3>1, <4>2 DEF Replayed, Follows
    <3>2. CASE reading[c] # "emit"
      BY <1>5, <1>9, <1>12, <3>2 DEF Replayed
    <3>. QED
      BY <3>1, <3>2
  <2>. QED
    BY <1>5, <1>7, <1>11, <2>4, <2>5, <2>6, OnlyHere DEF Whole
<1>15. ASSUME phase[c] # "replaying"
       PROVE  /\ buffer[c] = {} /\ reading[c] = "idle"
              /\ buffer'[c] = {} => Feeding(c)' /\ Replayed(c)'
  <2>1. buffer[c] = {} /\ reading[c] = "idle"
    BY <1>12, <1>15 DEF Feeding, Splice
  <2>2. buffer'[c] = {} => Feeding(c)' /\ Replayed(c)'
    BY <1>4, <1>5, <1>12, <1>13, <2>1 DEF Feeding, Replayed
  <2>. QED
    BY <2>1, <2>2
<1>16. CASE /\ phase[c] = "live" /\ s > hwm[c] /\ buffer' = buffer
            /\ hwm' = [hwm EXCEPT ![c] = s]
            /\ chosen' = [chosen EXCEPT ![c] = [sub |-> n, seq |-> s]]
  <2>1. hwm'[c] = s /\ chosen'[c] = [sub |-> n, seq |-> s]
    BY <1>16 DEF IInv, TypeOK
  <2>2. n \in 1 .. Len(asked[c])
    BY <1>3, <1>16, ConnTypes DEF GapInv
  <2>3. hwm[c] \in Now(c) \cup {From(c, n)} /\ (l <= hwm[c] \/ Now(c) = {0})
    <3>1. chosen[c].sub # n
      BY <1>3, <1>5, <2>2 DEF NoFrame
    <3>. QED
      BY <1>2, <1>3, <1>9, <1>12, <1>16, <3>1 DEF Followed, Loose
  <2>4. Follows(s, Now(c), From(c, n))
    BY <1>4, <1>16, <2>3 DEF Follows
  <2>5. InHand(c)'
    <3>1. Now(c) = Delivered(c, n)
      BY <1>3 DEF Now
    <3>2. Follows(s, Delivered(c, n), From(c, n))'
      BY <1>5, <1>8, <2>4, <3>1 DEF Follows
    <3>3. chosen'[c].sub = n /\ chosen'[c].seq = s
      BY <2>1
    <3>. QED
      BY <3>2, <3>3 DEF InHand
  <2>6. Followed(c)'
    BY <1>4, <1>9, <2>1 DEF Followed
  <2>7. Feeding(c)' /\ Replayed(c)'
    BY <1>15, <1>16
  <2>. QED
    BY <1>5, <1>7, <1>11, <2>5, <2>6, <2>7, OnlyHere DEF Whole
<1>17. CASE /\ phase[c] = "none" \/ (phase[c] = "live" /\ ~ s > hwm[c])
            /\ buffer' = buffer /\ hwm' = hwm /\ chosen' = chosen
  <2>1. Feeding(c)' /\ Replayed(c)' /\ InHand(c)'
    BY <1>5, <1>15, <1>17 DEF InHand
  <2>2. Followed(c)'
    BY <1>3, <1>4, <1>5, <1>9, <1>12, <1>17 DEF Followed
  <2>. QED
    BY <1>5, <1>7, <1>11, <2>1, <2>2, OnlyHere DEF Whole
<1>. QED
  BY <1>6, <1>14, <1>16, <1>17

LEMMA LiveEmitWhole ==
  ASSUME IInv, GapInv, NEW c \in Conn, LiveEmit(c)
  PROVE  GapInv'
<1>1. PICK n, s : n = chosen[c].sub /\ s = chosen[c].seq
  OBVIOUS
<1>2. /\ chosen[c] # NoFrame /\ chosen' = [chosen EXCEPT ![c] = NoFrame]
      /\ out' = [out EXCEPT ![c] = Append(@, chosen[c])]
      /\ UNCHANGED <<head, floor, writerVars, open, attached, inbox, phase, buffer,
                     hwm, reading, pending, mark, asked>>
  BY DEF LiveEmit
<1>3. /\ Decision(c) /\ Splice(c) /\ Whole(c) /\ Handlers /\ TypeOK
  BY DEF IInv, SpliceInv, GapInv
<1>4. /\ n \in 1 .. Len(asked[c]) /\ From(c, n) < s
      /\ \A t \in Delivered(c, n) : t < s
      /\ n = Subscription(c) => phase[c] = "live"
  BY <1>1, <1>2, <1>3 DEF Decision, From, Delivered
<1>5. /\ s \in Nat /\ n \in Nat /\ From(c, n) \in Nat /\ chosen[c] \in Frame
      /\ Delivered(c, n) \subseteq Nat /\ Subscription(c) \in Nat
      /\ phase[c] # "none" => Subscription(c) \in 1 .. Len(asked[c])
  BY <1>1, <1>3, <1>4, ConnTypes
<1>6. chosen[c] = [sub |-> n, seq |-> s]
  BY <1>1, <1>5 DEF Frame
<1>7. /\ InHand(c)' /\ Delivered(c, n)' = Delivered(c, n) \cup {s}
      /\ \A k \in Nat \ {n} : Delivered(c, k)' = Delivered(c, k)
      /\ Subscription(c)' = Subscription(c) /\ \A k : From(c, k)' = From(c, k)
      /\ \A k \in 1 .. Len(asked[c]) : GapFree(c, k)'
  <2>1. out' = [out EXCEPT ![c] = Append(@, [sub |-> n, seq |-> s])] /\ chosen'[c] = NoFrame
    BY <1>2, <1>3, <1>6 DEF TypeOK
  <2>2. s # 0 /\ Follows(s, Delivered(c, n), From(c, n)) /\ \A t \in Delivered(c, n) : t <= s
    BY <1>1, <1>2, <1>3, <1>4, <1>5 DEF Whole, InHand
  <2>. QED
    BY <1>2, <1>4, <1>5, <2>1, <2>2, OfferedHere
<1>8. \A d \in Conn \ {c} : SameConn(d) /\ SameFeed(d)
  BY <1>2, <1>3 DEF SameConn, SameFeed, TypeOK
<1>9. /\ Low(c)' = Low(c) /\ (Spared(c) => Spared(c)')
      /\ IsTop(Owed(c), head) => IsTop(Owed(c), head)'
  BY <1>2, StillOwed
<1>10. Feeding(c)'
  BY <1>2, <1>3, <1>9 DEF Whole, Feeding
<1>11. PICK k \in Nat : k = Subscription(c)
  BY <1>5
<1>12. From(c, Subscription(c))' = From(c, k) /\ From(c, Subscription(c)) = From(c, k)
       /\ Subscription(c)' = k /\ Now(c) = Delivered(c, k)
  BY <1>7, <1>11 DEF From, Now
<1>13. Now(c)' = Delivered(c, k)'
  BY <1>7, <1>11 DEF Now
<1>14. CASE n = k
  <2>1. phase[c] = "live" /\ reading[c] = "idle"
    BY <1>3, <1>4, <1>11, <1>14 DEF Splice
  <2>2. Replayed(c)'
    BY <1>2, <2>1 DEF Replayed
  <2>3. Followed(c)'
    BY <1>1, <1>2, <1>3, <1>7, <1>9, <1>11, <1>12, <1>13, <1>14, <2>1 DEF Whole, Followed
  <2>. QED
    BY <1>2, <1>7, <1>8, <1>10, <2>2, <2>3, OnlyHere DEF Whole
<1>15. CASE n # k
  <2>1. Now(c)' = Now(c)
    BY <1>5, <1>7, <1>12, <1>13, <1>15
  <2>2. Loose(c)' <=> Loose(c)
    BY <1>2, <2>1 DEF Loose
  <2>3. Replayed(c)'
    BY <1>2, <1>3, <1>9, <1>12, <2>1, <2>2 DEF Whole, Replayed, Follows
  <2>4. phase[c] = "live" => NoFrame.sub # k
    BY <1>5, <1>11 DEF NoFrame
  <2>5. chosen'[c] = NoFrame
    BY <1>2, <1>3 DEF TypeOK
  <2>6. Followed(c)'
    BY <1>1, <1>2, <1>3, <1>9, <1>11, <1>12, <1>15, <2>1, <2>2, <2>4, <2>5 DEF Whole, Followed
  <2>. QED
    BY <1>2, <1>7, <1>8, <1>10, <2>3, <2>6, OnlyHere DEF Whole
<1>. QED
  BY <1>14, <1>15

LEMMA GapFreeAlways == GentleSpec => [](IInv /\ GapInv)
<1>1. GentleSpec => Spec
  <2>1. [Next /\ AttachFirst /\ GentlePrune /\ InTurn]_vars => [Next]_vars
    OBVIOUS
  <2>. QED
    BY <2>1, PTL DEF GentleSpec, Spec
<1>2. GentleSpec => []IInv
  BY <1>1, Inductive, PTL
<1>3. Init => GapInv
  <2>1. ASSUME Init, NEW c \in Conn PROVE Whole(c)
    BY <2>1, EmptySeq DEF Init, Whole, Feeding, Spared, InHand, Replayed, Followed
  <2>2. ASSUME Init PROVE Handlers
    <3>1. Unpublished = {} /\ (0 + 1) .. 0 = {}
      BY <2>2 DEF Init, Unpublished
    <3>2. IsTop(Unpublished, head)
      BY <2>2, <3>1 DEF Init, IsTop
    <3>. QED
      BY <2>2, <3>2 DEF Init, Handlers
  <2>. QED
    BY <2>1, <2>2 DEF GapInv
<1>4. IInv /\ IInv' /\ GapInv /\ [Next /\ AttachFirst /\ GentlePrune /\ InTurn]_vars => GapInv'
  <2>. SUFFICES ASSUME IInv, IInv', GapInv, [Next /\ AttachFirst /\ GentlePrune /\ InTurn]_vars
                PROVE  GapInv'
    OBVIOUS
  <2>1. TypeOK'
    BY DEF IInv
  <2>2. ASSUME NEW w \in Writer, WriterStep(w), InTurn PROVE GapInv'
    BY <2>1, <2>2, WriterWhole
  <2>3. ASSUME NEW c \in Conn, Accept(c) PROVE GapInv'
    BY <2>3, AcceptWhole
  <2>4. ASSUME NEW c \in Conn, BeginReplay(c), AttachFirst PROVE GapInv'
    BY <2>4, SubscribeWhole
  <2>5. ASSUME NEW c \in Conn, ReceiveStep(c) PROVE GapInv'
    BY <2>5, EarliestWhole, SinceWhole, EmitWhole, FlushWhole DEF ReceiveStep
  <2>6. ASSUME NEW c \in Conn, LiveStep(c) PROVE GapInv'
    BY <2>6, AttachWhole, OnLiveWhole, LiveEmitWhole DEF LiveStep
  <2>7. ASSUME NEW c \in Conn, Close(c) PROVE GapInv'
    BY <2>7, CloseWhole
  <2>8. CASE Restart
    BY <2>8, RestartWhole
  <2>9. CASE Prune /\ GentlePrune
    BY <2>9, PruneWhole
  <2>10. CASE UNCHANGED vars
    <3>1. \A c \in Conn : SameConn(c) /\ SameFeed(c)
      BY <2>10 DEF vars, connVars, SameConn, SameFeed
    <3>2. UNCHANGED <<head, floor, writerVars>>
      BY <2>10 DEF vars
    <3>3. Handlers'
      BY <3>2, HandlersStill DEF GapInv
    <3>4. \A c \in Conn : Whole(c)'
      BY <3>1, <3>2, ElsewhereKept DEF GapInv
    <3>. QED
      BY <3>3, <3>4 DEF GapInv
  <2>11. CASE Next /\ AttachFirst /\ GentlePrune /\ InTurn
    BY <2>2, <2>3, <2>4, <2>5, <2>6, <2>7, <2>8, <2>9, <2>11 DEF Next
  <2>. QED
    BY <2>10, <2>11
<1>. QED
  BY <1>2, <1>3, <1>4, PTL DEF GentleSpec

(* With the live fiber attached before the first frame, handlers that      *)
(* publish in turn, and a retention that keeps the newest row and the rows *)
(* a replay is about to read, no subscription leaves a hole in what it     *)
(* delivers, for any number of handlers, connections, events,              *)
(* resubscriptions, crashes and any queue size.                            *)
THEOREM LosesNothing == GentleSpec => []NoGap
<1>1. GentleSpec => [](IInv /\ GapInv)
  BY GapFreeAlways
<1>2. GapInv => NoGap
  BY DEF GapInv, Whole, GapFree, NoGap, From
<1>. QED
  BY <1>1, <1>2, PTL

-----------------------------------------------------------------------------
(* The gateway implements the feed.  A connection's cursor is the newest   *)
(* event of its subscription: mark while it replays, hwm once it is live   *)
(* and nothing is in hand.                                                 *)
Newest(c, m) ==
  /\ m \in Now(c) \cup {From(c, Subscription(c))}
  /\ \A t \in Now(c) \cup {From(c, Subscription(c))} : t <= m

LEMMA MaxIs ==
  ASSUME NEW R, R \subseteq Nat, NEW m \in R, \A t \in R : t <= m
  PROVE  (CHOOSE s \in R : \A t \in R : t <= s) = m
<1>1. \A s \in R : (\A t \in R : t <= s) => s = m
  OBVIOUS
<1>. QED
  BY <1>1

LEMMA CursorIs ==
  ASSUME IInv, GapInv, NEW c \in Conn, Asking(c), NEW m \in Nat, Newest(c, m)
  PROVE  CursorOf(c) = m
<1>1. PICK R : R = Now(c) \cup {From(c, Subscription(c))}
  OBVIOUS
<1>2. \A n : Delivered(c, n) \subseteq Nat
  BY ConnTypes DEF GapInv
<1>3. m \in R /\ \A t \in R : t <= m
  BY <1>1 DEF Newest
<1>4. From(c, Subscription(c)) \in Nat
  <2>1. asked[c] \in Seq([from : Nat]) /\ asked[c] # << >>
    BY DEF IInv, TypeOK, Asking
  <2>2. Subscription(c) \in 1 .. Len(asked[c])
    BY <2>1, EmptySeq DEF Subscription
  <2>. QED
    BY <2>2, ConnTypes DEF GapInv
<1>5. R \subseteq Nat
  BY <1>1, <1>2, <1>4 DEF Now
<1>6. CursorOf(c) = CHOOSE s \in R : \A t \in R : t <= s
  BY <1>1 DEF CursorOf, Received, Now, From
<1>. QED
  BY <1>3, <1>5, <1>6, MaxIs

LEMMA CursorNext ==
  ASSUME NEW c \in Conn, Asking(c)', NEW R, R \subseteq Nat,
         R = Now(c)' \cup {From(c, Subscription(c))'},
         NEW m \in R, \A t \in R : t <= m
  PROVE  CursorOf(c)' = m
<1>1. CursorOf(c)' = CHOOSE s \in R : \A t \in R : t <= s
  BY DEF CursorOf, Received, Now, From
<1>. QED
  BY <1>1, MaxIs

(* What the feed says of a subscriber hangs on its socket, its frames and  *)
(* its asking.                                                             *)
LEMMA SeesSame ==
  ASSUME NEW c \in Conn, open'[c] = open[c], asked'[c] = asked[c], Now(c)' = Now(c)
  PROVE  StatusOf(c)' = StatusOf(c) /\ CursorOf(c)' = CursorOf(c)
<1>1. Asking(c)' <=> Asking(c)
  BY DEF Asking
<1>2. Received(c)' = Received(c) /\ Subscription(c)' = Subscription(c)
  BY DEF Received, Now, Subscription
<1>. QED
  BY <1>1, <1>2 DEF StatusOf, CursorOf

LEMMA NothingSeen ==
  ASSUME NEW c \in Conn, open'[c] = open[c], asked'[c] = asked[c], out'[c] = out[c]
  PROVE  StatusOf(c)' = StatusOf(c) /\ CursorOf(c)' = CursorOf(c) /\ WireOf(c)' = WireOf(c)
<1>1. \A n : Delivered(c, n)' = Delivered(c, n)
  BY DeliveredSame
<1>2. Subscription(c)' = Subscription(c)
  BY DEF Subscription
<1>3. Now(c)' = Now(c)
  BY <1>1, <1>2 DEF Now
<1>4. WireOf(c)' = WireOf(c)
  BY DEF WireOf
<1>. QED
  BY <1>3, <1>4, SeesSame

LEMMA StraySame ==
  ASSUME NEW c \in Conn, asked'[c] = asked[c], chosen'[c] = chosen[c]
  PROVE  StrayOf(c)' = StrayOf(c)
BY DEF StrayOf, Subscription, NoFrame

(* A frame that is offered is the last on the wire.                        *)
LEMMA WireMore ==
  ASSUME TypeOK, NEW c \in Conn, NEW f \in Frame, out' = [out EXCEPT ![c] = Append(@, f)]
  PROVE  /\ WireOf(c)' = Append(WireOf(c), f.seq)
         /\ \A d \in Conn \ {c} : out'[d] = out[d]
<1>1. out[c] \in Seq(Frame) /\ out'[c] = Append(out[c], f)
  BY DEF TypeOK
<1>2. \A d \in Conn \ {c} : out'[d] = out[d]
  BY DEF TypeOK
<1>3. PICK n \in Nat : n = Len(out[c])
  BY <1>1, LenProperties
<1>4. /\ Len(out'[c]) = n + 1 /\ out'[c][n + 1] = f
      /\ \A i \in 1 .. n : out'[c][i] = out[c][i] /\ out[c][i] \in Frame
  BY <1>1, <1>3, AppendProperties, ElementOfSeq
<1>5. WireOf(c)' = [i \in 1 .. n + 1 |-> out'[c][i].seq]
  BY <1>4 DEF WireOf
<1>6. WireOf(c) = [i \in 1 .. n |-> out[c][i].seq]
  BY <1>3 DEF WireOf
<1>7. f.seq \in Nat /\ \A i \in 1 .. n : out[c][i].seq \in Nat
  BY <1>4 DEF Frame
<1>8. WireOf(c) \in Seq(Nat) /\ Len(WireOf(c)) = n
  BY <1>3, <1>6, <1>7
<1>9. Append(WireOf(c), f.seq) = [i \in 1 .. n + 1 |-> IF i \in 1 .. n THEN WireOf(c)[i] ELSE f.seq]
  BY <1>7, <1>8
<1>. QED
  BY <1>2, <1>3, <1>4, <1>5, <1>6, <1>9

LEMMA AskingIsEngaged ==
  ASSUME IInv, GapInv, NEW c \in Conn
  PROVE  Asking(c) <=> phase[c] # "none"
<1>1. Splice(c) /\ Feeding(c)
  BY DEF IInv, SpliceInv, GapInv, Whole
<1>. QED
  BY <1>1 DEF Asking, Splice, Feeding

(* Only c is seen to move, to these.                                       *)
Seen(c, st, cu, sy, wi) ==
  /\ [d \in Conn |-> StatusOf(d)]' = [[d \in Conn |-> StatusOf(d)] EXCEPT ![c] = st]
  /\ [d \in Conn |-> CursorOf(d)]' = [[d \in Conn |-> CursorOf(d)] EXCEPT ![c] = cu]
  /\ [d \in Conn |-> StrayOf(d)]' = [[d \in Conn |-> StrayOf(d)] EXCEPT ![c] = sy]
  /\ [d \in Conn |-> WireOf(d)]' = [[d \in Conn |-> WireOf(d)] EXCEPT ![c] = wi]

LEMMA SeenHere ==
  ASSUME NEW c \in Conn, NEW st, NEW cu, NEW sy, NEW wi,
         StatusOf(c)' = st, CursorOf(c)' = cu, StrayOf(c)' = sy, WireOf(c)' = wi,
         \A d \in Conn \ {c} : /\ open'[d] = open[d] /\ asked'[d] = asked[d]
                               /\ out'[d] = out[d] /\ chosen'[d] = chosen[d]
  PROVE  Seen(c, st, cu, sy, wi)
<1>1. \A d \in Conn \ {c} : /\ StatusOf(d)' = StatusOf(d) /\ CursorOf(d)' = CursorOf(d)
                            /\ StrayOf(d)' = StrayOf(d) /\ WireOf(d)' = WireOf(d)
  BY NothingSeen, StraySame
<1>. QED
  BY <1>1 DEF Seen

(* A frame that follows is the feed's next event, or where it picks up     *)
(* after a resync.                                                         *)
LEMMA FrameIsDue ==
  ASSUME IInv, GapInv, NEW c \in Conn, Asking(c), NEW m \in Nat, Newest(c, m),
         NEW s \in 1 .. head, m < s,
         Follows(s, Now(c), From(c, Subscription(c)))
  PROVE  s \in Feed!Due(c)
<1>1. PICK F : F = From(c, Subscription(c))
  OBVIOUS
<1>2. /\ head \in Nat /\ floor \in Nat /\ m \in Now(c) \cup {F}
      /\ \A t \in Now(c) \cup {F} : t <= m
      /\ Now(c) \subseteq Nat /\ F \in Nat
  <2>1. asked[c] \in Seq([from : Nat]) /\ asked[c] # << >>
    BY DEF IInv, TypeOK, Asking
  <2>2. Subscription(c) \in 1 .. Len(asked[c])
    BY <2>1, EmptySeq DEF Subscription
  <2>. QED
    BY <1>1, <2>2, ConnTypes DEF GapInv, Newest, Now
<1>3. CursorOf(c) = m
  BY CursorIs
<1>4. CASE Now(c) = {0}
  <2>1. StatusOf(c) = "resync"
    BY <1>4 DEF StatusOf, Received, Now
  <2>. QED
    BY <1>3, <2>1 DEF Feed!Due
<1>5. CASE Now(c) # {0}
  <2>1. StatusOf(c) = "exact"
    BY <1>5 DEF StatusOf, Received, Now
  <2>2. s = m + 1 \/ (m = 0 /\ s <= floor + 1)
    BY <1>1, <1>2, <1>5 DEF Follows
  <2>. QED
    BY <1>3, <2>1, <2>2 DEF Feed!Due
<1>. QED
  BY <1>4, <1>5

LEMMA FrameIsDelivery ==
  ASSUME IInv, GapInv, NEW c \in Conn, Asking(c), NEW m \in Nat, Newest(c, m),
         NEW s \in 1 .. head, m < s,
         Follows(s, Now(c), From(c, Subscription(c))),
         Now(c)' = Now(c) \cup {s},
         open' = open, asked' = asked, floor' = floor, head' = head,
         StrayOf(c)' = StrayOf(c), WireOf(c)' = Append(WireOf(c), s),
         \A d \in Conn \ {c} : out'[d] = out[d] /\ chosen'[d] = chosen[d]
  PROVE  Feed!Deliver(c)
<1>1. PICK F : F = From(c, Subscription(c))
  OBVIOUS
<1>2. /\ m \in Now(c) \cup {F}
      /\ \A t \in Now(c) \cup {F} : t <= m
      /\ Now(c) \subseteq Nat /\ F \in Nat
  <2>1. asked[c] \in Seq([from : Nat]) /\ asked[c] # << >>
    BY DEF IInv, TypeOK, Asking
  <2>2. Subscription(c) \in 1 .. Len(asked[c])
    BY <2>1, EmptySeq DEF Subscription
  <2>. QED
    BY <1>1, <2>2, ConnTypes DEF GapInv, Newest, Now
<1>3. Asking(c)' /\ From(c, Subscription(c))' = F /\ s \in Nat /\ s # 0
  <2>1. head \in Nat
    BY DEF IInv, TypeOK
  <2>. QED
    BY <1>1, <2>1 DEF Asking, From, Subscription
<1>4. CursorOf(c)' = s
  <2>1. PICK R : R = Now(c) \cup {s} \cup {F}
    OBVIOUS
  <2>2. R \subseteq Nat /\ s \in R /\ \A t \in R : t <= s
    BY <1>2, <1>3, <2>1
  <2>. QED
    BY <1>3, <2>1, <2>2, CursorNext
<1>5. StatusOf(c)' = "exact"
  <2>1. Received(c)' # {0}
    BY <1>3 DEF Received, Now
  <2>. QED
    BY <1>3, <2>1 DEF StatusOf
<1>6. Seen(c, "exact", s, StrayOf(c), Append(WireOf(c), s))
  BY <1>4, <1>5, SeenHere
<1>7. [d \in Conn |-> StrayOf(d)]' = [d \in Conn |-> StrayOf(d)]
  BY <1>6 DEF Seen
<1>8. s \in Feed!Due(c)
  BY FrameIsDue
<1>. QED
  BY <1>6, <1>7, <1>8 DEF Seen, Feed!Deliver

LEMMA SilentStep ==
  ASSUME open' = open, asked' = asked, floor' = floor, head' = head, out' = out,
         \A d \in Conn : StrayOf(d)' = StrayOf(d)
  PROVE  UNCHANGED Feed!vars
<1>1. \A d \in Conn : /\ StatusOf(d)' = StatusOf(d) /\ CursorOf(d)' = CursorOf(d)
                     /\ WireOf(d)' = WireOf(d)
  BY NothingSeen
<1>. QED
  BY <1>1 DEF Feed!vars

(* What the live fiber holds for the running subscription is due.          *)
LEMMA HandFollows ==
  ASSUME IInv, GapInv, NEW c \in Conn, NEW s, s = chosen[c].seq,
         chosen[c] # NoFrame, chosen[c].sub = Subscription(c)
  PROVE  /\ Asking(c) /\ s \in 1 .. head
         /\ Follows(s, Now(c), From(c, Subscription(c)))
         /\ \E m \in Nat : Newest(c, m) /\ m < s
<1>1. PICK f \in Frame : f = chosen[c]
  BY ConnTypes DEF GapInv
<1>2. s \in Nat
  BY <1>1 DEF Frame
<1>4. /\ Decision(c) /\ TypeOK /\ Whole(c)
  BY DEF IInv, SpliceInv, GapInv
<1>5. PICK k \in Nat : k = Subscription(c)
  BY ConnTypes DEF GapInv
<1>6. phase[c] = "live" /\ Asking(c)
  <2>1. phase[c] = "live"
    BY <1>4 DEF Decision
  <2>. QED
    BY <2>1, AskingIsEngaged
<1>7. PICK F \in Nat : F = From(c, k)
  BY <1>5, <1>6, ConnTypes DEF GapInv
<1>8. /\ Now(c) = Delivered(c, k) /\ Now(c) \subseteq Nat /\ head \in Nat /\ floor \in Nat
      /\ From(c, Subscription(c)) = F
  BY <1>5, <1>7, ConnTypes DEF GapInv, Now
<1>9. F < s /\ s \in 1 .. head /\ \A t \in Now(c) : t < s
  <2>1. /\ F < s /\ s <= head
        /\ \A i \in 1 .. Len(out[c]) : out[c][i].sub = k => out[c][i].seq < s
    BY <1>4, <1>5, <1>7 DEF Decision, From
  <2>. QED
    BY <1>2, <1>7, <1>8, <2>1 DEF Delivered
<1>10. Follows(s, Now(c), F)
  BY <1>4, <1>5, <1>7, <1>8 DEF Whole, InHand
<1>11. PICK m \in Nat : Newest(c, m) /\ m < s
  <2>1. CASE s - 1 \in Now(c) \cup {F}
    <3>1. s - 1 \in Nat /\ \A t \in Now(c) \cup {F} : t <= s - 1
      BY <1>2, <1>7, <1>8, <1>9, <2>1
    <3>2. Newest(c, s - 1) /\ s - 1 < s
      BY <1>2, <1>8, <1>9, <2>1, <3>1 DEF Newest
    <3>. QED
      BY <3>1, <3>2
  <2>2. CASE Now(c) \subseteq {0}
    <3>1. Newest(c, F)
      BY <1>7, <1>8, <2>2 DEF Newest
    <3>. QED
      BY <1>9, <3>1
  <2>. QED
    BY <1>10, <2>1, <2>2 DEF Follows
<1>. QED
  BY <1>6, <1>8, <1>9, <1>10, <1>11

LEMMA AskStep ==
  ASSUME IInv, GapInv, NEW c \in Conn, BeginReplay(c)
  PROVE  Feed!Ask(c)
<1>1. PICK from \in LastSeen : asked' = [asked EXCEPT ![c] = Append(@, [from |-> from])]
  BY DEF BeginReplay, ResumeAt
<1>2. /\ asked[c] \in Seq([from : Nat]) /\ asked \in [Conn -> Seq([from : Nat])]
      /\ [from |-> from] \in [from : Nat] /\ from \in Nat
  BY <1>1, GatewayAssumption DEF IInv, TypeOK, GatewayAssumption
<1>3. PICK m \in Nat : m = Len(asked[c])
  BY <1>2, LenProperties
<1>4. Len(asked'[c]) = m + 1 /\ asked'[c][m + 1] = [from |-> from] /\ asked'[c] # << >>
  <2>1. asked'[c] = Append(asked[c], [from |-> from])
    BY <1>1, <1>2
  <2>2. Len(asked'[c]) = m + 1 /\ asked'[c][m + 1] = [from |-> from]
    BY <1>2, <1>3, <2>1, AppendProperties
  <2>. QED
    BY <2>2, EmptySeq
<1>5. open[c] = "open" /\ open' = open /\ out' = out /\ floor' = floor /\ head' = head
  BY DEF BeginReplay
<1>6. Asking(c)' /\ Subscription(c)' = m + 1 /\ From(c, Subscription(c))' = from
  BY <1>4, <1>5 DEF Asking, Subscription, From
<1>7. Now(c)' = {}
  <2>1. Delivered(c, m + 1) = {}
    BY <1>3 DEF Delivered, IInv, OnlyAskedFor
  <2>2. Delivered(c, m + 1)' = {}
    BY <1>5, <2>1, DeliveredSame
  <2>. QED
    BY <1>6, <2>2 DEF Now
<1>8. StatusOf(c)' = "exact"
  BY <1>6, <1>7 DEF StatusOf, Received, Now
<1>9. CursorOf(c)' = from
  <2>1. PICK R : R = {from}
    OBVIOUS
  <2>2. R \subseteq Nat /\ from \in R /\ \A t \in R : t <= from
    BY <1>2, <2>1
  <2>3. R = Now(c)' \cup {From(c, Subscription(c))'}
    BY <1>6, <1>7, <2>1
  <2>. QED
    BY <1>6, <2>2, <2>3, CursorNext
<1>10. /\ chosen' = chosen
       /\ \A d \in Conn \ {c} : /\ open'[d] = open[d] /\ asked'[d] = asked[d]
                                /\ out'[d] = out[d] /\ chosen'[d] = chosen[d]
  BY <1>1, <1>2, <1>5 DEF BeginReplay
<1>11. StrayOf(c)' \in IF StrayOf(c) = 0 THEN {0} \cup Feed!Due(c) ELSE {StrayOf(c)}
  <2>1. CASE chosen[c] = NoFrame
    BY <1>10, <2>1 DEF StrayOf, NoFrame
  <2>2. CASE chosen[c] # NoFrame /\ chosen[c].sub = Subscription(c)
    <3>1. chosen[c].seq \in Feed!Due(c)
      <4>1. PICK s : s = chosen[c].seq
        OBVIOUS
      <4>2. /\ Asking(c) /\ s \in 1 .. head
            /\ Follows(s, Now(c), From(c, Subscription(c)))
            /\ \E m0 \in Nat : Newest(c, m0) /\ m0 < s
        BY <2>2, <4>1, HandFollows
      <4>. QED
        BY <4>1, <4>2, FrameIsDue
    <3>2. StrayOf(c) = 0 /\ StrayOf(c)' = chosen[c].seq
      BY <1>3, <1>6, <1>10, <2>2 DEF StrayOf, NoFrame, Subscription
    <3>. QED
      BY <3>1, <3>2
  <2>3. CASE chosen[c] # NoFrame /\ chosen[c].sub # Subscription(c)
    <3>1. StrayOf(c) = chosen[c].seq
      BY <2>3 DEF StrayOf
    <3>2. chosen[c].sub \in 1 .. m /\ chosen[c].seq # 0
      <4>1. /\ chosen[c].sub \in 1 .. Len(asked[c])
            /\ asked[c][chosen[c].sub].from < chosen[c].seq
        BY <2>3 DEF IInv, SpliceInv, Decision
      <4>2. chosen[c].seq \in Nat /\ asked[c][chosen[c].sub].from \in Nat
        BY <4>1, ConnTypes DEF GapInv, From
      <4>. QED
        BY <1>3, <4>1, <4>2
    <3>3. StrayOf(c)' = chosen[c].seq
      BY <1>3, <1>6, <1>10, <2>3, <3>2 DEF StrayOf, NoFrame
    <3>. QED
      BY <3>1, <3>2, <3>3
  <2>. QED
    BY <2>1, <2>2, <2>3
<1>12. WireOf(c)' = WireOf(c)
  BY <1>5 DEF WireOf
<1>13. Seen(c, "exact", from, StrayOf(c)', WireOf(c))
  BY <1>8, <1>9, <1>10, <1>12, SeenHere
<1>14. [d \in Conn |-> WireOf(d)]' = [d \in Conn |-> WireOf(d)]
  BY <1>13 DEF Seen
<1>. QED
  BY <1>5, <1>11, <1>13, <1>14 DEF Seen, Feed!Ask

LEMMA EarliestStep ==
  ASSUME IInv, GapInv, NEW c \in Conn, EarliestSeq(c)
  PROVE  Feed!Resync(c) \/ UNCHANGED Feed!vars
<1>1. /\ reading[c] = "earliest" /\ open' = open /\ asked' = asked
      /\ floor' = floor /\ head' = head /\ chosen' = chosen
  BY DEF EarliestSeq
<1>0. \A d \in Conn : StrayOf(d)' = StrayOf(d)
  BY <1>1, StraySame
<1>2. CASE out' = out
  BY <1>0, <1>1, <1>2, SilentStep
<1>3. CASE /\ Unrecoverable(mark[c])
           /\ out' = [out EXCEPT ![c] = Append(@, [sub |-> Subscription(c), seq |-> 0])]
  <2>1. PICK n \in 1 .. Len(asked[c]) : n = Subscription(c)
    BY <1>1, DecidedBefore DEF GapInv
  <2>2. Asking(c)
    BY <1>1, DecidedBefore, AskingIsEngaged DEF GapInv
  <2>3. PICK F \in Nat : F = From(c, n)
    BY ConnTypes DEF GapInv
  <2>4. mark[c] = F /\ \A i \in 1 .. Len(out[c]) : out[c][i].sub # n
    BY <1>1, <2>1, <2>3 DEF IInv, SpliceInv, Splice, From
  <2>5. Now(c) = {} /\ From(c, Subscription(c)) = F
    BY <2>1, <2>3, <2>4 DEF Now, Delivered
  <2>6. StatusOf(c) = "exact"
    BY <2>2, <2>5 DEF StatusOf, Received, Now
  <2>7. CursorOf(c) = F
    <3>1. Newest(c, F)
      BY <2>5 DEF Newest
    <3>. QED
      BY <2>2, <3>1, CursorIs
  <2>8. Delivered(c, n)' = {0} /\ WireOf(c)' = Append(WireOf(c), 0)
    <3>1. PICK f : f = [sub |-> n, seq |-> 0]
      OBVIOUS
    <3>2. f \in Frame /\ f.sub = n /\ f.seq = 0 /\ Delivered(c, n) = {}
      BY <2>1, <2>5, <3>1, SubscriptionTyped DEF Frame, IInv, Now
    <3>3. out' = [out EXCEPT ![c] = Append(@, f)] /\ TypeOK
      BY <1>3, <2>1, <3>1 DEF IInv
    <3>4. Delivered(c, f.sub)' = Delivered(c, f.sub) \cup {f.seq}
      BY <3>2, <3>3, DeliveredMore
    <3>5. WireOf(c)' = Append(WireOf(c), f.seq)
      BY <3>2, <3>3, WireMore
    <3>. QED
      BY <3>2, <3>4, <3>5
  <2>9. Asking(c)' /\ Subscription(c)' = n /\ Now(c)' = {0} /\ From(c, Subscription(c))' = F
    BY <1>1, <2>1, <2>2, <2>3, <2>8 DEF Asking, Subscription, Now, From
  <2>10. StatusOf(c)' = "resync"
    BY <2>9 DEF StatusOf, Received, Now
  <2>11. CursorOf(c)' = F
    <3>1. PICK R : R = {0, F}
      OBVIOUS
    <3>2. R \subseteq Nat /\ F \in R /\ \A t \in R : t <= F
      BY <3>1
    <3>3. R = Now(c)' \cup {From(c, Subscription(c))'}
      BY <2>9, <3>1
    <3>. QED
      BY <2>9, <3>2, <3>3, CursorNext
  <2>12. \A d \in Conn \ {c} : out'[d] = out[d]
    BY <1>3 DEF IInv, TypeOK
  <2>13. Seen(c, "resync", F, StrayOf(c), Append(WireOf(c), 0))
    BY <1>0, <1>1, <2>8, <2>10, <2>11, <2>12, SeenHere
  <2>14. 0 < F /\ F < floor
    BY <2>3, <2>4, <1>3 DEF Unrecoverable, IInv, TypeOK
  <2>15. /\ [d \in Conn |-> CursorOf(d)]' = [d \in Conn |-> CursorOf(d)]
         /\ [d \in Conn |-> StrayOf(d)]' = [d \in Conn |-> StrayOf(d)]
    BY <2>7, <2>13 DEF Seen
  <2>16. Feed!Resync(c)
    BY <1>1, <2>6, <2>7, <2>13, <2>14, <2>15 DEF Seen, Feed!Resync
  <2>. QED
    BY <2>16
<1>. QED
  BY <1>2, <1>3 DEF EarliestSeq

LEMMA EmitStep ==
  ASSUME IInv, GapInv, NEW c \in Conn, Emit(c)
  PROVE  Feed!Deliver(c)
<1>1. PICK s \in pending[c] :
        /\ \A t \in pending[c] : s <= t
        /\ out' = [out EXCEPT ![c] = Append(@, [sub |-> Subscription(c), seq |-> s])]
  BY DEF Emit
<1>2. /\ reading[c] = "emit" /\ open' = open /\ asked' = asked
      /\ floor' = floor /\ head' = head /\ chosen' = chosen
  BY DEF Emit
<1>3. PICK n \in 1 .. Len(asked[c]) : n = Subscription(c)
  BY <1>2, DecidedBefore DEF GapInv
<1>4. Asking(c)
  BY <1>2, DecidedBefore, AskingIsEngaged DEF GapInv
<1>5. PICK m \in Nat : m = mark[c]
  BY ConnTypes DEF GapInv
<1>6. /\ pending[c] \subseteq Nat /\ From(c, n) \in Nat /\ Now(c) \subseteq Nat /\ head \in Nat
  BY ConnTypes DEF GapInv, Now
<1>7. Newest(c, m) /\ m < s /\ s <= head
  <2>1. From(c, Subscription(c)) <= m /\ s <= head
    BY <1>2, <1>3, <1>5 DEF IInv, SpliceInv, Splice, From
  <2>2. m \in Now(c) \cup {From(c, Subscription(c))}
    BY <1>2, <1>5 DEF GapInv, Whole, Replayed
  <2>. QED
    BY <1>2, <1>5, <2>1, <2>2, ReplayedUpTo DEF Newest
<1>8. s \in 1 .. head
  BY <1>6, <1>7
<1>9. Follows(s, Now(c), From(c, Subscription(c)))
  <2>1. \/ s - 1 \in pending[c] \cup {m}
        \/ Follows(s, Now(c), From(c, Subscription(c)))
    BY <1>2, <1>5 DEF GapInv, Whole, Replayed
  <2>2. s - 1 \notin pending[c]
    BY <1>1, <1>6
  <2>3. s - 1 = m => Follows(s, Now(c), From(c, Subscription(c)))
    BY <1>7 DEF Newest, Follows
  <2>. QED
    BY <2>1, <2>2, <2>3
<1>10. Now(c)' = Now(c) \cup {s} /\ WireOf(c)' = Append(WireOf(c), s)
  <2>1. PICK f : f = [sub |-> n, seq |-> s]
    OBVIOUS
  <2>2. f \in Frame /\ f.sub = n /\ f.seq = s
    BY <1>3, <1>6, <2>1, SubscriptionTyped DEF Frame, IInv
  <2>3. out' = [out EXCEPT ![c] = Append(@, f)] /\ TypeOK
    BY <1>1, <1>3, <2>1 DEF IInv
  <2>4. Delivered(c, f.sub)' = Delivered(c, f.sub) \cup {f.seq}
    BY <2>2, <2>3, DeliveredMore
  <2>5. Subscription(c)' = n
    BY <1>2, <1>3 DEF Subscription
  <2>6. WireOf(c)' = Append(WireOf(c), f.seq)
    BY <2>2, <2>3, WireMore
  <2>. QED
    BY <1>3, <2>2, <2>4, <2>5, <2>6 DEF Now
<1>11. \A d \in Conn \ {c} : out'[d] = out[d]
  BY <1>1 DEF IInv, TypeOK
<1>12. StrayOf(c)' = StrayOf(c)
  BY <1>2, StraySame
<1>. QED
  BY <1>2, <1>4, <1>7, <1>8, <1>9, <1>10, <1>11, <1>12, FrameIsDelivery

LEMMA LiveEmitStep ==
  ASSUME IInv, GapInv, NEW c \in Conn, LiveEmit(c)
  PROVE  Feed!Deliver(c) \/ Feed!Stray(c)
<1>1. PICK f \in Frame : f = chosen[c]
  BY ConnTypes DEF GapInv
<1>2. /\ f # NoFrame /\ out' = [out EXCEPT ![c] = Append(@, f)]
      /\ chosen' = [chosen EXCEPT ![c] = NoFrame]
      /\ open' = open /\ asked' = asked /\ floor' = floor /\ head' = head
  BY <1>1 DEF LiveEmit
<1>3. PICK n \in Nat, s \in Nat : n = f.sub /\ s = f.seq
  BY DEF Frame
<1>4. /\ Decision(c) /\ TypeOK
  BY DEF IInv, SpliceInv
<1>5. PICK k \in Nat : k = Subscription(c)
  BY ConnTypes DEF GapInv
<1>6. /\ Delivered(c, n)' = Delivered(c, n) \cup {s}
      /\ \A j \in Nat \ {n} : Delivered(c, j)' = Delivered(c, j)
  <2>1. /\ Delivered(c, f.sub)' = Delivered(c, f.sub) \cup {f.seq}
        /\ \A j \in Nat : j # f.sub => Delivered(c, j)' = Delivered(c, j)
    BY <1>2, <1>4, DeliveredMore
  <2>. QED
    BY <1>3, <2>1
<1>7. Subscription(c)' = k
  BY <1>2, <1>5 DEF Subscription
<1>8. /\ WireOf(c)' = Append(WireOf(c), s)
      /\ \A d \in Conn \ {c} : out'[d] = out[d] /\ chosen'[d] = chosen[d]
  BY <1>2, <1>3, <1>4, WireMore DEF TypeOK
<1>9. StrayOf(c)' = 0
  <2>1. chosen'[c] = NoFrame
    BY <1>2, <1>4 DEF TypeOK
  <2>. QED
    BY <2>1 DEF StrayOf, NoFrame
<1>10. CASE n # k
  <2>1. Now(c)' = Now(c)
    BY <1>5, <1>6, <1>7, <1>10 DEF Now
  <2>2. StatusOf(c)' = StatusOf(c) /\ CursorOf(c)' = CursorOf(c)
    BY <1>2, <2>1, SeesSame
  <2>3. StrayOf(c) = s
    BY <1>1, <1>2, <1>3, <1>5, <1>10 DEF StrayOf
  <2>4. s # 0
    <3>1. n \in 1 .. Len(asked[c]) /\ asked[c][n].from < s
      BY <1>1, <1>2, <1>3, <1>4 DEF Decision
    <3>2. asked[c][n].from \in Nat
      BY <3>1, ConnTypes DEF GapInv, From
    <3>. QED
      BY <3>1, <3>2
  <2>5. Seen(c, StatusOf(c), CursorOf(c), 0, Append(WireOf(c), s))
    BY <1>2, <1>8, <1>9, <2>2, SeenHere
  <2>6. /\ [d \in Conn |-> StatusOf(d)]' = [d \in Conn |-> StatusOf(d)]
        /\ [d \in Conn |-> CursorOf(d)]' = [d \in Conn |-> CursorOf(d)]
    BY <2>5 DEF Seen
  <2>. QED
    BY <1>2, <2>3, <2>4, <2>5, <2>6 DEF Seen, Feed!Stray
<1>11. CASE n = k
  <2>1. /\ Asking(c) /\ s \in 1 .. head
        /\ Follows(s, Now(c), From(c, Subscription(c)))
        /\ \E m \in Nat : Newest(c, m) /\ m < s
    BY <1>1, <1>2, <1>3, <1>5, <1>11, HandFollows
  <2>2. Now(c)' = Now(c) \cup {s}
    BY <1>5, <1>6, <1>7, <1>11 DEF Now
  <2>3. StrayOf(c) = 0
    BY <1>1, <1>3, <1>5, <1>11 DEF StrayOf
  <2>4. StrayOf(c)' = StrayOf(c)
    BY <1>9, <2>3
  <2>. QED
    BY <1>2, <1>8, <2>1, <2>2, <2>4, FrameIsDelivery
<1>. QED
  BY <1>10, <1>11

LEMMA LeaveStep ==
  ASSUME NEW S \in SUBSET Conn, Dropped(S), floor' = floor, head' = head, TypeOK
  PROVE  Feed!Leave(S)
<1>1. ASSUME NEW d \in S PROVE StatusOf(d)' = "off" /\ CursorOf(d)' = 0 /\ StrayOf(d)' = 0
  <2>1. ~Asking(d)' /\ chosen'[d] = NoFrame
    BY DEF Dropped, Asking
  <2>. QED
    BY <2>1 DEF StatusOf, CursorOf, StrayOf, NoFrame
<1>2. ASSUME NEW d \in Conn \ S
      PROVE  StatusOf(d)' = StatusOf(d) /\ CursorOf(d)' = CursorOf(d) /\ StrayOf(d)' = StrayOf(d)
  <2>1. /\ open'[d] = open[d] /\ asked'[d] = asked[d] /\ out'[d] = out[d]
        /\ chosen'[d] = chosen[d]
    BY DEF Dropped, TypeOK
  <2>. QED
    BY <2>1, NothingSeen, StraySame
<1>3. \A d \in Conn : WireOf(d)' = WireOf(d)
  BY DEF Dropped, WireOf
<1>. QED
  BY <1>1, <1>2, <1>3 DEF Feed!Leave

(* Under the same environment the gateway implements SeqFeed: the frames   *)
(* that replay, flush, live delivery, resubscription, crash and retention  *)
(* put on a socket are one event after the other from the resume point, a  *)
(* resync, and after a resubscription at most one event of the previous    *)
(* subscription, the one that was due there.                               *)
THEOREM GatewayImplementsFeed == GentleSpec => ImplementsFeed
<1>1. GentleSpec => [](IInv /\ GapInv)
  BY GapFreeAlways
<1>2. Init => Feed!Init
  <2>. SUFFICES ASSUME Init PROVE Feed!Init
    OBVIOUS
  <2>1. \A d \in Conn : StatusOf(d) = "off" /\ CursorOf(d) = 0 /\ StrayOf(d) = 0
    BY DEF Init, StatusOf, CursorOf, StrayOf, Asking, NoFrame
  <2>2. \A d \in Conn : WireOf(d) = << >>
    BY DEF Init, WireOf
  <2>. QED
    BY <2>1, <2>2 DEF Init, Feed!Init
<1>3. IInv /\ GapInv /\ [Next /\ AttachFirst /\ GentlePrune /\ InTurn]_vars => [Feed!Next]_(Feed!vars)
  <2>. SUFFICES ASSUME IInv, GapInv, [Next]_vars
                PROVE  Feed!Next \/ UNCHANGED Feed!vars
    OBVIOUS
  <2>1. ASSUME NEW w \in Writer, Commit(w) PROVE Feed!Commit
    <3>1. \A d \in Conn : /\ StatusOf(d)' = StatusOf(d) /\ CursorOf(d)' = CursorOf(d)
                         /\ StrayOf(d)' = StrayOf(d) /\ WireOf(d)' = WireOf(d)
      BY <2>1, NothingSeen, StraySame DEF Commit, connVars
    <3>. QED
      BY <2>1, <3>1 DEF Commit, Feed!Commit
  <2>2. ASSUME NEW w \in Writer, Publish(w) \/ Published(w) \/ \E c \in Conn : SendTo(w, c)
        PROVE  UNCHANGED Feed!vars
    BY <2>2, SilentStep, StraySame DEF Publish, Published, SendTo, connVars
  <2>3. ASSUME NEW c \in Conn, Accept(c) PROVE UNCHANGED Feed!vars
    <3>1. /\ asked[c] = << >> /\ asked' = asked /\ out' = out /\ floor' = floor /\ head' = head
          /\ chosen' = chosen /\ \A d \in Conn \ {c} : open'[d] = open[d]
      BY <2>3 DEF Accept, GapInv, Whole, Feeding, IInv, TypeOK
    <3>2. /\ StatusOf(c)' = StatusOf(c) /\ CursorOf(c)' = CursorOf(c)
          /\ WireOf(c)' = WireOf(c)
      BY <3>1 DEF StatusOf, CursorOf, Asking, WireOf
    <3>3. \A d \in Conn : /\ StatusOf(d)' = StatusOf(d) /\ CursorOf(d)' = CursorOf(d)
                         /\ StrayOf(d)' = StrayOf(d) /\ WireOf(d)' = WireOf(d)
      BY <3>1, <3>2, NothingSeen, StraySame
    <3>. QED
      BY <3>1, <3>3 DEF Feed!vars
  <2>4. ASSUME NEW c \in Conn, BeginReplay(c) PROVE Feed!Ask(c)
    BY <2>4, AskStep
  <2>5. ASSUME NEW c \in Conn, EarliestSeq(c) PROVE Feed!Resync(c) \/ UNCHANGED Feed!vars
    BY <2>5, EarliestStep
  <2>6. ASSUME NEW c \in Conn, Since(c) \/ Flush(c) \/ Attach(c) \/ OnLive(c)
        PROVE  UNCHANGED Feed!vars
    <3>1. /\ open' = open /\ asked' = asked /\ floor' = floor /\ head' = head /\ out' = out
          /\ \A d \in Conn \ {c} : chosen'[d] = chosen[d]
      BY <2>6 DEF Since, Flush, Attach, OnLive, IInv, TypeOK
    <3>2. StrayOf(c)' = StrayOf(c)
      <4>1. CASE chosen'[c] = chosen[c]
        BY <3>1, <4>1, StraySame
      <4>2. CASE chosen'[c] # chosen[c]
        <5>1. chosen[c] = NoFrame /\ chosen'[c].sub = Subscription(c)
          BY <2>6, <4>2 DEF Since, Flush, Attach, OnLive, IInv, TypeOK
        <5>2. Subscription(c)' = Subscription(c)
          BY <3>1 DEF Subscription
        <5>. QED
          BY <5>1, <5>2 DEF StrayOf
      <4>. QED
        BY <4>1, <4>2
    <3>. QED
      BY <3>1, <3>2, SilentStep, StraySame
  <2>7. ASSUME NEW c \in Conn, Emit(c) PROVE Feed!Deliver(c)
    BY <2>7, EmitStep
  <2>8. ASSUME NEW c \in Conn, LiveEmit(c)
        PROVE  Feed!Deliver(c) \/ Feed!Stray(c)
    BY <2>8, LiveEmitStep
  <2>9. ASSUME NEW c \in Conn, Close(c) PROVE \E S \in SUBSET Conn : Feed!Leave(S)
    <3>1. {c} \in SUBSET Conn /\ Dropped({c}) /\ floor' = floor /\ head' = head /\ TypeOK
      BY <2>9 DEF Close, IInv
    <3>. QED
      BY <3>1, LeaveStep
  <2>10. CASE Restart
    <3>1. PICK S \in SUBSET Conn : Dropped(S) /\ floor' = floor /\ head' = head /\ TypeOK
      BY <2>10 DEF Restart, IInv
    <3>. QED
      BY <3>1, LeaveStep DEF Feed!Next
  <2>11. CASE Prune
    <3>1. \A d \in Conn : /\ StatusOf(d)' = StatusOf(d) /\ CursorOf(d)' = CursorOf(d)
                         /\ StrayOf(d)' = StrayOf(d) /\ WireOf(d)' = WireOf(d)
      BY <2>11, NothingSeen, StraySame DEF Prune, connVars
    <3>2. Feed!Prune
      BY <2>11, <3>1 DEF Prune, Feed!Prune
    <3>. QED
      BY <3>2 DEF Feed!Next
  <2>12. CASE UNCHANGED vars
    BY <2>12, SilentStep, StraySame DEF vars, connVars
  <2>13. CASE \E w \in Writer : WriterStep(w)
    BY <2>1, <2>2, <2>13 DEF WriterStep, Feed!Next
  <2>14. CASE \E c \in Conn : Accept(c) \/ BeginReplay(c) \/ ReceiveStep(c)
                               \/ LiveStep(c) \/ Close(c)
    BY <2>3, <2>4, <2>5, <2>6, <2>7, <2>8, <2>9, <2>14
    DEF ReceiveStep, LiveStep, Feed!Next
  <2>. QED
    BY <2>10, <2>11, <2>12, <2>13, <2>14 DEF Next
<1>. QED
  BY <1>1, <1>2, <1>3, PTL DEF GentleSpec, ImplementsFeed, Feed!Spec
=============================================================================
