--------------------------- MODULE WebhookProofs ---------------------------
(***************************************************************************)
(* Proofs about WebhookQueue, for any number of processes, endpoints and   *)
(* events, any batch and ladder: types, the cause of every row, and what   *)
(* holds of a delivery on which no deadline has passed.                    *)
(***************************************************************************)
EXTENDS WebhookQueue, TLAPS, FiniteSetTheorems, SequenceTheorems

(* What fan-out, claim and outcome write are rows.                         *)
LEMMA RowTypes ==
  ASSUME TypeOK, WebhookAssumption
  PROVE  /\ NoRow \in DeliveryRow
         /\ \A ev \in Event : FannedOut(ev) \in [Delivery -> DeliveryRow]
         /\ \A B \in SUBSET Delivery : Claimed(B) \in [Delivery -> DeliveryRow]
         /\ \A c \in Claim : Settled(c) \in [Delivery -> DeliveryRow]
<1>1. NoRow \in DeliveryRow
  BY DEF NoRow, DeliveryRow, Status
<1>2. \A ev \in Event : FannedOut(ev) \in [Delivery -> DeliveryRow]
  BY DEF FannedOut, TypeOK, DeliveryRow, Status
<1>3. \A B \in SUBSET Delivery : Claimed(B) \in [Delivery -> DeliveryRow]
  BY DEF Claimed, TypeOK, DeliveryRow, Status
<1>4. ASSUME NEW c \in Claim PROVE Settled(c) \in [Delivery -> DeliveryRow]
  <2>1. Outcome(c) \in Status
    BY DEF Outcome, Status
  <2>2. \A d \in Delivery : /\ row[d].attempts \in Nat
                            /\ (row[d].due /\ Outcome(c) # "pending") \in BOOLEAN
    BY DEF TypeOK, DeliveryRow
  <2>. QED
    BY <2>1, <2>2 DEF Settled, TypeOK, DeliveryRow
<1>. QED
  BY <1>1, <1>2, <1>3, <1>4

LEMMA MovedType ==
  ASSUME TypeOK, NEW s \in Server, NEW c \in held[s],
         NEW at \in {"claimed", "posting", "ok", "failed"}
  PROVE  Moved(s, c, at) \in [Server -> SUBSET Claim]
<1>1. c \in Claim
  BY DEF TypeOK
<1>2. [c EXCEPT !.at = at] \in Claim
  BY <1>1 DEF Claim
<1>. QED
  BY <1>2 DEF Moved, TypeOK

(* Every step keeps the types.                                             *)
LEMMA TypeNext ==
  ASSUME TypeOK, WebhookAssumption, [Next]_vars
  PROVE  TypeOK'
<1>. USE DEF pipeline, history
<1>1. CASE UNCHANGED vars
  BY <1>1 DEF vars, TypeOK
<1>2. CASE Registry
  <2>1. ASSUME NEW e \in Endpoint, NEW on \in {"enabled", "disabled"}, Register(e, on)
        PROVE  TypeOK'
    BY <2>1 DEF Register, TypeOK
  <2>2. ASSUME NEW e \in Endpoint, DeleteEndpoint(e) PROVE TypeOK'
    BY <2>2, RowTypes DEF DeleteEndpoint, TypeOK
  <2>. QED
    BY <1>2, <2>1, <2>2 DEF Registry
<1>3. ASSUME NEW s \in Server, NEW ev \in Event, Raise(s, ev) PROVE TypeOK'
  BY <1>3 DEF Raise, TypeOK
<1>4. ASSUME NEW s \in Server, NEW ev \in Event, Publish(s, ev) PROVE TypeOK'
  <2>1. publishing' \subseteq Server \X Event
    BY <1>4 DEF Publish, TypeOK
  <2>2. inbox' \in [Server -> Seq(Published)]
    <3>1. Append(inbox[s], ev) \in Seq(Published)
      BY <1>4 DEF Publish, TypeOK
    <3>. QED
      BY <1>4, <3>1 DEF Publish, TypeOK
  <2>. QED
    BY <1>4, <2>1, <2>2 DEF Publish, TypeOK
<1>5. ASSUME NEW s \in Server, NEW ev \in Event, EnqueueFlag(s, ev) PROVE TypeOK'
  <2>1. row' \in [Delivery -> DeliveryRow]
    BY <1>5, RowTypes DEF EnqueueFlag, TypeOK
  <2>2. publishing' \subseteq Server \X Event
    BY <1>5 DEF EnqueueFlag, TypeOK
  <2>. QED
    BY <1>5, <2>1, <2>2 DEF EnqueueFlag, TypeOK
<1>6. ASSUME NEW s \in Server, Enqueue(s) PROVE TypeOK'
  <2>1. /\ inbox[s] \in Seq(Published) /\ inbox[s] # <<>>
        /\ Head(inbox[s]) \in Event /\ Tail(inbox[s]) \in Seq(Published)
    BY <1>6, HeadTailProperties DEF Enqueue, TypeOK, Event
  <2>2. row' \in [Delivery -> DeliveryRow]
    BY <1>6, <2>1, RowTypes DEF Enqueue, TypeOK
  <2>3. inbox' \in [Server -> Seq(Published)]
    BY <1>6, <2>1 DEF Enqueue, TypeOK
  <2>. QED
    BY <1>6, <2>2, <2>3 DEF Enqueue, TypeOK
<1>7. ASSUME NEW s \in Server, ReapStuck(s) PROVE TypeOK'
  <2>1. row' \in [Delivery -> DeliveryRow]
    <3>1. ASSUME NEW d \in Delivery
          PROVE  row[d] \in DeliveryRow /\ [row[d] EXCEPT !.status = "pending"] \in DeliveryRow
      BY DEF TypeOK, DeliveryRow, Status
    <3>2. row' = [d \in Delivery |->
                    IF Stuck(d) THEN [row[d] EXCEPT !.status = "pending"] ELSE row[d]]
      BY <1>7 DEF ReapStuck
    <3>. QED
      BY <3>1, <3>2
  <2>. QED
    BY <1>7, <2>1 DEF ReapStuck, TypeOK
<1>8. ASSUME NEW s \in Server, ClaimBatch(s) PROVE TypeOK'
  <2>1. PICK B \in SUBSET Claimable :
          /\ row' = Claimed(B)
          /\ held' = [held EXCEPT ![s] =
                        {[d |-> d, attempts |-> row[d].attempts + 1,
                          at |-> "claimed"] : d \in B}]
          /\ phase' = [phase EXCEPT ![s] = IF B = {} THEN "idle" ELSE "delivering"]
    BY <1>8 DEF ClaimBatch
  <2>2. B \subseteq Delivery
    BY DEF Claimable
  <2>3. row' \in [Delivery -> DeliveryRow]
    BY <2>1, <2>2, RowTypes
  <2>4. {[d |-> d, attempts |-> row[d].attempts + 1, at |-> "claimed"] : d \in B}
          \subseteq Claim
    BY <2>2 DEF Claim, TypeOK, DeliveryRow
  <2>5. held' \in [Server -> SUBSET Claim]
    BY <2>1, <2>4 DEF TypeOK
  <2>6. phase' \in [Server -> {"down", "idle", "reaped", "delivering"}]
    BY <2>1 DEF TypeOK
  <2>. QED
    BY <1>8, <2>3, <2>5, <2>6 DEF ClaimBatch, TypeOK
<1>9. ASSUME NEW s \in Server, NEW c \in held[s],
             ReadEndpoint(s, c) \/ Post(s, c) \/ Settle(s, c)
      PROVE  TypeOK'
  <2>1. c \in Claim
    BY DEF TypeOK
  <2>2. c.d \in Delivery
    BY <2>1 DEF Claim
  <2>3. CASE ReadEndpoint(s, c)
    <3>1. held' \in [Server -> SUBSET Claim]
      BY <2>3, MovedType DEF ReadEndpoint
    <3>. QED
      BY <2>3, <3>1 DEF ReadEndpoint, TypeOK
  <2>4. CASE Post(s, c)
    <3>1. held' \in [Server -> SUBSET Claim]
      BY <2>4, MovedType DEF Post
    <3>2. accepted' \subseteq Delivery
      BY <2>4, <2>2 DEF Post, TypeOK
    <3>. QED
      BY <2>4, <3>1, <3>2 DEF Post, TypeOK
  <2>5. CASE Settle(s, c)
    <3>1. row' \in [Delivery -> DeliveryRow]
      BY <2>5, <2>1, RowTypes DEF Settle
    <3>2. held' \in [Server -> SUBSET Claim]
      BY <2>5 DEF Settle, TypeOK
    <3>3. phase' \in [Server -> {"down", "idle", "reaped", "delivering"}]
      BY <2>5 DEF Settle, TypeOK
    <3>. QED
      BY <2>5, <3>1, <3>2, <3>3 DEF Settle, TypeOK
  <2>. QED
    BY <1>9, <2>3, <2>4, <2>5
<1>10. ASSUME NEW s \in Server, Start(s) \/ AbandonCycle(s) \/ Crash(s) PROVE TypeOK'
  <2>1. CASE Start(s)
    BY <2>1 DEF Start, TypeOK
  <2>2. CASE AbandonCycle(s)
    BY <2>2 DEF AbandonCycle, TypeOK
  <2>3. CASE Crash(s)
    <3>1. inbox' \in [Server -> Seq(Published)]
      BY <2>3 DEF Crash, TypeOK
    <3>2. publishing' \subseteq Server \X Event
      BY <2>3 DEF Crash, TypeOK
    <3>. QED
      BY <2>3, <3>1, <3>2 DEF Crash, TypeOK
  <2>. QED
    BY <1>10, <2>1, <2>2, <2>3
<1>11. ASSUME NEW d \in Delivery, Elapse(d) \/ Replay(d) PROVE TypeOK'
  <2>2. CASE Elapse(d)
    <3>1. row[d] \in DeliveryRow
      BY DEF TypeOK
    <3>. DEFINE new == [row[d] EXCEPT !.due = TRUE]
    <3>2. new \in DeliveryRow
      BY <3>1 DEF DeliveryRow
    <3>4. row' = [row EXCEPT ![d] = new]
      BY <2>2 DEF Elapse
    <3>. HIDE DEF new
    <3>3. row' \in [Delivery -> DeliveryRow]
      BY <3>2, <3>4 DEF TypeOK
    <3>5. lapses' \in {lapses, [lapses EXCEPT ![d] = @ + 1]} /\ slow' \in {slow, slow + 1}
      BY <2>2 DEF Elapse
    <3>6. UNCHANGED <<endpoint, pipeline, phase, held, failures, replays, accepted>>
      BY <2>2 DEF Elapse
    <3>. QED
      BY <3>3, <3>5, <3>6 DEF TypeOK
  <2>3. CASE Replay(d)
    <3>1. row' \in [Delivery -> DeliveryRow]
      BY <2>3 DEF Replay, TypeOK, DeliveryRow, Status
    <3>. QED
      BY <2>3, <3>1 DEF Replay, TypeOK
  <2>. QED
    BY <1>11, <2>2, <2>3
<1>. QED
  BY <1>1, <1>2, <1>3, <1>4, <1>5, <1>6, <1>7, <1>8, <1>9, <1>10, <1>11
     DEF Next, Work

(* Every variable keeps its type.                                          *)
THEOREM QueueTypeCorrect == Spec => []TypeOK
<1>1. Init => TypeOK
  <2>1. SUFFICES ASSUME Init PROVE TypeOK
    OBVIOUS
  <2>2. NoRow \in DeliveryRow
    BY DEF NoRow, DeliveryRow, Status
  <2>3. <<>> \in Seq(Published)
    OBVIOUS
  <2>. QED
    BY <2>1, <2>2, <2>3 DEF Init, TypeOK
<1>2. TypeOK /\ [Next]_vars => TypeOK'
  BY TypeNext, WebhookAssumption
<1>. QED
  BY <1>1, <1>2, PTL DEF Spec

-----------------------------------------------------------------------------
(* The inductive invariant.  An event that has not been fanned out is in   *)
(* one place and has no rows, so a fan-out never meets a row or a claim.   *)
Unfanned(ev) == ev \in raised /\ \A e \in Endpoint : row[<<ev, e>>].status = "none"

AllUnfanned ==
  /\ \A s \in Server, ev \in Event : <<s, ev>> \in publishing => Unfanned(ev)
  /\ \A s \in Server : \A i \in 1 .. Len(inbox[s]) : Unfanned(inbox[s][i])

OneFiber ==
  \A s, t \in Server, ev \in Event :
    <<s, ev>> \in publishing /\ <<t, ev>> \in publishing => s = t

FiberOrInbox ==
  \A s, t \in Server, ev \in Event :
    <<s, ev>> \in publishing => \A i \in 1 .. Len(inbox[t]) : inbox[t][i] # ev

OneInbox ==
  \A s, t \in Server : \A i \in 1 .. Len(inbox[s]), j \in 1 .. Len(inbox[t]) :
    inbox[s][i] = inbox[t][j] => s = t /\ i = j

Pipeline == AllUnfanned /\ OneFiber /\ FiberOrInbox /\ OneInbox

(* A claim without a row has lost its endpoint.  While no deadline has     *)
(* passed on its delivery it is the only one, and the row is as it was     *)
(* claimed.                                                                *)
Sole(s, c) == \A t \in Server : \A b \in held[t] : b.d = c.d => t = s /\ b = c

GoodClaim(s, c) ==
  /\ row[c.d].status = "none" => endpoint[c.d[2]] = "deleted"
  /\ c.at = "ok" => c.d \in accepted
  /\ lapses[c.d] = 0 =>
       /\ Sole(s, c)
       /\ \/ row[c.d].status = "none"
          \/ row[c.d].status = "processing" /\ row[c.d].attempts = c.attempts

Claims == \A s \in Server : \A c \in held[s] : GoodClaim(s, c)

(* What a row says of its past.  While no deadline has passed its attempts *)
(* are within the ladder.                                                  *)
GoodRow(d) ==
  /\ row[d].status # "none" => /\ endpoint[d[2]] = "enabled"
                               /\ d[1] \in raised \ DirectEvent
  /\ row[d].status = "delivered" => d \in accepted
  /\ row[d].status = "processing" /\ row[d].due => lapses[d] # 0
  /\ lapses[d] = 0 =>
       /\ row[d].status = "pending" => row[d].attempts <= Backoff
       /\ row[d].status = "processing" => row[d].attempts <= Backoff + 1
       /\ row[d].status = "dead" => row[d].attempts = Backoff + 1

Rows == \A d \in Delivery : GoodRow(d)

QueueInv == TypeOK /\ Pipeline /\ Claims /\ Rows

(* A claim names a delivery.                                               *)
LEMMA ClaimTyped ==
  ASSUME TypeOK, NEW s \in Server, NEW c \in held[s]
  PROVE  /\ c \in Claim /\ c.d \in Delivery /\ c.attempts \in Nat
         /\ c.at \in {"claimed", "posting", "ok", "failed"}
         /\ c.d[1] \in Event /\ c.d[2] \in Endpoint
<1>1. c \in Claim
  BY DEF TypeOK
<1>2. c.d \in Delivery /\ c.attempts \in Nat /\ c.at \in {"claimed", "posting", "ok", "failed"}
  BY <1>1 DEF Claim
<1>. QED
  BY <1>1, <1>2 DEF Delivery

LEMMA RowTyped ==
  ASSUME TypeOK, NEW d \in Delivery
  PROVE  row[d] \in DeliveryRow /\ row[d].status \in Status
         /\ row[d].attempts \in Nat /\ row[d].due \in BOOLEAN /\ lapses[d] \in Nat
BY DEF TypeOK, DeliveryRow

(* A step that leaves the pipeline alone and makes no new row keeps it.    *)
LEMMA PipelineKept ==
  ASSUME Pipeline, UNCHANGED pipeline,
         \A d \in Delivery : row[d].status = "none" => row'[d].status = "none",
         TypeOK
  PROVE  Pipeline'
<1>1. \A ev \in Event : Unfanned(ev) => Unfanned(ev)'
  BY DEF Unfanned, pipeline, Delivery
<1>2. \A s \in Server : \A i \in 1 .. Len(inbox[s]) : inbox[s][i] \in Event
  BY DEF TypeOK, Event
<1>. QED
  BY <1>1, <1>2 DEF Pipeline, AllUnfanned, OneFiber, FiberOrInbox, OneInbox, pipeline

(* A step that changes neither rows nor claims.                            *)
LEMMA ClaimsKept ==
  ASSUME Claims, UNCHANGED <<row, endpoint, held, lapses, accepted>>
  PROVE  Claims'
BY DEF Claims, GoodClaim, Sole

LEMMA RowsKept ==
  ASSUME Rows, UNCHANGED <<row, endpoint, lapses>>, raised \subseteq raised',
         accepted \subseteq accepted'
  PROVE  Rows'
BY DEF Rows, GoodRow

(* Fanning out meets no row and no claim of its event.                     *)
LEMMA FanOut ==
  ASSUME TypeOK, Claims, Rows, WebhookAssumption, NEW ev \in Event, Unfanned(ev),
         ev \notin DirectEvent, row' = FannedOut(ev),
         UNCHANGED <<endpoint, held, lapses, accepted, raised>>
  PROVE  /\ Claims' /\ Rows'
         /\ \A x \in Event \ {ev} : Unfanned(x) => Unfanned(x)'
<1>. DEFINE New(d) == d[1] = ev /\ endpoint[d[2]] = "enabled"
<1>1. \A d \in Delivery :
        /\ New(d) => row[d].status = "none" /\ row'[d].status = "pending"
                     /\ row'[d].attempts = 0
        /\ ~New(d) => row'[d] = row[d]
  <2>1. \A d \in Delivery : d = <<d[1], d[2]>> /\ d[2] \in Endpoint
    BY DEF Delivery
  <2>. QED
    BY <2>1 DEF FannedOut, Unfanned
<1>2. Claims'
  <2>1. ASSUME NEW s \in Server, NEW c \in held[s] PROVE GoodClaim(s, c)'
    <3>1. c.d \in Delivery /\ GoodClaim(s, c)
      BY ClaimTyped DEF Claims
    <3>2. ~New(c.d)
      BY <1>1, <3>1 DEF GoodClaim
    <3>3. row'[c.d] = row[c.d]
      BY <1>1, <3>1, <3>2
    <3>. QED
      BY <3>1, <3>3 DEF GoodClaim, Sole
  <2>. QED
    BY <2>1 DEF Claims
<1>3. Rows'
  <2>1. ASSUME NEW d \in Delivery PROVE GoodRow(d)'
    <3>1. GoodRow(d) /\ Backoff \in Nat
      BY DEF Rows, WebhookAssumption
    <3>2. CASE New(d)
      BY <1>1, <3>1, <3>2 DEF GoodRow, Unfanned
    <3>3. CASE ~New(d)
      BY <1>1, <3>1, <3>3 DEF GoodRow
    <3>. QED
      BY <3>2, <3>3
  <2>. QED
    BY <2>1 DEF Rows
<1>4. \A x \in Event \ {ev} : Unfanned(x) => Unfanned(x)'
  <2>1. ASSUME NEW x \in Event \ {ev}, NEW e \in Endpoint PROVE row'[<<x, e>>] = row[<<x, e>>]
    <3>1. <<x, e>> \in Delivery /\ <<x, e>>[1] = x
      BY DEF Delivery
    <3>. QED
      BY <1>1, <3>1
  <2>. QED
    BY <2>1 DEF Unfanned
<1>. QED
  BY <1>2, <1>3, <1>4

(* Unfanned after the step, of an event read in either state.              *)
Waits(ev) == ev \in raised' /\ \A e \in Endpoint : row'[<<ev, e>>].status = "none"

(* Steps of the pipeline.                                                  *)
LEMMA RaiseInv ==
  ASSUME QueueInv, NEW s \in Server, NEW ev \in Event, Raise(s, ev)
  PROVE  Pipeline' /\ Claims' /\ Rows'
<1>. USE DEF QueueInv
<1>1. Claims' /\ Rows'
  BY ClaimsKept, RowsKept DEF Raise, history
<1>2. \A x \in Event : Unfanned(x) => x \in raised /\ Unfanned(x)'
  BY DEF Unfanned, Raise
<1>3. ev \notin raised /\ Unfanned(ev)'
  <2>1. \A e \in Endpoint : <<ev, e>> \in Delivery /\ <<ev, e>>[1] = ev
    BY DEF Delivery
  <2>. QED
    BY <2>1 DEF Raise, Unfanned, Rows, GoodRow
<1>4. \A t \in Server : \A i \in 1 .. Len(inbox[t]) :
        inbox[t][i] \in Event /\ inbox[t][i] \in raised
  BY DEF TypeOK, Event, Pipeline, AllUnfanned, OneFiber, FiberOrInbox, OneInbox, Unfanned
<1>5. /\ publishing' = publishing \cup {<<s, ev>>} /\ inbox' = inbox
      /\ \A t \in Server : <<t, ev>> \notin publishing
  BY <1>2, <1>3 DEF Raise, Pipeline, AllUnfanned, OneFiber, FiberOrInbox, OneInbox
<1>6. Pipeline'
  BY <1>2, <1>3, <1>4, <1>5 DEF Pipeline, AllUnfanned, OneFiber, FiberOrInbox, OneInbox
<1>. QED
  BY <1>1, <1>6

LEMMA PublishInv ==
  ASSUME QueueInv, NEW s \in Server, NEW ev \in Event, Publish(s, ev)
  PROVE  Pipeline' /\ Claims' /\ Rows'
<1>. USE DEF QueueInv
<1>1. Claims' /\ Rows'
  BY ClaimsKept, RowsKept DEF Publish, history
<1>2. \A x \in Event : Unfanned(x) => Waits(x)
  BY DEF Unfanned, Waits, Publish
<1>3. \A t \in Server : inbox[t] \in Seq(Published)
  BY DEF TypeOK
<1>4. /\ publishing' = publishing \ {<<s, ev>>} /\ <<s, ev>> \in publishing
      /\ Unfanned(ev) /\ ev \in Published
  BY DEF Publish, Pipeline, AllUnfanned, OneFiber, FiberOrInbox, OneInbox
<1>5. CASE inbox' = inbox
  <2>1. \A t \in Server : \A i \in 1 .. Len(inbox[t]) : inbox[t][i] \in Event
    BY <1>3 DEF Event
  <2>2. AllUnfanned'
    BY <1>2, <1>4, <1>5, <2>1 DEF Pipeline, AllUnfanned, Waits, Unfanned
  <2>3. OneFiber' /\ FiberOrInbox' /\ OneInbox'
    BY <1>4, <1>5 DEF Pipeline, OneFiber, FiberOrInbox, OneInbox
  <2>. QED
    BY <1>1, <2>2, <2>3 DEF Pipeline
<1>6. CASE inbox' = [inbox EXCEPT ![s] = Append(@, ev)]
  <2>1. \A t \in Server : t # s => inbox'[t] = inbox[t]
    BY <1>6 DEF TypeOK
  <2>2. /\ Len(inbox'[s]) = Len(inbox[s]) + 1 /\ inbox'[s][Len(inbox[s]) + 1] = ev
        /\ \A i \in 1 .. Len(inbox[s]) : inbox'[s][i] = inbox[s][i]
        /\ Len(inbox[s]) \in Nat
    BY <1>3, <1>4, <1>6, AppendProperties DEF TypeOK
  <2>3. \A t \in Server : \A i \in 1 .. Len(inbox'[t]) :
          \/ i \in 1 .. Len(inbox[t]) /\ inbox'[t][i] = inbox[t][i]
          \/ t = s /\ i = Len(inbox[s]) + 1 /\ inbox'[t][i] = ev
    BY <2>1, <2>2
  <2>4. \A t \in Server : \A i \in 1 .. Len(inbox[t]) :
          inbox[t][i] \in Event /\ Unfanned(inbox[t][i]) /\ inbox[t][i] # ev
    BY <1>3, <1>4 DEF Pipeline, AllUnfanned, OneFiber, FiberOrInbox, OneInbox, Event
  <2>5. \A t \in Server : \A i \in 1 .. Len(inbox'[t]) : Waits(inbox'[t][i])
    BY <1>2, <1>4, <2>3, <2>4
  <2>6. \A t \in Server, x \in Event : <<t, x>> \in publishing' =>
          /\ <<t, x>> \in publishing /\ x # ev /\ Waits(x)
    BY <1>2, <1>4 DEF Pipeline, AllUnfanned, OneFiber, FiberOrInbox, OneInbox
  <2>7. \A t, r \in Server, x \in Event :
          <<t, x>> \in publishing' => \A i \in 1 .. Len(inbox'[r]) : inbox'[r][i] # x
    BY <2>3, <2>6 DEF Pipeline, AllUnfanned, OneFiber, FiberOrInbox, OneInbox
  <2>8. ASSUME NEW t \in Server, NEW r \in Server, NEW i \in 1 .. Len(inbox'[t]),
               NEW j \in 1 .. Len(inbox'[r]), inbox'[t][i] = inbox'[r][j]
        PROVE  t = r /\ i = j
    <3>1. CASE i \in 1 .. Len(inbox[t]) /\ j \in 1 .. Len(inbox[r])
               /\ inbox'[t][i] = inbox[t][i] /\ inbox'[r][j] = inbox[r][j]
      <4>1. inbox[t][i] = inbox[r][j]
        BY <2>8, <3>1
      <4>2. OneInbox
        BY DEF Pipeline
      <4>. QED
        BY <4>1, <4>2, <3>1 DEF OneInbox
    <3>2. CASE inbox'[t][i] = ev /\ inbox'[r][j] = ev
      <4>1. t = s /\ i = Len(inbox[s]) + 1
        BY <2>3, <2>4, <3>2
      <4>2. r = s /\ j = Len(inbox[s]) + 1
        BY <2>3, <2>4, <3>2
      <4>. QED
        BY <4>1, <4>2
    <3>. QED
      BY <2>3, <2>4, <2>8, <3>1, <3>2
  <2>9. \A t, r \in Server, x \in Event :
          <<t, x>> \in publishing' /\ <<r, x>> \in publishing' => t = r
    BY <2>6 DEF Pipeline, AllUnfanned, OneFiber, FiberOrInbox, OneInbox
  <2>10. Pipeline'
    BY <2>5, <2>6, <2>7, <2>8, <2>9 DEF Pipeline, AllUnfanned, OneFiber, FiberOrInbox, OneInbox, Waits, Unfanned
  <2>. QED
    BY <1>1, <2>10
<1>. QED
  BY <1>5, <1>6 DEF Publish

LEMMA EnqueueInv ==
  ASSUME QueueInv, WebhookAssumption, NEW s \in Server, Enqueue(s)
  PROVE  Pipeline' /\ Claims' /\ Rows'
<1>. USE DEF QueueInv
<1>. DEFINE ev == Head(inbox[s])
<1>1. /\ inbox[s] \in Seq(Published) /\ inbox[s] # <<>> /\ Len(inbox[s]) \in Nat
      /\ ev = inbox[s][1] /\ ev \in Event /\ Unfanned(ev)
      /\ inbox'[s] = Tail(inbox[s])
      /\ \A t \in Server : t # s => inbox'[t] = inbox[t]
  <2>1. inbox[s] \in Seq(Published) /\ inbox[s] # <<>>
    BY DEF TypeOK, Enqueue
  <2>2. ev = inbox[s][1] /\ 1 \in 1 .. Len(inbox[s]) /\ ev \in Event /\ Len(inbox[s]) \in Nat
    BY <2>1, HeadTailProperties, EmptySeq DEF Event
  <2>3. Unfanned(ev)
    BY <2>2 DEF Pipeline, AllUnfanned, OneFiber, FiberOrInbox, OneInbox
  <2>. QED
    BY <2>1, <2>2, <2>3 DEF TypeOK, Enqueue
<1>. HIDE DEF ev
<1>2. /\ Len(inbox'[s]) = Len(inbox[s]) - 1
      /\ \A i \in 1 .. Len(inbox'[s]) : i + 1 \in 1 .. Len(inbox[s])
                                        /\ inbox'[s][i] = inbox[s][i + 1]
  BY <1>1, HeadTailProperties
<1>3. DEFINE from(t, i) == IF t = s THEN i + 1 ELSE i
<1>4. \A t \in Server : \A i \in 1 .. Len(inbox'[t]) :
        /\ from(t, i) \in 1 .. Len(inbox[t]) /\ inbox'[t][i] = inbox[t][from(t, i)]
        /\ inbox'[t][i] \in Event \ {ev}
  <2>1. ASSUME NEW t \in Server, NEW i \in 1 .. Len(inbox'[t])
        PROVE  from(t, i) \in 1 .. Len(inbox[t]) /\ inbox'[t][i] = inbox[t][from(t, i)]
    BY <1>1, <1>2
  <2>2. ASSUME NEW t \in Server, NEW i \in 1 .. Len(inbox'[t])
        PROVE  inbox'[t][i] # ev
    <3>1. t = s => from(t, i) # 1
      OBVIOUS
    <3>2. 1 \in 1 .. Len(inbox[s])
      BY <1>1, EmptySeq
    <3>. QED
      BY <2>1, <3>1, <3>2, <1>1 DEF Pipeline, AllUnfanned, OneFiber, FiberOrInbox, OneInbox
  <2>3. \A t \in Server : \A i \in 1 .. Len(inbox[t]) : inbox[t][i] \in Event
    BY DEF TypeOK, Event
  <2>. QED
    BY <2>1, <2>2, <2>3
<1>5. \A t \in Server, x \in Event : <<t, x>> \in publishing => x # ev
  <2>1. 1 \in 1 .. Len(inbox[s])
    BY <1>1, EmptySeq
  <2>. QED
    BY <2>1, <1>1 DEF Pipeline, AllUnfanned, OneFiber, FiberOrInbox, OneInbox
<1>6. /\ Claims' /\ Rows'
      /\ \A x \in Event \ {ev} : Unfanned(x) => Unfanned(x)'
  <2>1. CASE row' = FannedOut(ev) /\ ev \notin DirectEvent
    BY <1>1, <2>1, FanOut DEF Enqueue, history
  <2>2. CASE row' = row
    BY <2>2, ClaimsKept, RowsKept DEF Enqueue, history, Unfanned
  <2>. QED
    BY <2>1, <2>2 DEF Enqueue, ev, IsDeliverable
<1>7. publishing' = publishing
  BY DEF Enqueue
<1>8. \A t \in Server : \A i \in 1 .. Len(inbox'[t]) : Waits(inbox'[t][i])
  <2>1. \A x \in Event \ {ev} : Unfanned(x) => Waits(x)
    BY <1>6 DEF Unfanned, Waits
  <2>. QED
    BY <1>4, <2>1 DEF Pipeline, AllUnfanned, OneFiber, FiberOrInbox, OneInbox
<1>9. \A t, r \in Server : \A i \in 1 .. Len(inbox'[t]), j \in 1 .. Len(inbox'[r]) :
        inbox'[t][i] = inbox'[r][j] => t = r /\ i = j
  <2>1. SUFFICES ASSUME NEW t \in Server, NEW r \in Server, NEW i \in 1 .. Len(inbox'[t]),
                        NEW j \in 1 .. Len(inbox'[r]), inbox'[t][i] = inbox'[r][j]
                 PROVE  t = r /\ i = j
    OBVIOUS
  <2>2. from(t, i) = IF t = s THEN i + 1 ELSE i
    OBVIOUS
  <2>3. from(r, j) = IF r = s THEN j + 1 ELSE j
    OBVIOUS
  <2>. HIDE DEF from
  <2>4. /\ from(t, i) \in 1 .. Len(inbox[t]) /\ from(r, j) \in 1 .. Len(inbox[r])
        /\ inbox[t][from(t, i)] = inbox[r][from(r, j)]
    BY <1>4, <2>1
  <2>5. OneInbox
    BY DEF Pipeline
  <2>6. t = r /\ from(t, i) = from(r, j)
    BY <2>4, <2>5 DEF OneInbox
  <2>. QED
    BY <2>2, <2>3, <2>6
<1>10. \A t, r \in Server, x \in Event :
         <<t, x>> \in publishing => \A i \in 1 .. Len(inbox'[r]) : inbox'[r][i] # x
  <2>1. SUFFICES ASSUME NEW t \in Server, NEW r \in Server, NEW x \in Event,
                        <<t, x>> \in publishing, NEW i \in 1 .. Len(inbox'[r])
                 PROVE  inbox'[r][i] # x
    OBVIOUS
  <2>. HIDE DEF from
  <2>2. from(r, i) \in 1 .. Len(inbox[r]) /\ inbox'[r][i] = inbox[r][from(r, i)]
    BY <1>4
  <2>3. FiberOrInbox
    BY DEF Pipeline
  <2>. QED
    BY <2>1, <2>2, <2>3 DEF FiberOrInbox
<1>11. Pipeline'
  <2>1. AllUnfanned'
    BY <1>5, <1>6, <1>7, <1>8 DEF Pipeline, AllUnfanned, Waits, Unfanned
  <2>2. OneFiber'
    BY <1>7 DEF Pipeline, OneFiber
  <2>3. FiberOrInbox'
    BY <1>7, <1>10 DEF FiberOrInbox
  <2>4. OneInbox'
    BY <1>9 DEF OneInbox
  <2>. QED
    BY <2>1, <2>2, <2>3, <2>4 DEF Pipeline
<1>. QED
  BY <1>6, <1>11

LEMMA EnqueueFlagInv ==
  ASSUME QueueInv, WebhookAssumption, NEW s \in Server, NEW ev \in Event, EnqueueFlag(s, ev)
  PROVE  Pipeline' /\ Claims' /\ Rows'
<1>. USE DEF QueueInv
<1>1. Unfanned(ev) /\ ev \notin DirectEvent /\ publishing' = publishing \ {<<s, ev>>}
  BY DEF EnqueueFlag, Pipeline, AllUnfanned, OneFiber, FiberOrInbox, OneInbox, WebhookAssumption
<1>2. /\ Claims' /\ Rows'
      /\ \A x \in Event \ {ev} : Unfanned(x) => Unfanned(x)'
  <2>1. CASE row' = FannedOut(ev)
    BY <1>1, <2>1, FanOut DEF EnqueueFlag, history
  <2>2. CASE row' = row
    BY <2>2, ClaimsKept, RowsKept DEF EnqueueFlag, history, Unfanned
  <2>. QED
    BY <2>1, <2>2 DEF EnqueueFlag
<1>3. \A t \in Server : \A i \in 1 .. Len(inbox[t]) : inbox[t][i] \in Event \ {ev}
  BY DEF TypeOK, Event, EnqueueFlag, Pipeline, AllUnfanned, OneFiber, FiberOrInbox, OneInbox
<1>4. \A t \in Server, x \in Event : <<t, x>> \in publishing' => x # ev /\ <<t, x>> \in publishing
  BY <1>1 DEF EnqueueFlag, Pipeline, AllUnfanned, OneFiber, FiberOrInbox, OneInbox
<1>5. inbox' = inbox
  BY DEF EnqueueFlag
<1>6. Pipeline'
  BY <1>2, <1>3, <1>4, <1>5 DEF Pipeline, AllUnfanned, OneFiber, FiberOrInbox, OneInbox
<1>. QED
  BY <1>2, <1>6

LEMMA CrashInv ==
  ASSUME QueueInv, NEW s \in Server, Crash(s) \/ AbandonCycle(s)
  PROVE  Pipeline' /\ Claims' /\ Rows'
<1>. USE DEF QueueInv
<1>1. /\ Rows' /\ UNCHANGED <<row, endpoint, raised, lapses, accepted>>
      /\ \A t \in Server : held'[t] \subseteq held[t]
  BY RowsKept DEF Crash, AbandonCycle, pipeline, history, TypeOK
<1>2. Claims'
  BY <1>1 DEF Claims, GoodClaim, Sole
<1>3. CASE AbandonCycle(s)
  BY <1>1, <1>2, <1>3, PipelineKept DEF AbandonCycle
<1>4. CASE Crash(s)
  <2>1. \A x : Unfanned(x) => Waits(x)
    BY <1>1 DEF Unfanned, Waits
  <2>2. \A t \in Server : inbox'[t] = inbox[t] \/ Len(inbox'[t]) = 0
    <3>1. inbox' = [inbox EXCEPT ![s] = <<>>]
      BY <1>4 DEF Crash
    <3>2. inbox \in [Server -> Seq(Published)]
      BY DEF TypeOK
    <3>. QED
      BY <3>1, <3>2
  <2>3. publishing' \subseteq publishing
    BY <1>4 DEF Crash
  <2>4. \A t \in Server : \A i \in 1 .. Len(inbox'[t]) :
          inbox'[t] = inbox[t] /\ i \in 1 .. Len(inbox[t])
    BY <2>2
  <2>5. AllUnfanned'
    <3>1. \A t \in Server, ev \in Event : <<t, ev>> \in publishing' => Waits(ev)
      BY <2>1, <2>3 DEF Pipeline, AllUnfanned
    <3>2. \A t \in Server : \A i \in 1 .. Len(inbox'[t]) : Waits(inbox'[t][i])
      BY <2>1, <2>4 DEF Pipeline, AllUnfanned
    <3>. QED
      BY <3>1, <3>2 DEF AllUnfanned, Waits, Unfanned
  <2>6. OneFiber' /\ FiberOrInbox'
    BY <2>3, <2>4 DEF Pipeline, OneFiber, FiberOrInbox
  <2>7. OneInbox'
    BY <2>4 DEF Pipeline, OneInbox
  <2>. QED
    BY <1>1, <1>2, <2>5, <2>6, <2>7 DEF Pipeline
<1>. QED
  BY <1>3, <1>4

(* Steps of the registry and of the process.                               *)
LEMMA RegistryInv ==
  ASSUME QueueInv, Registry
  PROVE  Pipeline' /\ Claims' /\ Rows'
<1>. USE DEF QueueInv
<1>1. ASSUME NEW e \in Endpoint, NEW on \in {"enabled", "disabled"}, Register(e, on)
      PROVE  Pipeline' /\ Claims' /\ Rows'
  <2>1. /\ endpoint[e] = "absent" /\ endpoint'[e] = on
        /\ \A x \in Endpoint : x # e => endpoint'[x] = endpoint[x]
        /\ UNCHANGED <<row, pipeline, held, lapses, accepted>>
    BY <1>1 DEF Register, TypeOK, history
  <2>2. Pipeline'
    BY <2>1, PipelineKept
  <2>3. ASSUME NEW d \in Delivery PROVE GoodRow(d)'
    BY <2>1 DEF Rows, GoodRow, pipeline, Delivery
  <2>4. ASSUME NEW s \in Server, NEW c \in held[s] PROVE GoodClaim(s, c)'
    <3>1. c.d \in Delivery /\ c.d[2] \in Endpoint /\ GoodClaim(s, c) /\ GoodRow(c.d)
      BY ClaimTyped DEF Claims, Rows
    <3>. QED
      BY <2>1, <3>1 DEF GoodClaim, GoodRow, Sole
  <2>. QED
    BY <2>1, <2>2, <2>3, <2>4 DEF Claims, Rows
<1>2. ASSUME NEW e \in Endpoint, DeleteEndpoint(e)
      PROVE  Pipeline' /\ Claims' /\ Rows'
  <2>1. /\ endpoint'[e] = "deleted"
        /\ \A x \in Endpoint : x # e => endpoint'[x] = endpoint[x]
        /\ \A d \in Delivery : IF d[2] = e THEN row'[d].status = "none" ELSE row'[d] = row[d]
        /\ UNCHANGED <<pipeline, held, lapses, accepted>>
    BY <1>2 DEF DeleteEndpoint, TypeOK, NoRow, history
  <2>2. Pipeline'
    <3>1. \A d \in Delivery : row[d].status = "none" => row'[d].status = "none"
      BY <2>1
    <3>. QED
      BY <2>1, <3>1, PipelineKept
  <2>3. ASSUME NEW d \in Delivery PROVE GoodRow(d)'
    <3>1. GoodRow(d) /\ d[2] \in Endpoint
      BY DEF Rows, Delivery
    <3>2. CASE d[2] = e
      BY <2>1, <3>1, <3>2 DEF GoodRow
    <3>3. CASE d[2] # e
      BY <2>1, <3>1, <3>3 DEF GoodRow, pipeline
    <3>. QED
      BY <3>2, <3>3
  <2>4. ASSUME NEW s \in Server, NEW c \in held[s] PROVE GoodClaim(s, c)'
    <3>1. c.d \in Delivery /\ c.d[2] \in Endpoint /\ GoodClaim(s, c)
      BY ClaimTyped DEF Claims
    <3>2. CASE c.d[2] = e
      BY <2>1, <3>1, <3>2 DEF GoodClaim, Sole
    <3>3. CASE c.d[2] # e
      BY <2>1, <3>1, <3>3 DEF GoodClaim, Sole
    <3>. QED
      BY <3>2, <3>3
  <2>. QED
    BY <2>1, <2>2, <2>3, <2>4 DEF Claims, Rows
<1>. QED
  BY <1>1, <1>2 DEF Registry

LEMMA StartInv ==
  ASSUME QueueInv, NEW s \in Server, Start(s)
  PROVE  Pipeline' /\ Claims' /\ Rows'
BY PipelineKept, ClaimsKept, RowsKept DEF Start, QueueInv, history, pipeline

(* Steps of the dispatcher: reaping meets only deliveries whose deadline   *)
(* has passed, claiming only ones that nobody holds or whose deadline has. *)
LEMMA ReapInv ==
  ASSUME QueueInv, NEW s \in Server, ReapStuck(s)
  PROVE  Pipeline' /\ Claims' /\ Rows'
<1>. USE DEF QueueInv
<1>1. /\ \A d \in Delivery : ~Stuck(d) => row'[d] = row[d]
      /\ \A d \in Delivery :
           Stuck(d) => /\ row[d].status = "processing" /\ row'[d].status = "pending"
                       /\ lapses[d] # 0
      /\ UNCHANGED <<endpoint, pipeline, held, lapses, accepted>>
  <2>1. \A d \in Delivery : row'[d] = IF Stuck(d) THEN [row[d] EXCEPT !.status = "pending"] ELSE row[d]
    BY DEF ReapStuck
  <2>2. \A d \in Delivery : [row[d] EXCEPT !.status = "pending"].status = "pending"
    BY RowTyped DEF DeliveryRow
  <2>3. \A d \in Delivery : Stuck(d) => row[d].status = "processing" /\ lapses[d] # 0
    BY DEF Stuck, Rows, GoodRow
  <2>. QED
    BY <2>1, <2>2, <2>3 DEF ReapStuck, history
<1>2. Pipeline'
  <2>1. \A d \in Delivery : row[d].status = "none" => row'[d].status = "none"
    BY <1>1
  <2>. QED
    BY <1>1, <2>1, PipelineKept
<1>3. ASSUME NEW d \in Delivery PROVE GoodRow(d)'
  <2>1. GoodRow(d)
    BY DEF Rows
  <2>2. CASE Stuck(d)
    BY <1>1, <2>1, <2>2 DEF GoodRow, pipeline
  <2>3. CASE ~Stuck(d)
    BY <1>1, <2>1, <2>3 DEF GoodRow, pipeline
  <2>. QED
    BY <2>2, <2>3
<1>4. ASSUME NEW t \in Server, NEW c \in held[t] PROVE GoodClaim(t, c)'
  <2>1. c.d \in Delivery /\ GoodClaim(t, c)
    BY ClaimTyped DEF Claims
  <2>2. CASE Stuck(c.d)
    BY <1>1, <2>1, <2>2 DEF GoodClaim
  <2>3. CASE ~Stuck(c.d)
    BY <1>1, <2>1, <2>3 DEF GoodClaim, Sole
  <2>. QED
    BY <2>2, <2>3
<1>. QED
  BY <1>1, <1>2, <1>3, <1>4 DEF Claims, Rows

LEMMA ClaimInv ==
  ASSUME QueueInv, WebhookAssumption, NEW s \in Server, ClaimBatch(s)
  PROVE  Pipeline' /\ Claims' /\ Rows'
<1>. USE DEF QueueInv
<1>. DEFINE new(d) == [d |-> d, attempts |-> row[d].attempts + 1, at |-> "claimed"]
<1>1. PICK B \in SUBSET Claimable :
        /\ row' = Claimed(B)
        /\ held' = [held EXCEPT ![s] = {new(d) : d \in B}]
  BY DEF ClaimBatch
<1>2. /\ B \subseteq Delivery
      /\ \A d \in B : row[d].status = "pending" /\ row'[d].status = "processing"
                      /\ row'[d].attempts = row[d].attempts + 1 /\ row'[d].due = FALSE
      /\ \A d \in Delivery \ B : row'[d] = row[d]
      /\ UNCHANGED <<endpoint, pipeline, lapses, accepted>>
  BY <1>1 DEF Claimable, Claimed, ClaimBatch, history
<1>3. Pipeline'
  <2>1. \A d \in Delivery : row[d].status = "none" => row'[d].status = "none"
    BY <1>2
  <2>. QED
    BY <1>2, <2>1, PipelineKept
<1>4. ASSUME NEW d \in Delivery PROVE GoodRow(d)'
  <2>1. GoodRow(d) /\ row[d].attempts \in Nat /\ Backoff \in Nat
    BY RowTyped DEF Rows, WebhookAssumption
  <2>2. CASE d \in B
    BY <1>2, <2>1, <2>2 DEF GoodRow, pipeline
  <2>3. CASE d \notin B
    BY <1>2, <2>1, <2>3 DEF GoodRow, pipeline
  <2>. QED
    BY <2>2, <2>3
<1>5. /\ held'[s] = {new(d) : d \in B}
      /\ \A t \in Server : t # s => held'[t] = held[t]
  BY <1>1 DEF TypeOK
<1>6. \A t \in Server : \A c \in held[t] : c.d \in Delivery /\ GoodClaim(t, c)
                                            /\ (c.d \in B => lapses[c.d] # 0)
  <2>1. \A t \in Server : \A c \in held[t] : c.d \in Delivery /\ GoodClaim(t, c)
    BY ClaimTyped DEF Claims
  <2>. QED
    BY <2>1, <1>2 DEF GoodClaim
<1>7. ASSUME NEW t \in Server, NEW c \in held'[t] PROVE GoodClaim(t, c)'
  <2>1. CASE t = s
    <3>1. PICK d \in B : c = new(d)
      BY <1>5, <2>1
    <3>2. c.d = d /\ c.attempts = row[d].attempts + 1 /\ c.at = "claimed"
      BY <3>1
    <3>3. lapses[d] = 0 => Sole(t, c)'
      <4>1. SUFFICES ASSUME lapses[d] = 0, NEW r \in Server, NEW b \in held'[r], b.d = d
                     PROVE  r = s /\ b = c
        BY <2>1, <3>2 DEF Sole
      <4>2. CASE r # s
        BY <1>5, <1>6, <4>1, <4>2
      <4>3. CASE r = s
        <5>1. PICK x \in B : b = new(x)
          BY <1>5, <4>3
        <5>2. x = d
          BY <4>1, <5>1
        <5>. QED
          BY <3>1, <4>3, <5>1, <5>2
      <4>. QED
        BY <4>2, <4>3
    <3>. QED
      BY <1>2, <3>2, <3>3 DEF GoodClaim
  <2>2. CASE t # s
    <3>1. c \in held[t] /\ c.d \in Delivery /\ GoodClaim(t, c)
      BY <1>5, <1>6, <2>2
    <3>2. CASE c.d \in B
      BY <1>2, <1>6, <3>1, <3>2 DEF GoodClaim
    <3>3. CASE c.d \notin B
      <4>1. row'[c.d] = row[c.d]
        BY <1>2, <3>1, <3>3
      <4>2. Sole(t, c) => Sole(t, c)'
        <5>1. \A b \in held'[s] : b.d \in B
          BY <1>5
        <5>. QED
          BY <1>5, <5>1, <3>3 DEF Sole
      <4>. QED
        BY <1>2, <3>1, <4>1, <4>2 DEF GoodClaim
    <3>. QED
      BY <3>2, <3>3
  <2>. QED
    BY <2>1, <2>2
<1>. QED
  BY <1>3, <1>4, <1>7 DEF Claims, Rows

(* A claim that moves on remains the claim of its delivery.                *)
LEMMA MoveInv ==
  ASSUME QueueInv, NEW s \in Server, NEW c \in held[s],
         NEW at \in {"claimed", "posting", "ok", "failed"}, c.at # at,
         held' = Moved(s, c, at), at = "ok" => c.d \in accepted',
         accepted \subseteq accepted', UNCHANGED <<row, endpoint, pipeline, lapses>>
  PROVE  Pipeline' /\ Claims' /\ Rows'
<1>. USE DEF QueueInv
<1>. DEFINE k == [c EXCEPT !.at = at]
<1>1. Pipeline' /\ Rows'
  BY PipelineKept, RowsKept DEF pipeline
<1>2. c.d \in Delivery /\ c \in Claim /\ GoodClaim(s, c)
  BY ClaimTyped DEF Claims
<1>3. k.d = c.d /\ k.attempts = c.attempts /\ k.at = at
  BY <1>2 DEF Claim
<1>4. held' = [held EXCEPT ![s] = (held[s] \ {c}) \cup {k}]
  BY DEF Moved
<1>. HIDE DEF k
<1>5. /\ held'[s] = (held[s] \ {c}) \cup {k}
      /\ \A t \in Server : t # s => held'[t] = held[t]
  BY <1>4 DEF TypeOK
<1>6. ASSUME NEW t \in Server, NEW b \in held'[t] PROVE GoodClaim(t, b)'
  <2>1. CASE t = s /\ b = k
    <3>1. Sole(s, c) => Sole(s, k)'
      <4>1. SUFFICES ASSUME Sole(s, c), NEW r \in Server, NEW a \in held'[r], a.d = k.d
                     PROVE  r = s /\ a = k
        BY DEF Sole
      <4>2. CASE a = k /\ r = s
        BY <4>2
      <4>3. CASE a \in held[r] /\ (r = s => a # c)
        BY <1>3, <4>1, <4>3 DEF Sole
      <4>. QED
        BY <1>5, <4>2, <4>3
    <3>. QED
      BY <1>2, <1>3, <2>1, <3>1 DEF GoodClaim
  <2>2. CASE ~(t = s /\ b = k)
    <3>1. b \in held[t] /\ GoodClaim(t, b) /\ ~(t = s /\ b = c)
      BY <1>5, <2>2 DEF Claims
    <3>2. Sole(t, b) => Sole(t, b)'
      <4>1. SUFFICES ASSUME Sole(t, b), NEW r \in Server, NEW a \in held'[r], a.d = b.d
                     PROVE  r = t /\ a = b
        BY DEF Sole
      <4>2. CASE a = k /\ r = s
        BY <1>3, <3>1, <4>1, <4>2 DEF Sole
      <4>3. CASE a \in held[r]
        BY <4>1, <4>3 DEF Sole
      <4>. QED
        BY <1>5, <4>2, <4>3
    <3>. QED
      BY <3>1, <3>2 DEF GoodClaim
  <2>. QED
    BY <2>1, <2>2
<1>. QED
  BY <1>1, <1>6 DEF Claims

(* An outcome that arrives in time meets its own row, or none; one that    *)
(* arrives late is for a delivery whose deadline has passed.               *)
LEMMA SettleInv ==
  ASSUME QueueInv, WebhookAssumption, NEW s \in Server, NEW c \in held[s], Settle(s, c)
  PROVE  Pipeline' /\ Claims' /\ Rows'
<1>. USE DEF QueueInv
<1>1. /\ c.d \in Delivery /\ c.attempts \in Nat /\ c.at \in {"ok", "failed"}
      /\ GoodClaim(s, c) /\ GoodRow(c.d) /\ row[c.d].attempts \in Nat /\ Backoff \in Nat
  BY ClaimTyped, RowTyped DEF Settle, Claims, Rows, WebhookAssumption
<1>2. /\ Outcome(c) \in {"delivered", "dead", "pending"}
      /\ Outcome(c) = "delivered" => c.at = "ok"
      /\ Outcome(c) = "dead" => c.attempts > Backoff
      /\ Outcome(c) = "pending" => ~(c.attempts > Backoff)
  BY <1>1 DEF Outcome
<1>3. /\ \A d \in Delivery : d # c.d => row'[d] = row[d]
      /\ row[c.d].status = "none" => row'[c.d] = row[c.d]
      /\ row[c.d].status # "none" => /\ row'[c.d].status = Outcome(c)
                                     /\ row'[c.d].attempts = row[c.d].attempts
      /\ UNCHANGED <<endpoint, pipeline, lapses, accepted>>
  BY <1>1 DEF Settle, Settled, history
<1>4. /\ held'[s] = held[s] \ {c}
      /\ \A t \in Server : t # s => held'[t] = held[t]
  BY DEF Settle, TypeOK
<1>5. Pipeline'
  <2>1. \A d \in Delivery : row[d].status = "none" => row'[d].status = "none"
    BY <1>3
  <2>. QED
    BY <1>3, <2>1, PipelineKept
<1>6. ASSUME NEW d \in Delivery PROVE GoodRow(d)'
  <2>1. CASE d # c.d
    BY <1>3, <2>1 DEF Rows, GoodRow, pipeline
  <2>2. CASE d = c.d /\ row[d].status = "none"
    BY <1>1, <1>3, <2>2 DEF GoodRow, pipeline
  <2>3. CASE d = c.d /\ row[d].status # "none"
    <3>1. lapses[d] = 0 => row[d].attempts = c.attempts /\ row[d].attempts <= Backoff + 1
      BY <1>1, <2>3 DEF GoodClaim, GoodRow
    <3>2. /\ row'[d].status = Outcome(c) /\ row'[d].attempts = row[d].attempts
          /\ raised' = raised
      BY <1>3, <2>3 DEF pipeline
    <3>3. row'[d].status # "none" /\ row'[d].status # "processing"
      BY <1>2, <3>2
    <3>4. endpoint'[d[2]] = "enabled" /\ d[1] \in raised' \ DirectEvent
      BY <1>1, <1>3, <2>3, <3>2 DEF GoodRow
    <3>5. row'[d].status = "delivered" => d \in accepted'
      BY <1>1, <1>2, <1>3, <2>3, <3>2 DEF GoodClaim
    <3>6. lapses'[d] = 0 =>
            /\ row'[d].status = "pending" => row'[d].attempts <= Backoff
            /\ row'[d].status = "dead" => row'[d].attempts = Backoff + 1
      BY <1>1, <1>2, <1>3, <2>3, <3>1, <3>2
    <3>. QED
      BY <3>3, <3>4, <3>5, <3>6 DEF GoodRow
  <2>. QED
    BY <2>1, <2>2, <2>3
<1>7. ASSUME NEW t \in Server, NEW b \in held'[t] PROVE GoodClaim(t, b)'
  <2>1. b \in held[t] /\ ~(t = s /\ b = c) /\ b.d \in Delivery /\ GoodClaim(t, b)
    BY <1>4, ClaimTyped DEF Claims
  <2>2. Sole(t, b) => Sole(t, b)'
    BY <1>4 DEF Sole
  <2>3. CASE b.d # c.d
    BY <1>3, <2>1, <2>2, <2>3 DEF GoodClaim
  <2>4. CASE b.d = c.d
    <3>1. lapses[c.d] # 0
      BY <1>1, <2>1, <2>4 DEF GoodClaim, Sole
    <3>2. row'[b.d].status = "none" => row[b.d].status = "none"
      BY <1>2, <1>3, <2>4
    <3>. QED
      BY <1>3, <2>1, <2>4, <3>1, <3>2 DEF GoodClaim
  <2>. QED
    BY <2>3, <2>4
<1>. QED
  BY <1>5, <1>6, <1>7 DEF Claims, Rows

LEMMA ProcessInv ==
  ASSUME QueueInv, WebhookAssumption, NEW s \in Server, NEW c \in held[s],
         ReadEndpoint(s, c) \/ Post(s, c) \/ Settle(s, c)
  PROVE  Pipeline' /\ Claims' /\ Rows'
<1>1. CASE ReadEndpoint(s, c)
  <2>1. PICK at \in {"posting", "failed"} : held' = Moved(s, c, at)
    BY <1>1 DEF ReadEndpoint
  <2>2. c.at # at /\ UNCHANGED <<row, endpoint, pipeline, lapses, accepted>>
    BY <1>1, <2>1 DEF ReadEndpoint, history
  <2>. QED
    BY <2>1, <2>2, MoveInv
<1>2. CASE Post(s, c)
  <2>1. PICK at \in {"ok", "failed"} :
          held' = Moved(s, c, at) /\ (at = "ok" => c.d \in accepted')
    BY <1>2 DEF Post
  <2>2. c.at # at /\ accepted \subseteq accepted' /\ UNCHANGED <<row, endpoint, pipeline, lapses>>
    BY <1>2, <2>1 DEF Post
  <2>. QED
    BY <2>1, <2>2, MoveInv
<1>3. CASE Settle(s, c)
  BY <1>3, SettleInv
<1>. QED
  BY <1>1, <1>2, <1>3

(* Time and the operator.                                                  *)
LEMMA ElapseInv ==
  ASSUME QueueInv, NEW d \in Delivery, Elapse(d)
  PROVE  Pipeline' /\ Claims' /\ Rows'
<1>. USE DEF QueueInv
<1>1. /\ \A x \in Delivery : x # d => row'[x] = row[x] /\ lapses'[x] = lapses[x]
      /\ row'[d].status = row[d].status /\ row'[d].attempts = row[d].attempts
      /\ row[d].status \in {"pending", "processing"}
      /\ UNCHANGED <<endpoint, pipeline, held, accepted>>
  <2>. DEFINE new == [row[d] EXCEPT !.due = TRUE]
  <2>1. new.status = row[d].status /\ new.attempts = row[d].attempts
    BY RowTyped DEF DeliveryRow
  <2>2. row' = [row EXCEPT ![d] = new]
    BY DEF Elapse
  <2>. HIDE DEF new
  <2>3. lapses' \in {lapses, [lapses EXCEPT ![d] = @ + 1]}
    BY DEF Elapse
  <2>4. row[d].status \in {"pending", "processing"}
        /\ UNCHANGED <<endpoint, pipeline, held, accepted>>
    BY DEF Elapse
  <2>. QED
    BY <2>1, <2>2, <2>3, <2>4 DEF TypeOK
<1>2. /\ row[d].status = "processing" => lapses'[d] = lapses[d] + 1
      /\ row[d].status # "processing" => lapses'[d] = lapses[d]
      /\ lapses[d] \in Nat
  <2>1. /\ row[d].status = "processing" => lapses' = [lapses EXCEPT ![d] = lapses[d] + 1]
        /\ row[d].status # "processing" => lapses' = lapses
    BY DEF Elapse
  <2>. QED
    BY <2>1 DEF TypeOK
<1>3. Pipeline'
  <2>1. \A x \in Delivery : row[x].status = "none" => row'[x].status = "none"
    BY <1>1
  <2>. QED
    BY <1>1, <2>1, PipelineKept
<1>4. ASSUME NEW x \in Delivery PROVE GoodRow(x)'
  <2>1. GoodRow(x)
    BY DEF Rows
  <2>2. CASE x # d
    BY <1>1, <2>1, <2>2 DEF GoodRow, pipeline
  <2>3. CASE x = d
    BY <1>1, <1>2, <2>1, <2>3 DEF GoodRow, pipeline
  <2>. QED
    BY <2>2, <2>3
<1>5. ASSUME NEW t \in Server, NEW c \in held[t] PROVE GoodClaim(t, c)'
  <2>1. c.d \in Delivery /\ GoodClaim(t, c)
    BY ClaimTyped DEF Claims
  <2>2. CASE c.d # d
    BY <1>1, <2>1, <2>2 DEF GoodClaim, Sole
  <2>3. CASE c.d = d
    BY <1>1, <1>2, <2>1, <2>3 DEF GoodClaim, Sole
  <2>. QED
    BY <2>2, <2>3
<1>. QED
  BY <1>1, <1>3, <1>4, <1>5 DEF Claims, Rows

LEMMA ReplayInv ==
  ASSUME QueueInv, WebhookAssumption, NEW d \in Delivery, Replay(d)
  PROVE  Pipeline' /\ Claims' /\ Rows'
<1>. USE DEF QueueInv
<1>1. /\ \A x \in Delivery : x # d => row'[x] = row[x]
      /\ row'[d].status = "pending" /\ row'[d].attempts = 0 /\ row[d].status = "dead"
      /\ UNCHANGED <<endpoint, pipeline, held, lapses, accepted>>
  BY DEF Replay, TypeOK, history
<1>2. Pipeline'
  <2>1. \A x \in Delivery : row[x].status = "none" => row'[x].status = "none"
    BY <1>1
  <2>. QED
    BY <1>1, <2>1, PipelineKept
<1>3. ASSUME NEW x \in Delivery PROVE GoodRow(x)'
  <2>1. GoodRow(x) /\ Backoff \in Nat
    BY DEF Rows, WebhookAssumption
  <2>2. CASE x # d
    BY <1>1, <2>1, <2>2 DEF GoodRow, pipeline
  <2>3. CASE x = d
    BY <1>1, <2>1, <2>3 DEF GoodRow, pipeline
  <2>. QED
    BY <2>2, <2>3
<1>4. ASSUME NEW t \in Server, NEW c \in held[t] PROVE GoodClaim(t, c)'
  <2>1. c.d \in Delivery /\ GoodClaim(t, c)
    BY ClaimTyped DEF Claims
  <2>2. CASE c.d # d
    BY <1>1, <2>1, <2>2 DEF GoodClaim, Sole
  <2>3. CASE c.d = d
    BY <1>1, <2>1, <2>3 DEF GoodClaim, Sole
  <2>. QED
    BY <2>2, <2>3
<1>. QED
  BY <1>1, <1>2, <1>3, <1>4 DEF Claims, Rows

(* The invariant is inductive.                                             *)
LEMMA QueueNext ==
  ASSUME QueueInv, WebhookAssumption, [Next]_vars
  PROVE  QueueInv'
<1>1. TypeOK'
  BY TypeNext DEF QueueInv
<1>2. Pipeline' /\ Claims' /\ Rows'
  <2>1. CASE UNCHANGED vars
    BY <2>1, PipelineKept, ClaimsKept, RowsKept DEF vars, pipeline, history, QueueInv
  <2>2. CASE Next
    BY <2>2, RegistryInv, RaiseInv, PublishInv, EnqueueInv, EnqueueFlagInv, ReapInv,
       ClaimInv, ProcessInv, StartInv, CrashInv, ElapseInv, ReplayInv
       DEF Next, Work
  <2>. QED
    BY <2>1, <2>2
<1>. QED
  BY <1>1, <1>2 DEF QueueInv

LEMMA QueueAlways == Spec => []QueueInv
<1>1. Init /\ TypeOK => QueueInv
  <2>1. SUFFICES ASSUME Init, TypeOK PROVE Pipeline /\ Claims /\ Rows
    BY DEF QueueInv
  <2>2. Pipeline
    BY <2>1 DEF Init, Pipeline, AllUnfanned, OneFiber, FiberOrInbox, OneInbox
  <2>3. Claims
    BY <2>1 DEF Init, Claims
  <2>4. Rows
    BY <2>1 DEF Init, Rows, GoodRow, NoRow
  <2>. QED
    BY <2>2, <2>3, <2>4
<1>2. QueueInv /\ [Next]_vars => QueueInv'
  BY QueueNext, WebhookAssumption
<1>. QED
  BY <1>1, <1>2, QueueTypeCorrect, PTL DEF Spec

-----------------------------------------------------------------------------
(* Every delivery row belongs to a registered, enabled endpoint and to a   *)
(* committed event of a deliverable kind.                                  *)
THEOREM QueueRowsHaveCause == Spec => []RowsHaveCause
<1>1. QueueInv => RowsHaveCause
  BY DEF QueueInv, Rows, GoodRow, RowsHaveCause
<1>. QED
  BY <1>1, QueueAlways, PTL

(* A delivered row was answered with a 2xx, however many processes and     *)
(* late outcomes wrote to it.                                              *)
THEOREM QueueDeliveredWasAccepted == Spec => []DeliveredWasAccepted
<1>1. QueueInv => DeliveredWasAccepted
  BY DEF QueueInv, Rows, GoodRow, DeliveredWasAccepted
<1>. QED
  BY <1>1, QueueAlways, PTL

(* While no deadline has passed on a delivery, its dead letter is the end  *)
(* of exactly one ladder.                                                  *)
THEOREM QueueDeadAfterLadder == Spec => []DeadAfterLadder
<1>1. QueueInv => DeadAfterLadder
  BY DEF QueueInv, Rows, GoodRow, DeadAfterLadder
<1>. QED
  BY <1>1, QueueAlways, PTL

(* While no deadline has passed on a delivery, one process at most has it  *)
(* in hand.                                                                *)
THEOREM QueueClaimedOnce == Spec => []ClaimedOnce
<1>1. QueueInv => ClaimedOnce
  <2>1. SUFFICES ASSUME QueueInv, NEW d \in Delivery, lapses[d] = 0
                 PROVE  Cardinality(Holders(d)) <= 1
    BY DEF ClaimedOnce
  <2>2. \A s, t \in Holders(d) : s = t
    BY <2>1 DEF Holders, QueueInv, Claims, GoodClaim, Sole
  <2>3. CASE Holders(d) = {}
    BY <2>3, FS_EmptySet
  <2>4. CASE Holders(d) # {}
    <3>1. PICK s : Holders(d) = {s}
      BY <2>2, <2>4
    <3>2. Cardinality(Holders(d)) = 1
      BY <3>1, FS_Singleton
    <3>. QED
      BY <3>2
  <2>. QED
    BY <2>3, <2>4
<1>. QED
  BY <1>1, QueueAlways, PTL

(* While no deadline has passed on a delivery, "delivered" is final: no    *)
(* other process, retry, reaper or second fan-out takes it back.           *)
THEOREM QueueDeliveredStays == Spec => DeliveredStays
<1>. DEFINE Kept(d) == row[d].status = "delivered" /\ lapses[d] = 0
                         => row'[d].status = "delivered" \/ endpoint'[d[2]] = "deleted"
<1>1. ASSUME QueueInv, QueueInv', WebhookAssumption, [Next]_vars, NEW d \in Delivery,
             row[d].status = "delivered", lapses[d] = 0
      PROVE  row'[d].status = "delivered" \/ endpoint'[d[2]] = "deleted"
  <2>. USE DEF QueueInv
  <2>1. \A s \in Server : \A c \in held[s] : c.d # d
    BY <1>1 DEF Claims, GoodClaim
  <2>2. d \in Delivery /\ d = <<d[1], d[2]>> /\ d[2] \in Endpoint
    BY <1>1 DEF Delivery
  <2>3. CASE row' = row
    BY <1>1, <2>3
  <2>4. ASSUME NEW e \in Endpoint, DeleteEndpoint(e)
        PROVE  row'[d].status = "delivered" \/ endpoint'[d[2]] = "deleted"
    BY <1>1, <2>2, <2>4 DEF DeleteEndpoint, TypeOK
  <2>5. ASSUME NEW ev \in Event, Unfanned(ev), row' = FannedOut(ev)
        PROVE  row'[d] = row[d]
    <3>1. d[1] # ev
      BY <1>1, <2>2, <2>5 DEF Unfanned
    <3>. QED
      BY <2>5, <3>1 DEF FannedOut
  <2>6. ASSUME NEW s \in Server, Enqueue(s)
        PROVE  row' = row \/ row'[d] = row[d]
    <3>1. /\ inbox[s] \in Seq(Published) /\ inbox[s] # <<>>
      BY <1>1, <2>6 DEF TypeOK, Enqueue
    <3>2. 1 \in 1 .. Len(inbox[s]) /\ Head(inbox[s]) = inbox[s][1] /\ Head(inbox[s]) \in Event
      BY <3>1, HeadTailProperties, EmptySeq DEF Event
    <3>3. Unfanned(Head(inbox[s]))
      BY <1>1, <3>2 DEF Pipeline, AllUnfanned
    <3>4. row' = row \/ row' = FannedOut(Head(inbox[s]))
      BY <2>6 DEF Enqueue
    <3>. QED
      BY <2>5, <3>2, <3>3, <3>4
  <2>7. ASSUME NEW s \in Server, NEW ev \in Event, EnqueueFlag(s, ev)
        PROVE  row' = row \/ row'[d] = row[d]
    <3>1. Unfanned(ev) /\ row' \in {row, FannedOut(ev)}
      BY <1>1, <2>7 DEF EnqueueFlag, Pipeline, AllUnfanned
    <3>. QED
      BY <2>5, <3>1
  <2>8. ASSUME NEW s \in Server, ReapStuck(s) PROVE row'[d] = row[d]
    BY <1>1, <2>8 DEF ReapStuck, Stuck
  <2>9. ASSUME NEW s \in Server, ClaimBatch(s) PROVE row'[d] = row[d]
    <3>1. PICK B \in SUBSET Claimable : row' = Claimed(B)
      BY <2>9 DEF ClaimBatch
    <3>2. d \notin B
      BY <1>1, <3>1 DEF Claimable
    <3>. QED
      BY <1>1, <3>1, <3>2 DEF Claimed
  <2>10. ASSUME NEW s \in Server, NEW c \in held[s], Settle(s, c) PROVE row'[d] = row[d]
    BY <1>1, <2>1, <2>10 DEF Settle, Settled
  <2>11. ASSUME NEW x \in Delivery, Elapse(x) \/ Replay(x) PROVE row'[d] = row[d]
    <3>1. row[x].status # "delivered"
      BY <2>11 DEF Elapse, Replay
    <3>2. PICK new : row' = [row EXCEPT ![x] = new]
      <4>1. CASE Elapse(x)
        <5>. WITNESS [row[x] EXCEPT !.due = TRUE]
        <5>. QED
          BY <4>1 DEF Elapse
      <4>2. CASE Replay(x)
        <5>. WITNESS [status |-> "pending", attempts |-> 0, due |-> TRUE]
        <5>. QED
          BY <4>2 DEF Replay
      <4>. QED
        BY <2>11, <4>1, <4>2
    <3>. QED
      BY <1>1, <3>1, <3>2 DEF TypeOK
  <2>12. \/ UNCHANGED vars
         \/ \E e \in Endpoint : DeleteEndpoint(e)
         \/ \E s \in Server : \/ Enqueue(s) \/ ReapStuck(s) \/ ClaimBatch(s)
                              \/ \E ev \in Event : EnqueueFlag(s, ev)
                              \/ \E c \in held[s] : Settle(s, c)
         \/ \E x \in Delivery : Elapse(x) \/ Replay(x)
         \/ row' = row
    <3>1. \A e \in Endpoint, on \in {"enabled", "disabled"} : Register(e, on) => row' = row
      BY DEF Register
    <3>2. \A s \in Server, ev \in Event : Raise(s, ev) \/ Publish(s, ev) => row' = row
      BY DEF Raise, Publish
    <3>3. \A s \in Server : Start(s) \/ AbandonCycle(s) \/ Crash(s) => row' = row
      BY DEF Start, AbandonCycle, Crash
    <3>4. \A s \in Server : \A c \in held[s] : ReadEndpoint(s, c) \/ Post(s, c) => row' = row
      BY DEF ReadEndpoint, Post
    <3>. QED
      BY <1>1, <3>1, <3>2, <3>3, <3>4 DEF Next, Work, Registry
  <2>. QED
    BY <1>1, <2>3, <2>4, <2>6, <2>7, <2>8, <2>9, <2>10, <2>11, <2>12 DEF vars
<1>2. QueueInv /\ QueueInv' /\ [Next]_vars => [\A d \in Delivery : Kept(d)]_vars
  BY <1>1, WebhookAssumption
<1>. QED
  BY <1>2, QueueAlways, PTL DEF Spec, DeliveredStays
=============================================================================
