---------------------------- MODULE WebhookQueue ----------------------------
(***************************************************************************)
(* The webhook pipeline.  A committed change is published on the in-memory *)
(* backplane; one subscriber per process fans it out into delivery rows in *)
(* Postgres; the dispatcher of each process claims due rows, posts them    *)
(* and writes each outcome back.  Rows survive a crash, everything else is *)
(* memory.  Two servers are two processes on one database, as during a     *)
(* rolling restart.                                                        *)
(*                                                                         *)
(* A row is due when next_attempt_at has passed.  Time is what makes a row *)
(* due, at any moment: no order of two deadlines is assumed.               *)
(***************************************************************************)
EXTENDS Naturals, FiniteSets, Sequences

CONSTANTS
  Server,
  Endpoint,
  ChannelEvent,   \* persisted events of a whole channel
  DirectEvent,    \* user-directed and ephemeral ones: not deliverable
  FlagEvent,      \* user.flagged, enqueued by the moderation service itself
  Backoff,        \* the number of retries: WebhookConfig.backoff.length
  BatchSize,
  MaxQueued,      \* the capacity of the subscriber's queue
  MaxFailures,    \* bounds crashes and failed poll cycles
  MaxSlow,        \* bounds deadlines that pass under a live worker
  MaxReplays

ASSUME WebhookAssumption ==
  /\ BatchSize \in Nat \ {0} /\ Backoff \in Nat
  /\ MaxFailures \in Nat /\ MaxSlow \in Nat /\ MaxReplays \in Nat
  /\ ChannelEvent \cap DirectEvent = {}
  /\ (ChannelEvent \cup DirectEvent) \cap FlagEvent = {}

Published == ChannelEvent \cup DirectEvent
Event == Published \cup FlagEvent
Delivery == Event \X Endpoint

Status == {"none", "pending", "processing", "delivered", "dead"}
DeliveryRow == [status : Status, attempts : Nat, due : BOOLEAN]
NoRow == [status |-> "none", attempts |-> 0, due |-> FALSE]

(* A claimed delivery and how far process() is with it.                    *)
Claim == [d : Delivery, attempts : Nat,
          at : {"claimed", "posting", "ok", "failed"}]

VARIABLES
  endpoint,    \* [Endpoint -> its row: absent, enabled, disabled or deleted]
  row,         \* [Delivery -> its webhook_deliveries row]
  raised,      \* events whose change has been committed
  publishing,  \* <<server, event>>: fibers between the commit and the publish
  inbox,       \* [Server -> the enqueue subscriber's queue]
  phase,       \* [Server -> what its worker streams are doing]
  held,        \* [Server -> the claims of the running poll cycle]
  failures, slow, replays,   \* counts, for the bounds
  accepted,    \* history: deliveries an endpoint answered with a 2xx
  lapses       \* history: [Delivery -> deadlines that passed in processing]

pipeline == <<raised, publishing, inbox>>
history == <<accepted, lapses>>
vars == <<endpoint, row, pipeline, phase, held, failures, slow, replays, history>>

TypeOK ==
  /\ endpoint \in [Endpoint -> {"absent", "enabled", "disabled", "deleted"}]
  /\ row \in [Delivery -> DeliveryRow]
  /\ raised \subseteq Event
  /\ publishing \subseteq Server \X Event
  /\ inbox \in [Server -> Seq(Published)]
  /\ phase \in [Server -> {"down", "idle", "reaped", "delivering"}]
  /\ held \in [Server -> SUBSET Claim]
  /\ failures \in Nat /\ slow \in Nat /\ replays \in Nat
  /\ accepted \subseteq Delivery
  /\ lapses \in [Delivery -> Nat]

Init ==
  /\ endpoint = [e \in Endpoint |-> "absent"]
  /\ row = [d \in Delivery |-> NoRow]
  /\ raised = {} /\ publishing = {}
  /\ inbox = [s \in Server |-> <<>>]
  /\ phase = [s \in Server |-> "down"]
  /\ held = [s \in Server |-> {}]
  /\ failures = 0 /\ slow = 0 /\ replays = 0
  /\ accepted = {} /\ lapses = [d \in Delivery |-> 0]

-----------------------------------------------------------------------------
(* The registry.  An endpoint's id is fresh; no call changes "enabled".    *)

Register(e, enabled) ==
  /\ endpoint[e] = "absent"
  /\ endpoint' = [endpoint EXCEPT ![e] = enabled]
  /\ UNCHANGED <<row, pipeline, phase, held, failures, slow, replays, history>>

(* The foreign key cascades to the endpoint's deliveries.                  *)
DeleteEndpoint(e) ==
  /\ endpoint[e] \in {"enabled", "disabled"}
  /\ endpoint' = [endpoint EXCEPT ![e] = "deleted"]
  /\ row' = [d \in Delivery |-> IF d[2] = e THEN NoRow ELSE row[d]]
  /\ UNCHANGED <<pipeline, phase, held, failures, slow, replays, history>>

-----------------------------------------------------------------------------
(* From a committed change to delivery rows.  The HTTP server takes        *)
(* requests before the worker streams run, so a server that is "down" here *)
(* may still commit and publish.                                           *)

Raise(s, ev) ==
  /\ ev \notin raised
  /\ raised' = raised \cup {ev}
  /\ publishing' = publishing \cup {<<s, ev>>}
  /\ UNCHANGED <<endpoint, row, inbox, phase, held, failures, slow, replays, history>>

(* Publishing waits for room in the subscriber's queue, if there is one.   *)
Publish(s, ev) ==
  /\ <<s, ev>> \in publishing /\ ev \in Published
  /\ publishing' = publishing \ {<<s, ev>>}
  /\ \/ /\ phase[s] # "down" /\ Len(inbox[s]) < MaxQueued
        /\ inbox' = [inbox EXCEPT ![s] = Append(@, ev)]
     \/ phase[s] = "down" /\ UNCHANGED inbox
  /\ UNCHANGED <<endpoint, row, raised, phase, held, failures, slow, replays, history>>

(* Wrong variant: also endpoints that are registered but not enabled.      *)
FannedOutToAll(ev) ==
  [d \in Delivery |-> IF d[1] = ev /\ endpoint[d[2]] # "absent"
                        THEN [status |-> "pending", attempts |-> 0, due |-> TRUE]
                        ELSE row[d]]

(* One pending, due row per enabled endpoint.                              *)
FannedOut(ev) ==
  [d \in Delivery |-> IF d[1] = ev /\ endpoint[d[2]] = "enabled"
                        THEN [status |-> "pending", attempts |-> 0, due |-> TRUE]
                        ELSE row[d]]

IsDeliverable(ev) == ev \notin DirectEvent

Enqueue(s) ==
  /\ inbox[s] # <<>>
  /\ inbox' = [inbox EXCEPT ![s] = Tail(@)]
  /\ row' = IF IsDeliverable(Head(inbox[s])) THEN FannedOut(Head(inbox[s])) ELSE row
  /\ UNCHANGED <<endpoint, raised, publishing, phase, held, failures, slow, replays, history>>

(* The moderation service enqueues in the request's fiber, which may fail  *)
(* after the flag is stored: the request then fails and nothing retries.   *)
EnqueueFlag(s, ev) ==
  /\ <<s, ev>> \in publishing /\ ev \in FlagEvent
  /\ publishing' = publishing \ {<<s, ev>>}
  /\ row' \in {row, FannedOut(ev)}
  /\ UNCHANGED <<endpoint, raised, inbox, phase, held, failures, slow, replays, history>>

-----------------------------------------------------------------------------
(* One poll cycle: reap, claim, then each claim for itself.                *)

(* Wrong variants: claims are taken back at once, or never.                *)
StuckAtOnce(d) == row[d].status = "processing"
StuckNever(d) == FALSE

Stuck(d) == row[d].status = "processing" /\ row[d].due

ReapStuck(s) ==
  /\ phase[s] = "idle"
  /\ phase' = [phase EXCEPT ![s] = "reaped"]
  /\ row' = [d \in Delivery |->
               IF Stuck(d) THEN [row[d] EXCEPT !.status = "pending"] ELSE row[d]]
  /\ UNCHANGED <<endpoint, pipeline, held, failures, slow, replays, history>>

Claimable == {d \in Delivery : row[d].status = "pending" /\ row[d].due}

(* Wrong variants: a status the table's check forbids; a claim that only   *)
(* moves the deadline.                                                     *)
ClaimedUnknown(B) ==
  [d \in Delivery |->
     IF d \in B THEN [status |-> "claimed", attempts |-> row[d].attempts + 1,
                      due |-> FALSE]
                ELSE row[d]]
ClaimedPending(B) ==
  [d \in Delivery |->
     IF d \in B THEN [status |-> "pending", attempts |-> row[d].attempts + 1,
                      due |-> FALSE]
                ELSE row[d]]

Claimed(B) ==
  [d \in Delivery |->
     IF d \in B THEN [status |-> "processing", attempts |-> row[d].attempts + 1,
                      due |-> FALSE]
                ELSE row[d]]

(* As many due rows as the batch holds: which ones is decided by times     *)
(* that the model leaves out.                                              *)
ClaimBatch(s) ==
  /\ phase[s] = "reaped"
  /\ \E B \in SUBSET Claimable :
       /\ \/ B = Claimable /\ Cardinality(B) <= BatchSize
          \/ Cardinality(B) = BatchSize
       /\ row' = Claimed(B)
       /\ held' = [held EXCEPT ![s] =
                     {[d |-> d, attempts |-> row[d].attempts + 1,
                       at |-> "claimed"] : d \in B}]
       /\ phase' = [phase EXCEPT ![s] = IF B = {} THEN "idle" ELSE "delivering"]
  /\ UNCHANGED <<endpoint, pipeline, failures, slow, replays, history>>

Moved(s, c, at) == [held EXCEPT ![s] = (@ \ {c}) \cup {[c EXCEPT !.at = at]}]

(* The endpoint is read again before the request goes out.                 *)
ReadEndpoint(s, c) ==
  /\ c.at = "claimed"
  /\ held' = Moved(s, c, IF endpoint[c.d[2]] = "enabled" THEN "posting" ELSE "failed")
  /\ UNCHANGED <<endpoint, row, pipeline, phase, failures, slow, replays, history>>

(* Wrong variant: any answer counts as success.                            *)
PostAnyStatus(s, c) ==
  /\ c.at = "posting"
  /\ \/ held' = Moved(s, c, "ok") /\ accepted' \in {accepted, accepted \cup {c.d}}
     \/ held' = Moved(s, c, "failed") /\ UNCHANGED accepted
  /\ UNCHANGED <<endpoint, row, pipeline, phase, failures, slow, replays, lapses>>

(* The endpoint takes the request and its 2xx arrives; it takes it and the *)
(* answer is lost or too late; or it refuses it or is never reached.       *)
Post(s, c) ==
  /\ c.at = "posting"
  /\ \/ held' = Moved(s, c, "ok") /\ accepted' = accepted \cup {c.d}
     \/ held' = Moved(s, c, "failed") /\ accepted' \in {accepted, accepted \cup {c.d}}
  /\ UNCHANGED <<endpoint, row, pipeline, phase, failures, slow, replays, lapses>>

(* Wrong variant: the ladder is one step too short.                        *)
OutcomeEarly(c) ==
  CASE c.at = "ok" -> "delivered"
    [] c.at = "failed" /\ c.attempts >= Backoff -> "dead"
    [] OTHER -> "pending"

(* fail(): past the ladder the delivery is a dead letter, before it the    *)
(* next attempt waits.  The statements name the row by its id alone.       *)
Outcome(c) ==
  CASE c.at = "ok" -> "delivered"
    [] c.at = "failed" /\ c.attempts > Backoff -> "dead"
    [] OTHER -> "pending"

Settled(c) ==
  [d \in Delivery |->
     IF d = c.d /\ row[d].status # "none"
       THEN [status |-> Outcome(c), attempts |-> row[d].attempts,
             due |-> row[d].due /\ Outcome(c) # "pending"]
       ELSE row[d]]

Settle(s, c) ==
  /\ c.at \in {"ok", "failed"}
  /\ row' = Settled(c)
  /\ held' = [held EXCEPT ![s] = @ \ {c}]
  /\ phase' = [phase EXCEPT ![s] = IF held[s] = {c} THEN "idle" ELSE @]
  /\ UNCHANGED <<endpoint, pipeline, failures, slow, replays, history>>

(* A database error in a cycle cancels the rest of it; the stream goes on. *)
AbandonCycle(s) ==
  /\ phase[s] \in {"reaped", "delivering"} /\ failures < MaxFailures
  /\ failures' = failures + 1
  /\ held' = [held EXCEPT ![s] = {}]
  /\ phase' = [phase EXCEPT ![s] = "idle"]
  /\ UNCHANGED <<endpoint, row, pipeline, slow, replays, history>>

-----------------------------------------------------------------------------
(* The process: an error of the enqueue stream ends it like a crash does.  *)

Start(s) ==
  /\ phase[s] = "down"
  /\ phase' = [phase EXCEPT ![s] = "idle"]
  /\ UNCHANGED <<endpoint, row, pipeline, held, failures, slow, replays, history>>

Crash(s) ==
  /\ phase[s] # "down" /\ failures < MaxFailures
  /\ failures' = failures + 1
  /\ phase' = [phase EXCEPT ![s] = "down"]
  /\ held' = [held EXCEPT ![s] = {}]
  /\ inbox' = [inbox EXCEPT ![s] = <<>>]
  /\ publishing' = {p \in publishing : p[1] # s}
  /\ UNCHANGED <<endpoint, row, raised, slow, replays, history>>

(* Time reaches next_attempt_at.  A claim whose worker is still at it is   *)
(* a slow worker, and there are at most MaxSlow of those.                  *)
InHand(d) == \E s \in Server : \E c \in held[s] : c.d = d

Elapse(d) ==
  /\ row[d].status \in {"pending", "processing"} /\ ~row[d].due
  /\ row' = [row EXCEPT ![d] = [@ EXCEPT !.due = TRUE]]
  /\ \/ /\ row[d].status = "processing" /\ ~InHand(d)
        /\ lapses' = [lapses EXCEPT ![d] = @ + 1] /\ UNCHANGED slow
     \/ /\ row[d].status = "processing" /\ InHand(d) /\ slow < MaxSlow
        /\ lapses' = [lapses EXCEPT ![d] = @ + 1] /\ slow' = slow + 1
     \/ row[d].status = "pending" /\ UNCHANGED <<lapses, slow>>
  /\ UNCHANGED <<endpoint, pipeline, phase, held, failures, replays, accepted>>

(* An operator requeues a dead letter.                                     *)
Replay(d) ==
  /\ row[d].status = "dead" /\ replays < MaxReplays
  /\ replays' = replays + 1
  /\ row' = [row EXCEPT ![d] = [status |-> "pending", attempts |-> 0, due |-> TRUE]]
  /\ UNCHANGED <<endpoint, pipeline, phase, held, failures, slow, history>>

-----------------------------------------------------------------------------
Registry ==
  \E e \in Endpoint : \/ \E enabled \in {"enabled", "disabled"} : Register(e, enabled)
                      \/ DeleteEndpoint(e)

Work(s) ==
  \/ \E ev \in Event : Publish(s, ev) \/ EnqueueFlag(s, ev)
  \/ Enqueue(s)
  \/ ReapStuck(s)
  \/ ClaimBatch(s)
  \/ \E c \in held[s] : ReadEndpoint(s, c) \/ Post(s, c) \/ Settle(s, c)
  \/ Start(s)

Next ==
  \/ Registry
  \/ \E s \in Server : \/ \E ev \in Event : Raise(s, ev)
                       \/ Work(s)
                       \/ AbandonCycle(s)
                       \/ Crash(s)
  \/ \E d \in Delivery : Elapse(d) \/ Replay(d)

Spec == Init /\ [][Next]_vars

-----------------------------------------------------------------------------
(* Safety *)

Holders(d) == {s \in Server : \E c \in held[s] : c.d = d}

(* WebhookRepo: rows are claimed "so multiple workers never grab the same  *)
(* row".  Two cycles have one delivery in hand only after the visibility   *)
(* deadline passed on one of them, even if both poll, one reaps while the  *)
(* other delivers, or a cycle dies and starts over.                        *)
ClaimedOnce ==
  \A d \in Delivery : lapses[d] = 0 => Cardinality(Holders(d)) <= 1

(* A dead letter whose claims were all answered in time went through the   *)
(* whole ladder and no more; a replay grants a second whole ladder.        *)
DeadAfterLadder ==
  \A d \in Delivery :
    row[d].status = "dead" /\ lapses[d] = 0 => row[d].attempts = Backoff + 1

(* Only a 2xx of the endpoint makes a delivery "delivered": never a lost   *)
(* answer, a reaped claim or another delivery's outcome.                   *)
DeliveredWasAccepted ==
  \A d \in Delivery : row[d].status = "delivered" => d \in accepted

(* No delivery outlives its endpoint: an outcome that arrives after the    *)
(* endpoint's deletion, or a fan-out that races it, leaves no row.  And a  *)
(* delivery is for an event that was committed and is of a deliverable     *)
(* kind.                                                                   *)
RowsHaveCause ==
  \A d \in Delivery :
    row[d].status # "none" => /\ endpoint[d[2]] = "enabled"
                              /\ d[1] \in raised \ DirectEvent

(* docs/guide/webhooks.md: "Successful deliveries stay in the table as     *)
(* delivered".  It holds as long as no deadline passed on the delivery: a  *)
(* slow worker's late failure overwrites another worker's success.         *)
DeliveredStays ==
  [][\A d \in Delivery :
       row[d].status = "delivered" /\ lapses[d] = 0
         => row'[d].status = "delivered" \/ endpoint'[d[2]] = "deleted"]_vars

-----------------------------------------------------------------------------
(* Liveness: the worker streams run, the HTTP client times out, statements *)
(* end, time passes, and the supervisor starts a process that exited.      *)

Fairness ==
  /\ \A s \in Server :
       /\ \A ev \in Event : WF_vars(Publish(s, ev)) /\ WF_vars(EnqueueFlag(s, ev))
       /\ WF_vars(Enqueue(s)) /\ WF_vars(ReapStuck(s)) /\ WF_vars(ClaimBatch(s))
       /\ WF_vars(\E c \in held[s] : ReadEndpoint(s, c) \/ Post(s, c) \/ Settle(s, c))
       /\ WF_vars(Start(s))
  /\ \A d \in Delivery : WF_vars(Elapse(d))

FairSpec == Spec /\ Fairness

(* Every delivery is settled in the end, whatever its endpoint answers,    *)
(* also when the cycles or processes that claimed it die: the reaper gives *)
(* it back and the ladder ends.                                            *)
QueueDrains ==
  \A d \in Delivery :
    row[d].status \in {"pending", "processing"}
      ~> row[d].status \in {"none", "delivered", "dead"}

=============================================================================
