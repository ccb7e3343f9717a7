--------------------------- MODULE WebhookPromise ---------------------------
(***************************************************************************)
(* The webhook pipeline with a history of what its guide promises: which   *)
(* deliveries are owed from the moment their event is committed.           *)
(***************************************************************************)
EXTENDS WebhookQueue

VARIABLE owed   \* deliveries to the endpoints enabled at the commit

promiseVars == <<vars, owed>>

(* The endpoints that are enabled when a server whose worker streams run   *)
(* commits an event.  Nothing is owed to an endpoint registered later, nor *)
(* for an event committed before the streams have subscribed.              *)
NewlyOwed ==
  {d \in Delivery :
     /\ endpoint[d[2]] = "enabled" /\ IsDeliverable(d[1]) /\ d[1] \notin raised
     /\ \E s \in Server : phase[s] # "down" /\ <<s, d[1]>> \in publishing'}

PromiseInit == Init /\ owed = {}

PromiseNext == Next /\ owed' = owed \cup NewlyOwed

PromiseSpec == PromiseInit /\ [][PromiseNext]_promiseVars /\ Fairness

-----------------------------------------------------------------------------
(* docs/guide/webhooks.md:57: "Delivery is at-least-once".  A delivery that *)
(* is owed when its event is committed reaches its endpoint or the dead    *)
(* letters, unless the endpoint is deleted.                                *)
AtLeastOnce ==
  \A d \in Delivery :
    d \in owed
      ~> d \in accepted \/ row[d].status = "dead" \/ endpoint[d[2]] = "deleted"

=============================================================================
