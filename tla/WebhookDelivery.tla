---------------------------- MODULE WebhookDelivery ----------------------------
(***************************************************************************)
(* The asynchronous delivery of one event to the webhooks of an app.  An   *)
(* EventDelivery is stored for every webhook; those without a subscription *)
(* query share one EventPayload, those with a deferred payload get theirs  *)
(* from generate_deferred_payloads, which waits for the replica.  A        *)
(* send_webhook_request_async task posts the payload, is run again by      *)
(* Celery after a failure, and ends with the delivery deleted (delivered)  *)
(* or FAILED.  Staff may retry a delivery, which starts a second task for  *)
(* it, and old payloads are deleted with the deliveries that need them.    *)
(*                                                                         *)
(* Tasks are never lost here; a process that dies between storing rows and *)
(* queueing their task is not modelled.                                    *)
(***************************************************************************)
EXTENDS Naturals, FiniteSets

CONSTANTS
  Deliveries,       \* one for every webhook of the event
  MaxRetries,       \* of a request that fails (5)
  NotFoundRetries,  \* of a task that does not find its delivery (Celery's 3)
  PayloadRetries,   \* of generate_deferred_payloads (12)
  StaffRetries      \* bound: deliveries staff retry at the same time

VARIABLES
  legacy,    \* the deliveries of webhooks without a subscription query
  delivery,  \* EventDelivery rows
  payloads,  \* EventPayload rows
  replica,   \* the deliveries the replica has
  generate,  \* generate_deferred_payloads tasks
  task,      \* send_webhook_request_async tasks, by delivery and slot
  active,    \* the app and its webhooks are active
  old,       \* EVENT_PAYLOAD_DELETE_PERIOD has passed since the event
  received   \* ghost: the deliveries an endpoint has had

vars == <<legacy, delivery, payloads, replica, generate, task, active, old, received>>

Deferred == Deliveries \ legacy
Slots == {1, 2}  \* the task of the event, and one for a retry by staff
Shared == "payload of the legacy webhooks"
NoPayload == "no payload"
ASSUME PayloadAssumption == {Shared, NoPayload} \cap Deliveries = {}
ASSUME RetriesAssumption ==
  {MaxRetries, NotFoundRetries, PayloadRetries, StaffRetries} \subseteq Nat

NoRow == [exists |-> FALSE, status |-> "none", payload |-> NoPayload]
NoTask == [at |-> "none", retries |-> 0]
Queued(retries) == [at |-> "queued", retries |-> retries]
Goto(d, n, t) == task' = [task EXCEPT ![d][n] = t]
SetStatus(d, status) == delivery' = [delivery EXCEPT ![d].status = status]

-----------------------------------------------------------------------------
(* Rows are stored, the payload and its deliveries in one transaction, ...  *)
create_deliveries ==
  /\ delivery = [d \in Deliveries |-> NoRow] /\ ~old /\ active
  /\ delivery' = [d \in Deliveries |->
       [exists |-> TRUE, status |-> "pending",
        payload |-> IF d \in legacy THEN Shared ELSE NoPayload]]
  /\ payloads' = IF legacy = {} THEN {} ELSE {Shared}
  /\ task' = [d \in Deliveries |->
       [n \in Slots |-> IF n = 1 THEN [at |-> "to queue", retries |-> 0] ELSE NoTask]]
  /\ UNCHANGED <<legacy, replica, generate, active, old, received>>

(* ... then tasks are queued: trigger_webhooks_async_for_multiple_objects.  *)
trigger_webhooks_async ==
  /\ \E d \in Deliveries : task[d][1].at = "to queue"
  /\ task' = [d \in Deliveries |-> [n \in Slots |->
       IF task[d][n].at # "to queue" THEN task[d][n]
       ELSE IF d \in legacy THEN Queued(0) ELSE NoTask]]
  /\ generate' = IF Deferred = {} THEN {} ELSE {[ids |-> Deferred, retries |-> 0]}
  /\ UNCHANGED <<legacy, delivery, payloads, replica, active, old, received>>

(* External: a row reaches the replica, where only the tasks that generate  *)
(* payloads look for it.                                                    *)
replicate(d) ==
  /\ d \in UNION {g.ids : g \in generate} \ replica
  /\ replica' = replica \cup {d}
  /\ UNCHANGED <<legacy, delivery, payloads, generate, task, active, old, received>>

-----------------------------------------------------------------------------
(* generate_deferred_payloads: nothing is on the replica yet.               *)
wait_for_replica(g) ==
  /\ g.ids \cap replica = {}
  /\ generate' = (generate \ {g}) \cup
       IF g.retries < PayloadRetries THEN {[g EXCEPT !.retries = @ + 1]} ELSE {}
  /\ UNCHANGED <<legacy, delivery, payloads, replica, task, active, old, received>>

(* A task of their own is left the deliveries that are missing.  The others *)
(* fail if they are inactive or the object is gone, get a payload and a     *)
(* task if the subscription has data for them, and otherwise stay as they   *)
(* are.                                                                     *)
generate_deferred_payloads(g, withData) ==
  LET available == g.ids \cap replica
      missing == g.ids \ replica
  IN /\ available # {} /\ withData \subseteq available
     /\ generate' = (generate \ {g}) \cup
          IF missing = {} THEN {} ELSE {[ids |-> missing, retries |-> 0]}
     /\ \/ /\ delivery' = [d \in Deliveries |->
                IF d \in available /\ delivery[d].exists
                THEN [delivery[d] EXCEPT !.status = "failed"] ELSE delivery[d]]
           /\ UNCHANGED <<payloads, task>>
        \/ /\ active
           /\ delivery' = [d \in Deliveries |->
                IF d \in withData /\ delivery[d].exists
                THEN [delivery[d] EXCEPT !.payload = d] ELSE delivery[d]]
           /\ payloads' = payloads \cup withData
           /\ task' = [d \in Deliveries |->
                IF d \in withData THEN [task[d] EXCEPT ![1] = Queued(0)] ELSE task[d]]
     /\ UNCHANGED <<legacy, replica, active, old, received>>

-----------------------------------------------------------------------------
(* send_webhook_request_async, the part before the request.                 *)
get_delivery_for_webhook(d, n) ==
  LET t == task[d][n]
  IN /\ t.at = "queued"
     /\ CASE ~delivery[d].exists ->
               /\ Goto(d, n, IF t.retries < NotFoundRetries THEN Queued(t.retries + 1) ELSE NoTask)
               /\ UNCHANGED delivery
          [] delivery[d].exists /\ (~active \/ delivery[d].payload = NoPayload) ->
               SetStatus(d, "failed") /\ Goto(d, n, NoTask)
          [] OTHER ->
               /\ Goto(d, n, [t EXCEPT !.at = "sending"])
               /\ UNCHANGED delivery
     /\ UNCHANGED <<legacy, payloads, replica, generate, active, old, received>>

(* The endpoint has the payload and says so.                                *)
send_webhook_request_succeeds(d, n) ==
  /\ task[d][n].at = "sending"
  /\ received' = received \cup {d}
  /\ Goto(d, n, [at |-> "sent", retries |-> 0])
  /\ UNCHANGED <<legacy, delivery, payloads, replica, generate, active, old>>

(* Mutants of the retry: no limit; a delivery that is not retried any more  *)
(* keeps its status.                                                        *)
retry_without_limit(d, n, retryable) ==
  LET t == task[d][n]
  IN CASE ~delivery[d].exists -> Goto(d, n, NoTask) /\ UNCHANGED delivery
       [] delivery[d].exists /\ retryable ->
            Goto(d, n, Queued(t.retries + 1)) /\ UNCHANGED delivery
       [] OTHER -> Goto(d, n, NoTask) /\ SetStatus(d, "failed")

give_up_silently(d, n, retryable) ==
  LET t == task[d][n]
  IN IF delivery[d].exists /\ retryable /\ t.retries < MaxRetries
     THEN Goto(d, n, Queued(t.retries + 1)) /\ UNCHANGED delivery
     ELSE Goto(d, n, NoTask) /\ UNCHANGED delivery

(* After a failure the attempt is saved, which raises when the delivery has *)
(* gone; Celery runs the task again, unless the answer was 3xx or 4xx or    *)
(* there have been too many; then the delivery has FAILED.                  *)
handle_webhook_retry(d, n, retryable) ==
  LET t == task[d][n]
  IN CASE ~delivery[d].exists -> Goto(d, n, NoTask) /\ UNCHANGED delivery
       [] delivery[d].exists /\ retryable /\ t.retries < MaxRetries ->
            Goto(d, n, Queued(t.retries + 1)) /\ UNCHANGED delivery
       [] OTHER -> Goto(d, n, NoTask) /\ SetStatus(d, "failed")

(* The request fails, perhaps after the endpoint has had the payload.       *)
send_webhook_request_fails(d, n, retryable) ==
  /\ task[d][n].at = "sending"
  /\ received' \in {received, received \cup {d}}
  /\ handle_webhook_retry(d, n, retryable)
  /\ UNCHANGED <<legacy, payloads, replica, generate, active, old>>

(* clear_successful_delivery: the delivery is deleted,                      *)
clear_successful_delivery(d, n) ==
  /\ task[d][n].at = "sent"
  /\ delivery' = [delivery EXCEPT ![d].exists = FALSE]
  /\ Goto(d, n, [at |-> "clearing", retries |-> 0])
  /\ UNCHANGED <<legacy, payloads, replica, generate, active, old, received>>

(* and with a payload row go the deliveries that refer to it.               *)
DeletePayloads(gone) ==
  /\ payloads' = payloads \ gone
  /\ delivery' = [d \in Deliveries |->
       IF delivery[d].payload \in gone THEN [delivery[d] EXCEPT !.exists = FALSE] ELSE delivery[d]]

(* Mutant: the payload is not asked whether others need it.                 *)
clear_any_payload(d, n) ==
  /\ task[d][n].at = "clearing"
  /\ DeletePayloads({delivery[d].payload})
  /\ Goto(d, n, NoTask)
  /\ UNCHANGED <<legacy, replica, generate, active, old, received>>

(* then its payload, if no other delivery has it.                           *)
clear_payload(d, n) ==
  /\ task[d][n].at = "clearing"
  /\ DeletePayloads({p \in {delivery[d].payload} :
                       \A e \in Deliveries : delivery[e].exists => delivery[e].payload # p})
  /\ Goto(d, n, NoTask)
  /\ UNCHANGED <<legacy, replica, generate, active, old, received>>

-----------------------------------------------------------------------------
(* eventDeliveryRetry: PENDING again, with one more task.                   *)
event_delivery_retry(d) ==
  /\ delivery[d].exists /\ task[d][2] = NoTask
  /\ Cardinality({e \in Deliveries : task[e][2] # NoTask}) < StaffRetries
  /\ SetStatus(d, "pending")
  /\ Goto(d, 2, Queued(0))
  /\ UNCHANGED <<legacy, payloads, replica, generate, active, old, received>>

(* Staff deactivate and activate the app; time passes.                      *)
change_activity ==
  /\ active' = ~active
  /\ UNCHANGED <<legacy, delivery, payloads, replica, generate, task, old, received>>

grow_old ==
  /\ ~old /\ \E d \in Deliveries : delivery[d].exists
  /\ old' = TRUE
  /\ UNCHANGED <<legacy, delivery, payloads, replica, generate, task, active, received>>

(* delete_event_payloads_task: payloads without a young delivery.           *)
delete_event_payloads_task ==
  /\ payloads # {}
  /\ LET gone == {p \in payloads : old \/ \A d \in Deliveries :
                    delivery[d].exists => delivery[d].payload # p}
     IN gone # {} /\ DeletePayloads(gone)
  /\ UNCHANGED <<legacy, replica, generate, task, active, old, received>>

-----------------------------------------------------------------------------
Init ==
  /\ legacy \in SUBSET Deliveries
  /\ delivery = [d \in Deliveries |-> NoRow]
  /\ payloads = {} /\ replica = {} /\ generate = {}
  /\ task = [d \in Deliveries |-> [n \in Slots |-> NoTask]]
  /\ active = TRUE /\ old = FALSE /\ received = {}

RunTask(d, n) ==
  \/ get_delivery_for_webhook(d, n)
  \/ send_webhook_request_succeeds(d, n)
  \/ \E retryable \in BOOLEAN : send_webhook_request_fails(d, n, retryable)
  \/ clear_successful_delivery(d, n)
  \/ clear_payload(d, n)

Generate ==
  \E g \in generate :
    wait_for_replica(g) \/ \E withData \in SUBSET g.ids : generate_deferred_payloads(g, withData)

Next ==
  \/ create_deliveries \/ trigger_webhooks_async
  \/ \E d \in Deliveries : replicate(d) \/ event_delivery_retry(d)
  \/ Generate
  \/ \E d \in Deliveries, n \in Slots : RunTask(d, n)
  \/ change_activity \/ grow_old \/ delete_event_payloads_task

Spec == Init /\ [][Next]_vars

(* Queued work is taken up in the end: Celery runs every task it accepted.  *)
FairSpec ==
  /\ Spec
  /\ WF_vars(trigger_webhooks_async) /\ WF_vars(Generate)
  /\ \A d \in Deliveries, n \in Slots : WF_vars(RunTask(d, n))

-----------------------------------------------------------------------------
(* Rows and tasks are well formed; a task makes at most MaxRetries + 1      *)
(* requests.                                                                *)
TypeOK ==
  /\ \A d \in Deliveries :
       /\ delivery[d].exists \in BOOLEAN
       /\ delivery[d].status \in {"none", "pending", "failed"}
       /\ delivery[d].payload \in {Shared, NoPayload, d}
       /\ \A n \in Slots : task[d][n].at = "sending" => task[d][n].retries <= MaxRetries
  /\ payloads \subseteq {Shared} \cup Deferred /\ legacy \subseteq Deliveries /\ replica \subseteq Deliveries
  /\ \A g \in generate : g.ids \subseteq Deferred /\ g.retries \in 0..PayloadRetries

(* A delivery is deleted only after its endpoint had it, or when it is too  *)
(* old: clearing what another webhook of the same payload has delivered     *)
(* never takes it away, whichever tasks run at the same time.               *)
NoDeliveryIsDropped ==
  \A d \in Deliveries :
    delivery[d].status # "none" /\ ~delivery[d].exists => d \in received \/ old

Unresolved(d) ==
  delivery[d].exists /\ delivery[d].status = "pending" /\ delivery[d].payload # NoPayload

(* A delivery that is PENDING with its payload has a task that has still to *)
(* try it: whichever of its tasks gives up, and whether the payload came    *)
(* first or staff's retry did, no delivery is left PENDING for nobody.      *)
PendingHasATask ==
  \A d \in Deliveries : Unresolved(d) =>
    \E n \in Slots : task[d][n].at \in {"to queue", "queued", "sending", "sent"}

(* A delivery that has its payload is delivered or FAILED in the end, and   *)
(* does not stay PENDING whatever fails, is retried or switched off.        *)
PendingIsResolved ==
  \A d \in Deliveries : Unresolved(d) ~> ~Unresolved(d)
=============================================================================
