----------------------------- MODULE WebhookProofs -----------------------------
(***************************************************************************)
(* Proofs about webhooks.  The asynchronous delivery of events, for every  *)
(* number of webhooks and of retries by Celery and by staff; then the      *)
(* circuit breaker of synchronous ones, for all settings and whatever      *)
(* Redis and the app do.                                                   *)
(***************************************************************************)
EXTENDS WebhookDelivery, CircuitBreaker, RowSumsProofs

Rows == [exists : BOOLEAN, status : {"none", "pending", "failed"},
         payload : Deliveries \cup {Shared, NoPayload}]
Tasks == [at : {"none", "to queue", "queued", "sending", "sent", "clearing"}, retries : Nat]

TablesOK ==
  /\ legacy \in SUBSET Deliveries
  /\ delivery \in [Deliveries -> Rows]
  /\ \A d \in Deliveries : delivery[d].payload \in {Shared, NoPayload, d}
  /\ payloads \subseteq {Shared} \cup Deferred
  /\ replica \subseteq Deliveries
  /\ \A g \in generate :
       /\ g \in [ids : SUBSET Deferred, retries : Nat]
       /\ g.retries <= PayloadRetries
  /\ task \in [Deliveries -> [Slots -> Tasks]]

(* What task n of delivery d knows.  A task that does not find its row is   *)
(* run again up to NotFoundRetries times, which may be more often than a    *)
(* request is made: but then the row has gone, and no request follows.      *)
TaskOK(d, n) ==
  /\ task[d][n].at = "queued" /\ delivery[d].exists => task[d][n].retries <= MaxRetries
  /\ task[d][n].at = "sending" => task[d][n].retries <= MaxRetries
  /\ task[d][n].at = "sent" => d \in received

TasksOK == \A d \in Deliveries, n \in Slots : TaskOK(d, n)

DeliveryInv == TablesOK /\ TasksOK /\ NoDeliveryIsDropped

-----------------------------------------------------------------------------
LEMMA DeliveryInvImpliesTypeOK == DeliveryInv => TypeOK
BY RetriesAssumption DEF DeliveryInv, TablesOK, TasksOK, TaskOK, TypeOK, Rows, Slots

LEMMA InitDelivery == Init => DeliveryInv
BY RetriesAssumption
   DEF Init, DeliveryInv, TablesOK, TasksOK, TaskOK, NoDeliveryIsDropped, Rows, Tasks,
       NoRow, NoTask, Slots, Deferred

(* What a step of task n of delivery d, which may change the row of d,      *)
(* leaves to show: the other tasks of d see the same row or none.           *)
LEMMA OneTaskMoves ==
  ASSUME DeliveryInv, NEW d \in Deliveries, NEW n \in Slots, NEW t \in Tasks,
         Goto(d, n, t),
         received \subseteq received',
         delivery' \in [Deliveries -> Rows],
         \A e \in Deliveries : delivery'[e].exists => delivery[e].exists,
         t.at = "queued" /\ delivery'[d].exists => t.retries <= MaxRetries,
         t.at = "sending" => t.retries <= MaxRetries,
         t.at = "sent" => d \in received'
  PROVE  TasksOK' /\ task' \in [Deliveries -> [Slots -> Tasks]]
<1>1. task' = [task EXCEPT ![d] = [task[d] EXCEPT ![n] = t]]
  BY DEF Goto
<1>2. task \in [Deliveries -> [Slots -> Tasks]]
  BY DEF DeliveryInv, TablesOK
<1>3. task' \in [Deliveries -> [Slots -> Tasks]]
  BY <1>1, <1>2
<1>4. \A e \in Deliveries, m \in Slots :
        task'[e][m] = IF e = d /\ m = n THEN t ELSE task[e][m]
  BY <1>1, <1>2
<1>5. ASSUME NEW e \in Deliveries, NEW m \in Slots PROVE TaskOK(e, m)'
  <2>1. TaskOK(e, m)
    BY DEF DeliveryInv, TasksOK
  <2>2. CASE e = d /\ m = n
    BY <1>4, <2>2 DEF TaskOK
  <2>3. CASE ~(e = d /\ m = n)
    BY <1>4, <2>1, <2>3 DEF TaskOK
  <2> QED BY <2>2, <2>3
<1> QED BY <1>3, <1>5 DEF TasksOK

(* Deleting payloads that no row refers to, or any once the event is old,   *)
(* drops no delivery.                                                       *)
LEMMA DeletingPayloads ==
  ASSUME DeliveryInv, NEW gone, DeletePayloads(gone),
         \A d \in Deliveries : delivery[d].payload \in gone => ~delivery[d].exists \/ old,
         UNCHANGED <<legacy, old, received>>
  PROVE  /\ delivery' \in [Deliveries -> Rows]
         /\ \A d \in Deliveries : delivery'[d].payload = delivery[d].payload
         /\ \A d \in Deliveries : delivery'[d].exists => delivery[d].exists
         /\ payloads' \subseteq payloads
         /\ NoDeliveryIsDropped'
<1>1. delivery \in [Deliveries -> Rows]
  BY DEF DeliveryInv, TablesOK
<1>2. \A d \in Deliveries : delivery'[d] =
        IF delivery[d].payload \in gone THEN [delivery[d] EXCEPT !.exists = FALSE] ELSE delivery[d]
  BY DEF DeletePayloads
<1>3. \A d \in Deliveries : delivery'[d] \in Rows /\ delivery'[d].payload = delivery[d].payload
        /\ (delivery'[d].exists => delivery[d].exists)
        /\ delivery'[d].status = delivery[d].status
        /\ (delivery[d].payload \notin gone => delivery'[d].exists = delivery[d].exists)
  BY <1>1, <1>2 DEF Rows
<1>4. delivery' \in [Deliveries -> Rows]
  BY <1>3 DEF DeletePayloads
<1>5. NoDeliveryIsDropped'
  BY <1>3 DEF NoDeliveryIsDropped, DeliveryInv
<1> QED BY <1>3, <1>4, <1>5 DEF DeletePayloads

LEMMA StepDelivery == DeliveryInv /\ [Next]_vars => DeliveryInv'
<1> SUFFICES ASSUME DeliveryInv, [Next]_vars PROVE DeliveryInv'
  OBVIOUS
<1>t. /\ delivery \in [Deliveries -> Rows]
      /\ task \in [Deliveries -> [Slots -> Tasks]]
      /\ MaxRetries \in Nat /\ PayloadRetries \in Nat /\ NotFoundRetries \in Nat
  BY RetriesAssumption DEF DeliveryInv, TablesOK
<1>q. \A k \in Nat : Queued(k) \in Tasks /\ Queued(k).at = "queued" /\ Queued(k).retries = k
  BY DEF Queued, Tasks
<1>n. NoTask \in Tasks /\ NoTask.at = "none"
  BY DEF NoTask, Tasks
<1>z. Queued(0) \in Tasks /\ Queued(0).at = "queued" /\ Queued(0).retries <= MaxRetries
  BY <1>t, <1>q
<1>1. CASE create_deliveries
  <2>1. \A d \in Deliveries : delivery'[d] \in Rows /\ delivery'[d].exists
          /\ delivery'[d].payload \in {Shared, NoPayload}
    BY <1>1 DEF create_deliveries, Rows
  <2>2. delivery' \in [Deliveries -> Rows]
    BY <1>1, <2>1 DEF create_deliveries
  <2>3. \A d \in Deliveries, n \in Slots :
          task'[d][n] \in Tasks /\ task'[d][n].at \in {"to queue", "none"}
    BY <1>1, <1>n DEF create_deliveries, Tasks
  <2>4. task' \in [Deliveries -> [Slots -> Tasks]]
    BY <1>1, <1>n DEF create_deliveries, Tasks
  <2> QED
    BY <1>1, <2>1, <2>2, <2>3, <2>4
       DEF create_deliveries, DeliveryInv, TablesOK, TasksOK, TaskOK, NoDeliveryIsDropped, Deferred
<1>2. CASE trigger_webhooks_async
  <2>1. \A d \in Deliveries, n \in Slots :
          \/ task'[d][n] = task[d][n]
          \/ task'[d][n] = Queued(0) \/ task'[d][n] = NoTask
    BY <1>2 DEF trigger_webhooks_async
  <2>2. task' \in [Deliveries -> [Slots -> Tasks]]
    <3>1. \A d \in Deliveries, n \in Slots :
            (IF task[d][n].at # "to queue" THEN task[d][n]
             ELSE IF d \in legacy THEN Queued(0) ELSE NoTask) \in Tasks
      BY <1>t, <1>q, <1>n
    <3> QED BY <1>2, <3>1 DEF trigger_webhooks_async
  <2>3. TasksOK'
    <3> SUFFICES ASSUME NEW d \in Deliveries, NEW n \in Slots PROVE TaskOK(d, n)'
      BY DEF TasksOK
    <3>1. TaskOK(d, n) /\ UNCHANGED <<delivery, received>>
      BY <1>2 DEF DeliveryInv, TasksOK, trigger_webhooks_async
    <3>2. CASE task'[d][n] = task[d][n]
      BY <3>1, <3>2 DEF TaskOK
    <3>3. CASE task'[d][n] = Queued(0)
      BY <1>z, <3>3 DEF TaskOK
    <3>4. CASE task'[d][n] = NoTask
      BY <1>n, <3>4 DEF TaskOK
    <3> QED BY <2>1, <3>2, <3>3, <3>4
  <2>4. \A g \in generate' : g \in [ids : SUBSET Deferred, retries : Nat] /\ g.retries <= PayloadRetries
    <3> DEFINE all == [ids |-> Deferred, retries |-> 0]
    <3>1. all \in [ids : SUBSET Deferred, retries : Nat] /\ all.retries = 0
      OBVIOUS
    <3>2. generate' \subseteq {all}
      BY <1>2 DEF trigger_webhooks_async
    <3> HIDE DEF all
    <3> QED BY <1>t, <3>1, <3>2
  <2> QED
    BY <1>2, <2>2, <2>3, <2>4
       DEF trigger_webhooks_async, DeliveryInv, TablesOK, NoDeliveryIsDropped, Deferred
<1>3. CASE \E d \in Deliveries : replicate(d)
  BY <1>3 DEF replicate, DeliveryInv, TablesOK, TasksOK, TaskOK, NoDeliveryIsDropped, Deferred
<1>4. CASE \E d \in Deliveries : event_delivery_retry(d)
  <2> PICK d \in Deliveries : event_delivery_retry(d)
    BY <1>4
  <2>1. /\ delivery' = [delivery EXCEPT ![d].status = "pending"]
        /\ UNCHANGED <<legacy, payloads, replica, generate, active, old, received>>
        /\ Goto(d, 2, Queued(0))
    BY DEF event_delivery_retry, SetStatus
  <2>2. /\ delivery' \in [Deliveries -> Rows]
        /\ \A e \in Deliveries : /\ delivery'[e].exists = delivery[e].exists
                                 /\ delivery'[e].payload = delivery[e].payload
                                 /\ e # d => delivery'[e] = delivery[e]
    BY <1>t, <2>1 DEF Rows
  <2>3. delivery[d].exists
    BY DEF event_delivery_retry
  <2>4. TasksOK' /\ task' \in [Deliveries -> [Slots -> Tasks]]
    BY OneTaskMoves, <1>q, <1>t, <2>1, <2>2 DEF Slots
  <2> QED
    BY <2>1, <2>2, <2>3, <2>4 DEF DeliveryInv, TablesOK, NoDeliveryIsDropped, Deferred
<1>5. CASE Generate
  <2> PICK g \in generate : \/ wait_for_replica(g)
                            \/ \E withData \in SUBSET g.ids : generate_deferred_payloads(g, withData)
    BY <1>5 DEF Generate
  <2>g. g \in [ids : SUBSET Deferred, retries : Nat] /\ g.retries <= PayloadRetries
    BY DEF DeliveryInv, TablesOK
  <2>1. CASE wait_for_replica(g)
    <3>1. \A h \in generate' : h \in [ids : SUBSET Deferred, retries : Nat] /\ h.retries <= PayloadRetries
      BY <1>t, <2>1, <2>g DEF wait_for_replica, DeliveryInv, TablesOK
    <3> QED
      BY <2>1, <3>1
         DEF wait_for_replica, DeliveryInv, TablesOK, TasksOK, TaskOK, NoDeliveryIsDropped, Deferred
  <2>2. CASE \E withData \in SUBSET g.ids : generate_deferred_payloads(g, withData)
    <3> PICK withData \in SUBSET g.ids : generate_deferred_payloads(g, withData)
      BY <2>2
    <3>1. \A h \in generate' : h \in [ids : SUBSET Deferred, retries : Nat] /\ h.retries <= PayloadRetries
      BY <1>t, <2>g DEF generate_deferred_payloads, DeliveryInv, TablesOK
    <3>2. UNCHANGED <<legacy, replica, active, old, received>>
      BY DEF generate_deferred_payloads
    <3>3. CASE /\ delivery' = [d \in Deliveries |->
                    IF d \in g.ids \cap replica /\ delivery[d].exists
                    THEN [delivery[d] EXCEPT !.status = "failed"] ELSE delivery[d]]
               /\ UNCHANGED <<payloads, task>>
      <4>1. \A d \in Deliveries : /\ delivery'[d] \in Rows
                                  /\ delivery'[d].exists = delivery[d].exists
                                  /\ delivery'[d].payload = delivery[d].payload
                                  /\ ~delivery[d].exists => delivery'[d] = delivery[d]
        BY <1>t, <3>3 DEF Rows
      <4>2. delivery' \in [Deliveries -> Rows]
        BY <3>3, <4>1
      <4> QED
        BY <3>1, <3>2, <3>3, <4>1, <4>2
           DEF DeliveryInv, TablesOK, TasksOK, TaskOK, NoDeliveryIsDropped, Deferred
    <3>4. CASE /\ active
               /\ delivery' = [d \in Deliveries |->
                    IF d \in withData /\ delivery[d].exists
                    THEN [delivery[d] EXCEPT !.payload = d] ELSE delivery[d]]
               /\ payloads' = payloads \cup withData
               /\ task' = [d \in Deliveries |->
                    IF d \in withData THEN [task[d] EXCEPT ![1] = Queued(0)] ELSE task[d]]
      <4>1. \A d \in Deliveries : /\ delivery'[d] \in Rows
                                  /\ delivery'[d].exists = delivery[d].exists
                                  /\ delivery'[d].status = delivery[d].status
                                  /\ delivery'[d].payload \in {d, delivery[d].payload}
        BY <1>t, <3>4 DEF Rows
      <4>2. delivery' \in [Deliveries -> Rows]
        BY <3>4, <4>1
      <4>3. \A d \in Deliveries : task'[d] \in [Slots -> Tasks]
        BY <1>t, <1>q, <3>4
      <4>4. task' \in [Deliveries -> [Slots -> Tasks]]
        BY <3>4, <4>3
      <4>5. \A d \in Deliveries, n \in Slots :
              task'[d][n] = task[d][n] \/ task'[d][n] = Queued(0)
        BY <1>t, <3>4
      <4>6. TasksOK'
        <5> SUFFICES ASSUME NEW d \in Deliveries, NEW n \in Slots PROVE TaskOK(d, n)'
          BY DEF TasksOK
        <5>1. TaskOK(d, n) /\ received' = received /\ delivery'[d].exists = delivery[d].exists
          BY <3>2, <4>1 DEF DeliveryInv, TasksOK
        <5>2. CASE task'[d][n] = task[d][n]
          BY <5>1, <5>2 DEF TaskOK
        <5>3. CASE task'[d][n] = Queued(0)
          BY <1>z, <5>3 DEF TaskOK
        <5> QED BY <4>5, <5>2, <5>3
      <4>7. payloads' \subseteq {Shared} \cup Deferred
        BY <2>g, <3>4 DEF DeliveryInv, TablesOK
      <4> QED
        BY <3>1, <3>2, <4>1, <4>2, <4>4, <4>6, <4>7
           DEF DeliveryInv, TablesOK, NoDeliveryIsDropped, Deferred
    <3> QED BY <3>3, <3>4 DEF generate_deferred_payloads
  <2> QED BY <2>1, <2>2
<1>6. CASE \E d \in Deliveries, n \in Slots : RunTask(d, n)
  <2> PICK d \in Deliveries, n \in Slots : RunTask(d, n)
    BY <1>6
  <2>t. task[d][n] \in Tasks /\ delivery[d] \in Rows /\ TaskOK(d, n)
    BY <1>t DEF DeliveryInv, TasksOK
  <2>f. ASSUME delivery' = [delivery EXCEPT ![d].status = "failed"]
        PROVE /\ delivery' \in [Deliveries -> Rows]
              /\ \A e \in Deliveries : /\ delivery'[e].exists = delivery[e].exists
                                       /\ delivery'[e].payload = delivery[e].payload
                                       /\ e # d => delivery'[e] = delivery[e]
    BY <1>t, <2>f DEF Rows
  <2>1. CASE get_delivery_for_webhook(d, n)
    <3>1. UNCHANGED <<legacy, payloads, replica, generate, active, old, received>>
      BY <2>1 DEF get_delivery_for_webhook
    <3>2. CASE ~delivery[d].exists
      <4>1. UNCHANGED delivery
        BY <2>1, <3>2 DEF get_delivery_for_webhook
      <4>2. PICK t \in Tasks : Goto(d, n, t) /\ t.at \in {"queued", "none"}
        <5>0. task[d][n].retries \in Nat
          BY <2>t DEF Tasks
        <5>1. task[d][n].retries + 1 \in Nat
          BY <5>0
        <5>2. Goto(d, n, IF task[d][n].retries < NotFoundRetries
                         THEN Queued(task[d][n].retries + 1) ELSE NoTask)
          BY <2>1, <3>2 DEF get_delivery_for_webhook
        <5>3. \/ Goto(d, n, Queued(task[d][n].retries + 1))
              \/ Goto(d, n, NoTask)
          BY <5>2
        <5> QED BY <1>q, <1>n, <5>1, <5>3
      <4>3. TasksOK' /\ task' \in [Deliveries -> [Slots -> Tasks]]
        BY OneTaskMoves, <1>t, <3>1, <3>2, <4>1, <4>2
      <4> QED
        BY <3>1, <4>1, <4>3 DEF DeliveryInv, TablesOK, NoDeliveryIsDropped, Deferred
    <3>3. CASE delivery[d].exists /\ (~active \/ delivery[d].payload = NoPayload)
      <4>1. SetStatus(d, "failed") /\ Goto(d, n, NoTask)
        BY <2>1, <3>3 DEF get_delivery_for_webhook
      <4>2. TasksOK' /\ task' \in [Deliveries -> [Slots -> Tasks]]
        BY OneTaskMoves, <1>n, <2>f, <3>1, <4>1 DEF SetStatus
      <4> QED
        BY <2>f, <3>1, <3>3, <4>1, <4>2
           DEF DeliveryInv, TablesOK, NoDeliveryIsDropped, SetStatus, Deferred
    <3>4. CASE delivery[d].exists /\ active /\ delivery[d].payload # NoPayload
      <4>1. /\ UNCHANGED delivery
            /\ Goto(d, n, [task[d][n] EXCEPT !.at = "sending"])
        BY <2>1, <3>4 DEF get_delivery_for_webhook
      <4>2. PICK t \in Tasks : Goto(d, n, t) /\ t.at = "sending" /\ t.retries = task[d][n].retries
        <5> DEFINE t == [task[d][n] EXCEPT !.at = "sending"]
        <5>1. t \in Tasks /\ t.at = "sending" /\ t.retries = task[d][n].retries
          BY <2>t DEF Tasks
        <5> HIDE DEF t
        <5>2. Goto(d, n, t)
          BY <4>1 DEF t
        <5> QED BY <5>1, <5>2
      <4>3. task[d][n].retries <= MaxRetries
        BY <2>1, <2>t, <3>4 DEF TaskOK, get_delivery_for_webhook
      <4>4. TasksOK' /\ task' \in [Deliveries -> [Slots -> Tasks]]
        BY OneTaskMoves, <1>t, <3>1, <4>1, <4>2, <4>3
      <4> QED
        BY <3>1, <4>1, <4>4 DEF DeliveryInv, TablesOK, NoDeliveryIsDropped, Deferred
    <3> QED BY <3>2, <3>3, <3>4
  <2>2. CASE send_webhook_request_succeeds(d, n)
    <3>1. PICK t \in Tasks : Goto(d, n, t) /\ t.at = "sent"
      <4> DEFINE t == [at |-> "sent", retries |-> 0]
      <4>1. t \in Tasks /\ t.at = "sent"
        BY DEF Tasks
      <4>2. Goto(d, n, t)
        BY <2>2 DEF send_webhook_request_succeeds
      <4> HIDE DEF t
      <4> QED BY <4>1, <4>2
    <3>2. TasksOK' /\ task' \in [Deliveries -> [Slots -> Tasks]]
      BY OneTaskMoves, <1>t, <2>2, <3>1 DEF send_webhook_request_succeeds
    <3> QED
      BY <2>2, <3>2
         DEF send_webhook_request_succeeds, DeliveryInv, TablesOK, NoDeliveryIsDropped, Deferred
  <2>3. CASE \E retryable \in BOOLEAN : send_webhook_request_fails(d, n, retryable)
    <3> PICK retryable \in BOOLEAN : send_webhook_request_fails(d, n, retryable)
      BY <2>3
    <3>1. /\ received \subseteq received' /\ task[d][n].at = "sending"
          /\ UNCHANGED <<legacy, payloads, replica, generate, active, old>>
          /\ handle_webhook_retry(d, n, retryable)
      BY DEF send_webhook_request_fails
    <3>2. CASE ~delivery[d].exists
      <4>1. Goto(d, n, NoTask) /\ UNCHANGED delivery
        BY <3>1, <3>2 DEF handle_webhook_retry
      <4>2. TasksOK' /\ task' \in [Deliveries -> [Slots -> Tasks]]
        BY OneTaskMoves, <1>n, <1>t, <3>1, <4>1
      <4> QED
        BY <3>1, <4>1, <4>2 DEF DeliveryInv, TablesOK, NoDeliveryIsDropped, Deferred
    <3>3. CASE delivery[d].exists /\ retryable /\ task[d][n].retries < MaxRetries
      <4>1. Goto(d, n, Queued(task[d][n].retries + 1)) /\ UNCHANGED delivery
        BY <3>1, <3>3 DEF handle_webhook_retry
      <4>2. task[d][n].retries + 1 \in Nat /\ task[d][n].retries + 1 <= MaxRetries
        <5>1. task[d][n].retries \in Nat
          BY <2>t DEF Tasks
        <5> QED BY <1>t, <3>3, <5>1
      <4>3. TasksOK' /\ task' \in [Deliveries -> [Slots -> Tasks]]
        BY OneTaskMoves, <1>q, <1>t, <3>1, <4>1, <4>2
      <4> QED
        BY <3>1, <4>1, <4>3 DEF DeliveryInv, TablesOK, NoDeliveryIsDropped, Deferred
    <3>4. CASE delivery[d].exists /\ ~(retryable /\ task[d][n].retries < MaxRetries)
      <4>1. Goto(d, n, NoTask) /\ SetStatus(d, "failed")
        BY <3>1, <3>4 DEF handle_webhook_retry
      <4>2. TasksOK' /\ task' \in [Deliveries -> [Slots -> Tasks]]
        BY OneTaskMoves, <1>n, <2>f, <3>1, <4>1 DEF SetStatus
      <4> QED
        BY <2>f, <3>1, <3>4, <4>1, <4>2
           DEF DeliveryInv, TablesOK, NoDeliveryIsDropped, SetStatus, Deferred
    <3> QED BY <3>2, <3>3, <3>4
  <2>4. CASE clear_successful_delivery(d, n)
    <3>1. PICK t \in Tasks : Goto(d, n, t) /\ t.at = "clearing"
      <4> DEFINE t == [at |-> "clearing", retries |-> 0]
      <4>1. t \in Tasks /\ t.at = "clearing"
        BY DEF Tasks
      <4>2. Goto(d, n, t)
        BY <2>4 DEF clear_successful_delivery
      <4> HIDE DEF t
      <4> QED BY <4>1, <4>2
    <3>2. /\ delivery' \in [Deliveries -> Rows]
          /\ \A e \in Deliveries : /\ delivery'[e].exists => delivery[e].exists
                                   /\ delivery'[e].payload = delivery[e].payload
                                   /\ e # d => delivery'[e] = delivery[e]
      BY <1>t, <2>4 DEF clear_successful_delivery, Rows
    <3>3. TasksOK' /\ task' \in [Deliveries -> [Slots -> Tasks]]
      BY OneTaskMoves, <2>4, <3>1, <3>2 DEF clear_successful_delivery
    <3>4. d \in received
      BY <2>4, <2>t DEF TaskOK, clear_successful_delivery
    <3> QED
      BY <2>4, <3>2, <3>3, <3>4
         DEF clear_successful_delivery, DeliveryInv, TablesOK, NoDeliveryIsDropped, Deferred
  <2>5. CASE clear_payload(d, n)
    <3> DEFINE gone == {p \in {delivery[d].payload} :
                          \A e \in Deliveries : delivery[e].exists => delivery[e].payload # p}
    <3>1. /\ DeletePayloads(gone) /\ Goto(d, n, NoTask)
          /\ UNCHANGED <<legacy, replica, generate, active, old, received>>
      BY <2>5 DEF clear_payload
    <3>2. \A e \in Deliveries : delivery[e].payload \in gone => ~delivery[e].exists
      OBVIOUS
    <3> HIDE DEF gone
    <3>3. /\ delivery' \in [Deliveries -> Rows]
          /\ \A e \in Deliveries : delivery'[e].payload = delivery[e].payload
          /\ \A e \in Deliveries : delivery'[e].exists => delivery[e].exists
          /\ payloads' \subseteq payloads
          /\ NoDeliveryIsDropped'
      BY DeletingPayloads, <3>1, <3>2
    <3>4. TasksOK' /\ task' \in [Deliveries -> [Slots -> Tasks]]
      BY OneTaskMoves, <1>n, <3>1, <3>3
    <3> QED BY <3>1, <3>3, <3>4 DEF DeliveryInv, TablesOK, Deferred
  <2> QED BY <2>1, <2>2, <2>3, <2>4, <2>5 DEF RunTask
<1>7. CASE change_activity
  BY <1>7 DEF change_activity, DeliveryInv, TablesOK, TasksOK, TaskOK, NoDeliveryIsDropped, Deferred
<1>8. CASE grow_old
  BY <1>8 DEF grow_old, DeliveryInv, TablesOK, TasksOK, TaskOK, NoDeliveryIsDropped, Deferred
<1>9. CASE delete_event_payloads_task
  <2> DEFINE gone == {p \in payloads : old \/ \A d \in Deliveries :
                        delivery[d].exists => delivery[d].payload # p}
  <2>1. /\ DeletePayloads(gone)
        /\ UNCHANGED <<legacy, replica, generate, task, active, old, received>>
    BY <1>9 DEF delete_event_payloads_task
  <2>2. \A e \in Deliveries : delivery[e].payload \in gone => ~delivery[e].exists \/ old
    OBVIOUS
  <2> HIDE DEF gone
  <2>3. /\ delivery' \in [Deliveries -> Rows]
        /\ \A e \in Deliveries : delivery'[e].payload = delivery[e].payload
        /\ \A e \in Deliveries : delivery'[e].exists => delivery[e].exists
        /\ payloads' \subseteq payloads
        /\ NoDeliveryIsDropped'
    BY DeletingPayloads, <2>1, <2>2
  <2>4. TasksOK'
    BY <1>t, <2>1, <2>3 DEF DeliveryInv, TasksOK, TaskOK
  <2> QED BY <2>1, <2>3, <2>4 DEF DeliveryInv, TablesOK, Deferred
<1>10. CASE UNCHANGED vars
  BY <1>10 DEF vars, DeliveryInv, TablesOK, TasksOK, TaskOK, NoDeliveryIsDropped, Deferred
<1> QED
  BY <1>1, <1>2, <1>3, <1>4, <1>5, <1>6, <1>7, <1>8, <1>9, <1>10 DEF Next

LEMMA DeliveriesKeepTheirInvariant == Spec => []DeliveryInv
BY InitDelivery, StepDelivery, PTL DEF Spec

(* However the tasks of the event and of staff interleave, no task makes    *)
(* more than MaxRetries + 1 requests, a payload is its own or the shared    *)
(* one, and generate_deferred_payloads retries within its limit.            *)
THEOREM DeliveriesAreWellFormed == Spec => []TypeOK
BY DeliveriesKeepTheirInvariant, DeliveryInvImpliesTypeOK, PTL

(* An EventDelivery row is deleted only after its endpoint had the payload, *)
(* or by the clean-up of old events: clearing the payload the legacy        *)
(* webhooks share takes no other webhook's delivery with it.                *)
THEOREM DeliveriesAreNotDropped == Spec => []NoDeliveryIsDropped
<1>1. DeliveryInv => NoDeliveryIsDropped
  BY DEF DeliveryInv
<1> QED BY DeliveriesKeepTheirInvariant, <1>1, PTL

-----------------------------------------------------------------------------
(* Why a delivery is never left PENDING without a task.  Rows appear all at *)
(* once, before any task and any payload of their own; a task that deletes  *)
(* its row is done with it; and what is still to be queued is a task for    *)
(* the shared payload, or none at all for a delivery that has no payload    *)
(* before its generate_deferred_payloads task runs.                         *)
Ahead == {"to queue", "queued", "sending", "sent"}
Created == \A d \in Deliveries : delivery[d].status # "none"
Nothing ==
  /\ delivery = [d \in Deliveries |-> NoRow] /\ payloads = {} /\ generate = {}
  /\ task = [d \in Deliveries |-> [n \in Slots |-> NoTask]]

RowHasTask(d) ==
  /\ \A n \in Slots : task[d][n].at = "clearing" => ~delivery[d].exists
  /\ task[d][1].at = "to queue" /\ d \notin legacy => delivery[d].payload = NoPayload
  /\ task[d][1].at = "to queue" => generate = {}
  /\ task[d][2].at # "to queue"
  /\ Unresolved(d) => \E n \in Slots : task[d][n].at \in Ahead

RowsHaveTasks == (Created \/ Nothing) /\ \A d \in Deliveries : RowHasTask(d)

LEMMA InitRowsHaveTasks == Init => RowsHaveTasks
<1> SUFFICES ASSUME Init PROVE RowsHaveTasks
  OBVIOUS
<1>1. Nothing
  BY DEF Init, Nothing
<1>2. \A d \in Deliveries : /\ ~delivery[d].exists /\ task[d][1].at = "none" /\ task[d][2].at = "none"
                            /\ \A n \in Slots : task[d][n].at = "none"
  BY DEF Init, NoRow, NoTask, Slots
<1> QED BY <1>1, <1>2 DEF RowsHaveTasks, RowHasTask, Unresolved

(* A row that is left alone, but perhaps deleted or FAILED.                 *)
LEMMA RowKept ==
  ASSUME NEW d \in Deliveries, RowHasTask(d), UNCHANGED legacy, task'[d] = task[d],
         delivery'[d].exists => delivery[d].exists,
         delivery'[d].payload = delivery[d].payload,
         delivery'[d].exists /\ delivery'[d].status = "pending" => delivery[d].status = "pending",
         task[d][1].at = "to queue" => generate' = {}
  PROVE  RowHasTask(d)'
BY DEF RowHasTask, Unresolved

(* One task moves: what it leaves PENDING it goes on with.                  *)
LEMMA OneTaskLeaves ==
  ASSUME TablesOK, RowsHaveTasks,
         NEW d \in Deliveries, NEW n \in Slots, NEW t \in Tasks, Goto(d, n, t),
         UNCHANGED <<legacy, generate>>,
         \A e \in Deliveries : /\ delivery'[e].exists => delivery[e].exists
                               /\ delivery'[e].payload = delivery[e].payload
                               /\ e = d \/ delivery'[e].status = delivery[e].status,
         t.at # "to queue", t.at = "clearing" => ~delivery'[d].exists,
         Unresolved(d)' => t.at \in Ahead
  PROVE  \A e \in Deliveries : RowHasTask(e)'
<1>1. task' = [task EXCEPT ![d] = [task[d] EXCEPT ![n] = t]] /\ task \in [Deliveries -> [Slots -> Tasks]]
  BY DEF Goto, TablesOK
<1>2. ASSUME NEW e \in Deliveries, e # d PROVE RowHasTask(e)'
  <2>1. task'[e] = task[e] /\ RowHasTask(e)
    BY <1>1, <1>2 DEF RowsHaveTasks
  <2> QED BY <1>2, <2>1, RowKept DEF RowHasTask
<1>3. RowHasTask(d)'
  <2>1. task'[d] = [task[d] EXCEPT ![n] = t] /\ task[d] \in [Slots -> Tasks]
    BY <1>1
  <2>2. \A m \in Slots : task'[d][m] = IF m = n THEN t ELSE task[d][m]
    BY <2>1
  <2>3. 1 \in Slots /\ 2 \in Slots /\ RowHasTask(d)
    BY DEF Slots, RowsHaveTasks
  <2>4. \A m \in Slots : task'[d][m].at = "clearing" => ~delivery'[d].exists
    BY <2>2, <2>3 DEF RowHasTask
  <2>5. /\ task'[d][1].at = "to queue" => task[d][1].at = "to queue"
        /\ task'[d][2].at # "to queue"
    BY <2>2, <2>3 DEF RowHasTask
  <2>6. Unresolved(d)' => \E m \in Slots : task'[d][m].at \in Ahead
    BY <2>2
  <2> QED BY <2>3, <2>4, <2>5, <2>6 DEF RowHasTask
<1> QED BY <1>2, <1>3

LEMMA StepRowsHaveTasks == DeliveryInv /\ RowsHaveTasks /\ [Next]_vars => RowsHaveTasks'
<1> SUFFICES ASSUME DeliveryInv, RowsHaveTasks, [Next]_vars PROVE RowsHaveTasks'
  OBVIOUS
<1>t. /\ TablesOK /\ delivery \in [Deliveries -> Rows]
      /\ task \in [Deliveries -> [Slots -> Tasks]] /\ 1 \in Slots /\ 2 \in Slots
  BY DEF DeliveryInv, TablesOK, Slots
<1>r. \A d \in Deliveries : RowHasTask(d)
  BY DEF RowsHaveTasks
<1>q. \A k \in Nat : Queued(k) \in Tasks /\ Queued(k).at = "queued"
  BY DEF Queued, Tasks
<1>n. NoTask \in Tasks /\ NoTask.at = "none"
  BY DEF NoTask, Tasks
(* Once there is anything at all, there are the rows.                       *)
<1>c. ASSUME \/ \E d \in Deliveries : delivery[d].exists
             \/ \E d \in Deliveries, n \in Slots : task[d][n].at # "none"
             \/ payloads # {} \/ generate # {}
      PROVE  Created
  <2>1. Nothing => \A d \in Deliveries : ~delivery[d].exists /\ \A n \in Slots : task[d][n].at = "none"
    BY DEF Nothing, NoRow, NoTask
  <2> QED BY <1>c, <2>1 DEF RowsHaveTasks, Nothing
<1>s. ASSUME Created, \A d \in Deliveries : delivery[d].status # "none" => delivery'[d].status # "none"
      PROVE  Created'
  BY <1>s DEF Created
<1>1. CASE create_deliveries
  <2>1. \A d \in Deliveries : delivery[d] = NoRow
    BY <1>1 DEF create_deliveries
  <2>2. \A d \in Deliveries : generate = {}
    BY <2>1 DEF RowsHaveTasks, Created, Nothing, NoRow
  <2>3. \A d \in Deliveries :
          /\ delivery'[d].exists /\ delivery'[d].status = "pending"
          /\ delivery'[d].payload = IF d \in legacy THEN Shared ELSE NoPayload
          /\ task'[d][1].at = "to queue" /\ task'[d][2] = NoTask
          /\ legacy' = legacy /\ generate' = generate
    <3> DEFINE first == [at |-> "to queue", retries |-> 0]
    <3>1. first.at = "to queue"
      OBVIOUS
    <3>2. task' = [d \in Deliveries |-> [n \in Slots |-> IF n = 1 THEN first ELSE NoTask]]
      BY <1>1 DEF create_deliveries
    <3>3. \A d \in Deliveries : /\ delivery'[d].exists /\ delivery'[d].status = "pending"
                                /\ delivery'[d].payload = IF d \in legacy THEN Shared ELSE NoPayload
      BY <1>1 DEF create_deliveries
    <3>4. legacy' = legacy /\ generate' = generate
      BY <1>1 DEF create_deliveries
    <3> HIDE DEF first
    <3>5. \A d \in Deliveries : task'[d][1] = first /\ task'[d][2] = NoTask
      BY <1>t, <3>2
    <3> QED BY <3>1, <3>3, <3>4, <3>5
  <2>4. Created'
    BY <2>3 DEF Created
  <2>5. ASSUME NEW d \in Deliveries PROVE RowHasTask(d)'
    <3>1. \A n \in Slots : n = 1 \/ n = 2
      BY DEF Slots
    <3>2. \E n \in Slots : task'[d][n].at \in Ahead
      BY <1>t, <2>3 DEF Ahead
    <3>3. \A n \in Slots : task'[d][n].at # "clearing"
      BY <1>n, <2>3, <3>1
    <3>4. task'[d][2].at # "to queue" /\ (d \notin legacy' => delivery'[d].payload = NoPayload)
      BY <1>n, <2>3
    <3> QED BY <2>2, <2>3, <3>2, <3>3, <3>4 DEF RowHasTask
  <2> QED BY <2>4, <2>5 DEF RowsHaveTasks
<1>2. CASE trigger_webhooks_async
  <2>1. UNCHANGED <<legacy, delivery>> /\ Created
    <3>1. \E d \in Deliveries : task[d][1].at # "none"
      BY <1>2 DEF trigger_webhooks_async
    <3> QED BY <1>2, <1>c, <1>t, <3>1 DEF trigger_webhooks_async
  <2>2. \A d \in Deliveries, n \in Slots : task'[d][n] =
          IF task[d][n].at # "to queue" THEN task[d][n]
          ELSE IF d \in legacy THEN Queued(0) ELSE NoTask
    BY <1>2 DEF trigger_webhooks_async
  <2>3. ASSUME NEW d \in Deliveries PROVE RowHasTask(d)'
    <3>1. RowHasTask(d)
      BY <1>r
    <3>2. \A n \in Slots : task'[d][n].at # "to queue" /\ (task'[d][n].at = "clearing" => task[d][n].at = "clearing")
      BY <1>n, <1>q, <2>2
    <3>3. ASSUME Unresolved(d)' PROVE \E n \in Slots : task'[d][n].at \in Ahead
      <4>1. Unresolved(d) /\ delivery[d].payload # NoPayload
        BY <2>1, <3>3 DEF Unresolved
      <4>2. PICK n \in Slots : task[d][n].at \in Ahead
        BY <3>1, <4>1 DEF RowHasTask
      <4>3. CASE task[d][n].at = "to queue"
        <5>1. n = 1 /\ d \in legacy
          BY <3>1, <4>1, <4>3 DEF RowHasTask, Slots
        <5>2. task'[d][n] = Queued(0)
          BY <2>2, <4>3, <5>1
        <5> QED BY <1>q, <5>2 DEF Ahead
      <4>4. CASE task[d][n].at # "to queue"
        BY <2>2, <4>2, <4>4
      <4> QED BY <4>3, <4>4
    <3> QED BY <1>t, <2>1, <3>1, <3>2, <3>3 DEF RowHasTask
  <2> QED BY <2>1, <2>3 DEF RowsHaveTasks, Created
<1>3. CASE \E d \in Deliveries : replicate(d)
  BY <1>3 DEF replicate, RowsHaveTasks, Created, Nothing, RowHasTask, Unresolved
<1>4. CASE \E d \in Deliveries : event_delivery_retry(d)
  <2> PICK d \in Deliveries : event_delivery_retry(d)
    BY <1>4
  <2>1. /\ delivery' = [delivery EXCEPT ![d].status = "pending"] /\ delivery[d].exists
        /\ UNCHANGED <<legacy, generate>> /\ Goto(d, 2, Queued(0))
    BY DEF event_delivery_retry, SetStatus
  <2>2. \A e \in Deliveries : /\ delivery'[e].exists = delivery[e].exists
                              /\ delivery'[e].payload = delivery[e].payload
                              /\ e = d \/ delivery'[e].status = delivery[e].status
                              /\ delivery[e].status # "none" => delivery'[e].status # "none"
    BY <1>t, <2>1 DEF Rows
  <2>3. \A e \in Deliveries : RowHasTask(e)'
    BY <1>q, <1>t, <2>1, <2>2, OneTaskLeaves DEF Ahead
  <2> QED BY <1>c, <1>s, <2>1, <2>2, <2>3 DEF RowsHaveTasks
<1>5. CASE Generate
  <2> PICK g \in generate : \/ wait_for_replica(g)
                            \/ \E withData \in SUBSET g.ids : generate_deferred_payloads(g, withData)
    BY <1>5 DEF Generate
  <2>c. Created /\ \A d \in Deliveries : task[d][1].at # "to queue"
    BY <1>c, <1>r DEF RowHasTask
  <2>1. CASE wait_for_replica(g)
    <3>1. UNCHANGED <<legacy, delivery, task>>
      BY <2>1 DEF wait_for_replica
    <3> QED BY <1>r, <2>c, <3>1 DEF RowsHaveTasks, Created, RowHasTask, Unresolved
  <2>2. CASE \E withData \in SUBSET g.ids : generate_deferred_payloads(g, withData)
    <3> PICK withData \in SUBSET g.ids : generate_deferred_payloads(g, withData)
      BY <2>2
    <3>1. UNCHANGED legacy
      BY DEF generate_deferred_payloads
    <3>2. CASE /\ delivery' = [d \in Deliveries |->
                    IF d \in g.ids \cap replica /\ delivery[d].exists
                    THEN [delivery[d] EXCEPT !.status = "failed"] ELSE delivery[d]]
               /\ UNCHANGED <<payloads, task>>
      <4>1. \A d \in Deliveries :
              /\ delivery'[d].exists = delivery[d].exists /\ delivery'[d].payload = delivery[d].payload
              /\ delivery'[d].status \in {"failed", delivery[d].status}
        BY <1>t, <3>2 DEF Rows
      <4>2. \A d \in Deliveries : RowHasTask(d)'
        BY <1>r, <2>c, <3>1, <3>2, <4>1, RowKept
      <4> QED BY <1>s, <2>c, <4>1, <4>2 DEF RowsHaveTasks
    <3>3. CASE /\ active
               /\ delivery' = [d \in Deliveries |->
                    IF d \in withData /\ delivery[d].exists
                    THEN [delivery[d] EXCEPT !.payload = d] ELSE delivery[d]]
               /\ payloads' = payloads \cup withData
               /\ task' = [d \in Deliveries |->
                    IF d \in withData THEN [task[d] EXCEPT ![1] = Queued(0)] ELSE task[d]]
      <4>1. \A d \in Deliveries :
              /\ delivery'[d].exists = delivery[d].exists /\ delivery'[d].status = delivery[d].status
              /\ d \notin withData => delivery'[d] = delivery[d] /\ task'[d] = task[d]
        BY <1>t, <3>3 DEF Rows
      <4>2. ASSUME NEW d \in Deliveries PROVE RowHasTask(d)'
        <5>1. CASE d \notin withData
          BY <1>r, <2>c, <3>1, <4>1, <5>1, RowKept
        <5>2. CASE d \in withData
          <6>1. \A n \in Slots : task'[d][n] = IF n = 1 THEN Queued(0) ELSE task[d][n]
            BY <1>t, <3>3, <5>2
          <6>2. RowHasTask(d) /\ Queued(0).at = "queued"
            BY <1>q, <1>r
          <6>3. task'[d][1].at = "queued" /\ task'[d][2] = task[d][2]
            BY <1>t, <6>1, <6>2
          <6>4. \A n \in Slots : task'[d][n].at = "clearing" => ~delivery'[d].exists
            BY <4>1, <6>1, <6>2 DEF RowHasTask
          <6>5. \E n \in Slots : task'[d][n].at \in Ahead
            BY <1>t, <6>3 DEF Ahead
          <6> QED BY <6>2, <6>3, <6>4, <6>5 DEF RowHasTask
        <5> QED BY <5>1, <5>2
      <4> QED BY <1>s, <2>c, <4>1, <4>2 DEF RowsHaveTasks
    <3> QED BY <3>2, <3>3 DEF generate_deferred_payloads
  <2> QED BY <2>1, <2>2
<1>6. CASE \E d \in Deliveries, n \in Slots : RunTask(d, n)
  <2> PICK d \in Deliveries, n \in Slots : RunTask(d, n)
    BY <1>6
  <2>t. task[d][n] \in Tasks /\ delivery[d] \in Rows /\ RowHasTask(d) /\ task[d][n].retries \in Nat
    BY <1>t, <1>r DEF Tasks
  <2>f. ASSUME delivery' = [delivery EXCEPT ![d].status = "failed"] \/ delivery' = delivery
               \/ delivery' = [delivery EXCEPT ![d].exists = FALSE]
        PROVE  \A e \in Deliveries : /\ delivery'[e].exists => delivery[e].exists
                                     /\ delivery'[e].payload = delivery[e].payload
                                     /\ e = d \/ delivery'[e].status = delivery[e].status
                                     /\ delivery'[e].status \in {"failed", delivery[e].status}
    BY <1>t, <2>f DEF Rows
  (* One case for all tasks: the row is deleted or FAILED, or the task goes on. *)
  <2>1. ASSUME UNCHANGED <<legacy, generate>>, task[d][n].at # "none",
               NEW t \in Tasks, Goto(d, n, t), t.at # "to queue",
               \A e \in Deliveries : /\ delivery'[e].exists => delivery[e].exists
                                     /\ delivery'[e].payload = delivery[e].payload
                                     /\ e = d \/ delivery'[e].status = delivery[e].status
                                     /\ delivery'[e].status \in {"failed", delivery[e].status},
               \/ ~delivery'[d].exists
               \/ delivery'[d].status = "failed" /\ t.at # "clearing"
               \/ t.at \in {"queued", "sending", "sent"}
        PROVE  RowsHaveTasks'
    <3>1. Unresolved(d)' => t.at \in Ahead
      BY <2>1 DEF Unresolved, Ahead
    <3>2. t.at = "clearing" => ~delivery'[d].exists
      BY <2>1
    <3>3. \A e \in Deliveries : RowHasTask(e)'
      BY <1>t, <2>1, <3>1, <3>2, OneTaskLeaves
    <3>4. Created
      BY <1>c, <2>1
    <3> QED BY <1>s, <2>1, <3>3, <3>4 DEF RowsHaveTasks
  <2>2. CASE get_delivery_for_webhook(d, n)
    <3>1. UNCHANGED <<legacy, generate>> /\ task[d][n].at = "queued"
      BY <2>2 DEF get_delivery_for_webhook
    <3>2. CASE ~delivery[d].exists
      <4>1. UNCHANGED delivery /\ (Goto(d, n, Queued(task[d][n].retries + 1)) \/ Goto(d, n, NoTask))
        BY <2>2, <3>2 DEF get_delivery_for_webhook
      <4>2. task[d][n].retries + 1 \in Nat
        BY <2>t
      <4>3. PICK t \in Tasks : Goto(d, n, t) /\ t.at # "to queue"
        BY <1>q, <1>n, <4>1, <4>2
      <4> QED BY <2>1, <2>f, <3>1, <3>2, <4>1, <4>3
    <3>3. CASE delivery[d].exists /\ (~active \/ delivery[d].payload = NoPayload)
      <4>1. SetStatus(d, "failed") /\ Goto(d, n, NoTask)
        BY <2>2, <3>3 DEF get_delivery_for_webhook
      <4>2. delivery' = [delivery EXCEPT ![d].status = "failed"] /\ delivery'[d].status = "failed"
        BY <1>t, <4>1 DEF SetStatus, Rows
      <4> QED BY <1>n, <2>1, <2>f, <3>1, <4>1, <4>2
    <3>4. CASE delivery[d].exists /\ active /\ delivery[d].payload # NoPayload
      <4>1. UNCHANGED delivery /\ Goto(d, n, [task[d][n] EXCEPT !.at = "sending"])
        BY <2>2, <3>4 DEF get_delivery_for_webhook
      <4>2. [task[d][n] EXCEPT !.at = "sending"] \in Tasks /\ [task[d][n] EXCEPT !.at = "sending"].at = "sending"
        BY <2>t DEF Tasks
      <4>3. PICK t \in Tasks : Goto(d, n, t) /\ t.at = "sending"
        BY <4>1, <4>2
      <4> QED BY <2>1, <2>f, <3>1, <4>1, <4>3
    <3> QED BY <3>2, <3>3, <3>4
  <2>3. CASE send_webhook_request_succeeds(d, n)
    <3>1. UNCHANGED <<legacy, generate, delivery>> /\ task[d][n].at = "sending"
      BY <2>3 DEF send_webhook_request_succeeds
    <3>2. PICK t \in Tasks : Goto(d, n, t) /\ t.at = "sent"
      <4>1. [at |-> "sent", retries |-> 0] \in Tasks
        BY DEF Tasks
      <4> QED BY <2>3, <4>1 DEF send_webhook_request_succeeds
    <3> QED BY <2>1, <2>f, <3>1, <3>2
  <2>4. CASE \E retryable \in BOOLEAN : send_webhook_request_fails(d, n, retryable)
    <3> PICK retryable \in BOOLEAN : send_webhook_request_fails(d, n, retryable)
      BY <2>4
    <3>1. UNCHANGED <<legacy, generate>> /\ task[d][n].at = "sending" /\ handle_webhook_retry(d, n, retryable)
      BY DEF send_webhook_request_fails
    <3>2. CASE ~delivery[d].exists
      <4>1. Goto(d, n, NoTask) /\ UNCHANGED delivery
        BY <3>1, <3>2 DEF handle_webhook_retry
      <4> QED BY <1>n, <2>1, <2>f, <3>1, <3>2, <4>1
    <3>3. CASE delivery[d].exists /\ retryable /\ task[d][n].retries < MaxRetries
      <4>1. Goto(d, n, Queued(task[d][n].retries + 1)) /\ UNCHANGED delivery
        BY <3>1, <3>3 DEF handle_webhook_retry
      <4>2. task[d][n].retries + 1 \in Nat
        BY <2>t
      <4> QED BY <1>q, <2>1, <2>f, <3>1, <4>1, <4>2
    <3>4. CASE delivery[d].exists /\ ~(retryable /\ task[d][n].retries < MaxRetries)
      <4>1. SetStatus(d, "failed") /\ Goto(d, n, NoTask)
        BY <3>1, <3>4 DEF handle_webhook_retry
      <4>2. delivery' = [delivery EXCEPT ![d].status = "failed"] /\ delivery'[d].status = "failed"
        BY <1>t, <4>1 DEF SetStatus, Rows
      <4> QED BY <1>n, <2>1, <2>f, <3>1, <4>1, <4>2
    <3> QED BY <3>2, <3>3, <3>4
  <2>5. CASE clear_successful_delivery(d, n)
    <3>1. /\ UNCHANGED <<legacy, generate>> /\ task[d][n].at = "sent"
          /\ delivery' = [delivery EXCEPT ![d].exists = FALSE]
      BY <2>5 DEF clear_successful_delivery
    <3>2. PICK t \in Tasks : Goto(d, n, t) /\ t.at = "clearing"
      <4>1. [at |-> "clearing", retries |-> 0] \in Tasks
        BY DEF Tasks
      <4> QED BY <2>5, <4>1 DEF clear_successful_delivery
    <3>3. ~delivery'[d].exists
      BY <1>t, <3>1 DEF Rows
    <3> QED BY <2>1, <2>f, <3>1, <3>2, <3>3
  <2>6. CASE clear_payload(d, n)
    <3>1. UNCHANGED <<legacy, generate>> /\ task[d][n].at = "clearing" /\ Goto(d, n, NoTask)
      BY <2>6 DEF clear_payload
    <3>2. PICK gone : DeletePayloads(gone)
      BY <2>6 DEF clear_payload
    <3>3. \A e \in Deliveries : /\ delivery'[e].exists => delivery[e].exists
                                /\ delivery'[e].payload = delivery[e].payload
                                /\ delivery'[e].status = delivery[e].status
      BY <1>t, <3>2 DEF DeletePayloads, Rows
    <3>4. ~delivery'[d].exists
      BY <2>t, <3>1, <3>3 DEF RowHasTask
    <3> QED BY <1>n, <2>1, <3>1, <3>3, <3>4
  <2> QED BY <2>2, <2>3, <2>4, <2>5, <2>6 DEF RunTask
<1>7. CASE change_activity \/ grow_old \/ UNCHANGED vars
  <2>1. UNCHANGED <<legacy, delivery, payloads, generate, task>>
    BY <1>7 DEF change_activity, grow_old, vars
  <2> QED BY <2>1 DEF RowsHaveTasks, Created, Nothing, RowHasTask, Unresolved
<1>8. CASE delete_event_payloads_task
  <2>1. UNCHANGED <<legacy, generate, task>> /\ payloads # {}
    BY <1>8 DEF delete_event_payloads_task
  <2>2. PICK gone : DeletePayloads(gone)
    BY <1>8 DEF delete_event_payloads_task
  <2>3. \A e \in Deliveries : /\ delivery'[e].exists => delivery[e].exists
                              /\ delivery'[e].payload = delivery[e].payload
                              /\ delivery'[e].status = delivery[e].status
    BY <1>t, <2>2 DEF DeletePayloads, Rows
  <2>4. ASSUME NEW e \in Deliveries PROVE RowHasTask(e)'
    <3>1. RowHasTask(e) /\ (task[e][1].at = "to queue" => generate = {})
      BY <1>r DEF RowHasTask
    <3>2. UNCHANGED legacy /\ task'[e] = task[e] /\ generate' = generate
      BY <2>1
    <3> QED BY <2>3, <3>1, <3>2, RowKept
  <2> QED BY <1>c, <1>s, <2>1, <2>3, <2>4 DEF RowsHaveTasks
<1> QED BY <1>1, <1>2, <1>3, <1>4, <1>5, <1>6, <1>7, <1>8 DEF Next

(* Whatever fails, is retried by Celery or by staff, is switched off or     *)
(* comes late: a PENDING delivery that has its payload has a task that will *)
(* send it or say that it FAILED.                                           *)
THEOREM PendingIsAttended == Spec => []PendingHasATask
<1>1. RowsHaveTasks => PendingHasATask
  BY DEF RowsHaveTasks, RowHasTask, PendingHasATask, Ahead
<1>2. DeliveryInv /\ RowsHaveTasks /\ [Next]_vars => RowsHaveTasks'
  BY StepRowsHaveTasks
<1> QED BY <1>1, <1>2, InitRowsHaveTasks, DeliveriesKeepTheirInvariant, PTL DEF Spec

-----------------------------------------------------------------------------
(* The circuit breaker: what is in Redis, and what a call has read of it.   *)
BreakerStates == {"closed", "open", "half_open"}
CooldownAges == 0 .. CooldownSeconds

StateKey == [state : BreakerStates, age : CooldownAges]
Started ==
  [at : {"total", "errors", "clear", "set", "wrapped", "send"}, dry : BOOLEAN, blind : BOOLEAN,
   seen : BreakerStates, age : CooldownAges, total : Nat]
Registering == [at : {"register_error", "register_total"}]
Call == {Idle} \cup Started \cup Registering

ZSet == [Ages -> Nat]
KeysOK ==
  /\ appState \in {NoState} \cup StateKey
  /\ events \in [EventKeys -> ZSet]
  /\ \A name \in EventKeys : Total(events[name], Ages) <= MaxEvents

BoardInv ==
  KeysOK /\ redisUp \in BOOLEAN /\ healthy \in BOOLEAN /\ call \in [Workers -> Call]

LEMMA AgesFinite == IsFiniteSet(Ages) /\ 0 \in Ages /\ TtlSeconds \in Ages /\ TtlSeconds # 0
BY CountsAssumption, FS_Interval DEF Ages

(* Time moves the events of a set on and loses none of them.                *)
LEMMA AgedTotal ==
  ASSUME NEW z \in ZSet
  PROVE  Aged(z) \in ZSet /\ Total(Aged(z), Ages) = Total(z, Ages)
<1> DEFINE T == TtlSeconds
           young == Ages \ {T}
           later == Ages \ {0}
           moved == [a \in Ages |-> IF a = 0 THEN 0 ELSE z[a - 1]]
           next == [a \in young |-> a + 1]
<1>1. T \in Nat \ {0} /\ Ages = 0 .. T
  BY CountsAssumption DEF Ages
<1>2. \A a \in Ages : a # 0 => a - 1 \in Ages
  BY <1>1
<1>3. Aged(z) \in ZSet /\ moved \in [Ages -> Nat]
  <2>1. \A a \in Ages : z[a] \in Nat
    BY DEF ZSet
  <2>2. ASSUME NEW a \in Ages, a # 0 PROVE z[a - 1] \in Nat /\ z[a] \in Nat
    BY <1>2, <2>1, <2>2
  <2>3. ASSUME NEW a \in Ages
        PROVE  (IF a = 0 THEN 0 ELSE z[a - 1] + (IF a = TtlSeconds THEN z[a] ELSE 0)) \in Nat
    BY <2>2
  <2> QED BY <2>2, <2>3 DEF Aged, ZSet
<1>4. /\ \A a \in Ages : a # T => Aged(z)[a] = moved[a]
      /\ Aged(z)[T] = moved[T] + z[T] /\ z[T] \in Nat /\ moved[T] \in Nat /\ T \in Ages
  <2>1. ASSUME NEW a \in Ages, a # T, a # 0 PROVE Aged(z)[a] = moved[a]
    <3>1. z[a - 1] \in Nat
      BY <1>2, <2>1 DEF ZSet
    <3> QED BY <2>1, <3>1 DEF Aged
  <2>2. Aged(z)[0] = moved[0]
    BY AgesFinite DEF Aged
  <2>3. Aged(z)[T] = moved[T] + z[T]
    BY AgesFinite DEF Aged
  <2>4. z[T] \in Nat /\ moved[T] \in Nat /\ T \in Ages
    BY <1>3, AgesFinite DEF ZSet
  <2> HIDE DEF moved
  <2> QED BY <2>1, <2>2, <2>3, <2>4
<1>5. next \in Bijection(young, later)
  <2>1. next \in [young -> later] /\ \A a, b \in young : next[a] = next[b] => a = b
    BY <1>1
  <2>2. ASSUME NEW b \in later PROVE \E a \in young : next[a] = b
    <3>1. b - 1 \in young /\ next[b - 1] = b
      BY <1>1
    <3> QED BY <3>1
  <2> HIDE DEF next, young, later
  <2> QED BY <2>1, <2>2 DEF Bijection, Injection, Surjection, IsInjective
<1>6. \A a \in young : z[a] \in Int /\ moved[next[a]] = z[a]
  <2> SUFFICES ASSUME NEW a \in young PROVE z[a] \in Int /\ moved[next[a]] = z[a]
    OBVIOUS
  <2>1. a + 1 \in Ages /\ a + 1 # 0 /\ (a + 1) - 1 = a /\ a \in Ages
    BY <1>1
  <2>2. next[a] = a + 1 /\ z[a] \in Int
    BY <2>1 DEF ZSet
  <2>3. moved[a + 1] = z[(a + 1) - 1]
    BY <2>1
  <2> HIDE DEF moved, next
  <2> QED BY <2>1, <2>2, <2>3
<1>7. \A a \in Ages : z[a] \in Nat /\ moved[a] \in Nat /\ Aged(z)[a] \in Nat
  BY <1>3 DEF ZSet
<1>8. moved[0] = 0
  BY AgesFinite
<1> HIDE DEF moved, next
<1>9. Total(moved, later) = Total(z, young)
  <2>1. IsFiniteSet(young)
    BY AgesFinite, FS_Difference
  <2> HIDE DEF young, later
  <2> QED BY <1>5, <1>6, <2>1, TotalMoved
<1>10. Total(moved, later) \in Nat /\ Total(moved, Ages) = Total(moved, later) + 0
  BY <1>7, <1>8, AgesFinite, TotalWithout
<1>11. Total(z, young) \in Nat /\ Total(z, Ages) = Total(z, young) + z[T]
  <2>1. /\ Total(z, young) \in Nat
        /\ Total(z, Ages) = Total(z, young) + (IF z[T] > 0 THEN z[T] ELSE 0)
    BY <1>7, AgesFinite, TotalWithout
  <2> QED BY <1>4, <2>1
<1>12. Total(Aged(z), Ages) = Total(moved, Ages) - moved[T] + (moved[T] + z[T])
  <2>1. Total(Aged(z), Ages) = Total(moved, Ages) - (IF moved[T] > 0 THEN moved[T] ELSE 0)
                                 + (IF Aged(z)[T] > 0 THEN Aged(z)[T] ELSE 0)
    BY <1>4, <1>7, AgesFinite, TotalOneChanged
  <2> QED BY <1>4, <1>10, <2>1
<1> QED BY <1>3, <1>4, <1>9, <1>10, <1>11, <1>12

(* register_event keeps within the bound by its guard.                      *)
LEMMA RegisterTypes ==
  ASSUME KeysOK, NEW name \in EventKeys, register_event(name), UNCHANGED appState
  PROVE  KeysOK'
<1> DEFINE added == zremrangebyscore_then_zadd(events[name])
<1>1. CASE redisUp
  <2>1. events' = [events EXCEPT ![name] = added] /\ Total(added, Ages) <= MaxEvents
    BY <1>1 DEF register_event
  <2>2. events[name] \in ZSet
    BY DEF KeysOK
  <2>3. added \in ZSet
    <3>1. \A a \in Ages : events[name][a] \in Nat
      BY <2>2 DEF ZSet
    <3>2. events[name][0] + 1 \in Nat
      BY <3>1, AgesFinite
    <3> QED BY <3>1, <3>2 DEF zremrangebyscore_then_zadd, ZSet
  <2> HIDE DEF added
  <2> QED BY <2>1, <2>3 DEF KeysOK
<1>2. CASE ~redisUp
  BY <1>2 DEF register_event, KeysOK
<1> QED BY <1>1, <1>2

LEMMA NoEventsTotal == NoEvents \in ZSet /\ Total(NoEvents, Ages) = 0
<1>1. NoEvents \in ZSet /\ \A a \in Ages : NoEvents[a] \in Int /\ NoEvents[a] <= 0
  BY DEF NoEvents, ZSet
<1> QED BY <1>1, TotalZero

LEMMA InitBoard == BoardInit => BoardInv
<1> SUFFICES ASSUME BoardInit PROVE BoardInv
  OBVIOUS
<1>1. KeysOK
  BY NoEventsTotal, CountsAssumption DEF BoardInit, KeysOK
<1> QED BY <1>1 DEF BoardInit, BoardInv, Call

(* What next_state decides: only to trip, to probe after the cooldown, to   *)
(* close after a trial, or nothing.                                         *)
LEMMA Decides ==
  ASSUME NEW seen \in BreakerStates, NEW age, NEW total, NEW errors
  PROVE  LET target == next_state(seen, age, total, errors)
         IN /\ target \in BreakerStates
            /\ \/ target = seen
               \/ target = "open" /\ seen # "open"
               \/ target = "half_open" /\ seen = "open" /\ age >= CooldownSeconds
               \/ target = "closed" /\ seen = "half_open"
BY DEF next_state, BreakerStates

(* A call that goes on leaves the calls of the others alone.                *)
LEMMA ProceedTypes ==
  ASSUME call \in [Workers -> Call], NEW w \in Workers, NEW c \in Call, Proceed(w, c)
  PROVE  call' \in [Workers -> Call] /\ call'[w] = c
BY DEF Proceed

LEMMA CallContents ==
  ASSUME NEW c \in Call
  PROVE  /\ c.at \in {"total", "errors", "clear", "set", "wrapped", "send"} => c \in Started
         /\ c \in Started => /\ c.at \in {"total", "errors", "clear", "set", "wrapped", "send"}
                             /\ c.dry \in BOOLEAN /\ c.blind \in BOOLEAN /\ c.seen \in BreakerStates
                             /\ c.age \in CooldownAges /\ c.total \in Nat
         /\ c = Idle \/ c \in Registering => c.at \in {"idle", "register_error", "register_total"}
BY DEF Call, Started, Registering, Idle

(* The records a step of a call makes of the one before.                    *)
LEMMA CallRecords ==
  ASSUME NEW c \in Started
  PROVE  /\ \A n \in Nat : [c EXCEPT !.at = "errors", !.total = n] \in Started
         /\ [c EXCEPT !.at = "set", !.age = 0] \in Started
         /\ \A b \in BOOLEAN : [c EXCEPT !.at = "wrapped", !.age = 0, !.blind = b] \in Started
         /\ [c EXCEPT !.at = "send"] \in Started
         /\ \A a \in CooldownAges : [c EXCEPT !.age = a] \in Started
<1>1. 0 \in CooldownAges
  BY CountsAssumption DEF CooldownAges
<1> QED BY <1>1 DEF Started

LEMMA OlderAges == ASSUME NEW a \in CooldownAges PROVE Older(a, CooldownSeconds) \in CooldownAges
BY CountsAssumption DEF CooldownAges, Older

(* A call's steps, one after the other, for any number of callers.          *)
LEMMA CallStepTypes ==
  ASSUME BoardInv, NEW w \in Workers, CallStep(w)
  PROVE  BoardInv'
<1> DEFINE c == call[w]
<1>c. call \in [Workers -> Call] /\ c \in Call /\ (c.at \in {"total", "errors", "clear", "set", "wrapped", "send"} => c \in Started)
  BY CallContents DEF BoardInv
<1>k. KeysOK /\ redisUp \in BOOLEAN /\ healthy \in BOOLEAN
  BY DEF BoardInv
<1>u. AtRedis => redisUp' \in BOOLEAN /\ healthy' \in BOOLEAN
  BY <1>k DEF AtRedis
<1>s. Started \subseteq Call /\ Registering \subseteq Call /\ Idle \in Call
  BY DEF Call
<1>1. CASE get_total_count(w)
  <2> DEFINE count == get_event_count("total")
  <2>1. count \in Nat
    <3>1. \A a \in Ages : events["total"][a] \in Int
      BY <1>k DEF KeysOK, ZSet, EventKeys
    <3> QED BY <3>1, AgesFinite, TotalType DEF get_event_count
  <2>2. c.at = "total" /\ Proceed(w, [c EXCEPT !.at = "errors", !.total = IF count = 0 THEN 1 ELSE count])
    BY <1>1 DEF get_total_count
  <2>3. (IF count = 0 THEN 1 ELSE count) \in Nat
    BY <2>1
  <2> HIDE DEF count
  <2>4. [c EXCEPT !.at = "errors", !.total = IF count = 0 THEN 1 ELSE count] \in Call
    BY <1>c, <1>s, <2>2, <2>3, CallRecords
  <2>5. call' \in [Workers -> Call]
    BY <1>c, <2>2, <2>4, ProceedTypes
  <2> QED BY <1>1, <1>k, <1>u, <2>5 DEF get_total_count, BoardInv, KeysOK
<1>2. CASE update_breaker_state(w)
  <2> DEFINE target == next_state(c.seen, c.age, c.total, get_event_count("error"))
             new == [at |-> IF target = c.seen THEN "wrapped" ELSE "clear", dry |-> c.dry,
                     blind |-> c.blind, seen |-> target, age |-> 0, total |-> 0]
  <2>1. c.at = "errors" /\ Proceed(w, new)
    BY <1>2 DEF update_breaker_state
  <2>2. c.seen \in BreakerStates /\ c.dry \in BOOLEAN /\ c.blind \in BOOLEAN
    BY <1>c, <2>1, CallContents
  <2>3. target \in BreakerStates
    BY <2>2, Decides
  <2> HIDE DEF target
  <2>4. new \in Call
    BY <1>s, <2>2, <2>3, CountsAssumption DEF Started, CooldownAges
  <2> HIDE DEF new
  <2>5. call' \in [Workers -> Call]
    BY <1>c, <2>1, <2>4, ProceedTypes
  <2> QED BY <1>2, <1>k, <1>u, <2>5 DEF update_breaker_state, BoardInv, KeysOK
<1>3. CASE clear_state_for_app(w)
  <2>1. c.at = "clear" /\ Proceed(w, [c EXCEPT !.at = "set", !.age = 0])
    BY <1>3 DEF clear_state_for_app
  <2>2. call' \in [Workers -> Call]
    BY <1>c, <1>s, <2>1, CallRecords, ProceedTypes
  <2>3. KeysOK'
    <3>1. CASE redisUp
      BY <1>3, <3>1, NoEventsTotal, CountsAssumption DEF clear_state_for_app, KeysOK
    <3>2. CASE ~redisUp
      BY <1>3, <1>k, <3>2 DEF clear_state_for_app, KeysOK
    <3> QED BY <3>1, <3>2
  <2> QED BY <1>3, <1>u, <2>2, <2>3 DEF clear_state_for_app, BoardInv
<1>4. CASE set_app_state(w)
  <2>1. c.at = "set" /\ Proceed(w, [c EXCEPT !.at = "wrapped", !.age = 0, !.blind = c.blind \/ ~redisUp])
    BY <1>4 DEF set_app_state
  <2>2. c \in Started /\ (c.blind \/ ~redisUp) \in BOOLEAN /\ c.seen \in BreakerStates
    BY <1>c, <2>1, CallContents
  <2>3. call' \in [Workers -> Call]
    BY <1>c, <1>s, <2>1, <2>2, CallRecords, ProceedTypes
  <2>4. appState' \in {NoState} \cup StateKey
    <3>1. [state |-> c.seen, age |-> 0] \in StateKey
      BY <2>2, CountsAssumption DEF StateKey, CooldownAges
    <3> QED BY <1>4, <1>k, <3>1 DEF set_app_state, KeysOK
  <2> QED BY <1>4, <1>k, <1>u, <2>3, <2>4 DEF set_app_state, BoardInv, KeysOK
<1>5. CASE wrap_func(w)
  <2>1. c.at = "wrapped" /\ \/ Proceed(w, Idle)
                            \/ Proceed(w, [c EXCEPT !.at = "send"])
    BY <1>5 DEF wrap_func
  <2>2. [c EXCEPT !.at = "send"] \in Call
    BY <1>c, <1>s, <2>1, CallRecords
  <2>3. call' \in [Workers -> Call]
    BY <1>c, <1>s, <2>1, <2>2, ProceedTypes
  <2> QED BY <1>5, <1>k, <1>u, <2>3 DEF wrap_func, BoardInv, KeysOK
<1>6. CASE trigger_webhook_sync(w)
  <2>1. \E new \in Call : Proceed(w, new)
    BY <1>6, <1>s DEF trigger_webhook_sync, Registering
  <2>2. call' \in [Workers -> Call]
    BY <1>c, <2>1, ProceedTypes
  <2> QED BY <1>6, <1>k, <1>u, <2>2 DEF trigger_webhook_sync, BoardInv, KeysOK
<1>7. CASE register_error(w)
  <2>1. [at |-> "register_total"] \in Call
    BY <1>s DEF Registering
  <2>2. call' \in [Workers -> Call]
    BY <1>7, <1>c, <2>1, ProceedTypes DEF register_error
  <2>3. KeysOK'
    BY <1>7, <1>k, RegisterTypes DEF register_error, EventKeys
  <2> QED BY <1>7, <1>u, <2>2, <2>3 DEF register_error, BoardInv
<1>8. CASE register_total(w)
  <2>1. call' \in [Workers -> Call]
    BY <1>8, <1>c, <1>s, ProceedTypes DEF register_total
  <2>2. KeysOK'
    BY <1>8, <1>k, RegisterTypes DEF register_total, EventKeys
  <2> QED BY <1>8, <1>u, <2>1, <2>2 DEF register_total, BoardInv
<1> QED BY <1>1, <1>2, <1>3, <1>4, <1>5, <1>6, <1>7, <1>8 DEF CallStep

(* Time ages what is stored and what was read.                              *)
LEMMA SecondTypes ==
  ASSUME BoardInv, SecondPasses
  PROVE  BoardInv'
<1>1. events' \in [EventKeys -> ZSet] /\ \A name \in EventKeys : Total(events'[name], Ages) <= MaxEvents
  <2>1. \A name \in EventKeys : events'[name] = Aged(events[name]) /\ events[name] \in ZSet
    BY DEF SecondPasses, BoardInv, KeysOK
  <2>2. \A name \in EventKeys : events'[name] \in ZSet /\ Total(events'[name], Ages) <= MaxEvents
    BY <2>1, AgedTotal DEF BoardInv, KeysOK
  <2>3. events' = [name \in EventKeys |-> Aged(events[name])]
    BY DEF SecondPasses
  <2> QED BY <2>1, <2>2, <2>3
<1>2. appState' \in {NoState} \cup StateKey
  <2>1. CASE appState = NoState
    BY <2>1 DEF SecondPasses
  <2>2. CASE appState # NoState
    <3>1. appState \in StateKey /\ appState.age \in CooldownAges
      BY <2>2 DEF BoardInv, KeysOK, StateKey
    <3>2. appState' = [appState EXCEPT !.age = Older(appState.age, CooldownSeconds)]
      BY <2>2 DEF SecondPasses
    <3>3. Older(appState.age, CooldownSeconds) \in CooldownAges
      BY <3>1, OlderAges
    <3> QED BY <3>1, <3>2, <3>3 DEF StateKey
  <2> QED BY <2>1, <2>2
<1>3. call' \in [Workers -> Call]
  <2> DEFINE new(w) == IF call[w].at \in {"total", "errors", "set"}
                       THEN [call[w] EXCEPT !.age = Older(@, CooldownSeconds)] ELSE call[w]
  <2>1. call' = [w \in Workers |-> new(w)]
    BY DEF SecondPasses
  <2>2. ASSUME NEW w \in Workers PROVE new(w) \in Call
    <3>1. call[w] \in Call
      BY DEF BoardInv
    <3>2. CASE call[w].at \in {"total", "errors", "set"}
      <4>1. call[w] \in Started /\ call[w].age \in CooldownAges
        BY <3>1, <3>2, CallContents
      <4>2. Older(call[w].age, CooldownSeconds) \in CooldownAges
        BY <4>1, OlderAges
      <4>3. [call[w] EXCEPT !.age = Older(call[w].age, CooldownSeconds)] \in Started
        BY <4>1, <4>2, CallRecords
      <4> QED BY <3>2, <4>3 DEF Call
    <3>3. CASE call[w].at \notin {"total", "errors", "set"}
      BY <3>1, <3>3
    <3> QED BY <3>2, <3>3
  <2> HIDE DEF new
  <2> QED BY <2>1, <2>2
<1> QED BY <1>1, <1>2, <1>3 DEF SecondPasses, AtRedis, BoardInv, KeysOK

LEMMA NextBoard == BoardInv /\ [BoardNext]_boardVars => BoardInv'
<1> SUFFICES ASSUME BoardInv, [BoardNext]_boardVars PROVE BoardInv'
  OBVIOUS
<1>1. ASSUME NEW w \in Workers, NEW dry_run \in BOOLEAN, get_app_state(w, dry_run)
      PROVE  BoardInv'
  <2> DEFINE known == redisUp /\ appState # NoState
             new == [at |-> "total", dry |-> dry_run, blind |-> ~redisUp,
                     seen |-> IF known THEN appState.state ELSE "closed",
                     age |-> IF known THEN appState.age ELSE 0, total |-> 0]
  <2>1. Proceed(w, new)
    BY <1>1 DEF get_app_state
  <2>2. known => appState.state \in BreakerStates /\ appState.age \in CooldownAges
    BY DEF BoardInv, KeysOK, StateKey
  <2>3. /\ (IF known THEN appState.state ELSE "closed") \in BreakerStates
        /\ (IF known THEN appState.age ELSE 0) \in CooldownAges
    BY <2>2, CountsAssumption DEF BreakerStates, CooldownAges
  <2>4. (~redisUp) \in BOOLEAN
    OBVIOUS
  <2> HIDE DEF known
  <2>5. new \in Call
    BY <2>3, <2>4 DEF Started, Call
  <2> HIDE DEF new
  <2>6. call' \in [Workers -> Call]
    BY <2>1, <2>5, ProceedTypes DEF BoardInv
  <2> QED BY <1>1, <2>6 DEF get_app_state, AtRedis, BoardInv, KeysOK
<1>2. ASSUME NEW w \in Workers, CallStep(w) PROVE BoardInv'
  BY <1>2, CallStepTypes
<1>3. CASE SecondPasses
  BY <1>3, SecondTypes
<1>4. CASE RedisChanges
  BY <1>4 DEF RedisChanges, BoardInv, KeysOK
<1>5. CASE AppChanges
  BY <1>5 DEF AppChanges, BoardInv, KeysOK
<1>6. CASE UNCHANGED boardVars
  BY <1>6 DEF boardVars, BoardInv, KeysOK
<1> QED BY <1>1, <1>2, <1>3, <1>4, <1>5, <1>6 DEF BoardNext

LEMMA BoardHolds == BoardSpec => []BoardInv
BY InitBoard, NextBoard, PTL DEF BoardSpec

(* Whatever fails and however calls interleave, Redis holds a state of the  *)
(* breaker and no more events than were registered.                         *)
THEOREM BreakerKeysAreWellFormed == BoardSpec => []BoardTypeOK
<1>1. BoardInv => BoardTypeOK
  <2> SUFFICES ASSUME BoardInv PROVE BoardTypeOK
    OBVIOUS
  <2>1. ASSUME NEW name \in EventKeys, NEW a \in Ages PROVE events[name][a] \in 0 .. MaxEvents
    <3>1. events[name] \in ZSet /\ Total(events[name], Ages) <= MaxEvents
      BY DEF BoardInv, KeysOK
    <3>2. \A b \in Ages : events[name][b] \in Nat
      BY <3>1 DEF ZSet
    <3>3. /\ Total(events[name], Ages \ {a}) \in Nat
          /\ Total(events[name], Ages) = Total(events[name], Ages \ {a})
               + (IF events[name][a] > 0 THEN events[name][a] ELSE 0)
      BY <3>2, AgesFinite, TotalWithout
    <3> QED BY <3>1, <3>2, <3>3, CountsAssumption
  <2>2. events \in [EventKeys -> [Ages -> 0 .. MaxEvents]]
    BY <2>1 DEF BoardInv, KeysOK, ZSet
  <2>3. ASSUME NEW w \in Workers, "seen" \in DOMAIN call[w]
        PROVE  call[w].seen \in {"closed", "open", "half_open"}
    <3>1. call[w] \in Call
      BY DEF BoardInv
    <3>2. call[w] \in Started
      BY <2>3, <3>1 DEF Call, Idle, Registering
    <3> QED BY <3>2 DEF Started, BreakerStates
  <2>4. appState = NoState \/ (appState.state \in {"closed", "open", "half_open"}
                                 /\ appState.age \in 0 .. CooldownSeconds)
    BY DEF BoardInv, KeysOK, StateKey, BreakerStates, CooldownAges
  <2> QED BY <2>2, <2>3, <2>4 DEF BoardInv, BoardTypeOK
<1> QED BY <1>1, BoardHolds, PTL

-----------------------------------------------------------------------------
(* One caller.  What its call has read is still so when it acts on it,      *)
(* unless Redis did not tell: a state that was read is the one in Redis,    *)
(* and a change of state that was decided on is one the breaker may make.   *)
OneCaller == \E w : Workers = {w}

StateOf(key) == IF key = NoState THEN "closed" ELSE key.state

ReadsHold(c, key) ==
  /\ c.at \in {"total", "errors"} =>
       IF c.blind THEN c.seen = "closed"
       ELSE c.seen = StateOf(key) /\ (key # NoState => c.age = key.age)
  /\ c.at = "clear" => \/ c.seen = "open"
                       \/ /\ c.seen = "half_open" /\ key # NoState /\ key.state = "open"
                          /\ key.age >= CooldownSeconds
                       \/ c.seen = "closed" /\ StateOf(key) = "half_open"
  /\ c.at \in {"wrapped", "send"} /\ ~c.blind => c.seen = StateOf(key)

ReadsOK == \A w \in Workers : ReadsHold(call[w], appState)

LEMMA InitReads == BoardInit => ReadsOK
BY DEF BoardInit, ReadsOK, ReadsHold, Idle

LEMMA StepReads == BoardInv /\ OneCaller /\ ReadsOK /\ [BoardNext]_boardVars => ReadsOK'
<1> SUFFICES ASSUME BoardInv, OneCaller, ReadsOK, [BoardNext]_boardVars, NEW w \in Workers
             PROVE  ReadsHold(call'[w], appState')
  BY DEF ReadsOK
<1> DEFINE c == call[w]
<1>r. ReadsHold(c, appState)
  BY DEF ReadsOK
<1>t. /\ c \in Call /\ appState \in {NoState} \cup StateKey /\ NoState \notin StateKey
      /\ (c.at \in {"total", "errors", "clear", "set", "wrapped", "send"} => c \in Started)
      /\ call \in [Workers -> Call]
  <2>1. NoState \notin StateKey
    BY DEF NoState, StateKey
  <2> QED BY <2>1, CallContents DEF BoardInv, KeysOK
<1>1. ASSUME NEW dry_run \in BOOLEAN, get_app_state(w, dry_run)
      PROVE  ReadsHold(call'[w], appState')
  <2>1. /\ call'[w] = [at |-> "total", dry |-> dry_run, blind |-> ~redisUp,
                       seen |-> IF redisUp /\ appState # NoState THEN appState.state ELSE "closed",
                       age |-> IF redisUp /\ appState # NoState THEN appState.age ELSE 0, total |-> 0]
        /\ appState' = appState
    BY <1>1, <1>t DEF get_app_state, Proceed
  <2>2. /\ call'[w].at = "total" /\ call'[w].blind = ~redisUp
        /\ call'[w].seen = IF redisUp /\ appState # NoState THEN appState.state ELSE "closed"
        /\ call'[w].age = IF redisUp /\ appState # NoState THEN appState.age ELSE 0
    BY <2>1
  <2>3. CASE redisUp
    <3>1. ~call'[w].blind
      BY <2>2, <2>3
    <3> QED BY <2>1, <2>2, <2>3, <3>1 DEF ReadsHold, StateOf
  <2>4. CASE ~redisUp
    <3>1. call'[w].blind
      BY <2>2, <2>4
    <3> QED BY <2>2, <2>4, <3>1 DEF ReadsHold
  <2> QED BY <2>3, <2>4
<1>2. CASE get_total_count(w)
  <2>1. PICK n : call'[w] = [c EXCEPT !.at = "errors", !.total = n]
    BY <1>2, <1>t DEF get_total_count, Proceed
  <2>2. c.at = "total" /\ c \in Started /\ appState' = appState
    BY <1>2, <1>t DEF get_total_count
  <2>3. /\ call'[w].at = "errors" /\ call'[w].blind = c.blind /\ call'[w].seen = c.seen
        /\ call'[w].age = c.age
    BY <2>1, <2>2 DEF Started
  <2> QED BY <1>r, <2>2, <2>3 DEF ReadsHold
<1>3. CASE update_breaker_state(w)
  <2> DEFINE target == next_state(c.seen, c.age, c.total, get_event_count("error"))
  <2>1. /\ c.at = "errors" /\ c \in Started /\ appState' = appState
        /\ call'[w] = [at |-> IF target = c.seen THEN "wrapped" ELSE "clear", dry |-> c.dry,
                       blind |-> c.blind, seen |-> target, age |-> 0, total |-> 0]
    BY <1>3, <1>t DEF update_breaker_state, Proceed
  <2>2. c.seen \in BreakerStates
    BY <2>1 DEF Started
  <2>3. \/ target = c.seen
        \/ target = "open" /\ c.seen # "open"
        \/ target = "half_open" /\ c.seen = "open" /\ c.age >= CooldownSeconds
        \/ target = "closed" /\ c.seen = "half_open"
    BY <2>2, Decides
  <2> HIDE DEF target
  <2>4. /\ call'[w].at = IF target = c.seen THEN "wrapped" ELSE "clear"
        /\ call'[w].blind = c.blind /\ call'[w].seen = target
    BY <2>1
  <2>5. IF c.blind THEN c.seen = "closed"
        ELSE c.seen = StateOf(appState) /\ (appState # NoState => c.age = appState.age)
    BY <1>r, <2>1 DEF ReadsHold
  <2> HIDE DEF c
  <2> QED BY <2>1, <2>3, <2>4, <2>5 DEF ReadsHold, StateOf
<1>4. CASE clear_state_for_app(w)
  <2>1. c.at = "clear" /\ c \in Started /\ call'[w] = [c EXCEPT !.at = "set", !.age = 0]
    BY <1>4, <1>t DEF clear_state_for_app, Proceed
  <2>2. call'[w].at = "set"
    BY <2>1 DEF Started
  <2> QED BY <2>2 DEF ReadsHold
<1>5. CASE set_app_state(w)
  <2>1. /\ c.at = "set" /\ c \in Started
        /\ call'[w] = [c EXCEPT !.at = "wrapped", !.age = 0, !.blind = c.blind \/ ~redisUp]
        /\ redisUp => appState' = [state |-> c.seen, age |-> 0]
    BY <1>5, <1>t DEF set_app_state, Proceed
  <2>2. call'[w].at = "wrapped" /\ call'[w].seen = c.seen /\ (~redisUp => call'[w].blind)
    BY <2>1 DEF Started
  <2>3. redisUp => appState'.state = c.seen /\ appState' # NoState
    BY <2>1 DEF NoState
  <2> QED BY <2>2, <2>3 DEF ReadsHold, StateOf
<1>6. CASE wrap_func(w)
  <2>1. /\ c.at = "wrapped" /\ c \in Started /\ appState' = appState
        /\ call'[w] = Idle \/ call'[w] = [c EXCEPT !.at = "send"]
    BY <1>6, <1>t DEF wrap_func, Proceed
  <2>2. \/ call'[w].at = "idle"
        \/ call'[w].at = "send" /\ call'[w].blind = c.blind /\ call'[w].seen = c.seen
    BY <2>1 DEF Started, Idle
  <2> QED BY <1>r, <2>1, <2>2 DEF ReadsHold
<1>7. CASE trigger_webhook_sync(w) \/ register_error(w) \/ register_total(w)
  <2>1. call'[w].at \in {"idle", "register_error", "register_total"}
    BY <1>7, <1>t DEF trigger_webhook_sync, register_error, register_total, Proceed, Idle
  <2> QED BY <2>1 DEF ReadsHold
<1>8. CASE SecondPasses
  <2>1. appState' = IF appState = NoState THEN NoState
                    ELSE [appState EXCEPT !.age = Older(appState.age, CooldownSeconds)]
    BY <1>8 DEF SecondPasses
  <2>2. CASE c.at \in {"total", "errors", "set"}
    <3>1. c \in Started /\ call'[w] = [c EXCEPT !.age = Older(c.age, CooldownSeconds)]
      BY <1>8, <1>t, <2>2 DEF SecondPasses
    <3>2. /\ call'[w].at = c.at /\ call'[w].blind = c.blind /\ call'[w].seen = c.seen
          /\ call'[w].age = Older(c.age, CooldownSeconds)
      BY <3>1 DEF Started
    <3>3. CASE appState = NoState
      BY <1>r, <2>1, <2>2, <3>2, <3>3 DEF ReadsHold
    <3>4. CASE appState # NoState
      <4>1. appState'.state = appState.state /\ appState'.age = Older(appState.age, CooldownSeconds)
        BY <1>t, <2>1, <3>4 DEF StateKey
      <4>2. appState' # NoState
        BY <1>t, <2>1, <3>4, <4>1 DEF StateKey, NoState, BreakerStates
      <4> QED BY <1>r, <2>2, <3>2, <3>4, <4>1, <4>2 DEF ReadsHold, StateOf
    <3> QED BY <3>3, <3>4
  <2>3. CASE c.at \notin {"total", "errors", "set"}
    <3>1. call'[w] = c
      BY <1>8, <2>3 DEF SecondPasses
    <3>2. CASE appState = NoState
      BY <1>r, <2>1, <3>1, <3>2
    <3>3. CASE appState # NoState
      <4>1. appState'.state = appState.state /\ appState'.age = Older(appState.age, CooldownSeconds)
        BY <1>t, <2>1, <3>3 DEF StateKey
      <4>2. appState' # NoState
        BY <1>t, <2>1, <3>3, <4>1 DEF StateKey, NoState, BreakerStates
      <4>3. appState.age >= CooldownSeconds => appState'.age >= CooldownSeconds
        BY <1>t, <3>3, <4>1, CountsAssumption DEF StateKey, CooldownAges, Older
      <4> QED BY <1>r, <2>3, <3>1, <3>3, <4>1, <4>2, <4>3 DEF ReadsHold, StateOf
    <3> QED BY <3>2, <3>3
  <2> QED BY <2>2, <2>3
<1>9. CASE RedisChanges \/ AppChanges \/ UNCHANGED boardVars
  BY <1>9, <1>r DEF RedisChanges, AppChanges, boardVars
<1>10. \/ \E dry_run \in BOOLEAN : get_app_state(w, dry_run)
       \/ CallStep(w) \/ SecondPasses \/ RedisChanges \/ AppChanges \/ UNCHANGED boardVars
  BY DEF BoardNext, OneCaller
<1> QED BY <1>1, <1>2, <1>3, <1>4, <1>5, <1>6, <1>7, <1>8, <1>9, <1>10 DEF CallStep

(* What of a call the promise is about, and where the breaker then stands.  *)
Promised(c) == c.at = "send" /\ ~c.blind /\ ~(c.dry /\ c.seen = "open")
Standing(c, key) == IF c.at = "set" THEN c.seen ELSE StateOf(key)
Waited(c, key) ==
  IF Standing(c, key) # "open" THEN 0 ELSE IF c.at = "set" THEN c.age ELSE key.age
Sends == \E w \in Workers : call[w].at = "send" /\ ~call[w].blind /\ ~(call[w].dry /\ call[w].seen = "open")

LEMMA Visible ==
  ASSUME OneCaller, NEW w \in Workers
  PROVE  /\ VisibleState = Standing(call[w], appState) /\ VisibleAge = Waited(call[w], appState)
         /\ Sends <=> Promised(call[w])
<1>1. CASE call[w].at = "set"
  <2>1. Pending = {w}
    BY <1>1 DEF Pending, OneCaller
  <2>2. (CHOOSE v \in Pending : TRUE) = w
    BY <2>1
  <2>3. VisibleState = call[w].seen
    BY <2>1, <2>2 DEF VisibleState
  <2> QED BY <1>1, <2>1, <2>2, <2>3 DEF VisibleAge, Standing, Waited, Sends, Promised, OneCaller
<1>2. CASE call[w].at # "set"
  <2>1. Pending = {}
    BY <1>2 DEF Pending, OneCaller
  <2>2. VisibleState = StateOf(appState)
    BY <2>1 DEF VisibleState, StateOf
  <2> QED BY <1>2, <2>1, <2>2 DEF VisibleAge, Standing, Waited, Sends, Promised, OneCaller
<1> QED BY <1>1, <1>2

LEMMA VisibleNext ==
  ASSUME OneCaller, NEW w \in Workers
  PROVE  /\ VisibleState' = Standing(call'[w], appState') /\ VisibleAge' = Waited(call'[w], appState')
         /\ Sends' <=> Promised(call'[w])
<1>1. CASE call'[w].at = "set"
  <2>1. Pending' = {w}
    BY <1>1 DEF Pending, OneCaller
  <2>2. (CHOOSE v \in Pending' : TRUE) = w
    BY <2>1
  <2>3. VisibleState' = call'[w].seen
    BY <2>1, <2>2 DEF VisibleState
  <2> QED BY <1>1, <2>1, <2>2, <2>3 DEF VisibleAge, Standing, Waited, Sends, Promised, OneCaller
<1>2. CASE call'[w].at # "set"
  <2>1. Pending' = {}
    BY <1>2 DEF Pending, OneCaller
  <2>2. VisibleState' = StateOf(appState')
    BY <2>1 DEF VisibleState, StateOf
  <2> QED BY <1>2, <2>1, <2>2 DEF VisibleAge, Standing, Waited, Sends, Promised, OneCaller
<1> QED BY <1>1, <1>2

(* The steps of the promise, by what they do to what is visible.            *)
LEMMA Promises ==
  ASSUME VisibleState \in BreakerStates, VisibleState' \in BreakerStates,
         VisibleAge' \in 0 .. CooldownSeconds,
         \/ /\ Sends' <=> Sends
            /\ redisUp' = redisUp
            /\ \/ ~redisUp
               \/ VisibleState' = VisibleState /\ VisibleAge' = VisibleAge
               \/ VisibleState' = "open" /\ VisibleAge' = 0
               \/ /\ VisibleState = "open" /\ VisibleAge >= CooldownSeconds
                  /\ VisibleState' = "half_open" /\ VisibleAge' = 0
               \/ VisibleState = "half_open" /\ VisibleState' = "closed" /\ VisibleAge' = 0
               \/ /\ VisibleState = "open" /\ VisibleState' = "open" /\ VisibleAge < CooldownSeconds
                  /\ VisibleAge' = VisibleAge + 1
         \/ /\ VisibleState' = VisibleState /\ VisibleAge' = VisibleAge
            /\ \/ (Sends' <=> Sends) /\ redisUp' = ~redisUp
               \/ redisUp' = redisUp /\ Sends /\ ~Sends'
               \/ redisUp' = redisUp /\ ~Sends /\ Sends' /\ VisibleState # "open"
  PROVE  [Promise!Next]_(Promise!vars)
BY DEF Promise!Next, Promise!vars, Promise!Trip, Promise!Become, Promise!Probe, Promise!Close, Promise!Send,
       Promise!Answer, Promise!Second, Promise!StorageChanges, Promise!Forget, Promise!States,
       BreakerStates, Sends

LEMMA StandingTypes ==
  ASSUME NEW c \in Call, NEW key \in {NoState} \cup StateKey
  PROVE  Standing(c, key) \in BreakerStates /\ Waited(c, key) \in CooldownAges
<1>1. c.at = "set" => c.seen \in BreakerStates /\ c.age \in CooldownAges
  BY CallContents
<1>2. StateOf(key) \in BreakerStates /\ (StateOf(key) = "open" => key.age \in CooldownAges)
  BY DEF StateOf, StateKey, BreakerStates
<1>3. 0 \in CooldownAges
  BY CountsAssumption DEF CooldownAges
<1> QED BY <1>1, <1>2, <1>3 DEF Standing, Waited

(* A step of the one call is a step of the promise, or shows nothing of it. *)
LEMMA CallPromised ==
  ASSUME BoardInv, BoardInv', ReadsOK, OneCaller, NEW w \in Workers,
         CallStep(w) \/ \E dry_run \in BOOLEAN : get_app_state(w, dry_run)
  PROVE  [Promise!Next]_(Promise!vars)
<1> DEFINE c == call[w]
           d == call'[w]
           Still == /\ Standing(d, appState') = Standing(c, appState)
                    /\ Waited(d, appState') = Waited(c, appState)
<1>t. /\ c \in Call /\ appState \in {NoState} \cup StateKey /\ NoState \notin StateKey
      /\ (c.at \in {"total", "errors", "clear", "set", "wrapped", "send"} => c \in Started)
      /\ call \in [Workers -> Call] /\ ReadsHold(c, appState)
  <2>1. NoState \notin StateKey
    BY DEF NoState, StateKey
  <2> QED BY <2>1, CallContents DEF BoardInv, KeysOK, ReadsOK
<1>v. /\ VisibleState = Standing(c, appState) /\ VisibleAge = Waited(c, appState)
      /\ Sends <=> Promised(c)
      /\ VisibleState' = Standing(d, appState') /\ VisibleAge' = Waited(d, appState')
      /\ Sends' <=> Promised(d)
  BY Visible, VisibleNext
<1>w. /\ VisibleState \in BreakerStates /\ VisibleState' \in BreakerStates
      /\ VisibleAge' \in 0 .. CooldownSeconds
  <2>1. d \in Call /\ appState' \in {NoState} \cup StateKey
    BY DEF BoardInv, KeysOK
  <2> QED BY <1>t, <1>v, <2>1, StandingTypes DEF CooldownAges
<1>u. redisUp' = redisUp
  BY DEF CallStep, get_app_state, get_total_count, update_breaker_state, clear_state_for_app,
         set_app_state, wrap_func, trigger_webhook_sync, register_error, register_total, AtRedis
(* Reading, deciding and counting show nothing.                             *)
<1>1. CASE \/ \E dry_run \in BOOLEAN : get_app_state(w, dry_run)
           \/ get_total_count(w) \/ update_breaker_state(w)
           \/ register_error(w) \/ register_total(w)
  <2>1. appState' = appState /\ c.at \notin {"set", "send"} /\ d.at \notin {"set", "send"}
    <3>1. ASSUME NEW dry_run \in BOOLEAN, get_app_state(w, dry_run)
          PROVE  appState' = appState /\ c.at = "idle" /\ d.at = "total"
      BY <1>t, <3>1 DEF get_app_state, Proceed, Idle
    <3>2. CASE get_total_count(w)
      <4>1. PICK n : d = [c EXCEPT !.at = "errors", !.total = n]
        BY <1>t, <3>2 DEF get_total_count, Proceed
      <4>2. appState' = appState /\ c.at = "total" /\ c \in Started
        BY <1>t, <3>2 DEF get_total_count
      <4>3. d.at = "errors"
        BY <4>1, <4>2 DEF Started
      <4> QED BY <4>2, <4>3
    <3>3. CASE update_breaker_state(w)
      BY <1>t, <3>3 DEF update_breaker_state, Proceed
    <3>4. CASE register_error(w) \/ register_total(w)
      BY <1>t, <3>4 DEF register_error, register_total, Proceed, Idle
    <3> QED BY <1>1, <3>1, <3>2, <3>3, <3>4
  <2>2. Still /\ ~Promised(c) /\ ~Promised(d)
    BY <2>1 DEF Standing, Waited, Promised
  <2> QED BY <1>u, <1>v, <1>w, <2>2, Promises
(* With the keys deleted the change of state that was decided on shows.     *)
<1>2. CASE clear_state_for_app(w)
  <2>1. /\ c.at = "clear" /\ c \in Started /\ d = [c EXCEPT !.at = "set", !.age = 0]
        /\ redisUp \/ appState' = appState
    BY <1>t, <1>2 DEF clear_state_for_app, Proceed
  <2>2. d.at = "set" /\ d.age = 0 /\ d.seen = c.seen
    BY <2>1 DEF Started
  <2>3. ~Promised(c) /\ ~Promised(d) /\ Standing(d, appState') = c.seen /\ Waited(d, appState') = 0
        /\ Standing(c, appState) = StateOf(appState)
    BY <2>1, <2>2 DEF Promised, Standing, Waited
  <2>4. \/ c.seen = "open"
        \/ /\ c.seen = "half_open" /\ appState # NoState /\ appState.state = "open"
           /\ appState.age >= CooldownSeconds
        \/ c.seen = "closed" /\ StateOf(appState) = "half_open"
    BY <1>t, <2>1 DEF ReadsHold
  <2>5. appState # NoState /\ appState.state = "open" =>
          StateOf(appState) = "open" /\ Waited(c, appState) = appState.age
    BY <2>1 DEF StateOf, Waited, Standing
  <2> HIDE DEF c, d
  <2> QED BY <1>u, <1>v, <1>w, <2>3, <2>4, <2>5, Promises
<1>3. CASE set_app_state(w)
  <2>1. /\ c.at = "set" /\ c \in Started
        /\ d = [c EXCEPT !.at = "wrapped", !.age = 0, !.blind = c.blind \/ ~redisUp]
        /\ redisUp => appState' = [state |-> c.seen, age |-> 0]
    BY <1>t, <1>3 DEF set_app_state, Proceed
  <2>2. d.at = "wrapped"
    BY <2>1 DEF Started
  <2>3. ~Promised(c) /\ ~Promised(d)
    BY <2>1, <2>2 DEF Promised
  <2>4. redisUp => StateOf(appState') = c.seen /\ appState'.age = 0
    BY <2>1 DEF StateOf, NoState
  <2>5. redisUp => /\ Standing(d, appState') = c.seen /\ Standing(c, appState) = c.seen
                   /\ Waited(d, appState') = 0 /\ (c.seen # "open" => Waited(c, appState) = 0)
    BY <2>1, <2>2, <2>4 DEF Standing, Waited
  <2> HIDE DEF c, d
  <2> QED BY <1>u, <1>v, <1>w, <2>3, <2>5, Promises
<1>4. CASE wrap_func(w)
  <2>1. /\ c.at = "wrapped" /\ c \in Started /\ appState' = appState
        /\ \/ d = Idle
           \/ ~(c.seen = "open" /\ ~c.dry) /\ d = [c EXCEPT !.at = "send"]
    BY <1>t, <1>4 DEF wrap_func, Proceed
  <2>2. \/ d.at = "idle"
        \/ /\ d.at = "send" /\ d.blind = c.blind /\ d.seen = c.seen /\ d.dry = c.dry
           /\ ~(c.seen = "open" /\ ~c.dry)
    BY <2>1 DEF Started, Idle
  <2>3. Still /\ ~Promised(c)
    BY <2>1, <2>2 DEF Standing, Waited, Promised
  <2>4. ~c.blind => c.seen = StateOf(appState)
    BY <1>t, <2>1 DEF ReadsHold
  <2>5. Promised(d) => Standing(c, appState) # "open"
    BY <2>1, <2>2, <2>4 DEF Promised, Standing
  <2> HIDE DEF c, d
  <2> QED BY <1>u, <1>v, <1>w, <2>3, <2>5, Promises
<1>5. CASE trigger_webhook_sync(w)
  <2>1. c.at = "send" /\ appState' = appState /\ d.at \in {"idle", "register_total", "register_error"}
    BY <1>t, <1>5 DEF trigger_webhook_sync, Proceed, Idle
  <2>2. Still /\ ~Promised(d)
    BY <2>1 DEF Standing, Waited, Promised
  <2> HIDE DEF c, d
  <2> QED BY <1>u, <1>v, <1>w, <2>2, Promises
<1> QED BY <1>1, <1>2, <1>3, <1>4, <1>5 DEF CallStep

(* A second that passes is one more that the breaker has been open.         *)
LEMMA SecondPromised ==
  ASSUME BoardInv, BoardInv', OneCaller, SecondPasses
  PROVE  [Promise!Next]_(Promise!vars)
<1>1. PICK w : w \in Workers
  BY DEF OneCaller
<1> DEFINE c == call[w]
           d == call'[w]
<1>t. /\ c \in Call /\ appState \in {NoState} \cup StateKey /\ NoState \notin StateKey
      /\ (c.at \in {"total", "errors", "clear", "set", "wrapped", "send"} => c \in Started)
      /\ call \in [Workers -> Call]
  <2>1. NoState \notin StateKey
    BY DEF NoState, StateKey
  <2> QED BY <1>1, <2>1, CallContents DEF BoardInv, KeysOK
<1>v. /\ VisibleState = Standing(c, appState) /\ VisibleAge = Waited(c, appState)
      /\ Sends <=> Promised(c)
      /\ VisibleState' = Standing(d, appState') /\ VisibleAge' = Waited(d, appState')
      /\ Sends' <=> Promised(d)
  BY <1>1, Visible, VisibleNext
<1>w. /\ VisibleState \in BreakerStates /\ VisibleState' \in BreakerStates
      /\ VisibleAge \in 0 .. CooldownSeconds /\ VisibleAge' \in 0 .. CooldownSeconds
  <2>1. d \in Call /\ appState' \in {NoState} \cup StateKey
    BY <1>1 DEF BoardInv, KeysOK
  <2> QED BY <1>t, <1>v, <2>1, StandingTypes DEF CooldownAges
<1>2. redisUp' = redisUp
  BY DEF SecondPasses, AtRedis
<1>3. \/ appState = NoState /\ appState' = NoState
      \/ /\ appState # NoState /\ appState' # NoState /\ appState'.state = appState.state
         /\ appState'.age = Older(appState.age, CooldownSeconds)
  <2>1. CASE appState = NoState
    BY <2>1 DEF SecondPasses
  <2>2. CASE appState # NoState
    <3>1. appState' = [appState EXCEPT !.age = Older(appState.age, CooldownSeconds)]
      BY <2>2 DEF SecondPasses
    <3>2. appState'.state = appState.state /\ appState'.age = Older(appState.age, CooldownSeconds)
      BY <1>t, <2>2, <3>1 DEF StateKey
    <3>3. appState' # NoState
      BY <1>t, <2>2, <3>2 DEF StateKey, NoState, BreakerStates
    <3> QED BY <2>2, <3>2, <3>3
  <2> QED BY <2>1, <2>2
<1>4. StateOf(appState') = StateOf(appState)
  BY <1>3 DEF StateOf
<1>5. d.at = c.at /\ (Promised(d) <=> Promised(c))
      /\ (c.at = "set" => d.seen = c.seen /\ d.age = Older(c.age, CooldownSeconds))
  <2>1. CASE c.at \in {"total", "errors", "set"}
    <3>1. c \in Started /\ d = [c EXCEPT !.age = Older(c.age, CooldownSeconds)]
      BY <1>1, <1>t, <2>1 DEF SecondPasses
    <3>2. d.at = c.at /\ d.seen = c.seen /\ d.age = Older(c.age, CooldownSeconds)
      BY <3>1 DEF Started
    <3> QED BY <2>1, <3>2 DEF Promised
  <2>2. CASE c.at \notin {"total", "errors", "set"}
    BY <1>1, <2>2 DEF SecondPasses
  <2> QED BY <2>1, <2>2
<1> HIDE DEF c, d
<1>6. /\ Standing(d, appState') = Standing(c, appState)
      /\ Waited(d, appState') =
           IF Standing(c, appState) = "open" THEN Older(Waited(c, appState), CooldownSeconds) ELSE 0
      /\ Standing(c, appState) # "open" => Waited(c, appState) = 0
  <2>1. StateOf(appState) = "open" => appState # NoState
    BY DEF StateOf
  <2> QED BY <1>3, <1>4, <1>5, <2>1 DEF Standing, Waited
<1>7. \/ VisibleAge' = VisibleAge
      \/ VisibleState = "open" /\ VisibleAge < CooldownSeconds /\ VisibleAge' = VisibleAge + 1
  BY <1>v, <1>6 DEF Older
<1> QED BY <1>v, <1>w, <1>2, <1>5, <1>6, <1>7, Promises

LEMMA StepPromised ==
  ASSUME BoardInv, BoardInv', ReadsOK, OneCaller, [BoardNext]_boardVars
  PROVE  [Promise!Next]_(Promise!vars)
<1>1. CASE \E w \in Workers :
             CallStep(w) \/ \E dry_run \in BOOLEAN : get_app_state(w, dry_run)
  BY <1>1, CallPromised
<1>2. CASE SecondPasses
  BY <1>2, SecondPromised
<1>3. CASE RedisChanges
  <2>1. VisibleState' = VisibleState /\ VisibleAge' = VisibleAge /\ (Sends' <=> Sends)
    BY <1>3 DEF RedisChanges, VisibleState, VisibleAge, Pending, Sends
  <2> QED BY <1>3, <2>1 DEF RedisChanges, Promise!Next, Promise!StorageChanges, Sends
<1>4. CASE AppChanges \/ UNCHANGED boardVars
  <2>1. UNCHANGED <<appState, redisUp, call>>
    BY <1>4 DEF AppChanges, boardVars
  <2>2. VisibleState' = VisibleState /\ VisibleAge' = VisibleAge /\ (Sends' <=> Sends)
    BY <2>1 DEF VisibleState, VisibleAge, Pending, Sends
  <2> QED BY <2>1, <2>2 DEF Promise!vars, Sends
<1> QED BY <1>1, <1>2, <1>3, <1>4 DEF BoardNext

LEMMA InitPromised == BoardInit => Promise!Init
<1> SUFFICES ASSUME BoardInit PROVE Promise!Init
  OBVIOUS
<1>1. \A w \in Workers : call[w].at = "idle"
  BY DEF BoardInit, Idle
<1>2. Pending = {} /\ appState = NoState /\ redisUp
  BY <1>1 DEF Pending, BoardInit
<1>3. VisibleState = "closed" /\ VisibleAge = 0
  BY <1>2 DEF VisibleState, VisibleAge
<1> QED BY <1>1, <1>2, <1>3 DEF Promise!Init

(* The calls of one worker keep what the breaker promises, whatever the     *)
(* settings: no webhook is sent while it is open, it stays open for the     *)
(* whole cooldown, and only a trial closes it.                              *)
THEOREM CallsKeepThePromise == ASSUME OneCaller PROVE BoardSpec => BreakerPromise
<1>1. ReadsOK /\ BoardInv /\ [BoardNext]_boardVars => ReadsOK'
  BY StepReads
<1>2. ReadsOK /\ BoardInv /\ BoardInv' /\ [BoardNext]_boardVars => [Promise!Next]_(Promise!vars)
  BY StepPromised
<1> QED BY <1>1, <1>2, InitReads, InitPromised, BoardHolds, PTL
        DEF BoardSpec, BreakerPromise, Promise!Spec

=============================================================================
