----------------------------- MODULE Transactions -----------------------------
(***************************************************************************)
(* The transaction items of an order and their events.  A payment app      *)
(* reports events in any order and more than once (transactionEventReport) *)
(* and answers the action requests it is sent; an event is stored once for *)
(* its psp reference and type, and the amounts of the transaction, then    *)
(* the totals of the order, are computed again from what is stored.        *)
(*                                                                         *)
(* An event type is an action and a result: <<"charge", "success">> is     *)
(* CHARGE_SUCCESS; the result "extra" is AUTHORIZATION_ADJUSTMENT,         *)
(* CHARGE_BACK and REFUND_REVERSE.  Every event has a created_at of its    *)
(* own, given by the app or by the clock.                                  *)
(***************************************************************************)
EXTENDS RowSums, FiniteSetsExt

CONSTANTS
  Workers,         \* processes that serve reports and answers
  Transactions, PspReferences,
  Types,           \* the event types the app reports
  RequestActions,  \* the actions staff may request
  Amounts,
  Times,           \* bound: one event for each created_at
  Overlap          \* reports and answers may be served at the same time

VARIABLES
  events,    \* the TransactionEvents of a transaction
  amounts,   \* the eight amounts of a TransactionItem
  totals,    \* total_authorized_amount and total_charged_amount of the order
  awaiting,  \* created_at of the requests whose webhook has not been answered
  proc

vars == <<events, amounts, totals, awaiting, proc>>

Actions == {"authorization", "charge", "refund", "cancel"}
Results == {"request", "success", "failure", "extra"}
NoPsp == "no psp reference"
ASSUME NoPspAssumption == NoPsp \notin PspReferences
ASSUME TypesAssumption ==
  Types \subseteq (Actions \X Results) \ {<<"cancel", "extra">>}
ASSUME RequestsAssumption == RequestActions \subseteq {"charge", "refund", "cancel"}
ASSUME AmountsAssumption == Amounts \subseteq Nat \ {0}
ASSUME TimesAssumption == Times \subseteq Nat /\ IsFiniteSet(Times)
ASSUME TablesAssumption == IsFiniteSet(PspReferences) /\ IsFiniteSet(Transactions)

Idle == [at |-> "idle"]
Goto(w, p) == proc' = [proc EXCEPT ![w] = p]
MayStart(w) == proc[w] = Idle /\ (Overlap \/ \A v \in Workers : proc[v] = Idle)
Free == Times \ {e.time : e \in UNION {events[t] : t \in Transactions}}

-----------------------------------------------------------------------------
(* transaction_item_calculations: the events that count, the newest of its  *)
(* psp reference and type standing for the others.                          *)
newest(S) == CHOOSE e \in S : \A f \in S : f.time <= e.time

_get_authorize_events(E) ==
  LET authorize == {e \in E : e.type[1] = "authorization"}
      adjustments == {e \in authorize : e.type[2] = "extra"}
  IN IF adjustments = {} THEN authorize
     ELSE {e \in authorize : e.time >= newest(adjustments).time}

_initilize_action_map(E) ==
  LET counted == {e \in E : e.include_in_calculations}
  IN _get_authorize_events(counted) \cup {e \in counted : e.type[1] # "authorization"}

Slot(E, psp, action, result) ==
  {e \in E : e.psp_reference = psp /\ e.type = <<action, result>>}
Amount(S) == IF S = {} THEN 0 ELSE newest(S).amount

_should_increase_pending_amount(E, psp, action) ==
  Slot(E, psp, action, "success") = {} /\ Slot(E, psp, action, "failure") = {}

(* Mutant: a success counts whatever came after it.                         *)
should_increase_whenever_successful(E, psp, action) ==
  Slot(E, psp, action, "success") # {}

_should_increse_amount(E, psp, action) ==
  LET success == Slot(E, psp, action, "success")
      failure == Slot(E, psp, action, "failure")
  IN success # {} /\ (failure # {} => newest(success).time > newest(failure).time)

(* Over the psp references of the action map: the amounts that are pending, *)
(* that have succeeded, and those of its own event type.                    *)
Pending(E, action) ==
  Total([psp \in PspReferences |->
           IF _should_increase_pending_amount(E, psp, action)
           THEN Amount(Slot(E, psp, action, "request")) ELSE 0], PspReferences)
Done(E, action) ==
  Total([psp \in PspReferences |->
           IF _should_increse_amount(E, psp, action)
           THEN Amount(Slot(E, psp, action, "success")) ELSE 0], PspReferences)
Extra(E, action) ==
  Total([psp \in PspReferences |-> Amount(Slot(E, psp, action, "extra"))], PspReferences)

(* Mutant: a refund that is pending is still counted as charged.            *)
recalculate_without_pending_refund(S) ==
  LET E == _initilize_action_map(S)
      authorized == Extra(E, "authorization") + Done(E, "authorization")
                      - Pending(E, "charge") - Done(E, "charge")
                      - Pending(E, "cancel") - Done(E, "cancel")
  IN [authorized |-> Max({authorized, 0}),
      authorize_pending |-> Pending(E, "authorization"),
      charged |-> Done(E, "charge") - Extra(E, "charge")
                    - Done(E, "refund") + Extra(E, "refund"),
      charge_pending |-> Pending(E, "charge"),
      refunded |-> Done(E, "refund") - Extra(E, "refund"),
      refund_pending |-> Pending(E, "refund"),
      canceled |-> Done(E, "cancel"),
      cancel_pending |-> Pending(E, "cancel")]

recalculate_transaction_amounts(S) ==
  LET E == _initilize_action_map(S)
      authorized == Extra(E, "authorization") + Done(E, "authorization")
                      - Pending(E, "charge") - Done(E, "charge")
                      - Pending(E, "cancel") - Done(E, "cancel")
  IN [authorized |-> Max({authorized, 0}),
      authorize_pending |-> Pending(E, "authorization"),
      charged |-> Done(E, "charge") - Extra(E, "charge")
                    - Pending(E, "refund") - Done(E, "refund") + Extra(E, "refund"),
      charge_pending |-> Pending(E, "charge"),
      refunded |-> Done(E, "refund") - Extra(E, "refund"),
      refund_pending |-> Pending(E, "refund"),
      canceled |-> Done(E, "cancel"),
      cancel_pending |-> Pending(E, "cancel")]

updates_amounts_for_order ==
  [authorized |-> SignedTotal([t \in Transactions |-> amounts[t].authorized], Transactions),
   charged |-> SignedTotal([t \in Transactions |-> amounts[t].charged], Transactions)]

-----------------------------------------------------------------------------
get_already_existing_event(t, event) ==
  {e \in events[t] : e.psp_reference = event.psp_reference /\ e.type = event.type}

authorization_success_already_exists(t) ==
  \E e \in events[t] : e.type = <<"authorization", "success">>

(* What deduplicate_event makes of a new event: "new", "duplicate", or an   *)
(* error.  The row it compares with is the first of those that exist.       *)
deduplicate_event(t, event) ==
  LET existing == get_already_existing_event(t, event)
      first == CHOOSE e \in existing : \A f \in existing : e.time <= f.time
  IN CASE existing # {} -> IF first.amount = event.amount THEN "duplicate" ELSE "error"
       [] existing = {} /\ event.type = <<"authorization", "success">>
            /\ authorization_success_already_exists(t) -> "error"
       [] OTHER -> "new"

TransactionEvent(psp, type, amount, time, counts) ==
  [psp_reference |-> psp, type |-> type, amount |-> amount, time |-> time,
   include_in_calculations |-> counts]

Store(t, event) ==
  event.time \in Free /\ events' = [events EXCEPT ![t] = @ \cup {event}]

Fail(t, event) ==
  [at |-> "fail", t |-> t, psp |-> event.psp_reference, action |-> event.type[1],
   amount |-> event.amount]

(* Mutants of the report: stored without a look at what is there; stored    *)
(* and not counted.                                                         *)
report_without_lookup(w, t, event) ==
  /\ MayStart(w)
  /\ Store(t, event) /\ Goto(w, [at |-> "recalculate", t |-> t, by |-> "report"])
  /\ UNCHANGED <<amounts, totals, awaiting>>

report_without_recalculation(w, t, event) ==
  /\ MayStart(w)
  /\ CASE deduplicate_event(t, event) = "new" -> Store(t, event) /\ Goto(w, Idle)
       [] deduplicate_event(t, event) = "duplicate" ->
            Goto(w, [at |-> "already_processed"]) /\ UNCHANGED events
       [] OTHER -> Goto(w, Fail(t, event)) /\ UNCHANGED events
  /\ UNCHANGED <<amounts, totals, awaiting>>

(* transactionEventReport: the part under the lock on the transaction.      *)
transaction_event_report(w, t, event) ==
  /\ MayStart(w)
  /\ CASE deduplicate_event(t, event) = "new" ->
            Store(t, event) /\ Goto(w, [at |-> "recalculate", t |-> t, by |-> "report"])
       [] deduplicate_event(t, event) = "duplicate" ->
            Goto(w, [at |-> "already_processed"]) /\ UNCHANGED events
       [] OTHER -> Goto(w, Fail(t, event)) /\ UNCHANGED events
  /\ UNCHANGED <<amounts, totals, awaiting>>

(* A report that was there before changes nothing the amounts depend on.    *)
report_already_processed(w) ==
  /\ proc[w].at = "already_processed" /\ Goto(w, Idle)
  /\ UNCHANGED <<events, amounts, totals, awaiting>>

(* The failure is recorded and does not count.                              *)
create_failed_transaction_event(w, time) ==
  LET p == proc[w]
  IN /\ p.at = "fail"
     /\ Store(p.t, TransactionEvent(p.psp, <<p.action, "failure">>, p.amount, time, FALSE))
     /\ Goto(w, Idle)
     /\ UNCHANGED <<amounts, totals, awaiting>>

(* update_transaction computes the amounts from the events, and saves them. *)
recalculate(w) ==
  LET p == proc[w]
  IN /\ p.at = "recalculate"
     /\ Goto(w, [at |-> "save", t |-> p.t, by |-> p.by,
                 amounts |-> recalculate_transaction_amounts(events[p.t])])
     /\ UNCHANGED <<events, amounts, totals, awaiting>>

save_transaction(w) ==
  LET p == proc[w]
  IN /\ p.at = "save"
     /\ amounts' = [amounts EXCEPT ![p.t] = p.amounts]
     /\ Goto(w, [at |-> IF p.by = "report" THEN "order" ELSE "read_order"])
     /\ UNCHANGED <<events, totals, awaiting>>

(* process_order_with_transaction: the order is locked, read and saved.     *)
process_order_with_transaction(w) ==
  /\ proc[w].at = "order"
  /\ totals' = updates_amounts_for_order
  /\ Goto(w, Idle)
  /\ UNCHANGED <<events, amounts, awaiting>>

(* update_order_with_transaction_details: it is not.                        *)
read_order_transactions(w) ==
  /\ proc[w].at = "read_order"
  /\ Goto(w, [at |-> "save_order", totals |-> updates_amounts_for_order])
  /\ UNCHANGED <<events, amounts, totals, awaiting>>

save_order(w) ==
  /\ proc[w].at = "save_order"
  /\ totals' = proc[w].totals
  /\ Goto(w, Idle)
  /\ UNCHANGED <<events, amounts, awaiting>>

-----------------------------------------------------------------------------
(* transactionRequestAction: staff ask the app for an action, for no more   *)
(* than the amount the transaction shows.                                   *)
transaction_request_action(t, action, amount, time) ==
  LET limit == IF action = "refund" THEN amounts[t].charged ELSE amounts[t].authorized
  IN /\ limit > 0 /\ (Overlap \/ \A w \in Workers : proc[w] = Idle)
     /\ Store(t, TransactionEvent(NoPsp, <<action, "request">>,
                                  Min({amount, limit}), time, FALSE))
     /\ awaiting' = awaiting \cup {time}
     /\ UNCHANGED <<amounts, totals, proc>>

Requested(t) == {e \in events[t] : e.time \in awaiting}

(* handle_transaction_request_task: no usable answer.                       *)
request_fails(w, t, request) ==
  /\ MayStart(w) /\ request \in Requested(t)
  /\ awaiting' = awaiting \ {request.time}
  /\ Goto(w, Fail(t, request))
  /\ UNCHANGED <<events, amounts, totals>>

(* Mutant: the request counts, its psp reference is not kept.               *)
request_accepted_without_reference(w, t, request, psp, result) ==
  /\ MayStart(w) /\ request \in Requested(t)
  /\ awaiting' = awaiting \ {request.time}
  /\ events' = [events EXCEPT ![t] = (@ \ {request}) \cup
       {[request EXCEPT !.include_in_calculations = TRUE]}]
  /\ Goto(w, [at |-> "recalculate", t |-> t, by |-> "answer"])
  /\ UNCHANGED <<amounts, totals>>

(* The app gives the psp reference of the action, which is pending now ...  *)
request_accepted(w, t, request, psp, result) ==
  /\ MayStart(w) /\ request \in Requested(t)
  /\ awaiting' = awaiting \ {request.time}
  /\ events' = [events EXCEPT ![t] = (@ \ {request}) \cup
       {[request EXCEPT !.psp_reference = psp, !.include_in_calculations = TRUE]}]
  /\ Goto(w, IF result = "later" THEN [at |-> "recalculate", t |-> t, by |-> "answer"]
             ELSE [at |-> "answer", t |-> t, psp |-> psp, type |-> <<request.type[1], result>>,
                   request |-> request])
  /\ UNCHANGED <<amounts, totals>>

(* ... or what has become of it at once: _create_event_from_response.       *)
create_event_from_response(w, amount, time) ==
  LET p == proc[w]
      event == TransactionEvent(p.psp, p.type, amount, time, TRUE)
      found == deduplicate_event(p.t, event)
  IN /\ p.at = "answer"
     /\ IF found = "new" THEN Store(p.t, event) ELSE UNCHANGED events
     /\ Goto(w, IF found = "error"
                THEN Fail(p.t, [p.request EXCEPT !.psp_reference = p.psp])
                ELSE [at |-> "recalculate", t |-> p.t, by |-> "answer"])
     /\ UNCHANGED <<amounts, totals, awaiting>>

-----------------------------------------------------------------------------
NoAmounts ==
  [authorized |-> 0, authorize_pending |-> 0, charged |-> 0, charge_pending |-> 0,
   refunded |-> 0, refund_pending |-> 0, canceled |-> 0, cancel_pending |-> 0]

Init ==
  /\ events = [t \in Transactions |-> {}]
  /\ amounts = [t \in Transactions |-> NoAmounts]
  /\ totals = [authorized |-> 0, charged |-> 0]
  /\ awaiting = {}
  /\ proc = [w \in Workers |-> Idle]

Next ==
  \/ \E w \in Workers, time \in Times :
       \/ \E t \in Transactions, psp \in PspReferences, type \in Types, amount \in Amounts :
            transaction_event_report(w, t, TransactionEvent(psp, type, amount, time, TRUE))
       \/ create_failed_transaction_event(w, time)
       \/ \E amount \in Amounts : create_event_from_response(w, amount, time)
  \/ \E w \in Workers :
       \/ report_already_processed(w)
       \/ recalculate(w) \/ save_transaction(w)
       \/ process_order_with_transaction(w)
       \/ read_order_transactions(w) \/ save_order(w)
       \/ \E t \in Transactions : \E request \in Requested(t) :
            \/ request_fails(w, t, request)
            \/ \E psp \in PspReferences, result \in {"later", "success", "failure"} :
                 request_accepted(w, t, request, psp, result)
  \/ \E t \in Transactions, action \in RequestActions, amount \in Amounts, time \in Times :
       transaction_request_action(t, action, amount, time)

Spec == Init /\ [][Next]_vars

-----------------------------------------------------------------------------
(* The rows hold what the code can have written to them.                    *)
TypeOK ==
  /\ \A t \in Transactions : \A e \in events[t] :
       /\ e.psp_reference \in PspReferences \cup {NoPsp}
       /\ e.type \in Actions \X Results /\ e.amount \in Nat /\ e.time \in Times
       /\ e.psp_reference = NoPsp => ~e.include_in_calculations
  /\ \A t \in Transactions : \A field \in DOMAIN NoAmounts :
       amounts[t][field] \in Int
  /\ awaiting \subseteq Times

(* "We need to be sure, that we will always create a single event on our    *)
(* side for specific action": however often it is reported or answered,     *)
(* what has happened to a psp reference counts once, and a transaction is   *)
(* authorized once.                                                         *)
OneEventPerAction ==
  \A t \in Transactions : \A e, f \in events[t] :
    /\ e.include_in_calculations /\ f.include_in_calculations /\ e.type = f.type
    /\ e.psp_reference = f.psp_reference \/ e.type = <<"authorization", "success">>
    /\ e.type[2] # "request"
    => e = f

AllIdle == \A w \in Workers : proc[w] = Idle

(* The requests an app has accepted with an answer that was refused, for an *)
(* event of that psp reference and type with another amount.                *)
Refused(E) ==
  {e \in E :
     /\ e.type[2] = "request"
     /\ \E f \in E : /\ f.type = <<e.type[1], "failure">> /\ ~f.include_in_calculations
                     /\ f.psp_reference = e.psp_reference}

(* Between reports the amounts are those of the stored events, and the      *)
(* order's totals those of its transactions.  A refused answer returns      *)
(* before the amounts are computed: its request counts from the next report *)
(* on, and only such requests may be missing.                               *)
AmountsMatchEvents ==
  AllIdle =>
    /\ \A t \in Transactions : \E missing \in SUBSET Refused(events[t]) :
         amounts[t] = recalculate_transaction_amounts(events[t] \ missing)
    /\ totals = updates_amounts_for_order

(* The books balance: whatever is reported in whatever order, money that    *)
(* was authorized or (when more was charged or canceled than that) moved,   *)
(* and not charged back, is in exactly one of the amounts.                  *)
MoneyIsConserved ==
  AllIdle => \A t \in Transactions :
    LET a == amounts[t]
        E == _initilize_action_map(events[t])
        authorized == Extra(E, "authorization") + Done(E, "authorization")
        moved == a.charge_pending + Done(E, "charge") + a.cancel_pending + a.canceled
    IN a.authorized + a.authorize_pending + a.charged + a.charge_pending + a.refunded
         + a.refund_pending + a.canceled + a.cancel_pending
       = Max({authorized, moved}) + a.authorize_pending - Extra(E, "charge")

(* "If the failure event is newer, the success event will be ignored.": a   *)
(* stored failure, reported or answered, that is newer than everything      *)
(* known of its psp reference leaves amounts without the charge.  (One that *)
(* finds a failure of its psp reference is not stored; that failure may not *)
(* count, and hides it: create_failed_transaction_event had recorded it for *)
(* a report with a wrong amount.)                                           *)
FailureIsHeard ==
  [][\A t \in Transactions : \A failure \in events'[t] \ events[t] :
       /\ failure.type = <<"charge", "failure">> /\ failure.include_in_calculations
       /\ \A e \in events[t] : e.psp_reference = failure.psp_reference => e.time < failure.time
       => ~_should_increse_amount(_initilize_action_map(events'[t]),
                                  failure.psp_reference, "charge")]_vars
=============================================================================
