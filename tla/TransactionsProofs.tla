-------------------------- MODULE TransactionsProofs --------------------------
(***************************************************************************)
(* Theorems about Transactions for every number of workers, transactions,  *)
(* psp references, events and amounts.                                     *)
(*                                                                         *)
(* What holds of the events alone holds however reports and answers        *)
(* overlap, since each looks and stores under the lock of the transaction. *)
(* What relates the amounts to the events needs them to follow one         *)
(* another (Overlap = FALSE): the amounts are computed and saved in later  *)
(* steps, from what was read.                                              *)
(***************************************************************************)
EXTENDS Transactions, RowSumsProofs, WellFoundedInduction

Event ==
  [psp_reference : PspReferences \cup {NoPsp}, type : Actions \X Results,
   amount : Nat, time : Times, include_in_calculations : BOOLEAN]

ItemAmounts ==
  [authorized : Int, authorize_pending : Int, charged : Int, charge_pending : Int,
   refunded : Int, refund_pending : Int, canceled : Int, cancel_pending : Int]

-----------------------------------------------------------------------------
(* A set of numbers has a least one.                                        *)
LEMMA LeastNumber ==
  ASSUME NEW T \in SUBSET Nat, T # {}
  PROVE  \E x \in T : \A y \in T : x <= y
<1> DEFINE R == OpToRel(<, Nat)
<1>1. IsWellFoundedOn(R, Nat)
  BY NatLessThanWellFounded
<1>2. \A x, y \in Nat : x < y => <<x, y>> \in R
  BY DEF OpToRel
<1> HIDE DEF R
<1>3. PICK x \in T : \A y \in T : ~(<<y, x>> \in R)
  BY <1>1, WFMin
<1>4. \A y \in T : ~(y < x)
  BY <1>2, <1>3
<1> QED BY <1>4

(* The larger, and the smaller, of two numbers.                             *)
LEMMA MaxOfTwo ==
  ASSUME NEW a \in Int, NEW b \in Int
  PROVE  Max({a, b}) = IF a >= b THEN a ELSE b
BY DEF Max

LEMMA MinOfTwo ==
  ASSUME NEW a \in Int, NEW b \in Int
  PROVE  Min({a, b}) = IF a <= b THEN a ELSE b
BY DEF Min

(* The newest of some events is one of them: the one with the fewest        *)
(* moments after it.                                                        *)
LEMMA Newest ==
  ASSUME NEW S \in SUBSET Event, S # {}
  PROVE  newest(S) \in S /\ \A f \in S : f.time <= newest(S).time
<1> DEFINE after(n) == {m \in Times : m > n}
           sizes == {Cardinality(after(e.time)) : e \in S}
<1>1. \A e \in S : e.time \in Times
  BY DEF Event
<1>2. \A n \in Times : IsFiniteSet(after(n)) /\ Cardinality(after(n)) \in Nat
  BY TimesAssumption, FS_Subset, FS_CardinalityType
<1>3. sizes \in SUBSET Nat /\ sizes # {}
  BY <1>1, <1>2
<1>4. PICK least \in sizes : \A n \in sizes : least <= n
  <2> HIDE DEF sizes
  <2> QED BY <1>3, LeastNumber
<1>5. PICK e \in S : least = Cardinality(after(e.time))
  BY <1>4
<1>6. ASSUME NEW f \in S PROVE f.time <= e.time
  <2>1. e.time \in Times /\ f.time \in Times /\ e.time \in Nat /\ f.time \in Nat
    BY <1>1, TimesAssumption
  <2> SUFFICES ASSUME e.time < f.time PROVE FALSE
    BY <2>1
  <2>2. after(f.time) \in SUBSET after(e.time)
    <3>1. \A m \in Times : m \in Nat /\ (m > f.time => m > e.time)
      BY <2>1, TimesAssumption
    <3> QED BY <3>1
  <2>3. f.time \in after(e.time) /\ f.time \notin after(f.time)
    BY <2>1
  <2>4. Cardinality(after(e.time)) <= Cardinality(after(f.time))
    BY <1>4, <1>5
  <2> HIDE DEF after
  <2>5. Cardinality(after(f.time)) = Cardinality(after(e.time))
    BY <1>2, <2>1, <2>2, <2>4, FS_Subset
  <2>6. after(f.time) = after(e.time)
    BY <1>2, <2>1, <2>2, <2>5, FS_Subset
  <2> QED BY <2>3, <2>6
<1> QED BY <1>6 DEF newest

(* What a slot of the action map adds to an amount.                         *)
LEMMA AmountType == ASSUME NEW S \in SUBSET Event PROVE Amount(S) \in Nat
<1>1. CASE S = {}
  BY <1>1 DEF Amount
<1>2. CASE S # {}
  <2>1. newest(S) \in Event
    BY <1>2, Newest
  <2> QED BY <1>2, <2>1 DEF Amount, Event
<1> QED BY <1>1, <1>2

(* The sums over the action map.                                            *)
LEMMA SumTypes ==
  ASSUME NEW E \in SUBSET Event, NEW action
  PROVE  Pending(E, action) \in Nat /\ Done(E, action) \in Nat /\ Extra(E, action) \in Nat
<1>1. \A psp, result : Slot(E, psp, action, result) \in SUBSET Event
  BY DEF Slot
<1>2. \A psp, result : Amount(Slot(E, psp, action, result)) \in Nat
  BY <1>1, AmountType
<1>3. ASSUME NEW f \in [PspReferences -> Nat] PROVE Total(f, PspReferences) \in Nat
  BY TotalType, TablesAssumption
<1>4. [psp \in PspReferences |-> IF _should_increase_pending_amount(E, psp, action)
         THEN Amount(Slot(E, psp, action, "request")) ELSE 0] \in [PspReferences -> Nat]
  BY <1>2
<1>5. [psp \in PspReferences |-> IF _should_increse_amount(E, psp, action)
         THEN Amount(Slot(E, psp, action, "success")) ELSE 0] \in [PspReferences -> Nat]
  BY <1>2
<1>6. [psp \in PspReferences |-> Amount(Slot(E, psp, action, "extra"))]
        \in [PspReferences -> Nat]
  BY <1>2
<1> QED BY <1>3, <1>4, <1>5, <1>6 DEF Pending, Done, Extra

(* The events the amounts are computed from are some of those stored.       *)
LEMMA ActionMapType ==
  ASSUME NEW S \in SUBSET Event PROVE _initilize_action_map(S) \in SUBSET Event
BY DEF _initilize_action_map, _get_authorize_events

(* The amounts are numbers.                                                 *)
LEMMA RecalculatedType ==
  ASSUME NEW S \in SUBSET Event
  PROVE  recalculate_transaction_amounts(S) \in ItemAmounts
<1> DEFINE E == _initilize_action_map(S)
<1>1. \A action : /\ Pending(E, action) \in Nat /\ Done(E, action) \in Nat
                  /\ Extra(E, action) \in Nat
  BY ActionMapType, SumTypes
<1> HIDE DEF E
<1>2. \A n \in Int : Max({n, 0}) \in Int
  BY MaxOfTwo
<1> QED BY <1>1, <1>2 DEF E, recalculate_transaction_amounts, ItemAmounts

-----------------------------------------------------------------------------
(* The events, however reports and answers overlap.                         *)

(* Every event has a time of its own.                                       *)
OneTime ==
  \A t, u \in Transactions : \A e \in events[t], f \in events[u] :
    e.time = f.time => t = u /\ e = f

(* A request waits for its answer uncounted and without psp reference.      *)
Unanswered ==
  /\ \A t \in Transactions : \A e \in events[t] :
       /\ e.psp_reference = NoPsp => ~e.include_in_calculations
       /\ e.time \in awaiting => ~e.include_in_calculations /\ e.type[2] = "request"
  /\ \A n \in awaiting : \E t \in Transactions : \E e \in events[t] : e.time = n

EventInv ==
  /\ events \in [Transactions -> SUBSET Event]
  /\ awaiting \subseteq Times
  /\ OneTime /\ Unanswered /\ OneEventPerAction

(* What deduplicate_event has looked for when it finds an event new.        *)
LEMMA DeduplicateNew ==
  ASSUME NEW t \in Transactions, NEW event, deduplicate_event(t, event) = "new",
         NEW e \in events[t], e.type = event.type
  PROVE  e.psp_reference # event.psp_reference /\ e.type # <<"authorization", "success">>
<1> DEFINE existing == get_already_existing_event(t, event)
<1>1. existing = {}
  BY DEF deduplicate_event
<1>2. event.type # <<"authorization", "success">> \/ ~authorization_success_already_exists(t)
  BY <1>1 DEF deduplicate_event
<1> QED BY <1>1, <1>2 DEF get_already_existing_event, authorization_success_already_exists

(* Storing an event under the lock.                                         *)
LEMMA StoreKeeps ==
  ASSUME EventInv, NEW t \in Transactions, NEW event \in Event, Store(t, event),
         event.psp_reference = NoPsp => ~event.include_in_calculations,
         event.include_in_calculations => deduplicate_event(t, event) = "new",
         \/ awaiting' = awaiting
         \/ /\ awaiting' = awaiting \cup {event.time}
            /\ ~event.include_in_calculations /\ event.type[2] = "request"
  PROVE  EventInv'
<1>1. /\ events \in [Transactions -> SUBSET Event] /\ awaiting \subseteq Times
      /\ OneTime /\ Unanswered /\ OneEventPerAction
  BY DEF EventInv
<1>2. /\ event.time \in Times
      /\ events' = [events EXCEPT ![t] = @ \cup {event}]
      /\ \A u \in Transactions : \A e \in events[u] : e.time # event.time
  BY DEF Store, Free
<1>3. /\ events'[t] = events[t] \cup {event}
      /\ \A u \in Transactions : u # t => events'[u] = events[u]
  BY <1>1, <1>2
<1>4. events' \in [Transactions -> SUBSET Event] /\ awaiting' \subseteq Times
  BY <1>1, <1>2
<1>5. \A u \in Transactions : \A e \in events'[u] :
        (e \in events[u] /\ e.time # event.time) \/ (u = t /\ e = event)
  BY <1>2, <1>3
<1>6. OneTime'
  BY <1>1, <1>5 DEF OneTime
<1>7. Unanswered'
  <2>1. event.time \notin awaiting
    BY <1>1, <1>2 DEF Unanswered
  <2>2. ASSUME NEW u \in Transactions, NEW e \in events'[u]
        PROVE  /\ e.psp_reference = NoPsp => ~e.include_in_calculations
               /\ e.time \in awaiting' => ~e.include_in_calculations /\ e.type[2] = "request"
    BY <1>1, <1>5, <2>1 DEF Unanswered
  <2>3. ASSUME NEW n \in awaiting'
        PROVE  \E u \in Transactions : \E e \in events'[u] : e.time = n
    <3>1. CASE n = event.time
      BY <1>3, <3>1
    <3>2. CASE n \in awaiting
      <4>1. PICK u \in Transactions : \E e \in events[u] : e.time = n
        BY <1>1, <3>2 DEF Unanswered
      <4> QED BY <1>3, <4>1
    <3> QED BY <3>1, <3>2
  <2> QED BY <2>2, <2>3 DEF Unanswered
<1>8. OneEventPerAction'
  <2> SUFFICES ASSUME NEW u \in Transactions, NEW e \in events'[u], NEW f \in events'[u],
                      e.include_in_calculations, f.include_in_calculations, e.type = f.type,
                      e.psp_reference = f.psp_reference \/ e.type = <<"authorization", "success">>,
                      e.type[2] # "request"
               PROVE  e = f
    BY DEF OneEventPerAction
  <2>1. CASE e \in events[u] /\ f \in events[u]
    BY <1>1, <2>1 DEF OneEventPerAction
  <2>2. CASE u = t /\ e = event /\ f \in events[u]
    BY <2>2, DeduplicateNew
  <2>3. CASE u = t /\ f = event /\ e \in events[u]
    BY <2>3, DeduplicateNew
  <2> QED BY <1>5, <2>1, <2>2, <2>3
<1> QED BY <1>4, <1>6, <1>7, <1>8 DEF EventInv

(* The app accepts a request: it keeps its place and its time, and counts.  *)
LEMMA AcceptKeeps ==
  ASSUME EventInv, NEW t \in Transactions, NEW request \in Requested(t),
         NEW psp \in PspReferences,
         awaiting' = awaiting \ {request.time},
         events' = [events EXCEPT ![t] = (@ \ {request}) \cup
           {[request EXCEPT !.psp_reference = psp, !.include_in_calculations = TRUE]}]
  PROVE  EventInv'
<1> DEFINE accepted == [request EXCEPT !.psp_reference = psp, !.include_in_calculations = TRUE]
<1>1. /\ events \in [Transactions -> SUBSET Event] /\ awaiting \subseteq Times
      /\ OneTime /\ Unanswered /\ OneEventPerAction
  BY DEF EventInv
<1>2. request \in events[t] /\ request \in Event /\ request.time \in awaiting
  BY <1>1 DEF Requested
<1>3. request.type[2] = "request" /\ ~request.include_in_calculations
  BY <1>1, <1>2 DEF Unanswered
<1>4. /\ accepted \in Event /\ accepted.time = request.time /\ accepted.type = request.type
      /\ accepted.psp_reference = psp /\ accepted.include_in_calculations
  BY <1>2 DEF Event
<1>5. events' = [events EXCEPT ![t] = (@ \ {request}) \cup {accepted}]
  OBVIOUS
<1> HIDE DEF accepted
<1>6. /\ events'[t] = (events[t] \ {request}) \cup {accepted}
      /\ \A u \in Transactions : u # t => events'[u] = events[u]
  BY <1>1, <1>5
<1>7. events' \in [Transactions -> SUBSET Event] /\ awaiting' \subseteq Times
  BY <1>1, <1>4, <1>5
<1>8. \A u \in Transactions : \A e \in events'[u] :
        (e \in events[u] /\ e.time # request.time) \/ (u = t /\ e = accepted)
  BY <1>1, <1>2, <1>6 DEF OneTime
<1>9. OneTime'
  BY <1>1, <1>4, <1>8 DEF OneTime
<1>10. Unanswered'
  <2>1. ASSUME NEW u \in Transactions, NEW e \in events'[u]
        PROVE  /\ e.psp_reference = NoPsp => ~e.include_in_calculations
               /\ e.time \in awaiting' => ~e.include_in_calculations /\ e.type[2] = "request"
    <3>1. CASE u = t /\ e = accepted
      BY <1>4, <3>1, NoPspAssumption
    <3>2. CASE e \in events[u]
      BY <1>1, <3>2 DEF Unanswered
    <3> QED BY <1>8, <3>1, <3>2
  <2>2. ASSUME NEW n \in awaiting'
        PROVE  \E u \in Transactions : \E e \in events'[u] : e.time = n
    <3>1. n \in awaiting /\ n # request.time
      OBVIOUS
    <3>2. PICK u \in Transactions : \E e \in events[u] : e.time = n
      BY <1>1, <3>1 DEF Unanswered
    <3>3. PICK e \in events[u] : e.time = n
      BY <3>2
    <3>4. e \in events'[u]
      BY <1>6, <3>1, <3>3
    <3> QED BY <3>3, <3>4
  <2> QED BY <2>1, <2>2 DEF Unanswered
<1>11. OneEventPerAction'
  <2> SUFFICES ASSUME NEW u \in Transactions, NEW e \in events'[u], NEW f \in events'[u],
                      e.include_in_calculations, f.include_in_calculations, e.type = f.type,
                      e.psp_reference = f.psp_reference \/ e.type = <<"authorization", "success">>,
                      e.type[2] # "request"
               PROVE  e = f
    BY DEF OneEventPerAction
  <2>1. e \in events[u] /\ f \in events[u]
    BY <1>3, <1>4, <1>8
  <2> QED BY <1>1, <2>1 DEF OneEventPerAction
<1> QED BY <1>7, <1>9, <1>10, <1>11 DEF EventInv

-----------------------------------------------------------------------------
(* What a worker can have in memory.                                        *)
ProcOK(p) ==
  \/ p = Idle
  \/ p.at \in {"already_processed", "order", "read_order", "save_order"}
  \/ /\ p.at = "fail" /\ p.t \in Transactions /\ p.psp \in PspReferences \cup {NoPsp}
     /\ p.action \in Actions /\ p.amount \in Nat
  \/ /\ p.at = "answer" /\ p.t \in Transactions /\ p.psp \in PspReferences
     /\ p.request \in Event /\ p.type \in Actions \X {"success", "failure"}
     /\ p.type[1] = p.request.type[1] /\ p.request.type[2] = "request"
  \/ p.at = "recalculate" /\ p.t \in Transactions
  \/ p.at = "save" /\ p.t \in Transactions /\ p.amounts \in ItemAmounts

ProcsOK ==
  /\ proc \in [Workers -> {proc[w] : w \in Workers}]
  /\ \A w \in Workers : ProcOK(proc[w])

(* The invariant that holds however reports and answers overlap.            *)
Stored ==
  EventInv /\ amounts \in [Transactions -> ItemAmounts] /\ ProcsOK

(* The next thing a worker does.                                            *)
LEMMA GotoKeeps ==
  ASSUME ProcsOK, NEW w \in Workers, NEW p, ProcOK(p), Goto(w, p)
  PROVE  ProcsOK' /\ \A v \in Workers : proc'[v] = IF v = w THEN p ELSE proc[v]
<1>1. proc' = [proc EXCEPT ![w] = p] /\ proc \in [Workers -> {proc[v] : v \in Workers}]
  BY DEF Goto, ProcsOK
<1>2. \A v \in Workers : proc'[v] = IF v = w THEN p ELSE proc[v]
  BY <1>1
<1>3. proc' \in [Workers -> {proc'[v] : v \in Workers}]
  BY <1>1
<1>4. \A v \in Workers : ProcOK(proc'[v])
  BY <1>2 DEF ProcsOK
<1> QED BY <1>2, <1>3, <1>4 DEF ProcsOK

(* No event and nothing in memory in the beginning.                         *)
LEMMA InitStored == Init => Stored
<1> SUFFICES ASSUME Init PROVE Stored
  OBVIOUS
<1>1. EventInv
  BY DEF Init, EventInv, OneTime, Unanswered, OneEventPerAction
<1>2. amounts \in [Transactions -> ItemAmounts]
  BY DEF Init, NoAmounts, ItemAmounts
<1>3. ProcsOK
  BY DEF Init, ProcsOK, ProcOK
<1> QED BY <1>1, <1>2, <1>3 DEF Stored

(* A report is stored, or found there, or refused.                          *)
LEMMA ReportKeeps ==
  ASSUME Stored, NEW w \in Workers, NEW t \in Transactions, NEW psp \in PspReferences,
         NEW type \in Types, NEW amount \in Amounts, NEW time \in Times,
         transaction_event_report(w, t, TransactionEvent(psp, type, amount, time, TRUE))
  PROVE  Stored'
<1> DEFINE event == TransactionEvent(psp, type, amount, time, TRUE)
<1>1. /\ event \in Event /\ event.psp_reference = psp /\ event.type = type
      /\ event.amount = amount /\ event.include_in_calculations
  BY TypesAssumption, AmountsAssumption DEF TransactionEvent, Event
<1>2. psp # NoPsp /\ type[1] \in Actions /\ amount \in Nat
  BY NoPspAssumption, TypesAssumption, AmountsAssumption
<1>3. ProcOK(Fail(t, event))
  BY <1>1, <1>2 DEF Fail, ProcOK
<1>4. /\ ProcOK([at |-> "recalculate", t |-> t, by |-> "report"])
      /\ ProcOK([at |-> "already_processed"])
  BY DEF ProcOK
<1>5. /\ transaction_event_report(w, t, event)
      /\ UNCHANGED <<amounts, totals, awaiting>>
  BY DEF transaction_event_report
<1> HIDE DEF event
<1>6. \/ /\ deduplicate_event(t, event) = "new" /\ Store(t, event)
         /\ Goto(w, [at |-> "recalculate", t |-> t, by |-> "report"])
      \/ Goto(w, [at |-> "already_processed"]) /\ UNCHANGED events
      \/ Goto(w, Fail(t, event)) /\ UNCHANGED events
  BY <1>5 DEF transaction_event_report
<1>7. ProcsOK'
  BY <1>3, <1>4, <1>6, GotoKeeps DEF Stored
<1>8. EventInv'
  <2>1. CASE UNCHANGED events
    BY <1>5, <2>1 DEF Stored, EventInv, OneTime, Unanswered, OneEventPerAction
  <2>2. CASE deduplicate_event(t, event) = "new" /\ Store(t, event)
    BY <1>1, <1>2, <1>5, <2>2, StoreKeeps DEF Stored
  <2> QED BY <1>6, <2>1, <2>2
<1> QED BY <1>5, <1>7, <1>8 DEF Stored

(* The refusal is stored, uncounted.                                        *)
LEMMA FailKeeps ==
  ASSUME Stored, NEW w \in Workers, NEW time \in Times,
         create_failed_transaction_event(w, time)
  PROVE  Stored'
<1> DEFINE p == proc[w]
           event == TransactionEvent(p.psp, <<p.action, "failure">>, p.amount, time, FALSE)
<1>1. p.at = "fail" /\ Store(p.t, event) /\ Goto(w, Idle) /\ UNCHANGED <<amounts, totals, awaiting>>
  BY DEF create_failed_transaction_event
<1>2. ProcOK(p)
  BY DEF Stored, ProcsOK
<1>3. /\ p.t \in Transactions /\ p.psp \in PspReferences \cup {NoPsp}
      /\ p.action \in Actions /\ p.amount \in Nat
  <2> HIDE DEF p
  <2> QED BY <1>1, <1>2 DEF ProcOK, Idle
<1>4. event \in Event /\ ~event.include_in_calculations
  BY <1>3 DEF TransactionEvent, Event, Results
<1> HIDE DEF event, p
<1>5. EventInv'
  BY <1>1, <1>3, <1>4, StoreKeeps DEF Stored
<1>6. ProcsOK'
  BY <1>1, GotoKeeps DEF Stored, ProcOK
<1> QED BY <1>1, <1>5, <1>6 DEF Stored

(* The answer to a request is stored, or found there, or refused.           *)
LEMMA AnswerKeeps ==
  ASSUME Stored, NEW w \in Workers, NEW amount \in Amounts, NEW time \in Times,
         create_event_from_response(w, amount, time)
  PROVE  Stored'
<1> DEFINE p == proc[w]
           event == TransactionEvent(p.psp, p.type, amount, time, TRUE)
           refusal == Fail(p.t, [p.request EXCEPT !.psp_reference = p.psp])
           found == deduplicate_event(p.t, event)
<1>1. /\ p.at = "answer"
      /\ IF found = "new" THEN Store(p.t, event) ELSE UNCHANGED events
      /\ Goto(w, IF found = "error" THEN refusal
                 ELSE [at |-> "recalculate", t |-> p.t, by |-> "answer"])
      /\ UNCHANGED <<amounts, totals, awaiting>>
  BY DEF create_event_from_response
<1>2. ProcOK(p)
  BY DEF Stored, ProcsOK
<1>3. /\ p.t \in Transactions /\ p.psp \in PspReferences /\ p.request \in Event
      /\ p.type \in Actions \X {"success", "failure"}
  <2> HIDE DEF p
  <2> QED BY <1>1, <1>2 DEF ProcOK, Idle
<1>4. event \in Event /\ event.psp_reference # NoPsp
  BY <1>3, AmountsAssumption, NoPspAssumption DEF TransactionEvent, Event, Results
<1>5. ProcOK(refusal)
  <2>1. /\ [p.request EXCEPT !.psp_reference = p.psp] \in Event
        /\ [p.request EXCEPT !.psp_reference = p.psp].psp_reference = p.psp
    BY <1>3 DEF Event
  <2> QED BY <1>3, <2>1 DEF Fail, ProcOK, Event
<1>6. ProcOK([at |-> "recalculate", t |-> p.t, by |-> "answer"])
  BY <1>3 DEF ProcOK
<1> HIDE DEF event, p, refusal, found
<1>7. EventInv'
  <2>1. CASE UNCHANGED events
    BY <1>1, <2>1 DEF Stored, EventInv, OneTime, Unanswered, OneEventPerAction
  <2>2. CASE found = "new" /\ Store(p.t, event)
    BY <1>1, <1>3, <1>4, <2>2, StoreKeeps DEF Stored, found
  <2> QED BY <1>1, <2>1, <2>2
<1>8. ProcsOK'
  BY <1>1, <1>5, <1>6, GotoKeeps DEF Stored
<1> QED BY <1>1, <1>7, <1>8 DEF Stored

(* Staff ask for an action.                                                 *)
LEMMA RequestKeeps ==
  ASSUME Stored, NEW t \in Transactions, NEW action \in RequestActions,
         NEW amount \in Amounts, NEW time \in Times,
         transaction_request_action(t, action, amount, time)
  PROVE  Stored'
<1> DEFINE limit == IF action = "refund" THEN amounts[t].charged ELSE amounts[t].authorized
           event == TransactionEvent(NoPsp, <<action, "request">>, Min({amount, limit}), time, FALSE)
<1>1. /\ limit > 0 /\ Store(t, event) /\ awaiting' = awaiting \cup {time}
      /\ UNCHANGED <<amounts, totals, proc>>
  BY DEF transaction_request_action
<1>2. limit \in Int
  BY DEF Stored, ItemAmounts
<1>3. Min({amount, limit}) \in Nat
  BY <1>1, <1>2, MinOfTwo, AmountsAssumption
<1> HIDE DEF limit
<1>4. /\ event \in Event /\ ~event.include_in_calculations /\ event.time = time
      /\ event.type[2] = "request"
  BY <1>3, RequestsAssumption DEF TransactionEvent, Event, Actions, Results
<1> HIDE DEF event
<1>5. EventInv'
  BY <1>1, <1>4, StoreKeeps DEF Stored
<1> QED BY <1>1, <1>5 DEF Stored, ProcsOK

(* The app accepts the request.                                             *)
LEMMA AcceptedKeeps ==
  ASSUME Stored, NEW w \in Workers, NEW t \in Transactions, NEW request \in Requested(t),
         NEW psp \in PspReferences, NEW result \in {"later", "success", "failure"},
         request_accepted(w, t, request, psp, result)
  PROVE  Stored'
<1> DEFINE next == IF result = "later" THEN [at |-> "recalculate", t |-> t, by |-> "answer"]
                   ELSE [at |-> "answer", t |-> t, psp |-> psp,
                         type |-> <<request.type[1], result>>, request |-> request]
<1>1. Goto(w, next) /\ UNCHANGED <<amounts, totals>>
  BY DEF request_accepted
<1>2. EventInv'
  BY AcceptKeeps DEF Stored, request_accepted
<1>3. request \in Event /\ request.type[2] = "request"
  BY DEF Stored, EventInv, Unanswered, Requested
<1>4. ProcOK(next)
  BY <1>3 DEF ProcOK, Event
<1> HIDE DEF next
<1> QED BY <1>1, <1>2, <1>4, GotoKeeps DEF Stored

(* The steps that leave the events and the requests alone.                  *)
LEMMA OtherStepsKeep ==
  ASSUME Stored, NEW w \in Workers,
         \/ report_already_processed(w) \/ recalculate(w) \/ save_transaction(w)
         \/ process_order_with_transaction(w) \/ read_order_transactions(w) \/ save_order(w)
  PROVE  Stored'
<1>1. UNCHANGED <<events, awaiting>>
  BY DEF report_already_processed, recalculate, save_transaction,
     process_order_with_transaction, read_order_transactions, save_order
<1>2. EventInv'
  BY <1>1 DEF Stored, EventInv, OneTime, Unanswered, OneEventPerAction
<1>3. ProcOK(proc[w])
  BY DEF Stored, ProcsOK
<1>4. CASE report_already_processed(w) \/ process_order_with_transaction(w) \/ save_order(w)
  <2>1. Goto(w, Idle) /\ UNCHANGED amounts /\ ProcOK(Idle)
    BY <1>4 DEF report_already_processed, process_order_with_transaction, save_order, ProcOK
  <2> QED BY <1>2, <2>1, GotoKeeps DEF Stored
<1>5. CASE read_order_transactions(w)
  <2> DEFINE next == [at |-> "save_order", totals |-> updates_amounts_for_order]
  <2>1. Goto(w, next) /\ UNCHANGED amounts /\ ProcOK(next)
    BY <1>5 DEF read_order_transactions, ProcOK
  <2> HIDE DEF next
  <2> QED BY <1>2, <2>1, GotoKeeps DEF Stored
<1>6. CASE recalculate(w)
  <2> DEFINE p == proc[w]
             next == [at |-> "save", t |-> p.t, by |-> p.by,
                      amounts |-> recalculate_transaction_amounts(events[p.t])]
  <2>1. p.at = "recalculate" /\ Goto(w, next) /\ UNCHANGED amounts
    BY <1>6 DEF recalculate
  <2>2. p.t \in Transactions
    BY <1>3, <2>1 DEF ProcOK, Idle
  <2>3. recalculate_transaction_amounts(events[p.t]) \in ItemAmounts
    BY <2>2, RecalculatedType DEF Stored, EventInv
  <2>4. ProcOK(next)
    BY <2>2, <2>3 DEF ProcOK
  <2> HIDE DEF p, next
  <2> QED BY <1>2, <2>1, <2>4, GotoKeeps DEF Stored
<1>7. CASE save_transaction(w)
  <2> DEFINE p == proc[w]
             next == [at |-> IF p.by = "report" THEN "order" ELSE "read_order"]
  <2>1. p.at = "save" /\ Goto(w, next) /\ amounts' = [amounts EXCEPT ![p.t] = p.amounts]
    BY <1>7 DEF save_transaction
  <2>2. p.t \in Transactions /\ p.amounts \in ItemAmounts
    BY <1>3, <2>1 DEF ProcOK, Idle
  <2>3. ProcOK(next)
    BY DEF ProcOK
  <2> HIDE DEF p, next
  <2>4. amounts' \in [Transactions -> ItemAmounts]
    BY <2>1, <2>2 DEF Stored
  <2> QED BY <1>2, <2>1, <2>3, <2>4, GotoKeeps DEF Stored
<1> QED BY <1>4, <1>5, <1>6, <1>7

(* Every step, one case per operation.                                      *)
LEMMA NextStored == Stored /\ [Next]_vars => Stored'
<1> SUFFICES ASSUME Stored, [Next]_vars PROVE Stored'
  OBVIOUS
<1>1. CASE UNCHANGED vars
  BY <1>1 DEF vars, Stored, EventInv, OneTime, Unanswered, OneEventPerAction, ProcsOK
<1>2. ASSUME NEW w \in Workers, NEW t \in Transactions, NEW request \in Requested(t),
             request_fails(w, t, request)
      PROVE  Stored'
  <2>1. /\ awaiting' = awaiting \ {request.time} /\ Goto(w, Fail(t, request))
        /\ UNCHANGED <<events, amounts>>
    BY <1>2 DEF request_fails
  <2>2. EventInv'
    BY <2>1 DEF Stored, EventInv, OneTime, Unanswered, OneEventPerAction
  <2>3. request \in Event
    BY DEF Stored, EventInv, Requested
  <2>4. ProcOK(Fail(t, request))
    BY <2>3 DEF ProcOK, Fail, Event
  <2> QED BY <2>1, <2>2, <2>4, GotoKeeps DEF Stored
<1> QED
  BY <1>1, <1>2, ReportKeeps, FailKeeps, AnswerKeeps, RequestKeeps, AcceptedKeeps,
     OtherStepsKeep
  DEF Next

LEMMA StoredHolds == Spec => []Stored
BY InitStored, NextStored, PTL DEF Spec

(* The rows hold what the code can have written to them, whatever overlaps. *)
THEOREM EventsAreWellFormed == Spec => []TypeOK
<1>1. Stored => TypeOK
  BY DEF Stored, EventInv, Unanswered, Event, ItemAmounts, TypeOK, NoAmounts
<1> QED BY <1>1, StoredHolds, PTL

(* However often and however concurrently an action is reported and         *)
(* answered, its outcome counts once.                                       *)
THEOREM ActionsCountOnce == Spec => []OneEventPerAction
<1>1. Stored => OneEventPerAction
  BY DEF Stored, EventInv
<1> QED BY <1>1, StoredHolds, PTL

-----------------------------------------------------------------------------
(* A failure that is newer than all else cancels the success.               *)

(* Each step stores at most one event, and removes at most the request that *)
(* it stores again as accepted.                                             *)
LEMMA EventSteps ==
  ASSUME Stored, [Next]_vars
  PROVE  \/ UNCHANGED events
         \/ \E t \in Transactions, event \in Event : Store(t, event)
         \/ \E t \in Transactions, psp \in PspReferences : \E request \in Requested(t) :
              events' = [events EXCEPT ![t] = (@ \ {request}) \cup
                {[request EXCEPT !.psp_reference = psp, !.include_in_calculations = TRUE]}]
<1> DEFINE Same == UNCHANGED events
           Adds == \E t \in Transactions, event \in Event : Store(t, event)
           Accepts == \E t \in Transactions, psp \in PspReferences :
             \E request \in Requested(t) :
               events' = [events EXCEPT ![t] = (@ \ {request}) \cup
                 {[request EXCEPT !.psp_reference = psp, !.include_in_calculations = TRUE]}]
<1>1. ASSUME UNCHANGED vars PROVE Same
  BY <1>1 DEF vars
<1>2. ASSUME NEW w \in Workers, NEW time \in Times, NEW t \in Transactions,
             NEW psp \in PspReferences, NEW type \in Types, NEW amount \in Amounts,
             transaction_event_report(w, t, TransactionEvent(psp, type, amount, time, TRUE))
      PROVE  Same \/ Adds
  <2> DEFINE event == TransactionEvent(psp, type, amount, time, TRUE)
  <2>1. event \in Event
    BY TypesAssumption, AmountsAssumption DEF TransactionEvent, Event
  <2>2. transaction_event_report(w, t, event)
    BY <1>2
  <2> HIDE DEF event
  <2>3. Same \/ Store(t, event)
    BY <2>2 DEF transaction_event_report
  <2> QED BY <2>1, <2>3
<1>3. ASSUME NEW w \in Workers, NEW time \in Times, create_failed_transaction_event(w, time)
      PROVE  Adds
  <2> DEFINE p == proc[w]
             event == TransactionEvent(p.psp, <<p.action, "failure">>, p.amount, time, FALSE)
  <2>1. p.at = "fail" /\ Store(p.t, event) /\ ProcOK(p)
    BY <1>3 DEF create_failed_transaction_event, Stored, ProcsOK
  <2>2. /\ p.t \in Transactions /\ p.psp \in PspReferences \cup {NoPsp}
        /\ p.action \in Actions /\ p.amount \in Nat
    <3> HIDE DEF p
    <3> QED BY <2>1 DEF ProcOK, Idle
  <2>3. event \in Event
    BY <2>2 DEF TransactionEvent, Event, Results
  <2> HIDE DEF event, p
  <2> QED BY <2>1, <2>2, <2>3
<1>4. ASSUME NEW w \in Workers, NEW amount \in Amounts, NEW time \in Times,
             create_event_from_response(w, amount, time)
      PROVE  Same \/ Adds
  <2> DEFINE p == proc[w]
             event == TransactionEvent(p.psp, p.type, amount, time, TRUE)
  <2>1. p.at = "answer" /\ (Store(p.t, event) \/ Same) /\ ProcOK(p)
    BY <1>4 DEF create_event_from_response, Stored, ProcsOK
  <2>2. /\ p.t \in Transactions /\ p.psp \in PspReferences
        /\ p.type \in Actions \X {"success", "failure"}
    <3> HIDE DEF p
    <3> QED BY <2>1 DEF ProcOK, Idle
  <2>3. event \in Event
    BY <2>2, AmountsAssumption DEF TransactionEvent, Event, Results
  <2> HIDE DEF event, p
  <2> QED BY <2>1, <2>2, <2>3
<1>5. ASSUME NEW t \in Transactions, NEW action \in RequestActions, NEW amount \in Amounts,
             NEW time \in Times, transaction_request_action(t, action, amount, time)
      PROVE  Adds
  <2> DEFINE limit == IF action = "refund" THEN amounts[t].charged ELSE amounts[t].authorized
             event == TransactionEvent(NoPsp, <<action, "request">>, Min({amount, limit}),
                                       time, FALSE)
  <2>1. limit > 0 /\ Store(t, event) /\ limit \in Int
    BY <1>5 DEF transaction_request_action, Stored, ItemAmounts
  <2>2. Min({amount, limit}) \in Nat
    BY <2>1, MinOfTwo, AmountsAssumption
  <2> HIDE DEF limit
  <2>3. event \in Event
    BY <2>2, RequestsAssumption DEF TransactionEvent, Event, Actions, Results
  <2> QED BY <2>1, <2>3
<1>6. ASSUME NEW w \in Workers, NEW t \in Transactions, NEW request \in Requested(t)
      PROVE  /\ request_fails(w, t, request) => Same
             /\ \A psp \in PspReferences, result \in {"later", "success", "failure"} :
                  request_accepted(w, t, request, psp, result) => Accepts
  BY DEF request_fails, request_accepted
<1>7. ASSUME NEW w \in Workers,
             \/ report_already_processed(w) \/ recalculate(w) \/ save_transaction(w)
             \/ process_order_with_transaction(w) \/ read_order_transactions(w) \/ save_order(w)
      PROVE  Same
  BY <1>7 DEF report_already_processed, recalculate, save_transaction,
     process_order_with_transaction, read_order_transactions, save_order
<1> HIDE DEF Same, Adds, Accepts
<1>8. Same \/ Adds \/ Accepts
  BY <1>1, <1>2, <1>3, <1>4, <1>5, <1>6, <1>7 DEF Next
<1> QED BY <1>8 DEF Same, Adds, Accepts

(* A success that an app later takes back is not counted, in whatever order *)
(* reports, answers and recalculations overlap.                             *)
THEOREM FailuresAreHeard == Spec => FailureIsHeard
<1>1. ASSUME Stored, Stored', [Next]_vars, NEW t \in Transactions,
             NEW failure \in events'[t] \ events[t],
             failure.type = <<"charge", "failure">>, failure.include_in_calculations,
             \A e \in events[t] : e.psp_reference = failure.psp_reference => e.time < failure.time
      PROVE  ~_should_increse_amount(_initilize_action_map(events'[t]),
                                     failure.psp_reference, "charge")
  <2>1. events'[t] = events[t] \cup {failure}
    <3>1. events \in [Transactions -> SUBSET Event]
      BY <1>1 DEF Stored, EventInv
    <3>2. CASE UNCHANGED events
      BY <1>1, <3>2
    <3>3. ASSUME NEW u \in Transactions, NEW event \in Event, Store(u, event)
          PROVE  events'[t] = events[t] \cup {failure}
      BY <1>1, <3>1, <3>3 DEF Store
    <3>4. ASSUME NEW u \in Transactions, NEW psp \in PspReferences,
                 NEW request \in Requested(u),
                 events' = [events EXCEPT ![u] = (@ \ {request}) \cup
                   {[request EXCEPT !.psp_reference = psp, !.include_in_calculations = TRUE]}]
          PROVE  FALSE
      <4> DEFINE accepted == [request EXCEPT !.psp_reference = psp,
                                             !.include_in_calculations = TRUE]
      <4>1. request \in Event /\ request.type[2] = "request"
        BY <1>1 DEF Stored, EventInv, Unanswered, Requested
      <4>2. accepted.type[2] = "request"
        BY <4>1 DEF Event
      <4> HIDE DEF accepted
      <4>3. failure = accepted
        BY <1>1, <3>1, <3>4 DEF accepted
      <4> QED BY <1>1, <4>2, <4>3
    <3> QED BY <1>1, <3>2, <3>3, <3>4, EventSteps
  <2> DEFINE E == _initilize_action_map(events'[t])
             success == Slot(E, failure.psp_reference, "charge", "success")
             failures == Slot(E, failure.psp_reference, "charge", "failure")
  <2>2. events'[t] \in SUBSET Event
    BY <1>1 DEF Stored, EventInv
  <2>3. E \in SUBSET Event /\ E \in SUBSET events'[t]
    BY <2>2 DEF _initilize_action_map, _get_authorize_events
  <2>4. failure \in failures
    BY <1>1, <2>1 DEF Slot, _initilize_action_map
  <2> HIDE DEF E
  <2>5. success \in SUBSET Event /\ failures \in SUBSET Event
    BY <2>3 DEF Slot
  <2>6. \A e \in success : e.time < failure.time
    BY <1>1, <2>1, <2>3 DEF Slot
  <2>7. CASE success = {}
    BY <2>7 DEF _should_increse_amount, E
  <2>8. CASE success # {}
    <3>1. newest(success) \in success
      BY <2>5, <2>8, Newest
    <3>2. newest(failures) \in Event /\ failure.time <= newest(failures).time
      BY <2>4, <2>5, Newest
    <3>3. newest(success).time \in Nat /\ newest(failures).time \in Nat /\ failure.time \in Nat
      BY <2>4, <2>5, <3>1, <3>2, TimesAssumption DEF Event
    <3>4. ~(newest(success).time > newest(failures).time)
      BY <2>6, <3>1, <3>2, <3>3
    <3> QED BY <2>4, <3>4 DEF _should_increse_amount, E
  <2> QED BY <2>7, <2>8
<1>2. Stored /\ Stored' /\ [Next]_vars =>
        [\A t \in Transactions : \A failure \in events'[t] \ events[t] :
           /\ failure.type = <<"charge", "failure">> /\ failure.include_in_calculations
           /\ \A e \in events[t] : e.psp_reference = failure.psp_reference => e.time < failure.time
           => ~_should_increse_amount(_initilize_action_map(events'[t]),
                                      failure.psp_reference, "charge")]_vars
  <2> SUFFICES ASSUME Stored, Stored', [Next]_vars, NEW t \in Transactions,
                      NEW failure \in events'[t] \ events[t],
                      /\ failure.type = <<"charge", "failure">>
                      /\ failure.include_in_calculations
                      /\ \A e \in events[t] : e.psp_reference = failure.psp_reference =>
                           e.time < failure.time
               PROVE  ~_should_increse_amount(_initilize_action_map(events'[t]),
                                              failure.psp_reference, "charge")
    OBVIOUS
  <2> QED BY <1>1
<1> QED BY <1>2, StoredHolds, PTL DEF Spec, FailureIsHeard

-----------------------------------------------------------------------------
(* The amounts, when reports and answers follow one another.                *)

(* The amounts a are those of the events E, but for some of X.              *)
Matches(a, E, X) ==
  \E missing \in SUBSET X : a = recalculate_transaction_amounts(E \ missing)

Counted(E) == {e \in E : e.include_in_calculations}

(* The requests of a psp reference, whose answer is being served.           *)
Answering(E, psp, action) ==
  {e \in E : e.type = <<action, "request">> /\ e.psp_reference = psp}

TotalsOf(a) ==
  [authorized |-> SignedTotal([t \in Transactions |-> a[t].authorized], Transactions),
   charged |-> SignedTotal([t \in Transactions |-> a[t].charged], Transactions)]

Settled(T, E, a) == \A t \in T : Matches(a[t], E[t], Refused(E[t]))

(* What a worker has still to do for the books.                             *)
BookOK(p, E, a, total) ==
  LET others == Transactions \ {p.t}
  IN /\ p.at = "already_processed" => Settled(Transactions, E, a) /\ total = TotalsOf(a)
     /\ p.at = "fail" =>
          /\ Settled(others, E, a) /\ total = TotalsOf(a)
          /\ Matches(a[p.t], E[p.t], Refused(E[p.t]) \cup Answering(E[p.t], p.psp, p.action))
     /\ p.at = "answer" =>
          /\ Settled(others, E, a) /\ total = TotalsOf(a)
          /\ Matches(a[p.t], E[p.t], Refused(E[p.t]) \cup Answering(E[p.t], p.psp, p.type[1]))
     /\ p.at = "recalculate" => Settled(others, E, a) /\ total = TotalsOf(a)
     /\ p.at = "save" =>
          /\ Settled(others, E, a) /\ total = TotalsOf(a)
          /\ p.amounts = recalculate_transaction_amounts(E[p.t])
     /\ p.at \in {"order", "read_order"} => Settled(Transactions, E, a)
     /\ p.at = "save_order" => Settled(Transactions, E, a) /\ p.totals = TotalsOf(a)

Books ==
  /\ \A v, w \in Workers : proc[v] # Idle /\ proc[w] # Idle => v = w
  /\ AllIdle => Settled(Transactions, events, amounts) /\ totals = TotalsOf(amounts)
  /\ \A w \in Workers : BookOK(proc[w], events, amounts, totals)

(* Only the counted events matter to the amounts.                           *)
LEMMA CountedOnly ==
  ASSUME NEW E, NEW F, Counted(E) = Counted(F)
  PROVE  recalculate_transaction_amounts(E) = recalculate_transaction_amounts(F)
<1>1. _initilize_action_map(E) = _initilize_action_map(F)
  BY DEF _initilize_action_map, Counted
<1> QED BY <1>1 DEF recalculate_transaction_amounts

(* Newly counted events may be missing, and those that were may go on to.   *)
LEMMA MatchesMore ==
  ASSUME NEW a, NEW E, NEW F, NEW X, NEW Y, NEW N, Matches(a, E, X),
         Counted(F) = Counted(E) \cup N, N \cap Counted(E) = {}, N \subseteq Y,
         \A e \in X : e \in Counted(E) => e \in Y
  PROVE  Matches(a, F, Y)
<1>1. PICK M \in SUBSET X : a = recalculate_transaction_amounts(E \ M)
  BY DEF Matches
<1> DEFINE K == (M \cap Counted(E)) \cup N
<1>2. K \in SUBSET Y
  OBVIOUS
<1>3. Counted(F \ K) = Counted(E \ M)
  <2>1. Counted(F \ K) = Counted(F) \ K /\ Counted(E \ M) = Counted(E) \ M
    BY DEF Counted
  <2> QED BY <2>1
<1> HIDE DEF K
<1>4. a = recalculate_transaction_amounts(F \ K)
  BY <1>1, <1>3, CountedOnly
<1> QED BY <1>2, <1>4 DEF Matches

LEMMA MatchesWider ==
  ASSUME NEW a, NEW E, NEW X, NEW Y, X \subseteq Y, Matches(a, E, X)
  PROVE  Matches(a, E, Y)
BY DEF Matches

(* More events refuse no fewer requests.                                    *)
LEMMA RefusedGrows ==
  ASSUME NEW E, NEW F, E \subseteq F PROVE Refused(E) \subseteq Refused(F)
BY DEF Refused

(* An uncounted event changes no amount.                                    *)
LEMMA MatchesUncounted ==
  ASSUME NEW a, NEW E, NEW event, ~event.include_in_calculations,
         NEW X, NEW Y, X \subseteq Y, Matches(a, E, X)
  PROVE  Matches(a, E \cup {event}, Y)
<1>1. Counted(E \cup {event}) = Counted(E) \cup {}
  BY DEF Counted
<1>2. {} \cap Counted(E) = {} /\ {} \subseteq Y /\ \A e \in X : e \in Counted(E) => e \in Y
  OBVIOUS
<1> QED BY <1>1, <1>2, MatchesMore

(* The books after a step of the only worker that is busy.                  *)
LEMMA BooksNext ==
  ASSUME ProcsOK, NEW w \in Workers, \A v \in Workers : v # w => proc[v] = Idle,
         NEW p, ProcOK(p), Goto(w, p), BookOK(p, events', amounts', totals'),
         p = Idle => Settled(Transactions, events', amounts') /\ totals' = TotalsOf(amounts')
  PROVE  Books'
<1>1. \A v \in Workers : proc'[v] = IF v = w THEN p ELSE Idle
  BY GotoKeeps
<1>2. \A v \in Workers : BookOK(proc'[v], events', amounts', totals')
  <2>1. BookOK(Idle, events', amounts', totals')
    BY DEF BookOK, Idle
  <2> QED BY <1>1, <2>1
<1>3. AllIdle' => p = Idle
  BY <1>1 DEF AllIdle
<1> QED BY <1>1, <1>2, <1>3 DEF Books

(* A request of the app, or an answer, is served from the beginning.        *)
LEMMA StartsAlone ==
  ASSUME Overlap = FALSE, Books, NEW w \in Workers, MayStart(w)
  PROVE  /\ \A v \in Workers : v # w => proc[v] = Idle
         /\ Settled(Transactions, events, amounts) /\ totals = TotalsOf(amounts)
BY DEF MayStart, Books, AllIdle

(* A busy worker is alone.                                                  *)
LEMMA BusyAlone ==
  ASSUME Books, NEW w \in Workers, proc[w] # Idle
  PROVE  /\ \A v \in Workers : v # w => proc[v] = Idle
         /\ BookOK(proc[w], events, amounts, totals)
BY DEF Books

(* The other transactions do not notice.                                    *)
LEMMA OthersStaySettled ==
  ASSUME NEW T, NEW E, NEW F, NEW a, NEW t, Settled(T \ {t}, E, a),
         \A u \in T : u # t => F[u] = E[u]
  PROVE  Settled(T \ {t}, F, a)
BY DEF Settled

(* An event reported.                                                       *)
LEMMA ReportBooks ==
  ASSUME Overlap = FALSE, Stored, Books, NEW w \in Workers, NEW t \in Transactions,
         NEW psp \in PspReferences, NEW type \in Types, NEW amount \in Amounts,
         NEW time \in Times,
         transaction_event_report(w, t, TransactionEvent(psp, type, amount, time, TRUE))
  PROVE  Books'
<1> DEFINE event == TransactionEvent(psp, type, amount, time, TRUE)
<1>1. transaction_event_report(w, t, event)
  OBVIOUS
<1>2. event.psp_reference = psp /\ event.type = type /\ event.amount = amount
  BY DEF TransactionEvent
<1>3. type[1] \in Actions /\ amount \in Nat
  BY TypesAssumption, AmountsAssumption
<1> HIDE DEF event
<1>4. MayStart(w) /\ UNCHANGED <<amounts, totals>>
  BY <1>1 DEF transaction_event_report
<1>5. /\ \A v \in Workers : v # w => proc[v] = Idle
      /\ Settled(Transactions, events, amounts) /\ totals = TotalsOf(amounts)
  BY <1>4, StartsAlone
<1>6. /\ events \in [Transactions -> SUBSET Event] /\ ProcsOK
      /\ Settled(Transactions \ {t}, events, amounts)
  BY <1>5 DEF Stored, EventInv, Settled
<1>7. CASE Store(t, event) /\ Goto(w, [at |-> "recalculate", t |-> t, by |-> "report"])
  <2> DEFINE p == [at |-> "recalculate", t |-> t, by |-> "report"]
  <2>1. \A u \in Transactions : u # t => events'[u] = events[u]
    BY <1>6, <1>7 DEF Store
  <2>2. Settled(Transactions \ {t}, events', amounts)
    BY <1>6, <2>1, OthersStaySettled
  <2>3. BookOK(p, events', amounts', totals') /\ ProcOK(p) /\ p # Idle
    BY <1>4, <1>5, <2>2 DEF BookOK, ProcOK, Idle
  <2> HIDE DEF p
  <2> QED BY <1>5, <1>6, <1>7, <2>3, BooksNext DEF p
<1>8. CASE UNCHANGED events /\ Goto(w, [at |-> "already_processed"])
  <2> DEFINE p == [at |-> "already_processed"]
  <2>1. BookOK(p, events', amounts', totals') /\ ProcOK(p) /\ p # Idle
    BY <1>4, <1>5, <1>8 DEF BookOK, ProcOK, Idle
  <2> HIDE DEF p
  <2> QED BY <1>5, <1>6, <1>8, <2>1, BooksNext DEF p
<1>9. CASE UNCHANGED events /\ Goto(w, Fail(t, event))
  <2> DEFINE p == Fail(t, event)
  <2>1. /\ p.at = "fail" /\ p.t = t /\ p.psp = psp /\ p.action = type[1] /\ p.amount = amount
        /\ p # Idle
    BY <1>2 DEF Fail, Idle
  <2> HIDE DEF p
  <2>2. ProcOK(p)
    BY <1>3, <2>1 DEF ProcOK
  <2>3. Matches(amounts[t], events[t], Refused(events[t]) \cup Answering(events[t], psp, type[1]))
    BY <1>5, MatchesWider DEF Settled
  <2>4. BookOK(p, events', amounts', totals')
    BY <1>4, <1>5, <1>6, <1>9, <2>1, <2>3 DEF BookOK
  <2> QED BY <1>5, <1>6, <1>9, <2>1, <2>2, <2>4, BooksNext DEF p
<1> QED BY <1>1, <1>7, <1>8, <1>9 DEF transaction_event_report

(* A refusal recorded: it covers the request it is about.                   *)
LEMMA FailBooks ==
  ASSUME Stored, Books, NEW w \in Workers, NEW time \in Times,
         create_failed_transaction_event(w, time)
  PROVE  Books'
<1> DEFINE p == proc[w]
           event == TransactionEvent(p.psp, <<p.action, "failure">>, p.amount, time, FALSE)
<1>1. /\ p.at = "fail" /\ Store(p.t, event) /\ Goto(w, Idle)
      /\ UNCHANGED <<amounts, totals, awaiting>> /\ ProcOK(p)
  BY DEF create_failed_transaction_event, Stored, ProcsOK
<1>2. p # Idle
  BY <1>1 DEF Idle
<1>3. p.t \in Transactions
  <2> HIDE DEF p
  <2> QED BY <1>1, <1>2 DEF ProcOK
<1>4. /\ event.type = <<p.action, "failure">> /\ event.psp_reference = p.psp
      /\ ~event.include_in_calculations
  BY DEF TransactionEvent
<1>5. (\A v \in Workers : v # w => proc[v] = Idle) /\ BookOK(p, events, amounts, totals)
  BY <1>2, BusyAlone
<1>6. events \in [Transactions -> SUBSET Event] /\ ProcsOK
  BY DEF Stored, EventInv
<1> HIDE DEF p, event
<1>7. /\ Settled(Transactions \ {p.t}, events, amounts) /\ totals = TotalsOf(amounts)
      /\ Matches(amounts[p.t], events[p.t],
                 Refused(events[p.t]) \cup Answering(events[p.t], p.psp, p.action))
  BY <1>1, <1>5 DEF BookOK
<1>8. /\ events'[p.t] = events[p.t] \cup {event}
      /\ \A u \in Transactions : u # p.t => events'[u] = events[u]
  BY <1>1, <1>3, <1>6 DEF Store
<1>9. Settled(Transactions \ {p.t}, events', amounts)
  BY <1>7, <1>8, OthersStaySettled
<1>10. Answering(events[p.t], p.psp, p.action) \subseteq Refused(events'[p.t])
  BY <1>4, <1>8 DEF Answering, Refused
<1>11. Refused(events[p.t]) \subseteq Refused(events'[p.t])
  BY <1>8, RefusedGrows
<1>12. Matches(amounts[p.t], events'[p.t], Refused(events'[p.t]))
  <2> DEFINE X == Refused(events[p.t]) \cup Answering(events[p.t], p.psp, p.action)
             Y == Refused(events'[p.t])
  <2>1. X \subseteq Y /\ Matches(amounts[p.t], events[p.t], X)
    BY <1>7, <1>10, <1>11
  <2> HIDE DEF X, Y
  <2>2. Matches(amounts[p.t], events[p.t] \cup {event}, Y)
    BY <1>4, <2>1, MatchesUncounted
  <2> QED BY <1>8, <2>2 DEF Y
<1>13. Settled(Transactions, events', amounts')
  BY <1>1, <1>9, <1>12 DEF Settled
<1>14. BookOK(Idle, events', amounts', totals') /\ ProcOK(Idle)
  BY DEF BookOK, ProcOK, Idle
<1> QED BY <1>1, <1>5, <1>6, <1>7, <1>13, <1>14, BooksNext

(* An answer stored, found there, or refused.                               *)
LEMMA AnswerBooks ==
  ASSUME Stored, Books, NEW w \in Workers, NEW amount \in Amounts, NEW time \in Times,
         create_event_from_response(w, amount, time)
  PROVE  Books'
<1> DEFINE p == proc[w]
           event == TransactionEvent(p.psp, p.type, amount, time, TRUE)
           refusal == Fail(p.t, [p.request EXCEPT !.psp_reference = p.psp])
           going == [at |-> "recalculate", t |-> p.t, by |-> "answer"]
<1>1. /\ p.at = "answer" /\ ProcOK(p) /\ UNCHANGED <<amounts, totals, awaiting>>
      /\ \/ Goto(w, going) /\ (Store(p.t, event) \/ UNCHANGED events)
         \/ Goto(w, refusal) /\ UNCHANGED events
  BY DEF create_event_from_response, Stored, ProcsOK
<1>2. p # Idle
  BY <1>1 DEF Idle
<1>3. /\ p.t \in Transactions /\ p.psp \in PspReferences /\ p.request \in Event
      /\ p.type[1] = p.request.type[1]
  <2> HIDE DEF p
  <2> QED BY <1>1, <1>2 DEF ProcOK
<1>4. /\ refusal.at = "fail" /\ refusal.t = p.t /\ refusal.psp = p.psp
      /\ refusal.action = p.type[1] /\ refusal.amount \in Nat /\ p.type[1] \in Actions
  <2>1. /\ [p.request EXCEPT !.psp_reference = p.psp].psp_reference = p.psp
        /\ [p.request EXCEPT !.psp_reference = p.psp].type = p.request.type
        /\ [p.request EXCEPT !.psp_reference = p.psp].amount = p.request.amount
    BY <1>3 DEF Event
  <2> QED BY <1>3, <2>1 DEF Fail, Event
<1>5. (\A v \in Workers : v # w => proc[v] = Idle) /\ BookOK(p, events, amounts, totals)
  BY <1>2, BusyAlone
<1>6. events \in [Transactions -> SUBSET Event] /\ ProcsOK
  BY DEF Stored, EventInv
<1>7. going.at = "recalculate" /\ going.t = p.t
  OBVIOUS
<1> HIDE DEF p, event, refusal, going
<1>8. /\ Settled(Transactions \ {p.t}, events, amounts) /\ totals = TotalsOf(amounts)
      /\ Matches(amounts[p.t], events[p.t],
                 Refused(events[p.t]) \cup Answering(events[p.t], p.psp, p.type[1]))
  BY <1>1, <1>5 DEF BookOK
<1>9. CASE Goto(w, going) /\ (Store(p.t, event) \/ UNCHANGED events)
  <2>1. \A u \in Transactions : u # p.t => events'[u] = events[u]
    BY <1>6, <1>9 DEF Store
  <2>2. Settled(Transactions \ {p.t}, events', amounts)
    BY <1>8, <2>1, OthersStaySettled
  <2>3. BookOK(going, events', amounts', totals') /\ ProcOK(going) /\ going # Idle
    BY <1>1, <1>3, <1>7, <1>8, <2>2 DEF BookOK, ProcOK, Idle
  <2> QED BY <1>5, <1>6, <1>9, <2>3, BooksNext
<1>10. CASE Goto(w, refusal) /\ UNCHANGED events
  <2>1. ProcOK(refusal) /\ refusal # Idle
    BY <1>3, <1>4 DEF ProcOK, Idle
  <2>2. BookOK(refusal, events', amounts', totals')
    BY <1>1, <1>4, <1>8, <1>10 DEF BookOK
  <2> QED BY <1>5, <1>6, <1>10, <2>1, <2>2, BooksNext
<1> QED BY <1>1, <1>9, <1>10

(* Staff ask for an action: nothing counts yet.                             *)
LEMMA RequestBooks ==
  ASSUME Overlap = FALSE, Stored, Books, NEW t \in Transactions, NEW action, NEW amount,
         NEW time, transaction_request_action(t, action, amount, time)
  PROVE  Books'
<1>1. PICK event : Store(t, event) /\ ~event.include_in_calculations
  <2> DEFINE limit == IF action = "refund" THEN amounts[t].charged ELSE amounts[t].authorized
             event == TransactionEvent(NoPsp, <<action, "request">>, Min({amount, limit}),
                                       time, FALSE)
  <2>1. Store(t, event)
    BY DEF transaction_request_action
  <2>2. ~event.include_in_calculations
    BY DEF TransactionEvent
  <2> HIDE DEF event
  <2> QED BY <2>1, <2>2
<1>2. AllIdle /\ UNCHANGED <<amounts, totals, proc>>
  BY DEF transaction_request_action, AllIdle
<1>3. Settled(Transactions, events, amounts) /\ totals = TotalsOf(amounts)
  BY <1>2 DEF Books
<1>4. /\ events'[t] = events[t] \cup {event}
      /\ \A u \in Transactions : u # t => events'[u] = events[u]
  BY <1>1 DEF Store, Stored, EventInv
<1>5. Matches(amounts[t], events'[t], Refused(events'[t]))
  <2> DEFINE X == Refused(events[t])
             Y == Refused(events'[t])
  <2>1. X \subseteq Y /\ Matches(amounts[t], events[t], X)
    BY <1>3, <1>4, RefusedGrows DEF Settled
  <2> HIDE DEF X, Y
  <2>2. Matches(amounts[t], events[t] \cup {event}, Y)
    BY <1>1, <2>1, MatchesUncounted
  <2> QED BY <1>4, <2>2 DEF Y
<1>6. Settled(Transactions, events', amounts')
  BY <1>2, <1>3, <1>4, <1>5 DEF Settled
<1>7. \A w \in Workers : proc'[w] = Idle /\ BookOK(Idle, events', amounts', totals')
  BY <1>2 DEF AllIdle, BookOK, Idle
<1> QED BY <1>2, <1>3, <1>6, <1>7 DEF Books

(* The app accepts a request: it is the one event not yet in the amounts.   *)
LEMMA AcceptedBooks ==
  ASSUME Overlap = FALSE, Stored, Books, NEW w \in Workers, NEW t \in Transactions,
         NEW request \in Requested(t), NEW psp \in PspReferences,
         NEW result \in {"later", "success", "failure"},
         request_accepted(w, t, request, psp, result)
  PROVE  Books'
<1> DEFINE accepted == [request EXCEPT !.psp_reference = psp, !.include_in_calculations = TRUE]
           going == [at |-> "recalculate", t |-> t, by |-> "answer"]
           answer == [at |-> "answer", t |-> t, psp |-> psp,
                      type |-> <<request.type[1], result>>, request |-> request]
<1>1. /\ MayStart(w) /\ UNCHANGED <<amounts, totals>>
      /\ events' = [events EXCEPT ![t] = (@ \ {request}) \cup {accepted}]
      /\ Goto(w, IF result = "later" THEN going ELSE answer)
  BY DEF request_accepted
<1>2. /\ events \in [Transactions -> SUBSET Event] /\ ProcsOK /\ OneTime
  BY DEF Stored, EventInv
<1>3. /\ request \in events[t] /\ request \in Event /\ request.type[2] = "request"
      /\ ~request.include_in_calculations
  BY DEF Stored, EventInv, Unanswered, Requested
<1>4. /\ accepted.time = request.time /\ accepted.type = request.type
      /\ accepted.psp_reference = psp /\ accepted.include_in_calculations
  BY <1>3 DEF Event
<1>5. /\ \A v \in Workers : v # w => proc[v] = Idle
      /\ Settled(Transactions, events, amounts) /\ totals = TotalsOf(amounts)
  BY <1>1, StartsAlone
<1> HIDE DEF accepted
<1>6. /\ events'[t] = (events[t] \ {request}) \cup {accepted}
      /\ \A u \in Transactions : u # t => events'[u] = events[u]
  BY <1>1, <1>2
<1>7. Settled(Transactions \ {t}, events', amounts)
  <2>1. Settled(Transactions \ {t}, events, amounts)
    BY <1>5 DEF Settled
  <2> QED BY <1>6, <2>1, OthersStaySettled
<1>8. CASE result = "later"
  <2>1. BookOK(going, events', amounts', totals') /\ ProcOK(going) /\ going # Idle
    BY <1>1, <1>5, <1>7 DEF BookOK, ProcOK, Idle
  <2>2. Goto(w, going)
    BY <1>1, <1>8
  <2> HIDE DEF going
  <2> QED BY <1>2, <1>5, <2>1, <2>2, BooksNext
<1>9. CASE result # "later"
  <2> DEFINE Y == Refused(events'[t]) \cup Answering(events'[t], psp, request.type[1])
  <2>1. accepted \in Answering(events'[t], psp, request.type[1])
    <3>1. request.type = <<request.type[1], "request">>
      BY <1>3 DEF Event
    <3> QED BY <1>4, <1>6, <3>1 DEF Answering
  <2>2. accepted \notin events[t]
    BY <1>2, <1>3, <1>4 DEF OneTime
  <2>3. Counted(events'[t]) = Counted(events[t]) \cup {accepted}
    BY <1>3, <1>4, <1>6 DEF Counted
  <2>4. ASSUME NEW e \in Refused(events[t]), e \in Counted(events[t]) PROVE e \in Y
    <3>1. PICK f \in events[t] : /\ f.type = <<e.type[1], "failure">>
                                 /\ ~f.include_in_calculations
                                 /\ f.psp_reference = e.psp_reference
      BY <2>4 DEF Refused
    <3>2. f # request /\ e # request
      BY <1>3, <2>4, <3>1 DEF Counted
    <3>3. f \in events'[t] /\ e \in events'[t] /\ e.type[2] = "request"
      BY <1>6, <2>4, <3>2 DEF Refused
    <3> QED BY <3>1, <3>3 DEF Refused
  <2>5. Matches(amounts[t], events'[t], Y)
    <3>1. Matches(amounts[t], events[t], Refused(events[t]))
      BY <1>5 DEF Settled
    <3>2. {accepted} \cap Counted(events[t]) = {} /\ {accepted} \subseteq Y
      BY <2>1, <2>2 DEF Counted
    <3> DEFINE X == Refused(events[t])
               N == {accepted}
    <3>3. \A e \in X : e \in Counted(events[t]) => e \in Y
      BY <2>4
    <3>4. /\ Counted(events'[t]) = Counted(events[t]) \cup N /\ N \cap Counted(events[t]) = {}
          /\ N \subseteq Y /\ Matches(amounts[t], events[t], X)
      BY <2>3, <3>1, <3>2
    <3> HIDE DEF X, Y, N
    <3> QED BY <3>3, <3>4, MatchesMore
  <2>6. /\ answer.at = "answer" /\ answer.t = t /\ answer.psp = psp
        /\ answer.type = <<request.type[1], result>> /\ answer.request = request
        /\ answer # Idle
    BY DEF Idle
  <2>7. result \in {"success", "failure"} /\ request.type[1] \in Actions
    BY <1>3, <1>9 DEF Event
  <2>8. Goto(w, answer)
    BY <1>1, <1>9
  <2> HIDE DEF answer
  <2>9. ProcOK(answer)
    BY <1>3, <2>6, <2>7 DEF ProcOK
  <2>10. BookOK(answer, events', amounts', totals')
    BY <1>1, <1>5, <1>7, <2>5, <2>6 DEF BookOK
  <2> QED BY <1>2, <1>5, <2>6, <2>8, <2>9, <2>10, BooksNext
<1> QED BY <1>8, <1>9

(* The steps after the events: compute, save, sum up.                       *)
LEMMA OtherBooks ==
  ASSUME Stored, Books, NEW w \in Workers,
         \/ report_already_processed(w) \/ recalculate(w) \/ save_transaction(w)
         \/ process_order_with_transaction(w) \/ read_order_transactions(w) \/ save_order(w)
  PROVE  Books'
<1> DEFINE p == proc[w]
<1>1. ProcsOK /\ ProcOK(p) /\ amounts \in [Transactions -> ItemAmounts]
  BY DEF Stored, ProcsOK
<1>2. p # Idle /\ UNCHANGED events
  BY DEF report_already_processed, recalculate, save_transaction,
     process_order_with_transaction, read_order_transactions, save_order, Idle
<1>3. (\A v \in Workers : v # w => proc[v] = Idle) /\ BookOK(p, events, amounts, totals)
  BY <1>2, BusyAlone
<1>4. ProcOK(Idle) /\ BookOK(Idle, events', amounts', totals')
  BY DEF BookOK, ProcOK, Idle
<1>5. updates_amounts_for_order = TotalsOf(amounts)
  BY DEF updates_amounts_for_order, TotalsOf
<1>6. CASE report_already_processed(w)
  <2>1. p.at = "already_processed" /\ Goto(w, Idle) /\ UNCHANGED <<amounts, totals>>
    BY <1>6 DEF report_already_processed
  <2> HIDE DEF p
  <2>2. Settled(Transactions, events', amounts') /\ totals' = TotalsOf(amounts')
    BY <1>2, <1>3, <2>1 DEF BookOK
  <2> QED BY <1>1, <1>3, <1>4, <2>1, <2>2, BooksNext
<1>7. CASE recalculate(w)
  <2> DEFINE next == [at |-> "save", t |-> p.t, by |-> p.by,
                      amounts |-> recalculate_transaction_amounts(events[p.t])]
  <2>1. p.at = "recalculate" /\ Goto(w, next) /\ UNCHANGED <<amounts, totals>>
    BY <1>7 DEF recalculate
  <2> HIDE DEF p
  <2>2. p.t \in Transactions
    BY <1>1, <1>2, <2>1 DEF ProcOK
  <2>3. recalculate_transaction_amounts(events[p.t]) \in ItemAmounts
    BY <2>2, RecalculatedType DEF Stored, EventInv
  <2>4. /\ next.at = "save" /\ next.t = p.t /\ next # Idle
        /\ next.amounts = recalculate_transaction_amounts(events[p.t])
    BY DEF Idle
  <2> HIDE DEF next
  <2>5. ProcOK(next)
    BY <2>2, <2>3, <2>4 DEF ProcOK
  <2>6. BookOK(next, events', amounts', totals')
    BY <1>2, <1>3, <2>1, <2>4 DEF BookOK
  <2> QED BY <1>1, <1>3, <2>1, <2>4, <2>5, <2>6, BooksNext
<1>8. CASE save_transaction(w)
  <2> DEFINE next == [at |-> IF p.by = "report" THEN "order" ELSE "read_order"]
  <2>1. p.at = "save" /\ Goto(w, next) /\ amounts' = [amounts EXCEPT ![p.t] = p.amounts]
    BY <1>8 DEF save_transaction
  <2>2. next.at \in {"order", "read_order"} /\ next # Idle
    BY DEF Idle
  <2> HIDE DEF p, next
  <2>3. p.t \in Transactions
    BY <1>1, <1>2, <2>1 DEF ProcOK
  <2>4. /\ Settled(Transactions \ {p.t}, events, amounts)
        /\ p.amounts = recalculate_transaction_amounts(events[p.t])
    BY <1>3, <2>1 DEF BookOK
  <2>5. /\ amounts'[p.t] = p.amounts
        /\ \A u \in Transactions : u # p.t => amounts'[u] = amounts[u]
    BY <1>1, <2>1, <2>3
  <2>6. Matches(amounts'[p.t], events'[p.t], Refused(events'[p.t]))
    <3>1. events[p.t] = events[p.t] \ {} /\ {} \in SUBSET Refused(events[p.t])
      OBVIOUS
    <3>2. amounts'[p.t] = recalculate_transaction_amounts(events[p.t] \ {})
      BY <2>4, <2>5, <3>1
    <3> QED BY <1>2, <3>1, <3>2 DEF Matches
  <2>7. Settled(Transactions, events', amounts')
    BY <1>2, <2>4, <2>5, <2>6 DEF Settled
  <2>8. ProcOK(next) /\ BookOK(next, events', amounts', totals')
    BY <2>2, <2>7 DEF ProcOK, BookOK
  <2> QED BY <1>1, <1>3, <2>1, <2>2, <2>8, BooksNext
<1>9. CASE process_order_with_transaction(w)
  <2>1. /\ p.at = "order" /\ Goto(w, Idle) /\ UNCHANGED amounts
        /\ totals' = updates_amounts_for_order
    BY <1>9 DEF process_order_with_transaction
  <2> HIDE DEF p
  <2>2. Settled(Transactions, events', amounts') /\ totals' = TotalsOf(amounts')
    BY <1>2, <1>3, <1>5, <2>1 DEF BookOK
  <2> QED BY <1>1, <1>3, <1>4, <2>1, <2>2, BooksNext
<1>10. CASE read_order_transactions(w)
  <2> DEFINE next == [at |-> "save_order", totals |-> updates_amounts_for_order]
  <2>1. p.at = "read_order" /\ Goto(w, next) /\ UNCHANGED amounts
    BY <1>10 DEF read_order_transactions
  <2>2. /\ next.at = "save_order" /\ next.totals = updates_amounts_for_order /\ next # Idle
    BY DEF Idle
  <2> HIDE DEF p, next
  <2>3. ProcOK(next) /\ BookOK(next, events', amounts', totals')
    BY <1>2, <1>3, <1>5, <2>1, <2>2 DEF BookOK, ProcOK
  <2> QED BY <1>1, <1>3, <2>1, <2>2, <2>3, BooksNext
<1>11. CASE save_order(w)
  <2>1. p.at = "save_order" /\ Goto(w, Idle) /\ UNCHANGED amounts /\ totals' = p.totals
    BY <1>11 DEF save_order
  <2> HIDE DEF p
  <2>2. Settled(Transactions, events', amounts') /\ totals' = TotalsOf(amounts')
    BY <1>2, <1>3, <2>1 DEF BookOK
  <2> QED BY <1>1, <1>3, <1>4, <2>1, <2>2, BooksNext
<1> QED BY <1>6, <1>7, <1>8, <1>9, <1>10, <1>11

(* A request that was not answered is about to be recorded as failed.       *)
LEMMA RequestFailsBooks ==
  ASSUME Overlap = FALSE, Stored, Books, NEW w \in Workers, NEW t \in Transactions,
         NEW request \in Requested(t), request_fails(w, t, request)
  PROVE  Books'
<1> DEFINE p == Fail(t, request)
<1>1. MayStart(w) /\ Goto(w, p) /\ UNCHANGED <<events, amounts, totals>>
  BY DEF request_fails
<1>2. /\ \A v \in Workers : v # w => proc[v] = Idle
      /\ Settled(Transactions, events, amounts) /\ totals = TotalsOf(amounts)
  BY <1>1, StartsAlone
<1>3. request \in Event /\ ProcsOK
  BY DEF Stored, EventInv, Requested
<1>4. /\ p.at = "fail" /\ p.t = t /\ p.psp = request.psp_reference
      /\ p.action = request.type[1] /\ p.amount = request.amount /\ p # Idle
  BY DEF Fail, Idle
<1> HIDE DEF p
<1>5. ProcOK(p)
  BY <1>3, <1>4 DEF ProcOK, Event
<1>6. Matches(amounts[t], events[t], Refused(events[t]) \cup Answering(events[t], p.psp, p.action))
  BY <1>2, MatchesWider DEF Settled
<1>7. Settled(Transactions \ {t}, events, amounts)
  BY <1>2 DEF Settled
<1>8. BookOK(p, events', amounts', totals')
  BY <1>1, <1>2, <1>4, <1>6, <1>7 DEF BookOK
<1> QED BY <1>1, <1>2, <1>3, <1>4, <1>5, <1>8, BooksNext

(* Nothing is owed in the beginning: no event, and no amount.               *)
LEMMA InitBooks == Init => Books
<1> SUFFICES ASSUME Init PROVE Books
  OBVIOUS
<1>1. recalculate_transaction_amounts({}) = NoAmounts
  <2> DEFINE E == _initilize_action_map({})
  <2>1. E = {}
    BY DEF _initilize_action_map, _get_authorize_events
  <2> HIDE DEF E
  <2>2. \A psp, action, result : Slot(E, psp, action, result) = {}
    BY <2>1 DEF Slot
  <2>3. ASSUME NEW f, \A psp \in PspReferences : f[psp] = 0 PROVE Total(f, PspReferences) = 0
    BY <2>3, TotalZero
  <2>4. ASSUME NEW action
        PROVE  Pending(E, action) = 0 /\ Done(E, action) = 0 /\ Extra(E, action) = 0
    BY <2>2, <2>3 DEF Pending, Done, Extra, Amount, _should_increse_amount
  <2>5. Max({0, 0}) = 0
    BY MaxOfTwo
  <2>6. 0 + 0 - 0 - 0 - 0 - 0 = 0 /\ 0 - 0 - 0 - 0 + 0 = 0 /\ 0 - 0 = 0
    OBVIOUS
  <2> QED BY <2>4, <2>5, <2>6 DEF E, recalculate_transaction_amounts, NoAmounts
<1>2. Settled(Transactions, events, amounts)
  <2>1. \A t \in Transactions : events[t] = {} /\ amounts[t] = NoAmounts
    BY DEF Init
  <2>2. Matches(NoAmounts, {}, Refused({}))
    <3>1. {} \in SUBSET Refused({}) /\ {} \ {} = {}
      OBVIOUS
    <3> QED BY <1>1, <3>1 DEF Matches
  <2> QED BY <2>1, <2>2 DEF Settled
<1>3. totals = TotalsOf(amounts)
  <2>1. ASSUME NEW f, \A t \in Transactions : f[t] = 0 PROVE SignedTotal(f, Transactions) = 0
    <3>1. \A t \in Transactions : [u \in Transactions |-> -f[u]][t] = 0
      BY <2>1
    <3>2. Total(f, Transactions) = 0 /\ Total([u \in Transactions |-> -f[u]], Transactions) = 0
      BY <2>1, <3>1, TotalZero
    <3> QED BY <3>2 DEF SignedTotal
  <2>2. /\ \A t \in Transactions : [u \in Transactions |-> amounts[u].authorized][t] = 0
        /\ \A t \in Transactions : [u \in Transactions |-> amounts[u].charged][t] = 0
    BY DEF Init, NoAmounts
  <2> QED BY <2>1, <2>2 DEF TotalsOf, Init
<1>4. \A w \in Workers : proc[w] = Idle /\ BookOK(Idle, events, amounts, totals)
  BY DEF Init, BookOK, Idle
<1> QED BY <1>2, <1>3, <1>4 DEF Books

(* Every step, one case per operation.                                      *)
LEMMA NextBooks == ASSUME Overlap = FALSE PROVE Stored /\ Books /\ [Next]_vars => Books'
<1> SUFFICES ASSUME Stored, Books, [Next]_vars PROVE Books'
  OBVIOUS
<1>1. CASE UNCHANGED vars
  BY <1>1 DEF vars, Books, AllIdle
<1> QED
  BY <1>1, ReportBooks, FailBooks, AnswerBooks, RequestBooks, AcceptedBooks,
     RequestFailsBooks, OtherBooks
  DEF Next

LEMMA BooksHold == ASSUME Overlap = FALSE PROVE Spec => []Books
BY InitBooks, NextBooks, StoredHolds, PTL DEF Spec

(* Between reports that follow one another the amounts and totals are those *)
(* of the stored events; only requests with a refused answer may be missing. *)
THEOREM AmountsFollowEvents == ASSUME Overlap = FALSE PROVE Spec => []AmountsMatchEvents
<1>1. Books => AmountsMatchEvents
  BY DEF Books, AmountsMatchEvents, Settled, Matches, TotalsOf, updates_amounts_for_order
<1> QED BY <1>1, BooksHold, PTL

(* The requests among the events do not touch what was done.                *)
LEMMA RequestsAside ==
  ASSUME NEW S \in SUBSET Event, NEW M, \A e \in M : e.type[2] = "request", NEW action
  PROVE  /\ Done(_initilize_action_map(S \ M), action) = Done(_initilize_action_map(S), action)
         /\ Extra(_initilize_action_map(S \ M), action) = Extra(_initilize_action_map(S), action)
<1> DEFINE C == {e \in S : e.include_in_calculations}
           D == {e \in S \ M : e.include_in_calculations}
           adjustments(K) == {e \in {f \in K : f.type[1] = "authorization"} : e.type[2] = "extra"}
           E == _initilize_action_map(S)
           F == _initilize_action_map(S \ M)
<1>1. adjustments(C) = adjustments(D) /\ D = C \ M
  OBVIOUS
<1>2. _get_authorize_events(D) = _get_authorize_events(C) \ M
  <2>1. /\ _get_authorize_events(C) =
             IF adjustments(C) = {} THEN {e \in C : e.type[1] = "authorization"}
             ELSE {e \in {f \in C : f.type[1] = "authorization"} :
                     e.time >= newest(adjustments(C)).time}
        /\ _get_authorize_events(D) =
             IF adjustments(D) = {} THEN {e \in D : e.type[1] = "authorization"}
             ELSE {e \in {f \in D : f.type[1] = "authorization"} :
                     e.time >= newest(adjustments(D)).time}
    BY DEF _get_authorize_events
  <2> HIDE DEF adjustments, C, D
  <2> QED BY <1>1, <2>1
<1>3. F = E \ M
  <2>1. /\ E = _get_authorize_events(C) \cup {e \in C : e.type[1] # "authorization"}
        /\ F = _get_authorize_events(D) \cup {e \in D : e.type[1] # "authorization"}
    BY DEF _initilize_action_map
  <2> HIDE DEF C, D, E, F
  <2> QED BY <1>1, <1>2, <2>1
<1> HIDE DEF E, F
<1>4. \A psp, result : result # "request" => Slot(F, psp, action, result) = Slot(E, psp, action, result)
  BY <1>3 DEF Slot
<1>5. \A psp : /\ Slot(F, psp, action, "success") = Slot(E, psp, action, "success")
               /\ Slot(F, psp, action, "failure") = Slot(E, psp, action, "failure")
               /\ Slot(F, psp, action, "extra") = Slot(E, psp, action, "extra")
  BY <1>4
<1>6. Done(F, action) = Done(E, action)
  BY <1>5 DEF Done, _should_increse_amount
<1>7. Extra(F, action) = Extra(E, action)
  BY <1>5 DEF Extra
<1> QED BY <1>6, <1>7 DEF E, F

(* Every unit of money is in exactly one of the amounts between reports.    *)
THEOREM NoMoneyIsLost == ASSUME Overlap = FALSE PROVE Spec => []MoneyIsConserved
<1>1. Stored /\ Books => MoneyIsConserved
  <2> SUFFICES ASSUME Stored, Books, AllIdle, NEW t \in Transactions
               PROVE  LET a == amounts[t]
                          E == _initilize_action_map(events[t])
                          authorized == Extra(E, "authorization") + Done(E, "authorization")
                          moved == a.charge_pending + Done(E, "charge") + a.cancel_pending + a.canceled
                      IN a.authorized + a.authorize_pending + a.charged + a.charge_pending + a.refunded
                           + a.refund_pending + a.canceled + a.cancel_pending
                         = Max({authorized, moved}) + a.authorize_pending - Extra(E, "charge")
    BY DEF MoneyIsConserved
  <2>1. PICK M \in SUBSET Refused(events[t]) :
          amounts[t] = recalculate_transaction_amounts(events[t] \ M)
    BY DEF Books, Settled, Matches
  <2> DEFINE E == _initilize_action_map(events[t])
             F == _initilize_action_map(events[t] \ M)
  <2>2. events[t] \in SUBSET Event /\ \A e \in M : e.type[2] = "request"
    BY DEF Stored, EventInv, Refused
  <2>3. \A action : Done(F, action) = Done(E, action) /\ Extra(F, action) = Extra(E, action)
    BY <2>2, RequestsAside
  <2>4. \A action : /\ Pending(F, action) \in Nat /\ Done(F, action) \in Nat
                    /\ Extra(F, action) \in Nat
    BY <2>2, ActionMapType, SumTypes
  <2> DEFINE authorized == Extra(F, "authorization") + Done(F, "authorization")
                           - Pending(F, "charge") - Done(F, "charge")
                           - Pending(F, "cancel") - Done(F, "cancel")
             a == amounts[t]
  <2>5. /\ a.authorized = Max({authorized, 0})
        /\ a.charged = Done(F, "charge") - Extra(F, "charge")
                         - Pending(F, "refund") - Done(F, "refund") + Extra(F, "refund")
        /\ a.charge_pending = Pending(F, "charge") /\ a.refund_pending = Pending(F, "refund")
        /\ a.refunded = Done(F, "refund") - Extra(F, "refund")
        /\ a.canceled = Done(F, "cancel") /\ a.cancel_pending = Pending(F, "cancel")
        /\ a.authorize_pending = Pending(F, "authorization")
    BY <2>1 DEF recalculate_transaction_amounts
  <2> HIDE DEF E, F, a
  <2>6. a.authorized = IF authorized >= 0 THEN authorized ELSE 0
    BY <2>4, <2>5, MaxOfTwo
  <2>7. Max({Extra(E, "authorization") + Done(E, "authorization"),
             a.charge_pending + Done(E, "charge") + a.cancel_pending + a.canceled})
        = IF authorized >= 0 THEN Extra(F, "authorization") + Done(F, "authorization")
          ELSE Pending(F, "charge") + Done(F, "charge") + Pending(F, "cancel") + Done(F, "cancel")
    <3> DEFINE x == Extra(F, "authorization") + Done(F, "authorization")
               y == Pending(F, "charge") + Done(F, "charge") + Pending(F, "cancel") + Done(F, "cancel")
    <3>1. /\ Extra(E, "authorization") + Done(E, "authorization") = x
          /\ a.charge_pending + Done(E, "charge") + a.cancel_pending + a.canceled = y
      BY <2>3, <2>5
    <3>2. x \in Int /\ y \in Int /\ (authorized >= 0 <=> x >= y)
      BY <2>4
    <3> HIDE DEF x, y, authorized
    <3>3. Max({x, y}) = IF x >= y THEN x ELSE y
      BY <3>2, MaxOfTwo
    <3>4. Max({x, y}) = IF authorized >= 0 THEN x ELSE y
      BY <3>2, <3>3
    <3> QED BY <3>1, <3>4 DEF x, y
  <2>8. a.authorized + a.authorize_pending + a.charged + a.charge_pending + a.refunded
          + a.refund_pending + a.canceled + a.cancel_pending
        = Max({Extra(E, "authorization") + Done(E, "authorization"),
               a.charge_pending + Done(E, "charge") + a.cancel_pending + a.canceled})
          + a.authorize_pending - Extra(E, "charge")
    <3> DEFINE ea == Extra(F, "authorization")
               da == Done(F, "authorization")
               pa == Pending(F, "authorization")
               ec == Extra(F, "charge")
               dc == Done(F, "charge")
               pc == Pending(F, "charge")
               er == Extra(F, "refund")
               dr == Done(F, "refund")
               pr == Pending(F, "refund")
               dx == Done(F, "cancel")
               px == Pending(F, "cancel")
               rest == ea + da - pc - dc - px - dx
               left == IF rest >= 0 THEN rest ELSE 0
    <3>1. /\ ea \in Nat /\ da \in Nat /\ pa \in Nat /\ ec \in Nat /\ dc \in Nat /\ pc \in Nat
          /\ er \in Nat /\ dr \in Nat /\ pr \in Nat /\ dx \in Nat /\ px \in Nat
      BY <2>4
    <3>2. /\ a.authorized = left /\ a.charged = dc - ec - pr - dr + er
          /\ a.charge_pending = pc /\ a.refund_pending = pr /\ a.refunded = dr - er
          /\ a.canceled = dx /\ a.cancel_pending = px /\ a.authorize_pending = pa
      BY <2>5, <2>6
    <3>3. Max({Extra(E, "authorization") + Done(E, "authorization"),
               a.charge_pending + Done(E, "charge") + a.cancel_pending + a.canceled})
          = IF rest >= 0 THEN ea + da ELSE pc + dc + px + dx
      BY <2>7
    <3>4. Extra(E, "charge") = ec
      BY <2>3
    <3> HIDE DEF ea, da, pa, ec, dc, pc, er, dr, pr, dx, px
    <3>5. left + pa + (dc - ec - pr - dr + er) + pc + (dr - er) + pr + dx + px
          = (IF rest >= 0 THEN ea + da ELSE pc + dc + px + dx) + pa - ec
      BY <3>1
    <3> HIDE DEF left, rest
    <3> QED BY <3>2, <3>3, <3>4, <3>5
  <2> QED BY <2>8 DEF a, E
<1> QED BY <1>1, StoredHolds, BooksHold, PTL
=============================================================================
