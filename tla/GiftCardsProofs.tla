---------------------------- MODULE GiftCardsProofs ----------------------------
(***************************************************************************)
(* Theorems about GiftCards for every number of workers, cards, checkouts, *)
(* transaction items and amounts.                                          *)
(*                                                                         *)
(* Balances never become negative whatever overlaps, since every path that *)
(* spends looks at the balance under the lock of the card.  The books, the *)
(* single checkout a card is authorized for and the settling of confirmed  *)
(* orders need requests to follow one another (Overlap = FALSE): the event *)
(* that records what was done is stored in a later step.                   *)
(***************************************************************************)
EXTENDS GiftCards, RowSumsProofs

CardOrNone == Cards \cup {NoCard}
CheckoutOrNone == Checkouts \cup {NoCheckout}
CardRow == [exists : BOOLEAN, current : Nat, initial : Nat]
ItemRow ==
  [of : CheckoutOrNone, card : CardOrNone, from : CardOrNone, amount : Nat,
   can_cancel : BOOLEAN, authorization : Nat, canceled : Nat, charge : Nat, refunded : Nat,
   charge_requested : BOOLEAN, charge_failed : BOOLEAN]
Status == {"checkout", "unconfirmed", "confirmed"}

(* What a request has in memory, by where it is.                            *)
ChargeRow == [t : Items, c : Cards, amount : Nat \ {0}]
AuthorizeRequest == [at : {"authorize"}, t : Items, amount : Nat \ {0}]
OrderRequest == [at : {"confirm", "charge"}, k : Checkouts]
NextRequest == [at : {"charge_next"}, todo : SUBSET ChargeRow]
EventRequest ==
  [at : {"charge_event"}, t : Items, amount : Nat \ {0}, ok : BOOLEAN, todo : SUBSET ChargeRow]
RefundRequest == [at : {"refund"}, t : Items, c : CardOrNone, amount : Nat \ {0}]
RefundedRequest == [at : {"refund_event"}, t : Items, amount : Nat \ {0}]
UpdateRequest == [at : {"update"}, c : Cards, reset : BOOLEAN, current : Nat, initial : Nat]

Request ==
  {Idle} \cup AuthorizeRequest \cup OrderRequest \cup NextRequest \cup EventRequest
    \cup RefundRequest \cup RefundedRequest \cup UpdateRequest

Typed ==
  /\ card \in [Cards -> CardRow]
  /\ codes \in [Checkouts -> SUBSET Cards]
  /\ item \in [Items -> ItemRow]
  /\ status \in [Checkouts -> Status]
  /\ issued \in [Cards -> Int]
  /\ proc \in [Workers -> Request]

-----------------------------------------------------------------------------
LEMMA MaxOfTwo ==
  ASSUME NEW a \in Int, NEW b \in Int
  PROVE  Max({a, b}) = IF a >= b THEN a ELSE b
BY DEF Max

LEMMA MinOfTwo ==
  ASSUME NEW a \in Int, NEW b \in Int
  PROVE  Min({a, b}) = IF a <= b THEN a ELSE b
BY DEF Min

LEMMA MaxOfOne ==
  ASSUME NEW a \in Int
  PROVE  Max({a}) = a
BY DEF Max

LEMMA RequestContents ==
  ASSUME NEW p \in Request
  PROVE  /\ p.at = "idle" <=> p = Idle
         /\ p.at = "authorize" => p \in AuthorizeRequest
         /\ p.at \in {"confirm", "charge"} => p \in OrderRequest
         /\ p.at = "charge_next" => p \in NextRequest
         /\ p.at = "charge_event" => p \in EventRequest
         /\ p.at = "refund" => p \in RefundRequest
         /\ p.at = "refund_event" => p \in RefundedRequest
         /\ p.at = "update" => p \in UpdateRequest
BY DEF Request, Idle, AuthorizeRequest, OrderRequest, NextRequest, EventRequest,
       RefundRequest, RefundedRequest, UpdateRequest

(* What is still authorized on a row, and what it has charged.              *)
Authorized(i) == Max({i.authorization - i.canceled - i.charge, 0})
Charged(i) == i.charge - i.refunded

LEMMA AuthorizedValue ==
  ASSUME NEW i \in ItemRow
  PROVE  /\ Authorized(i) \in Nat
         /\ Authorized(i) = IF i.authorization - i.canceled - i.charge > 0
                            THEN i.authorization - i.canceled - i.charge ELSE 0
<1>1. /\ i.authorization \in Nat /\ i.canceled \in Nat /\ i.charge \in Nat
  BY DEF ItemRow
<1>2. i.authorization - i.canceled - i.charge \in Int
  BY <1>1
<1> QED BY <1>2, MaxOfTwo DEF Authorized

LEMMA ItemAuthorized ==
  ASSUME Typed, NEW t \in Items
  PROVE  /\ item[t] \in ItemRow
         /\ authorized_value(t) = Authorized(item[t]) /\ authorized_value(t) \in Nat
         /\ charged_value(t) = Charged(item[t]) /\ charged_value(t) \in Int
<1>1. item[t] \in ItemRow
  BY DEF Typed
<1>2. item[t].charge \in Nat /\ item[t].refunded \in Nat
  BY <1>1 DEF ItemRow
<1> QED BY <1>1, <1>2, AuthorizedValue DEF authorized_value, Authorized, charged_value, Charged

(* Taking a card from a row leaves it typed and without authorized funds.   *)
Detached(i) ==
  [i EXCEPT !.card = NoCard, !.canceled = @ + Authorized(i), !.can_cancel = FALSE]

LEMMA DetachedRow ==
  ASSUME NEW i \in ItemRow
  PROVE  /\ Detached(i) \in ItemRow
         /\ Detached(i).of = i.of /\ Detached(i).from = i.from /\ Detached(i).card = NoCard
         /\ Detached(i).charge = i.charge /\ Detached(i).refunded = i.refunded
         /\ Detached(i).authorization = i.authorization /\ Detached(i).amount = i.amount
         /\ Detached(i).charge_requested = i.charge_requested
         /\ Detached(i).charge_failed = i.charge_failed
         /\ Authorized(Detached(i)) = 0
<1>1. i.canceled + Authorized(i) \in Nat /\ i.canceled \in Nat /\ i.authorization \in Nat /\ i.charge \in Nat
  BY AuthorizedValue DEF ItemRow
<1>2. /\ Detached(i) \in ItemRow
      /\ Detached(i).of = i.of /\ Detached(i).from = i.from /\ Detached(i).card = NoCard
      /\ Detached(i).charge = i.charge /\ Detached(i).refunded = i.refunded
      /\ Detached(i).authorization = i.authorization /\ Detached(i).amount = i.amount
      /\ Detached(i).charge_requested = i.charge_requested
      /\ Detached(i).charge_failed = i.charge_failed
      /\ Detached(i).canceled = i.canceled + Authorized(i)
  BY <1>1 DEF Detached, ItemRow, CardOrNone
<1> HIDE DEF Detached
<1>3. Authorized(i) = IF i.authorization - i.canceled - i.charge > 0
                      THEN i.authorization - i.canceled - i.charge ELSE 0
  BY AuthorizedValue
<1>4. Authorized(Detached(i)) = IF i.authorization - (i.canceled + Authorized(i)) - i.charge > 0
                                THEN i.authorization - (i.canceled + Authorized(i)) - i.charge ELSE 0
  BY <1>2, AuthorizedValue
<1> QED BY <1>1, <1>2, <1>3, <1>4

(* The rows after a card is taken from the checkouts that have it.          *)
LEMMA DetachedItems ==
  ASSUME Typed, NEW c \in Cards
  PROVE  /\ detach_gift_card_from_previous_checkout_transactions(c) \in [Items -> ItemRow]
         /\ \A t \in Items :
              detach_gift_card_from_previous_checkout_transactions(c)[t] =
                IF item[t].card = c /\ InCheckout(t) THEN Detached(item[t]) ELSE item[t]
<1>1. \A t \in Items : authorized_value(t) = Authorized(item[t]) /\ item[t] \in ItemRow
  BY ItemAuthorized
<1>2. detach_gift_card_from_previous_checkout_transactions(c) =
        [t \in Items |-> IF item[t].card = c /\ InCheckout(t) THEN Detached(item[t]) ELSE item[t]]
  BY <1>1 DEF detach_gift_card_from_previous_checkout_transactions, Detached
<1>3. \A t \in Items :
        (IF item[t].card = c /\ InCheckout(t) THEN Detached(item[t]) ELSE item[t]) \in ItemRow
  BY <1>1, DetachedRow
<1> QED BY <1>2, <1>3

LEMMA GotoType ==
  ASSUME Typed, NEW w \in Workers, NEW p \in Request, Goto(w, p)
  PROVE  proc' \in [Workers -> Request]
BY DEF Typed, Goto

LEMMA InitTyped == Init => Typed
<1> SUFFICES ASSUME Init PROVE Typed
  OBVIOUS
<1>1. PICK balance \in Amounts :
        /\ card = [c \in Cards |-> [exists |-> TRUE, current |-> balance, initial |-> balance]]
        /\ issued = [c \in Cards |-> balance]
  BY DEF Init
<1>2. balance \in Nat
  BY AmountsAssumption
<1>3. card \in [Cards -> CardRow] /\ issued \in [Cards -> Int]
  BY <1>1, <1>2 DEF CardRow
<1>4. Unused \in ItemRow
  BY DEF Unused, ItemRow, CardOrNone, CheckoutOrNone
<1>5. item \in [Items -> ItemRow]
  BY <1>4 DEF Init
<1> QED BY <1>3, <1>5 DEF Init, Typed, Request, Status

-----------------------------------------------------------------------------
(* The row of a transaction a card is attached to.                          *)
Attached(i, k, c, amount) ==
  [i EXCEPT !.of = k, !.amount = amount, !.card = c, !.from = c]

LEMMA AttachedRow ==
  ASSUME NEW i \in ItemRow, NEW k \in Checkouts, NEW c \in Cards, NEW amount \in Nat
  PROVE  LET a == Attached(i, k, c, amount)
         IN  /\ a \in ItemRow
             /\ a.of = k /\ a.card = c /\ a.from = c /\ a.amount = amount
             /\ a.authorization = i.authorization /\ a.canceled = i.canceled
             /\ a.charge = i.charge /\ a.refunded = i.refunded
             /\ a.charge_requested = i.charge_requested /\ a.charge_failed = i.charge_failed
BY DEF Attached, ItemRow, CardOrNone, CheckoutOrNone

Refused(i, k, amount) == [i EXCEPT !.of = k, !.amount = amount]

LEMMA RefusedRow ==
  ASSUME NEW i \in ItemRow, NEW k \in Checkouts, NEW amount \in Nat
  PROVE  LET a == Refused(i, k, amount)
         IN  /\ a \in ItemRow
             /\ a.of = k /\ a.card = i.card /\ a.from = i.from /\ a.amount = amount
             /\ a.authorization = i.authorization /\ a.canceled = i.canceled
             /\ a.charge = i.charge /\ a.refunded = i.refunded
             /\ a.charge_requested = i.charge_requested /\ a.charge_failed = i.charge_failed
BY DEF Refused, ItemRow, CheckoutOrNone

(* The rows the other steps write.                                          *)
NotCharged(i) == [i EXCEPT !.charge_requested = TRUE, !.charge_failed = TRUE]
Canceled(i, amount, b) == [i EXCEPT !.canceled = @ + amount, !.can_cancel = b]
ChargedBy(i, amount) == [i EXCEPT !.charge = @ + amount, !.can_cancel = FALSE]
AuthorizedFor(i, amount) == [i EXCEPT !.authorization = amount, !.can_cancel = TRUE]
Requested(i) == [i EXCEPT !.charge_requested = TRUE]
ChargeFailed(i) == [i EXCEPT !.charge_failed = TRUE]
Saved(row, current, initial) == [row EXCEPT !.exists = TRUE, !.current = current, !.initial = initial]

LEMMA WrittenRows ==
  ASSUME NEW i \in ItemRow, NEW amount \in Nat, NEW b \in BOOLEAN
  PROVE  /\ NotCharged(i) \in ItemRow
         /\ Canceled(i, amount, b) \in ItemRow
         /\ ChargedBy(i, amount) \in ItemRow
         /\ AuthorizedFor(i, amount) \in ItemRow
         /\ Requested(i) \in ItemRow /\ ChargeFailed(i) \in ItemRow
<1>1. NotCharged(i) \in ItemRow
  BY DEF NotCharged, ItemRow
<1>2. i.canceled + amount \in Nat /\ i.charge + amount \in Nat
  BY DEF ItemRow
<1>3. Canceled(i, amount, b) \in ItemRow
  BY <1>2 DEF Canceled, ItemRow
<1>4. ChargedBy(i, amount) \in ItemRow
  BY <1>2 DEF ChargedBy, ItemRow
<1>5. AuthorizedFor(i, amount) \in ItemRow
  BY DEF AuthorizedFor, ItemRow
<1>6. Requested(i) \in ItemRow /\ ChargeFailed(i) \in ItemRow
  BY DEF Requested, ChargeFailed, ItemRow
<1> QED BY <1>1, <1>3, <1>4, <1>5, <1>6

(* What transactionInitialize does to the tables.                           *)
LEMMA Initializing ==
  ASSUME Typed, NEW w \in Workers, NEW t \in Items, NEW k \in Checkouts, NEW c \in Cards,
         NEW amount \in Amounts, transaction_initialize_session(w, t, k, c, amount)
  PROVE  /\ amount \in Nat \ {0}
         /\ item' \in [Items -> ItemRow]
         /\ \/ /\ card[c].exists
               /\ \A s \in Items \ {t} :
                    item'[s] = IF item[s].card = c /\ InCheckout(s) THEN Detached(item[s]) ELSE item[s]
               /\ item'[t] = Attached(IF item[t].card = c /\ InCheckout(t)
                                      THEN Detached(item[t]) ELSE item[t], k, c, amount)
               /\ Goto(w, [at |-> "authorize", t |-> t, amount |-> amount])
            \/ /\ \A s \in Items \ {t} : item'[s] = item[s]
               /\ item'[t] = Refused(item[t], k, amount)
               /\ UNCHANGED proc
<1> DEFINE D == detach_gift_card_from_previous_checkout_transactions(c)
           row(s) == IF item[s].card = c /\ InCheckout(s) THEN Detached(item[s]) ELSE item[s]
<1>1. amount \in Nat \ {0}
  BY AmountsAssumption
<1>2. D \in [Items -> ItemRow] /\ \A s \in Items : D[s] = row(s)
  BY DetachedItems
<1>3. item \in [Items -> ItemRow]
  BY DEF Typed
<1>4. CASE /\ card[c].exists
           /\ item' = [D EXCEPT ![t].of = k, ![t].amount = amount, ![t].card = c, ![t].from = c]
           /\ Goto(w, [at |-> "authorize", t |-> t, amount |-> amount])
  <2> HIDE DEF D, row
  <2>1. item' = [D EXCEPT ![t] = Attached(D[t], k, c, amount)]
    BY <1>2, <1>4 DEF Attached
  <2>2. Attached(D[t], k, c, amount) \in ItemRow
    BY <1>1, <1>2, AttachedRow
  <2>3. item' \in [Items -> ItemRow]
    BY <1>2, <2>1, <2>2
  <2>4. item'[t] = Attached(row(t), k, c, amount) /\ \A s \in Items \ {t} : item'[s] = row(s)
    BY <1>2, <2>1
  <2> QED BY <1>1, <1>4, <2>3, <2>4 DEF row
<1>5. CASE item' = [item EXCEPT ![t].of = k, ![t].amount = amount] /\ UNCHANGED proc
  <2>1. item' = [item EXCEPT ![t] = Refused(item[t], k, amount)]
    BY <1>3, <1>5 DEF Refused
  <2>2. Refused(item[t], k, amount) \in ItemRow
    BY <1>1, <1>3, RefusedRow
  <2> QED BY <1>1, <1>3, <1>5, <2>1, <2>2
<1> QED BY <1>4, <1>5 DEF transaction_initialize_session

LEMMA StepTyped == Typed /\ [Next]_vars => Typed'
<1> SUFFICES ASSUME Typed, [Next]_vars PROVE Typed'
  OBVIOUS
<1>t. /\ card \in [Cards -> CardRow] /\ codes \in [Checkouts -> SUBSET Cards]
      /\ item \in [Items -> ItemRow] /\ status \in [Checkouts -> Status]
      /\ issued \in [Cards -> Int] /\ proc \in [Workers -> Request]
  BY DEF Typed
<1>i. Idle \in Request
  BY DEF Request
<1>a. \A t \in Items : authorized_value(t) \in Nat /\ charged_value(t) \in Int
  BY ItemAuthorized
<1>n. Amounts \subseteq Nat \ {0} /\ Adjustments \subseteq Nat \ {0}
  BY AmountsAssumption
<1>1. CASE \E w \in Workers, t \in Items, k \in Checkouts, c \in Cards, amount \in Amounts :
             transaction_initialize_session(w, t, k, c, amount)
  <2> PICK w \in Workers, t \in Items, k \in Checkouts, c \in Cards, amount \in Amounts :
             transaction_initialize_session(w, t, k, c, amount)
    BY <1>1
  <2>1. /\ amount \in Nat \ {0} /\ item' \in [Items -> ItemRow]
        /\ UNCHANGED proc \/ Goto(w, [at |-> "authorize", t |-> t, amount |-> amount])
    BY Initializing
  <2>2. [at |-> "authorize", t |-> t, amount |-> amount] \in Request
    BY <2>1 DEF Request, AuthorizeRequest
  <2>3. proc' \in [Workers -> Request]
    BY <1>t, <2>1, <2>2, GotoType
  <2>4. UNCHANGED <<card, codes, status, issued>>
    BY DEF transaction_initialize_session
  <2> QED BY <2>1, <2>3, <2>4 DEF Typed
<1>2. CASE \E w \in Workers, t \in Items : request_charge_action(w, t)
  <2> PICK w \in Workers, t \in Items : request_charge_action(w, t)
    BY <1>2
  <2>1. item' = [item EXCEPT ![t] = NotCharged(item[t])]
    BY DEF request_charge_action, NotCharged
  <2>2. item' \in [Items -> ItemRow]
    BY <1>t, <2>1, WrittenRows
  <2> QED BY <2>2 DEF request_charge_action, Typed
<1>3. CASE \E w \in Workers, t \in Items, amount \in Amounts : cancel_gift_card_transaction(w, t, amount)
  <2> PICK w \in Workers, t \in Items, asked \in Amounts : cancel_gift_card_transaction(w, t, asked)
    BY <1>3
  <2> DEFINE amount == Min({asked, authorized_value(t)})
  <2>1. amount \in Nat
    BY <1>a, <1>n, MinOfTwo
  <2>2. item' = [item EXCEPT ![t].canceled = @ + amount, ![t].can_cancel = amount < authorized_value(t)]
    BY DEF cancel_gift_card_transaction
  <2>3. UNCHANGED <<card, codes, status, proc, issued>>
    BY DEF cancel_gift_card_transaction
  <2> HIDE DEF amount
  <2>4. item' \in [Items -> ItemRow]
    <3>0. (amount < authorized_value(t)) \in BOOLEAN
      OBVIOUS
    <3>1. PICK b \in BOOLEAN : b = (amount < authorized_value(t))
      BY <3>0
    <3>2. item' = [item EXCEPT ![t] = Canceled(item[t], amount, b)]
      BY <2>2, <3>1 DEF Canceled
    <3>3. Canceled(item[t], amount, b) \in ItemRow
      BY <1>t, <2>1, WrittenRows
    <3> QED BY <1>t, <3>2, <3>3
  <2> QED BY <2>3, <2>4 DEF Typed
<1>4. CASE \E w \in Workers, t \in Items, amount \in Amounts : request_refund(w, t, amount)
  <2> PICK w \in Workers, t \in Items, asked \in Amounts : request_refund(w, t, asked)
    BY <1>4
  <2> DEFINE amount == Min({asked, charged_value(t)})
             p == [at |-> "refund", t |-> t, c |-> item[t].card, amount |-> amount]
  <2>1. amount \in Int
    BY <1>a, <1>n, MinOfTwo
  <2>2. amount > 0 /\ Goto(w, p) /\ UNCHANGED <<card, codes, item, status, issued>>
    BY DEF request_refund
  <2>3. amount \in Nat \ {0}
    BY <2>1, <2>2
  <2>4. item[t].card \in CardOrNone
    BY <1>t DEF ItemRow
  <2> HIDE DEF amount
  <2>5. p \in Request
    BY <2>3, <2>4 DEF Request, RefundRequest
  <2> HIDE DEF p
  <2> QED BY <2>2, <2>5, GotoType DEF Typed
<1>5. CASE \E w \in Workers : create_authorization_event(w)
  <2> PICK w \in Workers : create_authorization_event(w)
    BY <1>5
  <2>1. proc[w] \in AuthorizeRequest
    BY <1>t, RequestContents DEF create_authorization_event
  <2>2. proc[w].t \in Items /\ proc[w].amount \in Nat
    BY <2>1 DEF AuthorizeRequest
  <2>3. item' \in [Items -> ItemRow]
    <3>1. \/ item' = item
          \/ item' = [item EXCEPT ![proc[w].t] = AuthorizedFor(item[proc[w].t], proc[w].amount)]
      BY DEF create_authorization_event, AuthorizedFor
    <3>2. AuthorizedFor(item[proc[w].t], proc[w].amount) \in ItemRow
      BY <1>t, <2>2, WrittenRows
    <3> QED BY <1>t, <3>1, <3>2
  <2> QED BY <1>i, <2>3, GotoType DEF create_authorization_event, Typed
<1>6. CASE \E w \in Workers : create_charge_event(w)
  <2> PICK w \in Workers : create_charge_event(w)
    BY <1>6
  <2>1. proc[w] \in EventRequest
    BY <1>t, RequestContents DEF create_charge_event
  <2>2. proc[w].t \in Items /\ proc[w].amount \in Nat /\ proc[w].todo \in SUBSET ChargeRow
    BY <2>1 DEF EventRequest
  <2>3. item' \in [Items -> ItemRow]
    <3>1. CASE proc[w].ok
      <4>1. item' = [item EXCEPT ![proc[w].t] = ChargedBy(item[proc[w].t], proc[w].amount)]
        BY <3>1 DEF create_charge_event, ChargedBy
      <4>2. ChargedBy(item[proc[w].t], proc[w].amount) \in ItemRow
        BY <1>t, <2>2, WrittenRows
      <4> QED BY <1>t, <4>1, <4>2
    <3>2. CASE ~proc[w].ok
      <4>1. item' = [item EXCEPT ![proc[w].t] = ChargeFailed(item[proc[w].t])]
        BY <3>2 DEF create_charge_event, ChargeFailed
      <4>2. ChargeFailed(item[proc[w].t]) \in ItemRow
        BY <1>t, <2>2, WrittenRows
      <4> QED BY <1>t, <4>1, <4>2
    <3> QED BY <3>1, <3>2
  <2>4. [at |-> "charge_next", todo |-> proc[w].todo] \in Request
    BY <2>2 DEF Request, NextRequest
  <2> QED BY <2>3, <2>4, GotoType DEF create_charge_event, Typed
<1>7. CASE \E w \in Workers : create_refund_event(w)
  <2> PICK w \in Workers : create_refund_event(w)
    BY <1>7
  <2>1. proc[w] \in RefundedRequest
    BY <1>t, RequestContents DEF create_refund_event
  <2>2. proc[w].t \in Items /\ proc[w].amount \in Nat
    BY <2>1 DEF RefundedRequest
  <2>3. item' \in [Items -> ItemRow]
    BY <1>t, <2>2 DEF create_refund_event, ItemRow
  <2> QED BY <1>i, <2>3, GotoType DEF create_refund_event, Typed
<1>8. CASE \E w \in Workers : charge_gift_card_transactions(w)
  <2> PICK w \in Workers : charge_gift_card_transactions(w)
    BY <1>8
  <2> DEFINE chargeable == {t \in Items : /\ item[t].of = proc[w].k /\ item[t].card # NoCard
                                          /\ ~item[t].charge_requested
                                          /\ authorized_value(t) > 0 /\ charged_value(t) = 0}
             todo == {[t |-> t, c |-> item[t].card, amount |-> authorized_value(t)] : t \in chargeable}
  <2>1. \A t \in chargeable : [t |-> t, c |-> item[t].card, amount |-> authorized_value(t)] \in ChargeRow
    <3> SUFFICES ASSUME NEW t \in Items, item[t].card # NoCard, authorized_value(t) > 0
                 PROVE  [t |-> t, c |-> item[t].card, amount |-> authorized_value(t)] \in ChargeRow
      OBVIOUS
    <3>1. item[t].card \in Cards
      BY <1>t DEF ItemRow, CardOrNone
    <3>2. authorized_value(t) \in Nat \ {0}
      BY <1>a
    <3> QED BY <3>1, <3>2 DEF ChargeRow
  <2>2. todo \in SUBSET ChargeRow
    BY <2>1
  <2>3. Goto(w, [at |-> "charge_next", todo |-> todo]) /\ UNCHANGED <<card, codes, item, status, issued>>
    BY DEF charge_gift_card_transactions
  <2> HIDE DEF todo
  <2>4. [at |-> "charge_next", todo |-> todo] \in Request
    BY <2>2 DEF Request, NextRequest
  <2> QED BY <2>3, <2>4, GotoType DEF Typed
<1>9. CASE \E w \in Workers : charges_done(w)
  BY <1>9, <1>i, GotoType DEF charges_done, Typed
<1>10. CASE \E w \in Workers : /\ proc[w].at = "charge_next"
                               /\ \E row \in proc[w].todo : charge_gift_card(w, row)
  <2> PICK w \in Workers : /\ proc[w].at = "charge_next"
                           /\ \E row \in proc[w].todo : charge_gift_card(w, row)
    BY <1>10
  <2> PICK row \in proc[w].todo : charge_gift_card(w, row)
    OBVIOUS
  <2>1. proc[w] \in NextRequest
    BY <1>t, RequestContents
  <2>2. proc[w].todo \in SUBSET ChargeRow
    BY <2>1 DEF NextRequest
  <2>3. row.t \in Items /\ row.c \in Cards /\ row.amount \in Nat \ {0}
    BY <2>2 DEF ChargeRow
  <2>4. card[row.c].exists \in BOOLEAN /\ card[row.c].current \in Nat
    BY <1>t, <2>3 DEF CardRow
  <2> DEFINE ok == card[row.c].exists /\ row.amount <= card[row.c].current
             p == [at |-> "charge_event", t |-> row.t, amount |-> row.amount, ok |-> ok,
                   todo |-> proc[w].todo \ {row}]
  <2>5. /\ item' = [item EXCEPT ![row.t].charge_requested = TRUE]
        /\ card' = IF ok THEN [card EXCEPT ![row.c].current = @ - row.amount] ELSE card
        /\ Goto(w, p) /\ UNCHANGED <<codes, status, issued>>
    BY DEF charge_gift_card
  <2>6. card' \in [Cards -> CardRow]
    BY <1>t, <2>3, <2>4, <2>5 DEF CardRow
  <2>7. item' \in [Items -> ItemRow]
    <3>1. item' = [item EXCEPT ![row.t] = Requested(item[row.t])]
      BY <2>5 DEF Requested
    <3>2. Requested(item[row.t]) \in ItemRow
      BY <1>t, <2>3, WrittenRows
    <3> QED BY <1>t, <3>1, <3>2
  <2>8. ok \in BOOLEAN
    OBVIOUS
  <2> HIDE DEF ok
  <2>9. p \in EventRequest
    BY <2>2, <2>3, <2>8 DEF EventRequest
  <2> HIDE DEF p
  <2>10. p \in Request
    BY <2>9 DEF Request
  <2> QED BY <2>5, <2>6, <2>7, <2>10, GotoType DEF Typed
<1>11. CASE \E w \in Workers : refund_gift_card_transaction(w)
  <2> PICK w \in Workers : refund_gift_card_transaction(w)
    BY <1>11
  <2>1. proc[w] \in RefundRequest
    BY <1>t, RequestContents DEF refund_gift_card_transaction
  <2>2. proc[w].t \in Items /\ proc[w].c \in CardOrNone /\ proc[w].amount \in Nat \ {0}
    BY <2>1 DEF RefundRequest
  <2>3. card' \in [Cards -> CardRow]
    BY <1>t, <2>2 DEF refund_gift_card_transaction, CardRow, CardOrNone
  <2>4. [at |-> "refund_event", t |-> proc[w].t, amount |-> proc[w].amount] \in Request
    BY <2>2 DEF Request, RefundedRequest
  <2>5. proc' \in [Workers -> Request]
    BY <1>i, <2>4, GotoType DEF refund_gift_card_transaction
  <2> QED BY <2>3, <2>5 DEF refund_gift_card_transaction, Typed
<1>12. CASE \E w \in Workers : order_confirm_write(w)
  <2> PICK w \in Workers : order_confirm_write(w)
    BY <1>12
  <2>1. proc[w] \in OrderRequest
    BY <1>t, RequestContents DEF order_confirm_write
  <2>2. proc[w].k \in Checkouts
    BY <2>1 DEF OrderRequest
  <2>3. status' \in [Checkouts -> Status]
    BY <1>t, <2>2 DEF order_confirm_write, Status
  <2>4. [at |-> "charge", k |-> proc[w].k] \in Request
    BY <2>2 DEF Request, OrderRequest
  <2> QED BY <2>3, <2>4, GotoType DEF order_confirm_write, Typed
<1>13. CASE \E w \in Workers : gift_card_update_save(w)
  <2> PICK w \in Workers : gift_card_update_save(w)
    BY <1>13
  <2>1. proc[w] \in UpdateRequest
    BY <1>t, RequestContents DEF gift_card_update_save
  <2>2. proc[w].c \in Cards /\ proc[w].current \in Nat /\ proc[w].initial \in Nat
    BY <2>1 DEF UpdateRequest
  <2>3. card' \in [Cards -> CardRow]
    <3> DEFINE row == Saved(card[proc[w].c], proc[w].current, proc[w].initial)
    <3>1. card' = [card EXCEPT ![proc[w].c] = row]
      BY DEF gift_card_update_save, Saved
    <3>2. row \in CardRow
      BY <1>t, <2>2 DEF Saved, CardRow
    <3> HIDE DEF row
    <3> QED BY <1>t, <3>1, <3>2
  <2>4. issued' \in [Cards -> Int]
    <3>1. card[proc[w].c].current \in Nat
      BY <1>t, <2>2 DEF CardRow
    <3> QED BY <1>t, <2>2, <3>1 DEF gift_card_update_save
  <2> QED BY <1>i, <2>3, <2>4, GotoType DEF gift_card_update_save, Typed
<1>14. CASE \E w \in Workers, k \in Checkouts : order_confirm_read(w, k)
  <2> PICK w \in Workers, k \in Checkouts : order_confirm_read(w, k)
    BY <1>14
  <2>1. [at |-> "confirm", k |-> k] \in Request
    BY DEF Request, OrderRequest
  <2> QED BY <2>1, GotoType DEF order_confirm_read, Typed
<1>15. CASE \E w \in Workers, k \in Checkouts : \E total \in Amounts, confirm \in BOOLEAN :
              create_order_from_checkout(w, k, total, confirm)
  <2> PICK w \in Workers, k \in Checkouts, total \in Amounts, confirm \in BOOLEAN :
              create_order_from_checkout(w, k, total, confirm)
    BY <1>15
  <2>1. PICK use \in Uses(k, total) :
          /\ card' = [c \in Cards |-> IF c \in codes[k] THEN [card[c] EXCEPT !.current = @ - use[c]]
                                      ELSE card[c]]
          /\ issued' = [c \in Cards |-> issued[c] - IF c \in codes[k] THEN use[c] ELSE 0]
    BY DEF create_order_from_checkout
  <2>2. \A c \in codes[k] : use[c] \in Nat /\ use[c] <= card[c].current /\ c \in Cards
    BY <1>t, <1>n DEF Uses
  <2>3. \A c \in Cards : card'[c] \in CardRow
    BY <1>t, <2>1, <2>2 DEF CardRow
  <2>4. card' \in [Cards -> CardRow]
    BY <2>1, <2>3
  <2>5. issued' \in [Cards -> Int]
    BY <1>t, <2>1, <2>2
  <2>6. codes' \in [Checkouts -> SUBSET Cards] /\ status' \in [Checkouts -> Status]
    BY <1>t DEF create_order_from_checkout, Status
  <2>7. [at |-> "charge", k |-> k] \in Request
    BY DEF Request, OrderRequest
  <2>8. proc' \in [Workers -> Request]
    BY <1>i, <2>7, GotoType DEF create_order_from_checkout
  <2> QED BY <2>4, <2>5, <2>6, <2>8 DEF create_order_from_checkout, Typed
<1>16. CASE \E w \in Workers, c \in Cards, balance \in {{}} \cup {{a} : a \in Amounts} :
              gift_card_update_load(w, c, balance)
  <2> PICK w \in Workers, c \in Cards, balance \in {{}} \cup {{a} : a \in Amounts} :
              gift_card_update_load(w, c, balance)
    BY <1>16
  <2> DEFINE keep == [at |-> "update", c |-> c, reset |-> FALSE,
                      current |-> card[c].current, initial |-> card[c].initial]
             reset == [at |-> "update", c |-> c, reset |-> TRUE,
                       current |-> Max(balance), initial |-> Max(balance)]
  <2>1. card[c].current \in Nat /\ card[c].initial \in Nat
    BY <1>t DEF CardRow
  <2>2. balance # {} => Max(balance) \in Nat
    BY <1>n, MaxOfOne
  <2>3. keep \in UpdateRequest
    BY <2>1 DEF UpdateRequest
  <2>4. balance # {} => reset \in UpdateRequest
    BY <2>2 DEF UpdateRequest
  <2>5. /\ Goto(w, IF balance = {} THEN keep ELSE reset)
        /\ UNCHANGED <<card, codes, item, status, issued>>
    BY DEF gift_card_update_load
  <2> HIDE DEF keep, reset
  <2>6. \E q \in Request : Goto(w, q)
    BY <2>3, <2>4, <2>5 DEF Request
  <2> QED BY <2>5, <2>6, GotoType DEF Typed
<1>17. CASE \E c \in Cards : gift_card_delete(c)
  <2>1. card' \in [Cards -> CardRow]
    BY <1>17, <1>t DEF gift_card_delete, Deleted, CardRow
  <2>2. \A t \in Items : [item[t] EXCEPT !.card = NoCard] \in ItemRow
    BY <1>t DEF ItemRow, CardOrNone
  <2>3. item' \in [Items -> ItemRow]
    BY <1>17, <1>t, <2>2 DEF gift_card_delete
  <2>4. codes' \in [Checkouts -> SUBSET Cards]
    BY <1>17, <1>t DEF gift_card_delete
  <2> QED BY <1>17, <2>1, <2>3, <2>4 DEF gift_card_delete, Typed
<1>18. CASE \E c \in Cards : \E amount \in Adjustments :
              gift_card_balance_adjust(c, amount) \/ gift_card_balance_adjust(c, -amount)
  <2> PICK c \in Cards, amount \in Int : gift_card_balance_adjust(c, amount)
    BY <1>18, <1>n
  <2> DEFINE new == Max({card[c].current + amount, 0})
  <2>1. card[c].current \in Nat /\ card[c].initial \in Nat
    BY <1>t DEF CardRow
  <2>2. new \in Nat
    BY <2>1, MaxOfTwo
  <2>3. Max({card[c].initial, new}) \in Nat
    BY <2>1, <2>2, MaxOfTwo
  <2>4. /\ card' = [card EXCEPT ![c].current = new, ![c].initial = Max({@, new})]
        /\ issued' = [issued EXCEPT ![c] = @ + new - card[c].current]
        /\ UNCHANGED <<codes, item, status, proc>>
    BY DEF gift_card_balance_adjust
  <2> HIDE DEF new
  <2>5. card' \in [Cards -> CardRow]
    BY <1>t, <2>2, <2>3, <2>4 DEF CardRow
  <2>6. issued' \in [Cards -> Int]
    BY <1>t, <2>1, <2>2, <2>4
  <2> QED BY <2>4, <2>5, <2>6 DEF Typed
<1>19. CASE \E c \in Cards, k \in Checkouts : \/ add_gift_card_code_to_checkout(k, c)
                                              \/ remove_gift_card_code_from_checkout(k, c)
  BY <1>19 DEF add_gift_card_code_to_checkout, remove_gift_card_code_from_checkout, Typed
<1>20. CASE UNCHANGED vars
  BY <1>20 DEF vars, Typed
<1> QED
  BY <1>1, <1>2, <1>3, <1>4, <1>5, <1>6, <1>7, <1>8, <1>9, <1>10, <1>11, <1>12, <1>13,
     <1>14, <1>15, <1>16, <1>17, <1>18, <1>19, <1>20 DEF Next

LEMMA TypesHold == Spec => []Typed
BY InitTyped, StepTyped, PTL DEF Spec

(* Whatever overlaps, no balance becomes negative: every step that spends   *)
(* compares with the balance of the row it has locked.                      *)
THEOREM BalancesAreWellFormed == Spec => []TypeOK
<1>1. Typed => TypeOK
  BY DEF Typed, TypeOK, CardRow, ItemRow, CardOrNone, CheckoutOrNone, Status
<1> QED BY TypesHold, <1>1, PTL

-----------------------------------------------------------------------------
(* Requests that follow one another.  p is the request being served, Idle   *)
(* when there is none.                                                      *)
Current(p) ==
  \/ p = Idle /\ AllIdle
  \/ p # Idle /\ \E w \in Workers : proc[w] = p /\ \A v \in Workers \ {w} : proc[v] = Idle

Live(t) == InCheckout(t) /\ Authorized(item[t]) > 0
Confirmed(t) == item[t].of # NoCheckout /\ status[item[t].of] = "confirmed"

(* Only a confirmed order is charged, and then for all that was authorized; *)
(* funds a card has authorized in a checkout are found through the card.    *)
ItemOK(t) ==
  /\ item[t].refunded <= item[t].charge
  /\ item[t].charge > 0 =>
       Confirmed(t) /\ item[t].authorization > 0 /\ Authorized(item[t]) = 0
  /\ item[t].charge_requested => item[t].authorization > 0
  /\ item[t].card # NoCard => item[t].of # NoCheckout /\ item[t].card = item[t].from
  /\ Live(t) /\ item[t].from \in Cards /\ card[item[t].from].exists => item[t].card = item[t].from

OneLive ==
  \A s, t \in Items :
    Live(s) /\ Live(t) /\ item[s].from = item[t].from /\ item[t].from \in Cards => s = t

(* What the request being served has still to do for a transaction.         *)
Charging(p, t) == p.at = "charge_event" /\ p.t = t
ToCharge(p, t) ==
  \/ p.at = "charge" /\ p.k = item[t].of
  \/ p.at \in {"charge_next", "charge_event"} /\ \E row \in p.todo : row.t = t
  \/ Charging(p, t)

Answered(p) ==
  \A t \in Items : item[t].charge_requested =>
    item[t].charge_failed \/ Authorized(item[t]) = 0 \/ Charging(p, t)

Settled(p) ==
  \A t \in Items : Confirmed(t) /\ item[t].card # NoCard /\ Authorized(item[t]) > 0 =>
    item[t].charge_failed \/ ToCharge(p, t)

(* What transactions have charged to a card, and what the request has moved *)
(* without an event for it yet.                                             *)
Share(i, c) == IF i.card = c THEN Charged(i) ELSE 0
OnItems(it, c) == Total([t \in Items |-> Share(it[t], c)], Items)
InFlight(p, c) ==
  IF p.at = "charge_event" /\ p.ok /\ item[p.t].card = c THEN p.amount
  ELSE IF p.at = "refund_event" /\ item[p.t].card = c THEN -p.amount ELSE 0

Books(p) ==
  \A c \in Cards : card[c].exists =>
    card[c].current + OnItems(item, c) + InFlight(p, c) = issued[c]

Chargeable(t, c, amount) ==
  /\ Confirmed(t) /\ item[t].card = c
  /\ item[t].charge = 0 /\ Authorized(item[t]) = amount

(* What the request knows is still so.                                      *)
PlaceOK(p) ==
  /\ p.at = "authorize" =>
       /\ InCheckout(p.t) /\ item[p.t].card = item[p.t].from /\ item[p.t].from \in Cards
       /\ \A s \in Items : Live(s) /\ item[s].from = item[p.t].from => s = p.t
  /\ p.at = "charge" => status[p.k] = "confirmed"
  /\ p.at \in {"charge_next", "charge_event"} =>
       /\ \A row \in p.todo : Chargeable(row.t, row.c, row.amount)
       /\ \A r1, r2 \in p.todo : r1.t = r2.t => r1 = r2
  /\ p.at = "charge_event" =>
       /\ item[p.t].card \in Cards /\ Chargeable(p.t, item[p.t].card, p.amount)
       /\ item[p.t].authorization > 0
       /\ \A row \in p.todo : row.t # p.t
  /\ p.at = "refund" => item[p.t].card = p.c /\ p.amount <= Charged(item[p.t])
  /\ p.at = "refund_event" => p.amount <= Charged(item[p.t])
  /\ p.at = "update" => card[p.c].exists /\ (~p.reset => p.current = card[p.c].current)

OK(p) ==
  /\ \A t \in Items : ItemOK(t)
  /\ OneLive /\ Answered(p) /\ Settled(p) /\ Books(p) /\ PlaceOK(p)

SerialInv == \E p \in Request : Current(p) /\ OK(p)

-----------------------------------------------------------------------------
LEMMA ShareType ==
  ASSUME NEW i \in ItemRow, i.refunded <= i.charge, NEW c
  PROVE  Share(i, c) \in Nat
BY DEF Share, Charged, ItemRow

LEMMA OnItemsSame ==
  ASSUME NEW it, NEW jt, NEW c, \A t \in Items : Share(it[t], c) = Share(jt[t], c)
  PROVE  OnItems(it, c) = OnItems(jt, c)
BY DEF OnItems

LEMMA OnItemsOne ==
  ASSUME NEW it \in [Items -> ItemRow], NEW jt \in [Items -> ItemRow], NEW c, NEW t \in Items,
         \A s \in Items : it[s].refunded <= it[s].charge /\ jt[s].refunded <= jt[s].charge,
         \A s \in Items \ {t} : Share(it[s], c) = Share(jt[s], c)
  PROVE  /\ OnItems(jt, c) = OnItems(it, c) - Share(it[t], c) + Share(jt[t], c)
         /\ OnItems(it, c) \in Nat /\ Share(it[t], c) \in Nat /\ Share(jt[t], c) \in Nat
<1> DEFINE f == [s \in Items |-> Share(it[s], c)]
           g == [s \in Items |-> Share(jt[s], c)]
<1>1. \A s \in Items : f[s] \in Nat /\ g[s] \in Nat
  BY ShareType
<1>2. \A s \in Items \ {t} : f[s] = g[s]
  OBVIOUS
<1>3. f[t] = Share(it[t], c) /\ g[t] = Share(jt[t], c)
  OBVIOUS
<1>4. OnItems(it, c) = Total(f, Items) /\ OnItems(jt, c) = Total(g, Items)
  BY DEF OnItems
<1> HIDE DEF f, g
<1>5. Total(f, Items \ {t}) = Total(g, Items \ {t})
  BY <1>2, TotalSame
<1>6. /\ Total(f, Items \ {t}) \in Nat
      /\ Total(f, Items) = Total(f, Items \ {t}) + (IF f[t] > 0 THEN f[t] ELSE 0)
  BY <1>1, TotalWithout, ItemsAssumption
<1>7. Total(g, Items) = Total(g, Items \ {t}) + (IF g[t] > 0 THEN g[t] ELSE 0)
  BY <1>1, TotalWithout, ItemsAssumption
<1>8. /\ Total(f, Items) = Total(f, Items \ {t}) + f[t]
      /\ Total(g, Items) = Total(g, Items \ {t}) + g[t]
  BY <1>1, <1>6, <1>7
<1> QED BY <1>1, <1>3, <1>4, <1>5, <1>6, <1>8

LEMMA OnItemsType ==
  ASSUME Typed, \A t \in Items : ItemOK(t), NEW c
  PROVE  OnItems(item, c) \in Nat
<1>1. \A t \in Items : Share(item[t], c) \in Nat
  BY ShareType DEF Typed, ItemOK
<1>2. \A t \in Items : [s \in Items |-> Share(item[s], c)][t] \in Int
  BY <1>1
<1> QED BY <1>2, TotalType, ItemsAssumption DEF OnItems

(* The invariant gives the three properties.                                *)
LEMMA SerialImpliesOneCheckout == Typed /\ SerialInv => OneCheckoutAtATime
<1> SUFFICES ASSUME Typed, SerialInv, NEW c \in Cards
             PROVE  Cardinality({t \in Items : item[t].from = c /\ InCheckout(t)
                                                /\ authorized_value(t) > 0}) <= 1
  BY DEF OneCheckoutAtATime
<1> DEFINE S == {t \in Items : item[t].from = c /\ InCheckout(t) /\ authorized_value(t) > 0}
<1>1. OneLive
  BY DEF SerialInv, OK
<1>2. \A t \in Items : authorized_value(t) = Authorized(item[t])
  BY ItemAuthorized
<1>3. \A s, t \in S : s = t
  BY <1>1, <1>2 DEF OneLive, Live
<1> HIDE DEF S
<1>4. Cardinality(S) <= 1
  <2>1. CASE S = {}
    BY <2>1, FS_EmptySet
  <2>2. CASE S # {}
    <3>1. PICK t \in S : TRUE
      BY <2>2
    <3>2. S = {t}
      BY <1>3, <3>1
    <3> QED BY <3>2, FS_Singleton
  <2> QED BY <2>1, <2>2
<1> QED BY <1>4 DEF S

LEMMA SerialIdle ==
  ASSUME SerialInv, AllIdle
  PROVE  OK(Idle)
<1>1. PICK p \in Request : Current(p) /\ OK(p)
  BY DEF SerialInv
<1>2. p = Idle
  BY <1>1 DEF Current, AllIdle
<1> QED BY <1>1, <1>2

LEMMA SerialImpliesSettled == Typed /\ SerialInv => ConfirmedOrdersAreSettled
<1> SUFFICES ASSUME Typed, SerialInv, AllIdle, NEW t \in Items,
                    item[t].of # NoCheckout, status[item[t].of] = "confirmed",
                    item[t].card # NoCard, authorized_value(t) > 0
             PROVE  item[t].charge_failed
  BY DEF ConfirmedOrdersAreSettled
<1>1. Settled(Idle)
  BY SerialIdle DEF OK
<1>2. ~ToCharge(Idle, t)
  BY DEF ToCharge, Charging, Idle
<1>3. authorized_value(t) = Authorized(item[t])
  BY ItemAuthorized
<1> QED BY <1>1, <1>2, <1>3 DEF Settled, Confirmed

LEMMA SerialImpliesBooks == Typed /\ SerialInv => BooksBalance
<1> SUFFICES ASSUME Typed, SerialInv, AllIdle, NEW c \in Cards, card[c].exists
             PROVE  card[c].current
                      + SignedTotal([t \in Items |-> charged_value(t)], {t \in Items : item[t].card = c})
                      = issued[c]
  BY DEF BooksBalance
<1>1. OK(Idle)
  BY SerialIdle
<1>2. InFlight(Idle, c) = 0
  BY DEF InFlight, Idle
<1>3. card[c].current + OnItems(item, c) + 0 = issued[c]
  BY <1>1, <1>2 DEF OK, Books
<1> DEFINE f == [t \in Items |-> charged_value(t)]
           K == {t \in Items : item[t].card = c}
           n == [k \in K |-> -f[k]]
           g == [t \in Items |-> Share(item[t], c)]
<1>4. \A t \in Items : charged_value(t) = Charged(item[t]) /\ Charged(item[t]) \in Nat
  <2> TAKE t \in Items
  <2>1. item[t].charge \in Nat /\ item[t].refunded \in Nat
    BY DEF Typed, ItemRow
  <2>2. item[t].refunded <= item[t].charge
    BY <1>1 DEF OK, ItemOK
  <2> QED BY <2>1, <2>2, ItemAuthorized DEF Charged
<1>5. \A t \in Items : f[t] \in Nat /\ g[t] = IF t \in K THEN f[t] ELSE 0
  BY <1>4 DEF Share
<1>6. \A k \in K : n[k] \in Int /\ n[k] <= 0
  BY <1>5
<1>7. K \in SUBSET Items /\ OnItems(item, c) = Total(g, Items)
  BY DEF OnItems
<1>s. SignedTotal(f, K) = Total(f, K) - Total(n, K)
  BY DEF SignedTotal
<1> HIDE DEF f, g, n, K
<1>8. Total(n, K) = 0
  BY <1>6, TotalZero
<1>9. Total(g, Items) = Total(g, K) + Total(g, Items \ K)
  <2>1. IsFiniteSet(K) /\ IsFiniteSet(Items \ K)
    BY <1>7, FS_Subset, ItemsAssumption
  <2>2. Items = K \cup (Items \ K) /\ K \cap (Items \ K) = {}
    BY <1>7
  <2>3. \A t \in K \cup (Items \ K) : g[t] \in Int
    BY <1>5, <1>7
  <2>4. Total(g, K \cup (Items \ K)) = Total(g, K) + Total(g, Items \ K)
    BY <2>1, <2>2, <2>3, TotalSplit
  <2> QED BY <2>2, <2>4
<1>10. Total(g, Items \ K) = 0
  <2>1. \A t \in Items \ K : g[t] \in Int /\ g[t] <= 0
    BY <1>5
  <2> QED BY <2>1, TotalZero
<1>11. Total(g, K) = Total(f, K)
  <2>1. \A t \in K : g[t] = f[t]
    BY <1>5, <1>7
  <2> QED BY <2>1, TotalSame
<1>12. OnItems(item, c) \in Nat
  BY <1>1, OnItemsType DEF OK
<1>13. card[c].current \in Nat
  BY DEF Typed, CardRow
<1>t. Total(f, K) \in Nat
  <2>1. IsFiniteSet(K) /\ \A k \in K : f[k] \in Int
    BY <1>5, <1>7, FS_Subset, ItemsAssumption
  <2> QED BY <2>1, TotalType
<1>14. SignedTotal(f, K) = OnItems(item, c)
  BY <1>s, <1>t, <1>7, <1>8, <1>9, <1>10, <1>11
<1> QED BY <1>3, <1>12, <1>13, <1>14 DEF f, K

-----------------------------------------------------------------------------
(* The request a step serves, and the one it leaves.                        *)
LEMMA Serving ==
  ASSUME NEW p, Current(p), NEW w \in Workers, proc[w] # Idle
  PROVE  p = proc[w]
BY DEF Current, AllIdle

LEMMA Starting ==
  ASSUME Overlap = FALSE, NEW p, Current(p), NEW w \in Workers, MayStart(w)
  PROVE  p = Idle /\ AllIdle
BY DEF Current, AllIdle, MayStart

LEMMA Going ==
  ASSUME Typed, NEW p, Current(p), NEW w \in Workers, AllIdle \/ proc[w] # Idle,
         NEW q, Goto(w, q)
  PROVE  Current(q)'
<1>1. \A v \in Workers \ {w} : proc[v] = Idle
  BY DEF Current, AllIdle
<1>2. proc'[w] = q /\ \A v \in Workers \ {w} : proc'[v] = Idle
  BY <1>1 DEF Goto, Typed
<1> QED BY <1>2 DEF Current, AllIdle, Idle

LEMMA Staying ==
  ASSUME NEW p, Current(p), UNCHANGED proc
  PROVE  Current(p)'
BY DEF Current, AllIdle

LEMMA IdlePlace ==
  /\ Idle \in Request /\ Idle.at = "idle" /\ PlaceOK(Idle)
  /\ \A t \in Items : ~ToCharge(Idle, t) /\ ~Charging(Idle, t)
  /\ \A c : InFlight(Idle, c) = 0
BY DEF Request, PlaceOK, ToCharge, Charging, InFlight, Idle

(* A checkout becomes an order and an order confirmed, never back; a card   *)
(* that is deleted stays deleted.                                           *)
Advance ==
  /\ \A k \in Checkouts : /\ status[k] = "confirmed" => status'[k] = "confirmed"
                          /\ status'[k] = "checkout" => status[k] = "checkout"
  /\ \A c \in Cards : card'[c].exists => card[c].exists

LEMMA ItemKept ==
  ASSUME Typed, Advance, NEW t \in Items, item'[t] = item[t], ItemOK(t)
  PROVE  ItemOK(t)' /\ (Live(t)' => Live(t))
<1>1. item[t].of \in Checkouts \cup {NoCheckout}
  BY DEF Typed, ItemRow, CheckoutOrNone
<1>2. /\ Confirmed(t) => Confirmed(t)'
      /\ InCheckout(t)' => InCheckout(t)
  BY <1>1 DEF Advance, Confirmed, InCheckout
<1>3. Live(t)' => Live(t)
  BY <1>2 DEF Live
<1> QED BY <1>2, <1>3 DEF ItemOK, Advance

LEMMA OneLiveKept ==
  ASSUME OneLive, \A t \in Items : Live(t)' => Live(t) /\ item'[t].from = item[t].from
  PROVE  OneLive'
BY DEF OneLive

(* What a row is worth to the checkout or order it pays for.                *)
LEMMA AuthorizedOfCheckout ==
  ASSUME Typed, NEW t \in Items, ItemOK(t)
  PROVE  /\ InCheckout(t) => item[t].charge = 0 /\ item[t].refunded = 0
         /\ Authorized(item[t]) > 0 =>
              /\ item[t].authorization > 0 /\ item[t].charge = 0 /\ item[t].refunded = 0
              /\ Authorized(item[t]) = item[t].authorization - item[t].canceled
         /\ Authorized(item[t]) \in Nat /\ Charged(item[t]) \in Nat
<1>1. /\ item[t] \in ItemRow /\ item[t].charge \in Nat /\ item[t].refunded \in Nat
      /\ item[t].authorization \in Nat /\ item[t].canceled \in Nat
  BY DEF Typed, ItemRow
<1>2. InCheckout(t) => ~Confirmed(t)
  BY DEF InCheckout, Confirmed
<1>3. /\ Authorized(item[t]) = IF item[t].authorization - item[t].canceled - item[t].charge > 0
                               THEN item[t].authorization - item[t].canceled - item[t].charge ELSE 0
      /\ Authorized(item[t]) \in Nat
  BY <1>1, AuthorizedValue
<1> QED BY <1>1, <1>2, <1>3 DEF ItemOK, Charged

(* The tables as they were: only the request has to be judged.              *)
LEMMA TablesKept ==
  ASSUME Typed, UNCHANGED <<card, item, status, issued>>, NEW p, NEW q, OK(p),
         p.at \notin {"charge_event", "refund_event"}, q.at \notin {"charge_event", "refund_event"}
  PROVE  /\ \A t \in Items : ItemOK(t)'
         /\ OneLive' /\ Answered(q)' /\ Books(q)'
<1>1. \A t \in Items : ItemOK(t)'
  BY DEF OK, ItemOK, Live, InCheckout, Confirmed
<1>2. OneLive'
  BY DEF OK, OneLive, Live, InCheckout
<1>3. Answered(q)'
  BY DEF OK, Answered, Charging
<1>4. \A c : InFlight(p, c) = 0 /\ InFlight(q, c)' = 0
  BY DEF InFlight
<1>5. Books(q)'
  BY <1>4 DEF OK, Books
<1> QED BY <1>1, <1>2, <1>3, <1>5

LEMMA InitSerial == Init => SerialInv
<1> SUFFICES ASSUME Init PROVE SerialInv
  OBVIOUS
<1>1. Typed
  BY InitTyped
<1>2. \A t \in Items : /\ item[t] = Unused /\ item[t] \in ItemRow
                       /\ item[t].authorization = 0 /\ item[t].charge = 0 /\ item[t].refunded = 0
                       /\ item[t].canceled = 0 /\ item[t].card = NoCard
                       /\ ~item[t].charge_requested /\ item[t].of = NoCheckout
  BY <1>1 DEF Init, Unused, Typed
<1>3. \A t \in Items : Authorized(item[t]) = 0 /\ Charged(item[t]) = 0
  BY <1>2, AuthorizedValue DEF Charged
<1>4. \A t \in Items : ItemOK(t) /\ ~Live(t)
  BY <1>2, <1>3 DEF ItemOK, Live, InCheckout
<1>5. OneLive
  BY <1>4 DEF OneLive
<1>6. Answered(Idle) /\ Settled(Idle)
  BY <1>2, <1>3 DEF Answered, Settled
<1>7. Books(Idle)
  <2> SUFFICES ASSUME NEW c \in Cards PROVE card[c].current + OnItems(item, c) + 0 = issued[c]
    BY IdlePlace DEF Books
  <2>1. PICK balance \in Amounts : card[c].current = balance /\ issued[c] = balance
    BY DEF Init
  <2>2. \A t \in Items : [s \in Items |-> Share(item[s], c)][t] \in Int
                          /\ [s \in Items |-> Share(item[s], c)][t] <= 0
    BY <1>3 DEF Share
  <2>3. OnItems(item, c) = 0
    BY <2>2, TotalZero DEF OnItems
  <2> QED BY <2>1, <2>3, AmountsAssumption
<1>8. Current(Idle)
  BY DEF Init, Current, AllIdle
<1> QED BY <1>4, <1>5, <1>6, <1>7, <1>8, IdlePlace DEF SerialInv, OK

-----------------------------------------------------------------------------
(* Steps that only read.                                                    *)
LEMMA SerialRead ==
  ASSUME Typed, Typed', NEW p \in Request, Current(p), OK(p),
         NEW w \in Workers, AllIdle \/ proc[w] # Idle, NEW q \in Request, Goto(w, q),
         UNCHANGED <<card, codes, item, status, issued>>,
         p.at \notin {"charge_event", "refund_event"}, q.at \notin {"charge_event", "refund_event"},
         Settled(q)', PlaceOK(q)'
  PROVE  SerialInv'
<1>1. Current(q)'
  BY Going
<1>2. (\A t \in Items : ItemOK(t)') /\ OneLive' /\ Answered(q)' /\ Books(q)'
  BY TablesKept
<1> QED BY <1>1, <1>2 DEF SerialInv, OK

LEMMA SerialRequestRefund ==
  ASSUME Typed, Typed', Overlap = FALSE, SerialInv,
         NEW w \in Workers, NEW t \in Items, NEW asked \in Amounts, request_refund(w, t, asked)
  PROVE  SerialInv'
<1>1. PICK p \in Request : Current(p) /\ OK(p)
  BY DEF SerialInv
<1>2. p = Idle /\ AllIdle
  BY <1>1, Starting DEF request_refund
<1>3. PICK q : q = [at |-> "refund", t |-> t, c |-> item[t].card,
                    amount |-> Min({asked, charged_value(t)})]
  OBVIOUS
<1>4. Goto(w, q) /\ UNCHANGED <<card, codes, item, status, issued>>
  BY <1>3 DEF request_refund
<1>5. q \in Request
  BY <1>4 DEF Typed, Goto
<1>6. q.amount <= Charged(item[t])
  <2>1. charged_value(t) = Charged(item[t]) /\ charged_value(t) \in Int
    BY ItemAuthorized
  <2>2. asked \in Int
    BY AmountsAssumption
  <2> QED BY <1>3, <2>1, <2>2, MinOfTwo
<1>7. PlaceOK(q)'
  <2>1. q.at = "refund" /\ q.t = t /\ q.c = item[t].card
    BY <1>3
  <2> QED BY <1>4, <1>6, <2>1 DEF PlaceOK
<1>8. Settled(q)'
  BY <1>1, <1>2, <1>4, IdlePlace DEF OK, Settled, Confirmed
<1>9. q.at = "refund" /\ p.at = "idle"
  BY <1>2, <1>3, IdlePlace
<1> QED BY <1>1, <1>2, <1>4, <1>5, <1>7, <1>8, <1>9, SerialRead

LEMMA SerialConfirmRead ==
  ASSUME Typed, Typed', Overlap = FALSE, SerialInv,
         NEW w \in Workers, NEW k \in Checkouts, order_confirm_read(w, k)
  PROVE  SerialInv'
<1>1. PICK p \in Request : Current(p) /\ OK(p)
  BY DEF SerialInv
<1>2. p = Idle /\ AllIdle
  BY <1>1, Starting DEF order_confirm_read
<1>3. PICK q : q = [at |-> "confirm", k |-> k]
  OBVIOUS
<1>4. Goto(w, q) /\ UNCHANGED <<card, codes, item, status, issued>>
  BY <1>3 DEF order_confirm_read
<1>5. q \in Request
  BY <1>4 DEF Typed, Goto
<1>6. q.at = "confirm" /\ p.at = "idle"
  BY <1>2, <1>3, IdlePlace
<1>7. PlaceOK(q)'
  BY <1>6 DEF PlaceOK
<1>8. Settled(q)'
  BY <1>1, <1>2, <1>4, IdlePlace DEF OK, Settled, Confirmed
<1> QED BY <1>1, <1>2, <1>4, <1>5, <1>6, <1>7, <1>8, SerialRead

LEMMA SerialUpdateLoad ==
  ASSUME Typed, Typed', Overlap = FALSE, SerialInv, NEW w \in Workers, NEW c \in Cards,
         NEW balance, gift_card_update_load(w, c, balance)
  PROVE  SerialInv'
<1>1. PICK p \in Request : Current(p) /\ OK(p)
  BY DEF SerialInv
<1>2. p = Idle /\ AllIdle
  BY <1>1, Starting DEF gift_card_update_load
<1>3. PICK q : q = IF balance = {} THEN [at |-> "update", c |-> c, reset |-> FALSE,
                                   current |-> card[c].current, initial |-> card[c].initial]
             ELSE [at |-> "update", c |-> c, reset |-> TRUE,
                   current |-> Max(balance), initial |-> Max(balance)]
  OBVIOUS
<1>4. Goto(w, q) /\ UNCHANGED <<card, codes, item, status, issued>> /\ card[c].exists
  BY <1>3 DEF gift_card_update_load
<1>5. q \in Request
  BY <1>4 DEF Typed, Goto
<1>6. q.at = "update" /\ q.c = c /\ (~q.reset => q.current = card[c].current) /\ p.at = "idle"
  BY <1>2, <1>3, IdlePlace
<1>7. PlaceOK(q)'
  BY <1>4, <1>6 DEF PlaceOK
<1>8. Settled(q)'
  BY <1>1, <1>2, <1>4, IdlePlace DEF OK, Settled, Confirmed
<1> QED BY <1>1, <1>2, <1>4, <1>5, <1>6, <1>7, <1>8, SerialRead

LEMMA SerialChargesDone ==
  ASSUME Typed, Typed', SerialInv, NEW w \in Workers, charges_done(w)
  PROVE  SerialInv'
<1>1. PICK p \in Request : Current(p) /\ OK(p)
  BY DEF SerialInv
<1>2. p = proc[w] /\ proc[w] # Idle
  BY <1>1, Serving DEF charges_done, Idle
<1>3. p.at = "charge_next" /\ p.todo = {}
  BY <1>2 DEF charges_done
<1>4. Goto(w, Idle) /\ UNCHANGED <<card, codes, item, status, issued>>
  BY DEF charges_done
<1>5. Settled(Idle)'
  BY <1>1, <1>3, <1>4 DEF OK, Settled, Confirmed, ToCharge, Charging
<1>6. PlaceOK(Idle)'
  BY DEF PlaceOK, Idle
<1> QED BY <1>1, <1>2, <1>3, <1>4, <1>5, <1>6, IdlePlace, SerialRead

LEMMA SerialLoadCharges ==
  ASSUME Typed, Typed', SerialInv, NEW w \in Workers, charge_gift_card_transactions(w)
  PROVE  SerialInv'
<1>1. PICK p \in Request : Current(p) /\ OK(p)
  BY DEF SerialInv
<1>2. p = proc[w] /\ proc[w] # Idle
  BY <1>1, Serving DEF charge_gift_card_transactions, Idle
<1>3. p.at = "charge" /\ p.k \in Checkouts
  BY <1>2, RequestContents DEF charge_gift_card_transactions, OrderRequest
<1>4. PICK chargeable : chargeable =
        {t \in Items : /\ item[t].of = p.k /\ item[t].card # NoCard
                       /\ ~item[t].charge_requested
                       /\ authorized_value(t) > 0 /\ charged_value(t) = 0}
  OBVIOUS
<1>5. PICK q : q = [at |-> "charge_next",
                    todo |-> {[t |-> t, c |-> item[t].card, amount |-> authorized_value(t)] :
                             t \in chargeable}]
  OBVIOUS
<1>6. Goto(w, q) /\ UNCHANGED <<card, codes, item, status, issued>>
  BY <1>2, <1>4, <1>5 DEF charge_gift_card_transactions
<1>7. q \in Request
  BY <1>6 DEF Typed, Goto
<1>8. /\ q.at = "charge_next"
      /\ q.todo = {[t |-> t, c |-> item[t].card, amount |-> authorized_value(t)] : t \in chargeable}
  BY <1>5
<1>9. \A t \in Items : /\ authorized_value(t) = Authorized(item[t]) /\ charged_value(t) = Charged(item[t])
                       /\ ItemOK(t)
  BY <1>1, ItemAuthorized DEF OK
<1>10. \A t \in Items : Authorized(item[t]) > 0 => item[t].charge = 0 /\ Charged(item[t]) = 0
  BY <1>9, AuthorizedOfCheckout DEF Charged
<1>11. Settled(q)'
  <2> SUFFICES ASSUME NEW t \in Items, Confirmed(t), item[t].card # NoCard,
                      Authorized(item[t]) > 0, ~item[t].charge_failed
               PROVE  \E row \in q.todo : row.t = t
    BY <1>6, <1>8 DEF Settled, Confirmed, ToCharge
  <2>1. item[t].of = p.k
    BY <1>1, <1>3 DEF OK, Settled, ToCharge, Charging
  <2>2. ~item[t].charge_requested
    BY <1>1, <1>3 DEF OK, Answered, Charging
  <2>3. t \in chargeable
    BY <1>4, <1>9, <1>10, <2>1, <2>2
  <2>4. [t |-> t, c |-> item[t].card, amount |-> authorized_value(t)] \in q.todo
    BY <1>8, <2>3
  <2> QED BY <2>4
<1>12. PlaceOK(q)'
  <2>1. \A row \in q.todo : Chargeable(row.t, row.c, row.amount)
    <3> SUFFICES ASSUME NEW t \in chargeable
                 PROVE  Chargeable(t, item[t].card, authorized_value(t))
      BY <1>8
    <3>1. status[p.k] = "confirmed"
      BY <1>1, <1>3 DEF OK, PlaceOK
    <3> QED BY <1>3, <1>4, <1>9, <1>10, <3>1, NoneAssumption DEF Chargeable, Confirmed
  <2>2. \A r1, r2 \in q.todo : r1.t = r2.t => r1 = r2
    BY <1>8
  <2> QED BY <1>6, <1>8, <2>1, <2>2 DEF PlaceOK, Chargeable, Confirmed
<1> QED BY <1>1, <1>2, <1>3, <1>6, <1>7, <1>8, <1>11, <1>12, SerialRead

-----------------------------------------------------------------------------
(* Steps that write cards and orders but no transaction.                    *)
LEMMA ItemsKept ==
  ASSUME Typed, Advance, UNCHANGED item, NEW p, OK(p)
  PROVE  /\ \A t \in Items : ItemOK(t)'
         /\ OneLive'
<1>1. \A t \in Items : ItemOK(t)' /\ (Live(t)' => Live(t))
  BY ItemKept DEF OK
<1> QED BY <1>1, OneLiveKept DEF OK

LEMMA BalanceMoves ==
  ASSUME NEW a \in Int, NEW i \in Int, NEW n \in Nat, a + n + 0 = i,
         NEW b \in Int, NEW j \in Int, b - j = a - i
  PROVE  b + n + 0 = j
OBVIOUS

(* Orders that are confirmed are charged next.                              *)
LEMMA SerialConfirmed ==
  ASSUME Typed, Typed', NEW p \in Request, Current(p), OK(p), p.at \in {"idle", "confirm"},
         NEW w \in Workers, AllIdle \/ proc[w] # Idle, NEW k \in Checkouts,
         NEW s \in Status, status[k] # "confirmed", s # "checkout",
         status' = [status EXCEPT ![k] = s],
         NEW q \in Request, Goto(w, q),
         IF s = "confirmed" THEN q = [at |-> "charge", k |-> k] ELSE q = Idle,
         UNCHANGED item, \A c \in Cards : card'[c].exists = card[c].exists,
         \A c \in Cards : card'[c].current - issued'[c] = card[c].current - issued[c]
  PROVE  SerialInv'
<1>1. Current(q)'
  BY Going
<1>2. Advance
  BY DEF Advance, Typed, Status
<1>3. (\A t \in Items : ItemOK(t)') /\ OneLive'
  BY <1>2, ItemsKept
<1>4. Answered(q)'
  BY DEF OK, Answered, Charging
<1>5. /\ s = "confirmed" => q.at = "charge" /\ q.k = k
      /\ s # "confirmed" => q.at = "idle"
  BY DEF Idle
<1>6. \A t \in Items : Confirmed(t)' =>
        Confirmed(t) \/ (item[t].of = k /\ s = "confirmed")
  <2> TAKE t \in Items
  <2>1. item[t].of \in Checkouts \cup {NoCheckout}
    BY DEF Typed, ItemRow, CheckoutOrNone
  <2> QED BY <2>1 DEF Confirmed, Typed
<1>7. Settled(q)'
  BY <1>5, <1>6 DEF OK, Settled, ToCharge, Charging
<1>8. PlaceOK(q)'
  BY <1>5 DEF PlaceOK, Typed
<1>9. Books(q)'
  <2> SUFFICES ASSUME NEW c \in Cards, card'[c].exists
               PROVE  card'[c].current + OnItems(item, c) + 0 = issued'[c]
    BY <1>5 DEF Books, InFlight
  <2>1. card[c].current + OnItems(item, c) + 0 = issued[c]
    BY DEF OK, Books, InFlight
  <2>2. OnItems(item, c) \in Nat
    BY OnItemsType DEF OK
  <2>3. /\ card[c].current \in Int /\ card'[c].current \in Int
        /\ issued[c] \in Int /\ issued'[c] \in Int
    BY DEF Typed, CardRow
  <2>4. card'[c].current - issued'[c] = card[c].current - issued[c]
    OBVIOUS
  <2> QED BY <2>1, <2>2, <2>3, <2>4, BalanceMoves
<1> QED BY <1>1, <1>3, <1>4, <1>7, <1>8, <1>9 DEF SerialInv, OK

LEMMA SerialConfirmWrite ==
  ASSUME Typed, Typed', SerialInv, NEW w \in Workers, order_confirm_write(w)
  PROVE  SerialInv'
<1>1. PICK p \in Request : Current(p) /\ OK(p)
  BY DEF SerialInv
<1>2. p = proc[w] /\ proc[w] # Idle
  BY <1>1, Serving DEF order_confirm_write, Idle
<1>3. p.at = "confirm" /\ p.k \in Checkouts
  BY <1>2, RequestContents DEF order_confirm_write, OrderRequest
<1>4. PICK q : q = [at |-> "charge", k |-> p.k]
  OBVIOUS
<1>5. /\ Goto(w, q) /\ status' = [status EXCEPT ![p.k] = "confirmed"]
      /\ UNCHANGED <<card, codes, item, issued>>
  BY <1>2, <1>4 DEF order_confirm_write
<1>6. q \in Request
  BY <1>5 DEF Typed, Goto
<1>7. CASE status[p.k] = "confirmed"
  <2>1. UNCHANGED status
    BY <1>5, <1>7 DEF Typed
  <2>2. q.at = "charge" /\ q.k = p.k
    BY <1>4
  <2>3. Settled(q)'
    BY <1>1, <1>3, <1>5, <2>1 DEF OK, Settled, Confirmed, ToCharge, Charging
  <2>4. PlaceOK(q)'
    BY <1>7, <2>1, <2>2 DEF PlaceOK
  <2> QED BY <1>1, <1>2, <1>3, <1>5, <1>6, <2>1, <2>2, <2>3, <2>4, SerialRead
<1>8. CASE status[p.k] # "confirmed"
  <2>1. "confirmed" \in Status
    BY DEF Status
  <2> QED BY <1>1, <1>2, <1>3, <1>4, <1>5, <1>6, <1>8, <2>1, SerialConfirmed
<1> QED BY <1>7, <1>8

LEMMA SerialCreateOrder ==
  ASSUME Typed, Typed', Overlap = FALSE, SerialInv, NEW w \in Workers, NEW k \in Checkouts,
         NEW total \in Amounts, NEW confirm \in BOOLEAN,
         create_order_from_checkout(w, k, total, confirm)
  PROVE  SerialInv'
<1>1. PICK p \in Request : Current(p) /\ OK(p)
  BY DEF SerialInv
<1>2. p = Idle /\ AllIdle
  BY <1>1, Starting DEF create_order_from_checkout
<1>3. PICK use \in Uses(k, total) :
        /\ card' = [c \in Cards |-> IF c \in codes[k] THEN [card[c] EXCEPT !.current = @ - use[c]]
                                    ELSE card[c]]
        /\ issued' = [c \in Cards |-> issued[c] - IF c \in codes[k] THEN use[c] ELSE 0]
  BY DEF create_order_from_checkout
<1>4. \A c \in codes[k] : use[c] \in Int
  BY AmountsAssumption DEF Uses
<1>5. \A c \in Cards : card[c] \in CardRow /\ card[c].current \in Int /\ issued[c] \in Int
  BY DEF Typed, CardRow
<1>6. \A c \in Cards : /\ card'[c].exists = card[c].exists
                       /\ card'[c].current - issued'[c] = card[c].current - issued[c]
  <2> TAKE c \in Cards
  <2>1. CASE c \in codes[k]
    <3>1. card'[c] = [card[c] EXCEPT !.current = @ - use[c]] /\ issued'[c] = issued[c] - use[c]
      BY <1>3, <2>1
    <3>2. card'[c].exists = card[c].exists /\ card'[c].current = card[c].current - use[c]
      BY <1>5, <3>1 DEF CardRow
    <3> QED BY <1>4, <1>5, <2>1, <3>1, <3>2
  <2>2. CASE c \notin codes[k]
    BY <1>3, <1>5, <2>2
  <2> QED BY <2>1, <2>2
<1>7. PICK s \in Status : s = IF confirm THEN "confirmed" ELSE "unconfirmed"
  BY DEF Status
<1>8. PICK q : q = IF confirm THEN [at |-> "charge", k |-> k] ELSE Idle
  OBVIOUS
<1>9. /\ status[k] = "checkout" /\ status' = [status EXCEPT ![k] = s]
      /\ Goto(w, q) /\ UNCHANGED item
  BY <1>7, <1>8 DEF create_order_from_checkout
<1>10. q \in Request
  BY <1>9 DEF Typed, Goto
<1>11. IF s = "confirmed" THEN q = [at |-> "charge", k |-> k] ELSE q = Idle
  BY <1>7, <1>8
<1>12. s # "checkout" /\ p.at = "idle"
  BY <1>2, <1>7, IdlePlace
<1> QED BY <1>1, <1>2, <1>6, <1>9, <1>10, <1>11, <1>12, SerialConfirmed

(* A balance is written: by a refund, by staff.                             *)
LEMMA SerialBalance ==
  ASSUME Typed, Typed', NEW p \in Request, OK(p), p.at \notin {"charge", "charge_next", "charge_event"},
         NEW q \in Request, Current(q)', q.at \in {"idle", "refund_event"},
         UNCHANGED <<item, status>>, \A c \in Cards : card'[c].exists = card[c].exists,
         Books(q)', PlaceOK(q)'
  PROVE  SerialInv'
<1>1. Advance
  BY DEF Advance
<1>2. (\A t \in Items : ItemOK(t)') /\ OneLive'
  BY <1>1, ItemsKept
<1>3. Answered(q)' /\ Settled(q)'
  BY DEF OK, Answered, Settled, Confirmed, ToCharge, Charging
<1> QED BY <1>2, <1>3 DEF SerialInv, OK

LEMMA SerialRefund ==
  ASSUME Typed, Typed', SerialInv, NEW w \in Workers, refund_gift_card_transaction(w)
  PROVE  SerialInv'
<1>1. PICK p \in Request : Current(p) /\ OK(p)
  BY DEF SerialInv
<1>2. p = proc[w] /\ proc[w] # Idle
  BY <1>1, Serving DEF refund_gift_card_transaction, Idle
<1>3. /\ p.at = "refund" /\ p.t \in Items /\ p.c \in CardOrNone /\ p.amount \in Nat \ {0}
  BY <1>2, RequestContents DEF refund_gift_card_transaction, RefundRequest
<1>4. item[p.t].card = p.c /\ p.amount <= Charged(item[p.t])
  BY <1>1, <1>3 DEF OK, PlaceOK
<1>5. CASE p.c # NoCard /\ card[p.c].exists
  <2>1. PICK q : q = [at |-> "refund_event", t |-> p.t, amount |-> p.amount]
    OBVIOUS
  <2>2. /\ Goto(w, q) /\ card' = [card EXCEPT ![p.c].current = @ + p.amount]
        /\ UNCHANGED <<codes, item, status, issued>>
    BY <1>2, <1>5, <2>1 DEF refund_gift_card_transaction
  <2>3. q \in Request /\ Current(q)'
    BY <1>1, <1>2, <2>2, Going DEF Typed, Goto
  <2>4. q.at = "refund_event" /\ q.t = p.t /\ q.amount = p.amount
    BY <2>1
  <2>5. p.c \in Cards
    BY <1>3, <1>5 DEF CardOrNone
  <2>6. \A c \in Cards : /\ card'[c].exists = card[c].exists
                         /\ card'[c].current = card[c].current + IF c = p.c THEN p.amount ELSE 0
    BY <1>3, <2>2, <2>5 DEF Typed, CardRow
  <2>7. PlaceOK(q)'
    BY <1>4, <2>2, <2>4 DEF PlaceOK
  <2>8. Books(q)'
    <3> SUFFICES ASSUME NEW c \in Cards, card'[c].exists
                 PROVE  card'[c].current + OnItems(item, c) + InFlight(q, c)' = issued[c]
      BY <2>2 DEF Books
    <3>1. card[c].current + OnItems(item, c) + 0 = issued[c]
      BY <1>1, <1>3, <2>6 DEF OK, Books, InFlight
    <3>2. OnItems(item, c) \in Nat
      BY <1>1, OnItemsType DEF OK
    <3>3. card[c].current \in Int /\ issued[c] \in Int /\ p.amount \in Int
      BY <1>3 DEF Typed, CardRow
    <3>4. InFlight(q, c)' = IF c = p.c THEN -p.amount ELSE 0
      BY <1>4, <2>2, <2>4 DEF InFlight
    <3>5. card'[c].current = card[c].current + IF c = p.c THEN p.amount ELSE 0
      BY <2>6
    <3> QED BY <3>1, <3>2, <3>3, <3>4, <3>5
  <2> QED BY <1>1, <1>3, <2>2, <2>3, <2>4, <2>6, <2>7, <2>8, SerialBalance
<1>6. CASE ~(p.c # NoCard /\ card[p.c].exists)
  <2>1. Goto(w, Idle) /\ UNCHANGED <<card, codes, item, status, issued>>
    BY <1>2, <1>6 DEF refund_gift_card_transaction
  <2>2. Settled(Idle)'
    BY <1>1, <1>3, <2>1 DEF OK, Settled, Confirmed, ToCharge, Charging
  <2>3. PlaceOK(Idle)'
    BY DEF PlaceOK, Idle
  <2> QED BY <1>1, <1>2, <1>3, <2>1, <2>2, <2>3, IdlePlace, SerialRead
<1> QED BY <1>5, <1>6

LEMMA SerialUpdateSave ==
  ASSUME Typed, Typed', SerialInv, NEW w \in Workers, gift_card_update_save(w)
  PROVE  SerialInv'
<1>1. PICK p \in Request : Current(p) /\ OK(p)
  BY DEF SerialInv
<1>2. p = proc[w] /\ proc[w] # Idle
  BY <1>1, Serving DEF gift_card_update_save, Idle
<1>3. p.at = "update" /\ p.c \in Cards /\ p.current \in Nat
  BY <1>2, RequestContents DEF gift_card_update_save, UpdateRequest
<1>4. card[p.c].exists /\ (~p.reset => p.current = card[p.c].current)
  BY <1>1, <1>3 DEF OK, PlaceOK
<1>5. /\ card' = [card EXCEPT ![p.c].exists = TRUE,
                             ![p.c].current = p.current, ![p.c].initial = p.initial]
      /\ issued' = IF p.reset THEN [issued EXCEPT ![p.c] = @ + p.current - card[p.c].current]
                   ELSE issued
      /\ Goto(w, Idle) /\ UNCHANGED <<codes, item, status>>
  BY <1>2 DEF gift_card_update_save
<1>6. Current(Idle)'
  BY <1>1, <1>2, <1>5, Going
<1>7. /\ \A c \in Cards : card'[c].exists = card[c].exists
      /\ \A c \in Cards \ {p.c} : card'[c] = card[c] /\ issued'[c] = issued[c]
      /\ card'[p.c].current = p.current
      /\ issued'[p.c] = IF p.reset THEN issued[p.c] + p.current - card[p.c].current ELSE issued[p.c]
  <2>1. card \in [Cards -> CardRow] /\ issued \in [Cards -> Int] /\ card[p.c].exists = TRUE
    BY <1>3, <1>4 DEF Typed, CardRow
  <2> QED BY <1>3, <1>5, <2>1 DEF CardRow
<1>8. Books(Idle)'
  <2> SUFFICES ASSUME NEW c \in Cards, card'[c].exists
               PROVE  card'[c].current + OnItems(item, c) + 0 = issued'[c]
    BY <1>5, IdlePlace DEF Books, InFlight, Idle
  <2>1. card[c].current + OnItems(item, c) + 0 = issued[c]
    BY <1>1, <1>3, <1>7 DEF OK, Books, InFlight
  <2>2. OnItems(item, c) \in Nat
    BY <1>1, OnItemsType DEF OK
  <2>3. card[c].current \in Int /\ issued[c] \in Int
    BY DEF Typed, CardRow
  <2>4. CASE c = p.c
    BY <1>3, <1>4, <1>7, <2>1, <2>2, <2>3, <2>4
  <2>5. CASE c # p.c
    BY <1>7, <2>1, <2>5
  <2> QED BY <2>4, <2>5
<1>9. PlaceOK(Idle)'
  BY DEF PlaceOK, Idle
<1> QED BY <1>1, <1>3, <1>5, <1>6, <1>7, <1>8, <1>9, IdlePlace, SerialBalance

LEMMA SerialAdjust ==
  ASSUME Typed, Typed', Overlap = FALSE, SerialInv, NEW c \in Cards, NEW amount \in Int,
         gift_card_balance_adjust(c, amount)
  PROVE  SerialInv'
<1>1. OK(Idle) /\ AllIdle
  BY SerialIdle DEF gift_card_balance_adjust
<1>2. PICK new : new = Max({card[c].current + amount, 0})
  OBVIOUS
<1>3. card[c].current \in Int /\ new \in Int
  <2>1. card[c].current \in Int
    BY DEF Typed, CardRow
  <2> QED BY <1>2, <2>1, MaxOfTwo
<1>4. /\ card' = [card EXCEPT ![c].current = new, ![c].initial = Max({@, new})]
      /\ issued' = [issued EXCEPT ![c] = @ + new - card[c].current]
      /\ UNCHANGED <<codes, item, status, proc>>
  BY <1>2 DEF gift_card_balance_adjust
<1>5. Current(Idle)'
  BY <1>1, <1>4 DEF Current, AllIdle
<1>6. /\ \A d \in Cards : card'[d].exists = card[d].exists
      /\ \A d \in Cards : /\ card'[d].current = IF d = c THEN new ELSE card[d].current
                          /\ issued'[d] = IF d = c THEN issued[c] + new - card[c].current ELSE issued[d]
  BY <1>4 DEF Typed, CardRow
<1>7. Books(Idle)'
  <2> SUFFICES ASSUME NEW d \in Cards, card'[d].exists
               PROVE  card'[d].current + OnItems(item, d) + 0 = issued'[d]
    BY <1>4 DEF Books, InFlight, Idle
  <2>1. card[d].current + OnItems(item, d) + 0 = issued[d]
    BY <1>1, <1>6, IdlePlace DEF OK, Books
  <2>2. OnItems(item, d) \in Nat
    BY <1>1, OnItemsType DEF OK
  <2>3. card[d].current \in Int /\ issued[d] \in Int
    BY DEF Typed, CardRow
  <2>4. CASE d = c
    <3>1. card'[d].current = new /\ issued'[d] = issued[d] + new - card[d].current
      BY <1>6, <2>4
    <3> QED BY <1>3, <2>1, <2>2, <2>3, <3>1
  <2>5. CASE d # c
    BY <1>6, <2>1, <2>5
  <2> QED BY <2>4, <2>5
<1>8. PlaceOK(Idle)'
  BY DEF PlaceOK, Idle
<1> QED BY <1>1, <1>4, <1>5, <1>6, <1>7, <1>8, IdlePlace, SerialBalance

-----------------------------------------------------------------------------
(* Steps that write one transaction.                                        *)
LEMMA OtherItems ==
  ASSUME Typed, NEW p, OK(p), NEW t \in Items, \A s \in Items \ {t} : item'[s] = item[s],
         UNCHANGED status, \A c \in Cards : card'[c].exists = card[c].exists, ItemOK(t)'
  PROVE  /\ \A s \in Items : ItemOK(s)'
         /\ \A s \in Items \ {t} : /\ Live(s)' <=> Live(s)
                                   /\ InCheckout(s)' <=> InCheckout(s)
                                   /\ Confirmed(s)' <=> Confirmed(s)
<1>1. Advance
  BY DEF Advance
<1>2. \A s \in Items \ {t} : ItemOK(s)'
  BY <1>1, ItemKept DEF OK
<1> QED BY <1>2 DEF Live, InCheckout, Confirmed

LEMMA BooksOfOne ==
  ASSUME Typed, Typed', \A s \in Items : ItemOK(s), \A s \in Items : ItemOK(s)', NEW t \in Items,
         \A s \in Items \ {t} : item'[s] = item[s], NEW c
  PROVE  /\ OnItems(item', c) = OnItems(item, c) - Share(item[t], c) + Share(item'[t], c)
         /\ OnItems(item, c) \in Nat /\ Share(item[t], c) \in Nat /\ Share(item'[t], c) \in Nat
<1>1. item \in [Items -> ItemRow] /\ item' \in [Items -> ItemRow]
  BY DEF Typed
<1>2. \A s \in Items : item[s].refunded <= item[s].charge /\ item'[s].refunded <= item'[s].charge
  BY DEF ItemOK
<1>3. \A s \in Items \ {t} : Share(item[s], c) = Share(item'[s], c)
  OBVIOUS
<1> QED BY <1>1, <1>2, <1>3, OnItemsOne

(* A row written between requests that leaves what it has charged.          *)
LEMMA SerialRowWritten ==
  ASSUME Typed, Typed', OK(Idle), Current(Idle)', NEW t \in Items,
         \A s \in Items \ {t} : item'[s] = item[s], UNCHANGED <<card, status, issued>>,
         ItemOK(t)', OneLive',
         Share(item'[t], item'[t].card) = Share(item[t], item'[t].card), item'[t].card = item[t].card,
         item'[t].charge_requested => item'[t].charge_failed \/ Authorized(item'[t]) = 0,
         Confirmed(t)' /\ item'[t].card # NoCard /\ Authorized(item'[t]) > 0 => item'[t].charge_failed
  PROVE  SerialInv'
<1>1. /\ \A s \in Items : ItemOK(s)'
      /\ \A s \in Items \ {t} : Confirmed(s)' <=> Confirmed(s)
  BY OtherItems
<1>2. Answered(Idle)'
  <2>1. \A s \in Items : ~Charging(Idle, s)
    BY IdlePlace
  <2> QED BY <2>1 DEF OK, Answered, Charging, Idle
<1>3. Settled(Idle)'
  <2>1. \A s \in Items : ~ToCharge(Idle, s)
    BY IdlePlace
  <2> QED BY <1>1, <2>1 DEF OK, Settled
<1>4. PlaceOK(Idle)'
  BY DEF PlaceOK, Idle
<1>5. Books(Idle)'
  <2> SUFFICES ASSUME NEW c \in Cards, card[c].exists
               PROVE  card[c].current + OnItems(item', c) + 0 = issued[c]
    BY DEF Books, InFlight, Idle
  <2>1. card[c].current + OnItems(item, c) + 0 = issued[c]
    BY IdlePlace DEF OK, Books
  <2>2. \A s \in Items : Share(item[s], c) = Share(item'[s], c)
    BY DEF Share
  <2>3. OnItems(item', c) = OnItems(item, c)
    BY <2>2, OnItemsSame
  <2> QED BY <2>1, <2>3
<1> QED BY <1>1, <1>2, <1>3, <1>4, <1>5, IdlePlace DEF SerialInv, OK

LEMMA SerialRequestCharge ==
  ASSUME Typed, Typed', Overlap = FALSE, SerialInv,
         NEW w \in Workers, NEW t \in Items, request_charge_action(w, t)
  PROVE  SerialInv'
<1>1. OK(Idle) /\ AllIdle
  BY SerialIdle DEF request_charge_action, MayStart
<1>2. /\ item' = [item EXCEPT ![t] = NotCharged(item[t])]
      /\ UNCHANGED <<card, codes, status, proc, issued>>
  BY DEF request_charge_action, NotCharged
<1>3. /\ item[t] \in ItemRow /\ ItemOK(t) /\ Authorized(item[t]) > 0
      /\ item'[t] = NotCharged(item[t]) /\ \A s \in Items \ {t} : item'[s] = item[s]
  BY <1>1, <1>2, ItemAuthorized DEF request_charge_action, OK, Typed
<1>4. /\ item'[t].of = item[t].of /\ item'[t].card = item[t].card /\ item'[t].from = item[t].from
      /\ item'[t].charge = item[t].charge /\ item'[t].refunded = item[t].refunded
      /\ item'[t].authorization = item[t].authorization /\ item'[t].canceled = item[t].canceled
      /\ item'[t].charge_failed
  BY <1>3 DEF NotCharged, ItemRow
<1>5. Authorized(item'[t]) = Authorized(item[t]) /\ item[t].authorization > 0
  BY <1>3, <1>4, AuthorizedOfCheckout DEF Authorized
<1>6. (Live(t)' <=> Live(t)) /\ (Confirmed(t)' <=> Confirmed(t))
  BY <1>2, <1>4, <1>5 DEF Live, InCheckout, Confirmed
<1>7. ItemOK(t)'
  BY <1>2, <1>3, <1>4, <1>5, <1>6 DEF ItemOK
<1>8. OneLive'
  <2>1. \A s \in Items : Live(s)' => Live(s) /\ item'[s].from = item[s].from
    BY <1>2, <1>3, <1>4, <1>6 DEF Live, InCheckout
  <2> QED BY <1>1, <2>1, OneLiveKept DEF OK
<1>9. Current(Idle)'
  BY <1>1, <1>2 DEF Current, AllIdle
<1>10. Share(item'[t], item'[t].card) = Share(item[t], item'[t].card)
  BY <1>4 DEF Share, Charged
<1> QED BY <1>1, <1>2, <1>3, <1>4, <1>7, <1>8, <1>9, <1>10, SerialRowWritten

LEMMA SerialCancel ==
  ASSUME Typed, Typed', Overlap = FALSE, SerialInv, NEW w \in Workers, NEW t \in Items,
         NEW asked \in Amounts, cancel_gift_card_transaction(w, t, asked)
  PROVE  SerialInv'
<1>1. OK(Idle) /\ AllIdle
  BY SerialIdle DEF cancel_gift_card_transaction, MayStart
<1>2. PICK amount : amount = Min({asked, authorized_value(t)})
  OBVIOUS
<1>3. authorized_value(t) = Authorized(item[t]) /\ authorized_value(t) \in Nat /\ asked \in Nat
  BY ItemAuthorized, AmountsAssumption
<1>4. amount \in Nat
  BY <1>2, <1>3, MinOfTwo
<1>5. /\ item' = [item EXCEPT ![t].canceled = @ + amount, ![t].can_cancel = amount < authorized_value(t)]
      /\ InCheckout(t) /\ UNCHANGED <<card, codes, status, proc, issued>>
  BY <1>2 DEF cancel_gift_card_transaction
<1>6. PICK b : b = (amount < authorized_value(t))
  OBVIOUS
<1>7. /\ item[t] \in ItemRow /\ ItemOK(t) /\ item \in [Items -> ItemRow]
      /\ item'[t] = Canceled(item[t], amount, b) /\ \A s \in Items \ {t} : item'[s] = item[s]
  BY <1>1, <1>5, <1>6 DEF OK, Typed, Canceled
<1>8. /\ item'[t].of = item[t].of /\ item'[t].card = item[t].card /\ item'[t].from = item[t].from
      /\ item'[t].charge = item[t].charge /\ item'[t].refunded = item[t].refunded
      /\ item'[t].authorization = item[t].authorization
      /\ item'[t].canceled = item[t].canceled + amount
      /\ item'[t].charge_requested = item[t].charge_requested
      /\ item'[t].charge_failed = item[t].charge_failed
  BY <1>7 DEF Canceled, ItemRow
<1>9. Authorized(item'[t]) <= Authorized(item[t]) /\ Authorized(item'[t]) \in Nat
  <2>1. item'[t] \in ItemRow
    BY DEF Typed
  <2>2. item[t].authorization \in Nat /\ item[t].canceled \in Nat /\ item[t].charge \in Nat
    BY <1>7 DEF ItemRow
  <2>3. Authorized(item[t]) = IF item[t].authorization - item[t].canceled - item[t].charge > 0
                              THEN item[t].authorization - item[t].canceled - item[t].charge ELSE 0
    BY <1>7, AuthorizedValue
  <2>4. /\ Authorized(item'[t]) = IF item'[t].authorization - item'[t].canceled - item'[t].charge > 0
                              THEN item'[t].authorization - item'[t].canceled - item'[t].charge ELSE 0
        /\ Authorized(item'[t]) \in Nat
    BY <2>1, AuthorizedValue
  <2>5. Authorized(item'[t]) = IF item[t].authorization - (item[t].canceled + amount) - item[t].charge > 0
                              THEN item[t].authorization - (item[t].canceled + amount) - item[t].charge ELSE 0
    BY <1>8, <2>4
  <2> QED BY <1>4, <2>2, <2>3, <2>4, <2>5
<1>10. InCheckout(t)' /\ ~Confirmed(t)' /\ item[t].charge = 0
  BY <1>5, <1>7, <1>8, AuthorizedOfCheckout DEF InCheckout, Confirmed
<1>11. Live(t)' => Live(t)
  BY <1>3, <1>5, <1>9 DEF Live
<1>12. ItemOK(t)'
  BY <1>5, <1>7, <1>8, <1>10, <1>11 DEF ItemOK
<1>13. OneLive'
  <2>1. \A s \in Items : Live(s)' => Live(s) /\ item'[s].from = item[s].from
    BY <1>5, <1>7, <1>8, <1>11 DEF Live, InCheckout
  <2> QED BY <1>1, <2>1, OneLiveKept DEF OK
<1>14. Current(Idle)'
  BY <1>1, <1>5 DEF Current, AllIdle
<1>15. Share(item'[t], item'[t].card) = Share(item[t], item'[t].card)
  BY <1>8 DEF Share, Charged
<1>16. item'[t].charge_requested => item'[t].charge_failed \/ Authorized(item'[t]) = 0
  <2>1. item[t].charge_requested => item[t].charge_failed \/ Authorized(item[t]) = 0
    BY <1>1, IdlePlace DEF OK, Answered
  <2> QED BY <1>3, <1>8, <1>9, <2>1
<1> QED BY <1>1, <1>5, <1>7, <1>8, <1>10, <1>12, <1>13, <1>14, <1>15, <1>16, SerialRowWritten

LEMMA SerialAuthorize ==
  ASSUME Typed, Typed', SerialInv, NEW w \in Workers, create_authorization_event(w)
  PROVE  SerialInv'
<1>1. PICK p \in Request : Current(p) /\ OK(p)
  BY DEF SerialInv
<1>2. p = proc[w] /\ proc[w] # Idle
  BY <1>1, Serving DEF create_authorization_event, Idle
<1>3. p.at = "authorize" /\ p.t \in Items /\ p.amount \in Nat \ {0}
  BY <1>2, RequestContents DEF create_authorization_event, AuthorizeRequest
<1>4. PICK t \in Items : t = p.t
  BY <1>3
<1>5. /\ InCheckout(t) /\ item[t].card = item[t].from /\ item[t].from \in Cards
      /\ \A s \in Items : Live(s) /\ item[s].from = item[t].from => s = t
  BY <1>1, <1>3, <1>4 DEF OK, PlaceOK
<1>6. Goto(w, Idle) /\ UNCHANGED <<card, codes, status, issued>>
  BY DEF create_authorization_event
<1>7. Current(Idle)'
  BY <1>1, <1>2, <1>6, Going
<1>8. OK(Idle)
  <2>1. Answered(Idle) /\ Settled(Idle)
    BY <1>1, <1>3 DEF OK, Answered, Settled, ToCharge, Charging
  <2>2. Books(Idle)
    BY <1>1, <1>3 DEF OK, Books, InFlight, Idle
  <2> QED BY <1>1, <2>1, <2>2, IdlePlace DEF OK
<1>9. CASE item[t].authorization > 0
  <2>1. UNCHANGED item
    BY <1>2, <1>4, <1>9 DEF create_authorization_event
  <2>2. Settled(Idle)'
    BY <1>6, <1>8, <2>1, IdlePlace DEF OK, Settled, Confirmed
  <2>3. PlaceOK(Idle)'
    BY DEF PlaceOK, Idle
  <2> QED BY <1>1, <1>2, <1>3, <1>6, <2>1, <2>2, <2>3, IdlePlace, SerialRead
<1>10. CASE ~(item[t].authorization > 0)
  <2>1. /\ item[t] \in ItemRow /\ item \in [Items -> ItemRow] /\ ItemOK(t)
    BY <1>8 DEF OK, Typed
  <2>2. item' = [item EXCEPT ![t].authorization = p.amount, ![t].can_cancel = TRUE]
    BY <1>2, <1>4, <1>10 DEF create_authorization_event
  <2>3. /\ item'[t] = [item[t] EXCEPT !.authorization = p.amount, !.can_cancel = TRUE]
        /\ \A s \in Items \ {t} : item'[s] = item[s]
    BY <2>1, <2>2
  <2>4. /\ item'[t].of = item[t].of /\ item'[t].card = item[t].card /\ item'[t].from = item[t].from
        /\ item'[t].charge = item[t].charge /\ item'[t].refunded = item[t].refunded
        /\ item'[t].authorization = p.amount
        /\ item'[t].charge_requested = item[t].charge_requested
    BY <2>1, <2>3 DEF ItemRow
  <2>5. ~item[t].charge_requested /\ item[t].charge = 0
    BY <1>5, <1>10, <2>1, AuthorizedOfCheckout DEF ItemOK
  <2>6. InCheckout(t)' /\ ~Confirmed(t)'
    BY <1>5, <1>6, <2>4 DEF InCheckout, Confirmed
  <2>7. ItemOK(t)'
    BY <1>5, <1>6, <2>1, <2>4, <2>5, <2>6, NoneAssumption DEF ItemOK, InCheckout
  <2>8. OneLive'
    <3>1. \A s \in Items \ {t} : (Live(s)' <=> Live(s)) /\ item'[s].from = item[s].from
      BY <1>6, <2>3 DEF Live, InCheckout
    <3> SUFFICES ASSUME NEW r \in Items, NEW s \in Items, Live(r)', Live(s)',
                        item'[r].from = item'[s].from, item'[s].from \in Cards, r # s
                 PROVE  FALSE
      BY DEF OneLive
    <3>2. CASE r # t /\ s # t
      BY <1>1, <3>1, <3>2 DEF OK, OneLive
    <3>3. CASE r = t
      BY <1>5, <2>4, <3>1, <3>3
    <3>4. CASE s = t
      BY <1>5, <2>4, <3>1, <3>4
    <3> QED BY <3>2, <3>3, <3>4
  <2>9. Share(item'[t], item'[t].card) = Share(item[t], item'[t].card)
    BY <2>4 DEF Share, Charged
  <2> QED BY <1>6, <1>7, <1>8, <2>3, <2>4, <2>5, <2>6, <2>7, <2>8, <2>9, SerialRowWritten
<1> QED BY <1>9, <1>10

LEMMA SerialRefundEvent ==
  ASSUME Typed, Typed', SerialInv, NEW w \in Workers, create_refund_event(w)
  PROVE  SerialInv'
<1>1. PICK p \in Request : Current(p) /\ OK(p)
  BY DEF SerialInv
<1>2. p = proc[w] /\ proc[w] # Idle
  BY <1>1, Serving DEF create_refund_event, Idle
<1>3. p.at = "refund_event" /\ p.t \in Items /\ p.amount \in Nat \ {0}
  BY <1>2, RequestContents DEF create_refund_event, RefundedRequest
<1>4. PICK t \in Items : t = p.t
  BY <1>3
<1>5. p.amount <= Charged(item[t])
  BY <1>1, <1>3, <1>4 DEF OK, PlaceOK
<1>6. /\ item' = [item EXCEPT ![t].refunded = @ + p.amount]
      /\ Goto(w, Idle) /\ UNCHANGED <<card, codes, status, issued>>
  BY <1>2, <1>4 DEF create_refund_event
<1>7. /\ item[t] \in ItemRow /\ item \in [Items -> ItemRow] /\ ItemOK(t)
      /\ item[t].charge \in Nat /\ item[t].refunded \in Nat
  BY <1>1 DEF OK, Typed, ItemRow
<1>8. /\ item'[t] = [item[t] EXCEPT !.refunded = @ + p.amount]
      /\ \A s \in Items \ {t} : item'[s] = item[s]
  BY <1>6, <1>7
<1>9. /\ item'[t].of = item[t].of /\ item'[t].card = item[t].card /\ item'[t].from = item[t].from
      /\ item'[t].charge = item[t].charge /\ item'[t].refunded = item[t].refunded + p.amount
      /\ item'[t].authorization = item[t].authorization /\ item'[t].canceled = item[t].canceled
      /\ item'[t].charge_requested = item[t].charge_requested
      /\ item'[t].charge_failed = item[t].charge_failed
  BY <1>7, <1>8 DEF ItemRow
<1>10. Authorized(item'[t]) = Authorized(item[t]) /\ Charged(item'[t]) = Charged(item[t]) - p.amount
  BY <1>3, <1>7, <1>9 DEF Authorized, Charged
<1>11. (Live(t)' <=> Live(t)) /\ (Confirmed(t)' <=> Confirmed(t))
  BY <1>6, <1>9, <1>10 DEF Live, InCheckout, Confirmed
<1>12. item'[t].refunded <= item'[t].charge
  BY <1>3, <1>5, <1>7, <1>9 DEF Charged
<1>13. ItemOK(t)'
  BY <1>6, <1>7, <1>9, <1>10, <1>11, <1>12 DEF ItemOK
<1>14. /\ \A s \in Items : ItemOK(s)'
       /\ \A s \in Items \ {t} : (Live(s)' <=> Live(s)) /\ (Confirmed(s)' <=> Confirmed(s))
  BY <1>1, <1>6, <1>8, <1>13, OtherItems
<1>15. OneLive'
  <2>1. \A s \in Items : Live(s)' => Live(s) /\ item'[s].from = item[s].from
    BY <1>8, <1>9, <1>11, <1>14
  <2> QED BY <1>1, <2>1, OneLiveKept DEF OK
<1>16. \A s \in Items : /\ Authorized(item'[s]) = Authorized(item[s]) /\ item'[s].card = item[s].card
                        /\ item'[s].charge_requested = item[s].charge_requested
                        /\ item'[s].charge_failed = item[s].charge_failed
                        /\ Confirmed(s)' <=> Confirmed(s)
  BY <1>8, <1>9, <1>10, <1>11, <1>14
<1>17. Answered(Idle)' /\ Settled(Idle)'
  BY <1>1, <1>3, <1>16 DEF OK, Answered, Settled, ToCharge, Charging
<1>18. PlaceOK(Idle)'
  BY DEF PlaceOK, Idle
<1>19. Books(Idle)'
  <2> SUFFICES ASSUME NEW c \in Cards, card[c].exists
               PROVE  card[c].current + OnItems(item', c) + 0 = issued[c]
    BY <1>6 DEF Books, InFlight, Idle
  <2>1. card[c].current + OnItems(item, c) + (IF item[t].card = c THEN -p.amount ELSE 0) = issued[c]
    BY <1>1, <1>3, <1>4 DEF OK, Books, InFlight
  <2>2. /\ OnItems(item', c) = OnItems(item, c) - Share(item[t], c) + Share(item'[t], c)
        /\ OnItems(item, c) \in Nat /\ Share(item[t], c) \in Nat /\ Share(item'[t], c) \in Nat
    BY <1>1, <1>8, <1>14, BooksOfOne DEF OK
  <2>3. Share(item'[t], c) = Share(item[t], c) - (IF item[t].card = c THEN p.amount ELSE 0)
    BY <1>3, <1>9, <1>10 DEF Share
  <2>4. card[c].current \in Int /\ issued[c] \in Int /\ p.amount \in Int
    BY <1>3 DEF Typed, CardRow
  <2> QED BY <2>1, <2>2, <2>3, <2>4
<1>20. Current(Idle)'
  BY <1>1, <1>2, <1>6, Going
<1> QED BY <1>14, <1>15, <1>17, <1>18, <1>19, <1>20, IdlePlace DEF SerialInv, OK

(* The outcome of a charge is recorded, the rest is still to be charged.    *)
LEMMA SerialCharged ==
  ASSUME Typed, Typed', NEW p \in Request, OK(p), p.at = "charge_event",
         NEW t \in Items, t = p.t, \A s \in Items \ {t} : item'[s] = item[s],
         UNCHANGED <<card, status, issued>>, ItemOK(t)', item'[t].of = item[t].of,
         item'[t].card = item[t].card, item'[t].charge_failed \/ Authorized(item'[t]) = 0,
         Live(t)' => Live(t) /\ item'[t].from = item[t].from,
         Charged(item'[t]) = Charged(item[t]) + (IF p.ok THEN p.amount ELSE 0),
         p.amount \in Nat, p.todo \in SUBSET ChargeRow,
         NEW q \in Request, q.at = "charge_next", q.todo = p.todo, Current(q)'
  PROVE  SerialInv'
<1>1. /\ \A s \in Items : ItemOK(s)'
      /\ \A s \in Items \ {t} : (Live(s)' <=> Live(s)) /\ (Confirmed(s)' <=> Confirmed(s))
  BY OtherItems
<1>2. OneLive'
  <2>1. \A s \in Items : Live(s)' => Live(s) /\ item'[s].from = item[s].from
    BY <1>1
  <2> QED BY <2>1, OneLiveKept DEF OK
<1>3. Answered(q)'
  BY DEF OK, Answered, Charging
<1>4. Settled(q)'
  BY <1>1 DEF OK, Settled, ToCharge, Charging
<1>5. PlaceOK(q)'
  <2>1. \A row \in q.todo : row.t \in Items \ {t} /\ Chargeable(row.t, row.c, row.amount)
    BY DEF OK, PlaceOK, ChargeRow
  <2>2. \A row \in q.todo : Chargeable(row.t, row.c, row.amount)'
    BY <1>1, <2>1 DEF Chargeable
  <2>3. \A r1, r2 \in q.todo : r1.t = r2.t => r1 = r2
    BY DEF OK, PlaceOK
  <2> QED BY <2>2, <2>3 DEF PlaceOK
<1>6. Books(q)'
  <2> SUFFICES ASSUME NEW c \in Cards, card[c].exists
               PROVE  card[c].current + OnItems(item', c) + 0 = issued[c]
    BY DEF Books, InFlight
  <2>1. card[c].current + OnItems(item, c) + (IF p.ok /\ item[t].card = c THEN p.amount ELSE 0) = issued[c]
    BY DEF OK, Books, InFlight
  <2>2. /\ OnItems(item', c) = OnItems(item, c) - Share(item[t], c) + Share(item'[t], c)
        /\ OnItems(item, c) \in Nat /\ Share(item[t], c) \in Nat /\ Share(item'[t], c) \in Nat
    BY <1>1, BooksOfOne DEF OK
  <2>3. Charged(item[t]) \in Nat
    BY AuthorizedOfCheckout DEF OK
  <2>4. Share(item'[t], c) = Share(item[t], c) + (IF p.ok /\ item[t].card = c THEN p.amount ELSE 0)
    BY <2>3 DEF Share
  <2>5. card[c].current \in Int /\ issued[c] \in Int
    BY DEF Typed, CardRow
  <2>6. PICK a \in Nat : a = IF p.ok /\ item[t].card = c THEN p.amount ELSE 0
    OBVIOUS
  <2> QED BY <2>1, <2>2, <2>4, <2>5, <2>6
<1> QED BY <1>1, <1>2, <1>3, <1>4, <1>5, <1>6 DEF SerialInv, OK

LEMMA SerialChargeEvent ==
  ASSUME Typed, Typed', SerialInv, NEW w \in Workers, create_charge_event(w)
  PROVE  SerialInv'
<1>1. PICK p \in Request : Current(p) /\ OK(p)
  BY DEF SerialInv
<1>2. p = proc[w] /\ proc[w] # Idle
  BY <1>1, Serving DEF create_charge_event, Idle
<1>3. p.at = "charge_event" /\ p.t \in Items /\ p.amount \in Nat \ {0} /\ p.todo \in SUBSET ChargeRow
  BY <1>2, RequestContents DEF create_charge_event, EventRequest
<1>4. PICK t \in Items : t = p.t
  BY <1>3
<1>5. PICK q : q = [at |-> "charge_next", todo |-> p.todo]
  OBVIOUS
<1>6. /\ item' = IF p.ok THEN [item EXCEPT ![t].charge = @ + p.amount, ![t].can_cancel = FALSE]
                 ELSE [item EXCEPT ![t].charge_failed = TRUE]
      /\ Goto(w, q) /\ UNCHANGED <<card, codes, status, issued>>
  BY <1>2, <1>4, <1>5 DEF create_charge_event
<1>7. q \in Request /\ Current(q)'
  BY <1>1, <1>2, <1>6, Going DEF Typed, Goto
<1>8. q.at = "charge_next" /\ q.todo = p.todo
  BY <1>5
<1>9. /\ Confirmed(t) /\ item[t].card \in Cards /\ item[t].authorization > 0
      /\ item[t].charge = 0 /\ Authorized(item[t]) = p.amount
  BY <1>1, <1>3, <1>4 DEF OK, PlaceOK, Chargeable
<1>10. /\ item[t] \in ItemRow /\ item \in [Items -> ItemRow] /\ ItemOK(t)
       /\ item[t].charge \in Nat /\ item[t].refunded \in Nat
       /\ item[t].authorization \in Nat /\ item[t].canceled \in Nat
  BY <1>1 DEF OK, Typed, ItemRow
<1>11. item[t].refunded = 0 /\ Authorized(item[t]) = item[t].authorization - item[t].canceled
  BY <1>3, <1>9, <1>10, AuthorizedOfCheckout
<1>12. CASE p.ok
  <2>1. item'[t] = ChargedBy(item[t], p.amount) /\ \A s \in Items \ {t} : item'[s] = item[s]
    BY <1>6, <1>10, <1>12 DEF ChargedBy
  <2>2. /\ item'[t].of = item[t].of /\ item'[t].card = item[t].card /\ item'[t].from = item[t].from
        /\ item'[t].charge = item[t].charge + p.amount /\ item'[t].refunded = item[t].refunded
        /\ item'[t].authorization = item[t].authorization /\ item'[t].canceled = item[t].canceled
        /\ item'[t].charge_requested = item[t].charge_requested
    BY <1>10, <2>1 DEF ChargedBy, ItemRow
  <2>n. p.amount \in Nat /\ item'[t].charge = p.amount
    <3>1. p.amount \in Nat
      BY <1>3
    <3> QED BY <1>9, <2>2, <3>1
  <2>3. Charged(item'[t]) = Charged(item[t]) + p.amount
    BY <1>3, <1>10, <2>2 DEF Charged
  <2>4. Authorized(item'[t]) = 0
    <3>1. item'[t] \in ItemRow
      BY DEF Typed
    <3>2. Authorized(item'[t]) = IF item'[t].authorization - item'[t].canceled - item'[t].charge > 0
                              THEN item'[t].authorization - item'[t].canceled - item'[t].charge ELSE 0
      BY <3>1, AuthorizedValue
    <3>3. item'[t].authorization - item'[t].canceled - item'[t].charge = 0
      <4>1. item[t].authorization - item[t].canceled = p.amount
        BY <1>9, <1>11
      <4>2. item'[t].authorization - item'[t].canceled = p.amount
        BY <2>2, <4>1
      <4> QED BY <2>n, <4>2
    <3> QED BY <3>2, <3>3
  <2>5. Confirmed(t)' /\ ~Live(t)'
    BY <1>6, <1>9, <2>2 DEF Live, InCheckout, Confirmed
  <2>6. item'[t].refunded <= item'[t].charge
    BY <1>11, <2>2, <2>n
  <2>7. ItemOK(t)'
    BY <1>9, <1>10, <2>2, <2>4, <2>5, <2>6 DEF ItemOK
  <2>8. Charged(item'[t]) = Charged(item[t]) + (IF p.ok THEN p.amount ELSE 0)
    BY <1>12, <2>3
  <2> QED BY <1>1, <1>3, <1>4, <1>6, <1>7, <1>8, <2>1, <2>2, <2>4, <2>5, <2>7, <2>8, SerialCharged
<1>13. CASE ~p.ok
  <2>1. item'[t] = [item[t] EXCEPT !.charge_failed = TRUE] /\ \A s \in Items \ {t} : item'[s] = item[s]
    BY <1>6, <1>10, <1>13
  <2>2. /\ item'[t].of = item[t].of /\ item'[t].card = item[t].card /\ item'[t].from = item[t].from
        /\ item'[t].charge = item[t].charge /\ item'[t].refunded = item[t].refunded
        /\ item'[t].authorization = item[t].authorization /\ item'[t].canceled = item[t].canceled
        /\ item'[t].charge_requested = item[t].charge_requested
        /\ item'[t].charge_failed
    BY <1>10, <2>1 DEF ItemRow
  <2>3. Authorized(item'[t]) = Authorized(item[t]) /\ Charged(item'[t]) = Charged(item[t])
    BY <2>2 DEF Authorized, Charged
  <2>4. Confirmed(t)' /\ ~Live(t)'
    BY <1>6, <1>9, <2>2 DEF Live, InCheckout, Confirmed
  <2>5. ItemOK(t)'
    BY <1>9, <1>10, <2>2, <2>4 DEF ItemOK
  <2>6. Charged(item'[t]) = Charged(item[t]) + (IF p.ok THEN p.amount ELSE 0)
    BY <1>13, <2>3, <1>10 DEF Charged
  <2> QED BY <1>1, <1>3, <1>4, <1>6, <1>7, <1>8, <2>1, <2>2, <2>4, <2>5, <2>6, SerialCharged
<1> QED BY <1>12, <1>13

LEMMA SerialCharge ==
  ASSUME Typed, Typed', SerialInv, NEW w \in Workers, proc[w].at = "charge_next",
         NEW row \in proc[w].todo, charge_gift_card(w, row)
  PROVE  SerialInv'
<1>1. PICK p \in Request : Current(p) /\ OK(p)
  BY DEF SerialInv
<1>2. p = proc[w] /\ proc[w] # Idle
  BY <1>1, Serving DEF Idle
<1>3. p.at = "charge_next" /\ p.todo \in SUBSET ChargeRow
  BY <1>2, RequestContents DEF NextRequest
<1>4. row \in p.todo /\ row \in ChargeRow
  BY <1>2, <1>3
<1>5. row.t \in Items /\ row.c \in Cards /\ row.amount \in Nat \ {0}
  BY <1>4 DEF ChargeRow
<1>6. PICK t \in Items : t = row.t
  BY <1>5
<1>7. /\ Confirmed(t) /\ item[t].card = row.c
      /\ item[t].charge = 0 /\ Authorized(item[t]) = row.amount
  BY <1>1, <1>3, <1>4, <1>6 DEF OK, PlaceOK, Chargeable
<1>8. PICK ok : ok = (card[row.c].exists /\ row.amount <= card[row.c].current)
  OBVIOUS
<1>9. PICK q : q = [at |-> "charge_event", t |-> row.t, amount |-> row.amount, ok |-> ok,
                    todo |-> p.todo \ {row}]
  OBVIOUS
<1>10. /\ item' = [item EXCEPT ![t].charge_requested = TRUE]
       /\ card' = IF ok THEN [card EXCEPT ![row.c].current = @ - row.amount] ELSE card
       /\ Goto(w, q) /\ UNCHANGED <<codes, status, issued>>
  BY <1>2, <1>6, <1>8, <1>9 DEF charge_gift_card
<1>11. q \in Request /\ Current(q)'
  BY <1>1, <1>2, <1>10, Going DEF Typed, Goto
<1>12. /\ q.at = "charge_event" /\ q.t = t /\ q.amount = row.amount /\ q.ok = ok
       /\ q.todo = p.todo \ {row}
  BY <1>6, <1>9
<1>13. /\ item[t] \in ItemRow /\ item \in [Items -> ItemRow] /\ ItemOK(t)
       /\ item[t].authorization > 0
  <2>1. item[t] \in ItemRow /\ item \in [Items -> ItemRow] /\ ItemOK(t)
    BY <1>1 DEF OK, Typed
  <2> QED BY <1>5, <1>7, <2>1, AuthorizedOfCheckout
<1>14. /\ item'[t] = [item[t] EXCEPT !.charge_requested = TRUE]
       /\ \A s \in Items \ {t} : item'[s] = item[s]
  BY <1>10, <1>13
<1>15. /\ item'[t].of = item[t].of /\ item'[t].card = item[t].card /\ item'[t].from = item[t].from
       /\ item'[t].charge = item[t].charge /\ item'[t].refunded = item[t].refunded
       /\ item'[t].authorization = item[t].authorization /\ item'[t].canceled = item[t].canceled
       /\ item'[t].charge_failed = item[t].charge_failed
  BY <1>13, <1>14 DEF ItemRow
<1>16. Authorized(item'[t]) = Authorized(item[t]) /\ Charged(item'[t]) = Charged(item[t])
  BY <1>15 DEF Authorized, Charged
<1>17. Confirmed(t)' /\ ~Live(t)'
  BY <1>7, <1>10, <1>15 DEF Live, InCheckout, Confirmed
<1>18. /\ \A c \in Cards : card'[c].exists = card[c].exists
       /\ \A c \in Cards :
            card'[c].current = card[c].current - (IF ok /\ c = row.c THEN row.amount ELSE 0)
  BY <1>5, <1>10 DEF Typed, CardRow
<1>19. ItemOK(t)'
  BY <1>7, <1>13, <1>15, <1>17 DEF ItemOK
<1>20. /\ \A s \in Items : ItemOK(s)'
       /\ \A s \in Items \ {t} : (Live(s)' <=> Live(s)) /\ (Confirmed(s)' <=> Confirmed(s))
  BY <1>1, <1>10, <1>14, <1>18, <1>19, OtherItems
<1>21. OneLive'
  <2>1. \A s \in Items : Live(s)' => Live(s) /\ item'[s].from = item[s].from
    BY <1>14, <1>17, <1>20
  <2> QED BY <1>1, <2>1, OneLiveKept DEF OK
<1>22. Answered(q)'
  BY <1>1, <1>3, <1>12, <1>14 DEF OK, Answered, Charging
<1>23. Settled(q)'
  <2> SUFFICES ASSUME NEW s \in Items, s # t, Confirmed(s), item[s].card # NoCard,
                      Authorized(item[s]) > 0, ~item[s].charge_failed
               PROVE  \E r \in q.todo : r.t = s
    BY <1>12, <1>14, <1>20 DEF Settled, ToCharge, Charging
  <2>1. PICK r \in p.todo : r.t = s
    BY <1>1, <1>3 DEF OK, Settled, ToCharge, Charging
  <2>2. r # row
    BY <1>6, <2>1
  <2> QED BY <1>12, <2>1, <2>2
<1>24. PlaceOK(q)'
  <2>1. \A r \in q.todo : r \in p.todo /\ r.t \in Items \ {t} /\ Chargeable(r.t, r.c, r.amount)
    <3> TAKE r \in q.todo
    <3>1. r \in p.todo /\ r # row /\ r \in ChargeRow
      BY <1>3, <1>12
    <3>2. r.t # row.t /\ Chargeable(r.t, r.c, r.amount)
      BY <1>1, <1>3, <1>4, <3>1 DEF OK, PlaceOK
    <3> QED BY <1>6, <3>1, <3>2 DEF ChargeRow
  <2>2. \A r \in q.todo : Chargeable(r.t, r.c, r.amount)'
    BY <1>14, <1>20, <2>1 DEF Chargeable
  <2>3. \A r1, r2 \in q.todo : r1.t = r2.t => r1 = r2
    BY <1>1, <1>3, <2>1 DEF OK, PlaceOK
  <2>4. Chargeable(t, item[t].card, q.amount)'
    BY <1>7, <1>12, <1>15, <1>16, <1>17 DEF Chargeable
  <2>5. item'[t].card \in Cards /\ item'[t].authorization > 0
    BY <1>5, <1>7, <1>13, <1>15
  <2> QED BY <1>12, <2>1, <2>2, <2>3, <2>4, <2>5 DEF PlaceOK
<1>25. Books(q)'
  <2> SUFFICES ASSUME NEW c \in Cards, card[c].exists
               PROVE  card'[c].current + OnItems(item', c) + InFlight(q, c)' = issued[c]
    BY <1>10, <1>18 DEF Books
  <2>1. card[c].current + OnItems(item, c) + 0 = issued[c]
    BY <1>1, <1>3 DEF OK, Books, InFlight
  <2>2. \A s \in Items : Share(item[s], c) = Share(item'[s], c)
    BY <1>14, <1>15, <1>16 DEF Share
  <2>3. OnItems(item', c) = OnItems(item, c)
    BY <2>2, OnItemsSame
  <2>4. OnItems(item, c) \in Nat
    BY <1>1, OnItemsType DEF OK
  <2>5. PICK a \in Nat : a = IF ok /\ c = row.c THEN row.amount ELSE 0
    BY <1>5
  <2>6. InFlight(q, c)' = a
    BY <1>7, <1>12, <1>15, <2>5 DEF InFlight
  <2>7. card'[c].current = card[c].current - a
    BY <1>18, <2>5
  <2>8. card[c].current \in Int /\ issued[c] \in Int
    BY DEF Typed, CardRow
  <2> QED BY <2>1, <2>3, <2>4, <2>6, <2>7, <2>8
<1> QED BY <1>11, <1>20, <1>21, <1>22, <1>23, <1>24, <1>25 DEF SerialInv, OK

-----------------------------------------------------------------------------
(* Steps that write several transactions: a card is attached or deleted.    *)
LEMMA SerialRefused ==
  ASSUME Typed, Typed', OK(Idle), AllIdle, NEW t \in Items, NEW k \in Checkouts, NEW amount,
         status[k] = "checkout", item[t] = Unused \/ item[t].of = k,
         \A s \in Items \ {t} : item'[s] = item[s], item'[t] = Refused(item[t], k, amount),
         UNCHANGED <<card, codes, status, issued, proc>>
  PROVE  SerialInv'
<1>1. item[t] \in ItemRow /\ ItemOK(t)
  BY DEF OK, Typed
<1>2. /\ item'[t].of = k /\ item'[t].card = item[t].card /\ item'[t].from = item[t].from
      /\ item'[t].charge = item[t].charge /\ item'[t].refunded = item[t].refunded
      /\ item'[t].authorization = item[t].authorization /\ item'[t].canceled = item[t].canceled
      /\ item'[t].charge_requested = item[t].charge_requested
      /\ item'[t].charge_failed = item[t].charge_failed
  BY <1>1 DEF Refused, ItemRow
<1>3. Authorized(item'[t]) = Authorized(item[t])
  BY <1>2 DEF Authorized
<1>4. k # NoCheckout
  BY NoneAssumption
<1>5. InCheckout(t)' /\ ~Confirmed(t)'
  BY <1>2, <1>4 DEF InCheckout, Confirmed
<1>6. item[t].charge = 0
  <2>1. CASE item[t] = Unused
    BY <2>1 DEF Unused
  <2>2. CASE item[t].of = k
    BY <1>1, <1>4, <2>2, AuthorizedOfCheckout DEF InCheckout
  <2> QED BY <2>1, <2>2
<1>7. Live(t)' => Live(t)
  <2>1. CASE item[t] = Unused
    <3>1. item[t].authorization = 0
      BY <2>1 DEF Unused
    <3>2. ~(Authorized(item[t]) > 0)
      BY <1>1, <3>1, AuthorizedOfCheckout
    <3> QED BY <1>3, <3>2 DEF Live
  <2>2. CASE item[t].of = k
    BY <1>3, <1>4, <2>2 DEF Live, InCheckout
  <2> QED BY <2>1, <2>2
<1>8. ItemOK(t)'
  BY <1>1, <1>2, <1>4, <1>5, <1>6, <1>7 DEF ItemOK
<1>9. OneLive'
  <2>1. \A s \in Items : Live(s)' => Live(s) /\ item'[s].from = item[s].from
    BY <1>2, <1>7 DEF Live, InCheckout
  <2> QED BY <2>1, OneLiveKept DEF OK
<1>10. Current(Idle)'
  BY DEF Current, AllIdle
<1>11. Share(item'[t], item'[t].card) = Share(item[t], item'[t].card)
  BY <1>2 DEF Share, Charged
<1>12. item'[t].charge_requested => item'[t].charge_failed \/ Authorized(item'[t]) = 0
  BY <1>2, <1>3, IdlePlace DEF OK, Answered
<1> QED BY <1>2, <1>5, <1>8, <1>9, <1>10, <1>11, <1>12, SerialRowWritten

(* Rows of other checkouts give the card up, so the one it is attached to   *)
(* is the only one its funds can be authorized for.                         *)
LEMMA SerialAttached ==
  ASSUME Typed, Typed', OK(Idle), AllIdle, NEW w \in Workers,
         NEW t \in Items, NEW k \in Checkouts, NEW c \in Cards, NEW amount \in Nat \ {0},
         status[k] = "checkout", item[t] = Unused \/ item[t].of = k, card[c].exists,
         \A s \in Items \ {t} :
           item'[s] = IF item[s].card = c /\ InCheckout(s) THEN Detached(item[s]) ELSE item[s],
         item'[t] = Attached(IF item[t].card = c /\ InCheckout(t) THEN Detached(item[t]) ELSE item[t],
                             k, c, amount),
         Goto(w, [at |-> "authorize", t |-> t, amount |-> amount]),
         UNCHANGED <<card, codes, status, issued>>
  PROVE  SerialInv'
<1>1. \A s \in Items : item[s] \in ItemRow /\ ItemOK(s)
  BY DEF OK, Typed
<1>2. PICK q : q = [at |-> "authorize", t |-> t, amount |-> amount]
  OBVIOUS
<1>3. Goto(w, q) /\ q.at = "authorize" /\ q.t = t
  BY <1>2
<1>4. q \in Request
  BY <1>3 DEF Typed, Goto
<1>5. Current(q)'
  <2>1. Current(Idle)
    BY DEF Current
  <2> QED BY <1>3, <2>1, Going
<1>6. k # NoCheckout /\ c # NoCard
  BY NoneAssumption
<1>7. item[t].charge = 0 /\ item[t].refunded = 0
  <2>1. CASE item[t] = Unused
    BY <2>1 DEF Unused
  <2>2. CASE item[t].of = k
    BY <1>1, <1>6, <2>2, AuthorizedOfCheckout DEF InCheckout
  <2> QED BY <2>1, <2>2
<1>8. ASSUME NEW s \in Items, item[s].card = c, InCheckout(s)
      PROVE  /\ item[s].charge = 0 /\ item[s].refunded = 0
             /\ Detached(item[s]) \in ItemRow
             /\ Detached(item[s]).of = item[s].of /\ Detached(item[s]).from = item[s].from
             /\ Detached(item[s]).card = NoCard
             /\ Detached(item[s]).charge = 0 /\ Detached(item[s]).refunded = 0
             /\ Detached(item[s]).authorization = item[s].authorization
             /\ Detached(item[s]).charge_requested = item[s].charge_requested
             /\ Detached(item[s]).charge_failed = item[s].charge_failed
             /\ Authorized(Detached(item[s])) = 0
  <2>1. item[s].charge = 0 /\ item[s].refunded = 0
    BY <1>1, <1>8, AuthorizedOfCheckout
  <2> QED BY <1>1, <2>1, DetachedRow
<1>9. PICK i : i = IF item[t].card = c /\ InCheckout(t) THEN Detached(item[t]) ELSE item[t]
  OBVIOUS
<1>10. /\ i \in ItemRow /\ i.charge = 0 /\ i.refunded = 0
       /\ i.authorization = item[t].authorization
       /\ i.charge_requested = item[t].charge_requested /\ i.charge_failed = item[t].charge_failed
       /\ Authorized(i) = 0 \/ Authorized(i) = Authorized(item[t])
  BY <1>1, <1>7, <1>8, <1>9
<1>11. /\ item'[t].of = k /\ item'[t].card = c /\ item'[t].from = c
       /\ item'[t].charge = 0 /\ item'[t].refunded = 0
       /\ item'[t].authorization = item[t].authorization
       /\ item'[t].charge_requested = item[t].charge_requested
       /\ item'[t].charge_failed = item[t].charge_failed
       /\ Authorized(item'[t]) = Authorized(i)
  <2>1. item'[t] = Attached(i, k, c, amount)
    BY <1>9
  <2>2. amount \in Nat
    OBVIOUS
  <2>3. /\ item'[t].of = k /\ item'[t].card = c /\ item'[t].from = c
        /\ item'[t].authorization = i.authorization /\ item'[t].canceled = i.canceled
        /\ item'[t].charge = i.charge /\ item'[t].refunded = i.refunded
        /\ item'[t].charge_requested = i.charge_requested
        /\ item'[t].charge_failed = i.charge_failed
    BY <1>10, <2>1, <2>2, AttachedRow
  <2> QED BY <1>10, <2>3 DEF Authorized
<1>12. InCheckout(t)' /\ ~Confirmed(t)'
  BY <1>6, <1>11 DEF InCheckout, Confirmed
<1>13. ItemOK(t)'
  BY <1>1, <1>6, <1>11 DEF ItemOK
<1>14. ASSUME NEW s \in Items \ {t}
       PROVE  /\ ItemOK(s)' /\ (Live(s)' => Live(s) /\ item'[s] = item[s] /\ item[s].from # c)
              /\ item'[s].from = item[s].from /\ (Confirmed(s)' <=> Confirmed(s))
              /\ item'[s].charge_requested = item[s].charge_requested
              /\ item'[s].charge_failed = item[s].charge_failed
              /\ Authorized(item'[s]) = 0 \/ Authorized(item'[s]) = Authorized(item[s])
              /\ Charged(item'[s]) = Charged(item[s])
              /\ item'[s].card = item[s].card \/ (item'[s].card = NoCard /\ Charged(item[s]) = 0)
  <2>1. CASE item[s].card = c /\ InCheckout(s)
    <3>1. item'[s] = Detached(item[s])
      BY <2>1
    <3>2. InCheckout(s)' /\ ~Confirmed(s)' /\ ~Confirmed(s) /\ ~Live(s)'
      BY <1>8, <2>1, <3>1 DEF InCheckout, Confirmed, Live
    <3>3. ItemOK(s)'
      BY <1>1, <1>8, <2>1, <3>1, <3>2 DEF ItemOK
    <3> QED BY <1>8, <2>1, <3>1, <3>2, <3>3 DEF Charged
  <2>2. CASE ~(item[s].card = c /\ InCheckout(s))
    <3>1. item'[s] = item[s]
      BY <2>2
    <3>2. Advance
      BY DEF Advance
    <3>3. ItemOK(s)' /\ (Live(s)' => Live(s))
      BY <1>1, <3>1, <3>2, ItemKept
    <3>4. Live(s) => item[s].from # c
      BY <1>1, <2>2 DEF ItemOK, Live
    <3> QED BY <3>1, <3>3, <3>4 DEF Confirmed
  <2> QED BY <2>1, <2>2
<1>15. \A s \in Items : ItemOK(s)'
  BY <1>13, <1>14
<1>16. OneLive'
  <2> SUFFICES ASSUME NEW r \in Items, NEW s \in Items, Live(r)', Live(s)',
                      item'[r].from = item'[s].from, item'[s].from \in Cards, r # s
               PROVE  FALSE
    BY DEF OneLive
  <2>1. CASE r # t /\ s # t
    BY <1>14, <2>1 DEF OK, OneLive
  <2>2. CASE r = t \/ s = t
    BY <1>11, <1>14, <2>2
  <2> QED BY <2>1, <2>2
<1>17. Answered(q)'
  <2>1. \A s \in Items : item[s].charge_requested => item[s].charge_failed \/ Authorized(item[s]) = 0
    BY IdlePlace DEF OK, Answered
  <2>2. \A s \in Items : item'[s].charge_requested => item'[s].charge_failed \/ Authorized(item'[s]) = 0
    BY <1>10, <1>11, <1>14, <2>1
  <2> QED BY <2>2 DEF Answered
<1>18. Settled(q)'
  <2>1. \A s \in Items : Confirmed(s) /\ item[s].card # NoCard /\ Authorized(item[s]) > 0 => item[s].charge_failed
    BY IdlePlace DEF OK, Settled
  <2>2. \A s \in Items : Confirmed(s)' /\ item'[s].card # NoCard /\ Authorized(item'[s]) > 0 => item'[s].charge_failed
    BY <1>12, <1>14, <2>1
  <2> QED BY <2>2 DEF Settled
<1>19. PlaceOK(q)'
  <2>1. \A s \in Items : Live(s)' /\ item'[s].from = item'[t].from => s = t
    BY <1>11, <1>14
  <2> QED BY <1>3, <1>11, <1>12, <2>1 DEF PlaceOK
<1>20. Books(q)'
  <2> SUFFICES ASSUME NEW d \in Cards, card[d].exists
               PROVE  card[d].current + OnItems(item', d) + 0 = issued[d]
    BY <1>3 DEF Books, InFlight
  <2>1. card[d].current + OnItems(item, d) + 0 = issued[d]
    BY IdlePlace DEF OK, Books
  <2>2. d # NoCard
    BY NoneAssumption
  <2>3. \A s \in Items : Share(item[s], d) = Share(item'[s], d)
    <3> TAKE s \in Items
    <3>1. CASE s = t
      BY <1>7, <1>11, <3>1 DEF Share, Charged
    <3>2. CASE s # t
      BY <1>14, <2>2, <3>2 DEF Share
    <3> QED BY <3>1, <3>2
  <2>4. OnItems(item', d) = OnItems(item, d)
    BY <2>3, OnItemsSame
  <2> QED BY <2>1, <2>4
<1> QED BY <1>4, <1>5, <1>15, <1>16, <1>17, <1>18, <1>19, <1>20 DEF SerialInv, OK

LEMMA SerialInitialize ==
  ASSUME Typed, Typed', Overlap = FALSE, SerialInv, NEW w \in Workers, NEW t \in Items,
         NEW k \in Checkouts, NEW c \in Cards, NEW amount \in Amounts,
         transaction_initialize_session(w, t, k, c, amount)
  PROVE  SerialInv'
<1>1. OK(Idle) /\ AllIdle
  BY SerialIdle DEF transaction_initialize_session, MayStart
<1>2. /\ status[k] = "checkout" /\ (item[t] = Unused \/ item[t].of = k)
      /\ UNCHANGED <<card, codes, status, issued>>
  BY DEF transaction_initialize_session
<1>3. amount \in Nat \ {0}
  BY Initializing
<1>4. \/ /\ card[c].exists
         /\ \A s \in Items \ {t} :
              item'[s] = IF item[s].card = c /\ InCheckout(s) THEN Detached(item[s]) ELSE item[s]
         /\ item'[t] = Attached(IF item[t].card = c /\ InCheckout(t)
                                THEN Detached(item[t]) ELSE item[t], k, c, amount)
         /\ Goto(w, [at |-> "authorize", t |-> t, amount |-> amount])
      \/ /\ \A s \in Items \ {t} : item'[s] = item[s]
         /\ item'[t] = Refused(item[t], k, amount)
         /\ UNCHANGED proc
  BY Initializing
<1> QED BY <1>1, <1>2, <1>3, <1>4, SerialRefused, SerialAttached

LEMMA SerialDelete ==
  ASSUME Typed, Typed', Overlap = FALSE, SerialInv, NEW c \in Cards, gift_card_delete(c)
  PROVE  SerialInv'
<1>1. OK(Idle) /\ AllIdle
  BY SerialIdle DEF gift_card_delete
<1>2. /\ card' = [card EXCEPT ![c] = Deleted]
      /\ item' = [t \in Items |-> IF item[t].card = c THEN [item[t] EXCEPT !.card = NoCard] ELSE item[t]]
      /\ UNCHANGED <<status, proc, issued>>
  BY DEF gift_card_delete
<1>3. /\ ~card'[c].exists /\ \A d \in Cards \ {c} : card'[d] = card[d]
  BY <1>2 DEF Typed, Deleted
<1>4. Advance
  BY <1>2, <1>3 DEF Advance
<1>5. ASSUME NEW t \in Items
      PROVE  /\ item'[t].card = (IF item[t].card = c THEN NoCard ELSE item[t].card)
             /\ item'[t].of = item[t].of /\ item'[t].from = item[t].from
             /\ item'[t].charge = item[t].charge /\ item'[t].refunded = item[t].refunded
             /\ item'[t].authorization = item[t].authorization
             /\ item'[t].charge_requested = item[t].charge_requested
             /\ item'[t].charge_failed = item[t].charge_failed
             /\ Authorized(item'[t]) = Authorized(item[t]) /\ Charged(item'[t]) = Charged(item[t])
             /\ (Live(t)' <=> Live(t)) /\ (Confirmed(t)' <=> Confirmed(t))
  <2>1. item[t] \in ItemRow
    BY DEF Typed
  <2>2. item'[t] = IF item[t].card = c THEN [item[t] EXCEPT !.card = NoCard] ELSE item[t]
    BY <1>2
  <2>3. /\ item'[t].card = (IF item[t].card = c THEN NoCard ELSE item[t].card)
        /\ item'[t].of = item[t].of /\ item'[t].from = item[t].from
        /\ item'[t].charge = item[t].charge /\ item'[t].refunded = item[t].refunded
        /\ item'[t].authorization = item[t].authorization /\ item'[t].canceled = item[t].canceled
        /\ item'[t].charge_requested = item[t].charge_requested
        /\ item'[t].charge_failed = item[t].charge_failed
    BY <2>1, <2>2 DEF ItemRow
  <2>4. Authorized(item'[t]) = Authorized(item[t]) /\ Charged(item'[t]) = Charged(item[t])
    BY <2>3 DEF Authorized, Charged
  <2> QED BY <1>2, <2>3, <2>4 DEF Live, InCheckout, Confirmed
<1>6. \A t \in Items : ItemOK(t)'
  <2> TAKE t \in Items
  <2>1. ItemOK(t)
    BY <1>1 DEF OK
  <2>2. CASE item[t].card = c
    <3>1. item[t].from = c
      BY <2>1, <2>2, NoneAssumption DEF ItemOK
    <3> QED BY <1>3, <1>5, <2>1, <2>2, <3>1 DEF ItemOK
  <2>3. CASE item[t].card # c
    BY <1>4, <1>5, <2>1, <2>3 DEF ItemOK, Advance
  <2> QED BY <2>2, <2>3
<1>7. OneLive'
  <2>1. \A t \in Items : Live(t)' => Live(t) /\ item'[t].from = item[t].from
    BY <1>5
  <2> QED BY <1>1, <2>1, OneLiveKept DEF OK
<1>8. Answered(Idle)' /\ Settled(Idle)'
  <2>1. \A t \in Items :
          /\ item[t].charge_requested => item[t].charge_failed \/ Authorized(item[t]) = 0
          /\ Confirmed(t) /\ item[t].card # NoCard /\ Authorized(item[t]) > 0 => item[t].charge_failed
    BY <1>1, IdlePlace DEF OK, Answered, Settled
  <2> QED BY <1>5, <2>1 DEF Answered, Settled
<1>9. PlaceOK(Idle)'
  BY DEF PlaceOK, Idle
<1>10. Books(Idle)'
  <2> SUFFICES ASSUME NEW d \in Cards, card'[d].exists
               PROVE  card'[d].current + OnItems(item', d) + 0 = issued[d]
    BY <1>2 DEF Books, InFlight, Idle
  <2>1. d # c /\ card'[d] = card[d] /\ d # NoCard
    BY <1>3, NoneAssumption
  <2>2. card[d].current + OnItems(item, d) + 0 = issued[d]
    BY <1>1, <2>1, IdlePlace DEF OK, Books
  <2>3. \A t \in Items : Share(item[t], d) = Share(item'[t], d)
    BY <1>5, <2>1 DEF Share
  <2>4. OnItems(item', d) = OnItems(item, d)
    BY <2>3, OnItemsSame
  <2> QED BY <2>1, <2>2, <2>4
<1>11. Current(Idle)'
  BY <1>1, <1>2 DEF Current, AllIdle
<1> QED BY <1>6, <1>7, <1>8, <1>9, <1>10, <1>11, IdlePlace DEF SerialInv, OK

(* The codes of a checkout are not part of the invariant.                   *)
LEMMA SerialSame ==
  ASSUME Typed, SerialInv, UNCHANGED <<card, item, status, proc, issued>>
  PROVE  SerialInv'
<1>1. PICK p \in Request : Current(p) /\ OK(p)
  BY DEF SerialInv
<1>2. Current(p)'
  BY <1>1, Staying
<1>3. (\A t \in Items : ItemOK(t)') /\ OneLive' /\ Answered(p)' /\ Settled(p)'
  BY <1>1 DEF OK, ItemOK, OneLive, Live, InCheckout, Confirmed, Answered, Settled, ToCharge, Charging
<1>4. Books(p)' /\ PlaceOK(p)'
  BY <1>1 DEF OK, Books, InFlight, PlaceOK, Chargeable, Live, InCheckout, Confirmed
<1> QED BY <1>2, <1>3, <1>4 DEF SerialInv, OK

LEMMA StepSerial ==
  ASSUME Overlap = FALSE, Typed, Typed', SerialInv, [Next]_vars
  PROVE  SerialInv'
<1>1. CASE \E w \in Workers, t \in Items, k \in Checkouts, c \in Cards, amount \in Amounts :
             transaction_initialize_session(w, t, k, c, amount)
  BY <1>1, SerialInitialize
<1>2. CASE \E w \in Workers, t \in Items : request_charge_action(w, t)
  BY <1>2, SerialRequestCharge
<1>3. CASE \E w \in Workers, t \in Items, amount \in Amounts : cancel_gift_card_transaction(w, t, amount)
  BY <1>3, SerialCancel
<1>4. CASE \E w \in Workers, t \in Items, amount \in Amounts : request_refund(w, t, amount)
  BY <1>4, SerialRequestRefund
<1>5. CASE \E w \in Workers : create_authorization_event(w)
  BY <1>5, SerialAuthorize
<1>6. CASE \E w \in Workers : create_charge_event(w)
  BY <1>6, SerialChargeEvent
<1>7. CASE \E w \in Workers : create_refund_event(w)
  BY <1>7, SerialRefundEvent
<1>8. CASE \E w \in Workers : charge_gift_card_transactions(w)
  BY <1>8, SerialLoadCharges
<1>9. CASE \E w \in Workers : charges_done(w)
  BY <1>9, SerialChargesDone
<1>10. CASE \E w \in Workers : /\ proc[w].at = "charge_next"
                               /\ \E row \in proc[w].todo : charge_gift_card(w, row)
  BY <1>10, SerialCharge
<1>11. CASE \E w \in Workers : refund_gift_card_transaction(w)
  BY <1>11, SerialRefund
<1>12. CASE \E w \in Workers : order_confirm_write(w)
  BY <1>12, SerialConfirmWrite
<1>13. CASE \E w \in Workers : gift_card_update_save(w)
  BY <1>13, SerialUpdateSave
<1>14. CASE \E w \in Workers, k \in Checkouts : order_confirm_read(w, k)
  BY <1>14, SerialConfirmRead
<1>15. CASE \E w \in Workers, k \in Checkouts : \E total \in Amounts, confirm \in BOOLEAN :
              create_order_from_checkout(w, k, total, confirm)
  BY <1>15, SerialCreateOrder
<1>16. CASE \E w \in Workers, c \in Cards, balance \in {{}} \cup {{a} : a \in Amounts} :
              gift_card_update_load(w, c, balance)
  BY <1>16, SerialUpdateLoad
<1>17. CASE \E c \in Cards : gift_card_delete(c)
  BY <1>17, SerialDelete
<1>18. CASE \E c \in Cards : \E amount \in Adjustments :
              gift_card_balance_adjust(c, amount) \/ gift_card_balance_adjust(c, -amount)
  <2>1. PICK c \in Cards, amount \in Int : gift_card_balance_adjust(c, amount)
    BY <1>18, AmountsAssumption
  <2> QED BY <2>1, SerialAdjust
<1>19. CASE \E c \in Cards, k \in Checkouts : \/ add_gift_card_code_to_checkout(k, c)
                                              \/ remove_gift_card_code_from_checkout(k, c)
  BY <1>19, SerialSame DEF add_gift_card_code_to_checkout, remove_gift_card_code_from_checkout
<1>20. CASE UNCHANGED vars
  BY <1>20, SerialSame DEF vars
<1> QED
  BY <1>1, <1>2, <1>3, <1>4, <1>5, <1>6, <1>7, <1>8, <1>9, <1>10, <1>11, <1>12, <1>13,
     <1>14, <1>15, <1>16, <1>17, <1>18, <1>19, <1>20 DEF Next

LEMMA SerialHolds ==
  ASSUME Overlap = FALSE
  PROVE  Spec => [](Typed /\ SerialInv)
<1>1. Init => Typed /\ SerialInv
  BY InitTyped, InitSerial
<1>2. Typed /\ SerialInv /\ [Next]_vars => (Typed /\ SerialInv)'
  BY StepTyped, StepSerial
<1> QED BY <1>1, <1>2, PTL DEF Spec

(* A card authorizes funds to one checkout at a time, however often it is   *)
(* attached, canceled, detached and deleted.                                *)
THEOREM CardsPayForOneCheckout ==
  ASSUME Overlap = FALSE
  PROVE  Spec => []OneCheckoutAtATime
BY SerialHolds, SerialImpliesOneCheckout, PTL

(* When an order is confirmed, every transaction a card still has funds     *)
(* authorized for was charged, or says that the charge failed.              *)
THEOREM ConfirmingTakesTheMoney ==
  ASSUME Overlap = FALSE
  PROVE  Spec => []ConfirmedOrdersAreSettled
BY SerialHolds, SerialImpliesSettled, PTL

(* No sequence of requests creates or loses money on a card.                *)
THEOREM CardsKeepTheirBooks ==
  ASSUME Overlap = FALSE
  PROVE  Spec => []BooksBalance
BY SerialHolds, SerialImpliesBooks, PTL
=============================================================================
