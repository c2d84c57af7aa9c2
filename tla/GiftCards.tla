------------------------------- MODULE GiftCards -------------------------------
(***************************************************************************)
(* The balance of gift cards and everything that moves it.  A card pays    *)
(* through the gift card payment gateway (a transaction item authorized    *)
(* for a checkout, charged when the order is confirmed, refunded by        *)
(* staff), or the older way (a code added to a checkout, spent when the    *)
(* order is created); staff adjust, overwrite and delete cards.            *)
(*                                                                         *)
(* A transaction item keeps the sums of its events; its amounts are        *)
(* computed from them as Transactions does.  The event of an answer and    *)
(* the amounts computed from it are one step here.                         *)
(***************************************************************************)
EXTENDS RowSums, FiniteSetsExt

CONSTANTS
  Workers,     \* processes that serve requests
  Cards, Checkouts,
  Items,       \* bound: the transaction items, each used once
  Amounts,     \* amounts of requests and prices
  Adjustments, \* bound: what staff add to or take from a balance in one call
  MaxBalance,  \* bound: on what staff raise a balance to
  Overlap      \* requests may be served at the same time

VARIABLES
  card,     \* GiftCard rows: current and initial balance
  codes,    \* the cards added to a checkout by their codes
  item,     \* TransactionItem rows; "from" is a ghost, the card last attached
  status,   \* "checkout", then the order's "unconfirmed" or "confirmed"
  proc,     \* where each worker is
  issued    \* ghost: what staff put on a card, less what orders took by its code

vars == <<card, codes, item, status, proc, issued>>

NoCard == "no card"
NoCheckout == "no checkout"
ASSUME NoneAssumption == NoCard \notin Cards /\ NoCheckout \notin Checkouts
ASSUME AmountsAssumption == Amounts \subseteq Nat \ {0} /\ Adjustments \subseteq Nat \ {0}
ASSUME ItemsAssumption == IsFiniteSet(Items)

Deleted == [exists |-> FALSE, current |-> 0, initial |-> 0]
Unused ==
  [of |-> NoCheckout, card |-> NoCard, from |-> NoCard, amount |-> 0, can_cancel |-> FALSE,
   authorization |-> 0, canceled |-> 0, charge |-> 0, refunded |-> 0,
   charge_requested |-> FALSE, charge_failed |-> FALSE]

(* What recalculate_transaction_amounts makes of the events: each has a psp *)
(* reference of its own.                                                    *)
authorized_value(t) ==
  Max({item[t].authorization - item[t].canceled - item[t].charge, 0})
charged_value(t) == item[t].charge - item[t].refunded

Idle == [at |-> "idle"]
Goto(w, p) == proc' = [proc EXCEPT ![w] = p]
AllIdle == \A w \in Workers : proc[w] = Idle
MayStart(w) == proc[w] = Idle /\ (Overlap \/ AllIdle)
InCheckout(t) == item[t].of # NoCheckout /\ status[item[t].of] = "checkout"

-----------------------------------------------------------------------------
(* Mutant: the funds stay authorized where they were.                       *)
detach_nothing(c) == item

detach_gift_card_from_previous_checkout_transactions(c) ==
  [t \in Items |->
     IF item[t].card = c /\ InCheckout(t)
     THEN [item[t] EXCEPT !.card = NoCard, !.canceled = @ + authorized_value(t),
                          !.can_cancel = FALSE]
     ELSE item[t]]

(* transactionInitialize for an unused item, or again with the idempotency  *)
(* key of one of the checkout.  The card is locked, judged, taken from the  *)
(* transactions of other checkouts and attached in one transaction; a card  *)
(* that is refused (no such code, inactive, another customer's, too little  *)
(* on it) leaves the item without one.                                      *)
transaction_initialize_session(w, t, k, c, amount) ==
  /\ MayStart(w) /\ status[k] = "checkout"
  /\ item[t] = Unused \/ (item[t].of = k /\ item[t].amount = amount)
  /\ \/ /\ card[c].exists /\ amount <= card[c].current
        /\ item' = [detach_gift_card_from_previous_checkout_transactions(c)
                      EXCEPT ![t].of = k, ![t].amount = amount, ![t].card = c, ![t].from = c]
        /\ Goto(w, [at |-> "authorize", t |-> t, amount |-> amount])
     \/ item' = [item EXCEPT ![t].of = k, ![t].amount = amount] /\ UNCHANGED proc
  /\ UNCHANGED <<card, codes, status, issued>>

(* AUTHORIZATION_SUCCESS, which a transaction takes once.                   *)
create_authorization_event(w) ==
  LET p == proc[w]
  IN /\ p.at = "authorize"
     /\ item' = IF item[p.t].authorization > 0 THEN item
                ELSE [item EXCEPT ![p.t].authorization = p.amount, ![p.t].can_cancel = TRUE]
     /\ Goto(w, Idle)
     /\ UNCHANGED <<card, codes, status, issued>>

add_gift_card_code_to_checkout(k, c) ==
  /\ status[k] = "checkout" /\ card[c].exists
  /\ codes' = [codes EXCEPT ![k] = @ \cup {c}]
  /\ UNCHANGED <<card, item, status, proc, issued>>

remove_gift_card_code_from_checkout(k, c) ==
  /\ status[k] = "checkout" /\ c \in codes[k]
  /\ codes' = [codes EXCEPT ![k] = @ \ {c}]
  /\ UNCHANGED <<card, item, status, proc, issued>>

(* update_gift_card_balance, card after card until the total is covered: at *)
(* most one card is used and not emptied.                                   *)
Uses(k, total) ==
  {use \in [codes[k] -> 0..total] :
     /\ \A c \in codes[k] : use[c] <= card[c].current
     /\ Total(use, codes[k]) =
          Min({total, Total([c \in codes[k] |-> card[c].current], codes[k])})
     /\ Cardinality({c \in codes[k] : use[c] \in 1..(card[c].current - 1)}) <= 1}

(* The order is created: cards given by code are spent, the transactions    *)
(* move to the order, the checkout is deleted.  Then, if the channel        *)
(* confirms new orders, the order is confirmed.                             *)
create_order_from_checkout(w, k, total, confirm) ==
  /\ MayStart(w) /\ status[k] = "checkout"
  /\ \E use \in Uses(k, total) :
       /\ card' = [c \in Cards |-> IF c \in codes[k] THEN [card[c] EXCEPT !.current = @ - use[c]]
                                   ELSE card[c]]
       /\ issued' = [c \in Cards |-> issued[c] - IF c \in codes[k] THEN use[c] ELSE 0]
  /\ codes' = [codes EXCEPT ![k] = {}]
  /\ status' = [status EXCEPT ![k] = IF confirm THEN "confirmed" ELSE "unconfirmed"]
  /\ Goto(w, IF confirm THEN [at |-> "charge", k |-> k] ELSE Idle)
  /\ UNCHANGED item

(* Mutant: an order confirmed by staff is not charged.                      *)
confirm_without_charge(w) ==
  /\ proc[w].at = "confirm"
  /\ status' = [status EXCEPT ![proc[w].k] = "confirmed"]
  /\ Goto(w, Idle)
  /\ UNCHANGED <<card, codes, item, issued>>

(* orderConfirm reads the status of the order, then writes it.              *)
order_confirm_read(w, k) ==
  /\ MayStart(w) /\ status[k] = "unconfirmed"
  /\ Goto(w, [at |-> "confirm", k |-> k])
  /\ UNCHANGED <<card, codes, item, status, issued>>

order_confirm_write(w) ==
  LET p == proc[w]
  IN /\ p.at = "confirm"
     /\ status' = [status EXCEPT ![p.k] = "confirmed"]
     /\ Goto(w, [at |-> "charge", k |-> p.k])
     /\ UNCHANGED <<card, codes, item, issued>>

(* charge_gift_card_transactions: the transactions to charge are loaded,    *)
charge_gift_card_transactions(w) ==
  LET p == proc[w]
      chargeable == {t \in Items : /\ item[t].of = p.k /\ item[t].card # NoCard
                                   /\ ~item[t].charge_requested
                                   /\ authorized_value(t) > 0 /\ charged_value(t) = 0}
  IN /\ p.at = "charge"
     /\ Goto(w, [at |-> "charge_next",
                 todo |-> {[t |-> t, c |-> item[t].card, amount |-> authorized_value(t)] :
                             t \in chargeable}])
     /\ UNCHANGED <<card, codes, item, status, issued>>

(* Mutant: the card pays what was first authorized.                         *)
charge_first_amount(w, row) ==
  LET ok == card[row.c].exists /\ item[row.t].amount <= card[row.c].current
  IN /\ item' = [item EXCEPT ![row.t].charge_requested = TRUE]
     /\ card' = IF ok THEN [card EXCEPT ![row.c].current = @ - item[row.t].amount] ELSE card
     /\ Goto(w, [at |-> "charge_event", t |-> row.t, amount |-> row.amount, ok |-> ok,
                 todo |-> proc[w].todo \ {row}])
     /\ UNCHANGED <<codes, status, issued>>

(* one after the other is requested, its card locked and charged,           *)
charge_gift_card(w, row) ==
  LET ok == card[row.c].exists /\ row.amount <= card[row.c].current
  IN /\ item' = [item EXCEPT ![row.t].charge_requested = TRUE]
     /\ card' = IF ok THEN [card EXCEPT ![row.c].current = @ - row.amount] ELSE card
     /\ Goto(w, [at |-> "charge_event", t |-> row.t, amount |-> row.amount, ok |-> ok,
                 todo |-> proc[w].todo \ {row}])
     /\ UNCHANGED <<codes, status, issued>>

(* and then the outcome recorded.                                           *)
create_charge_event(w) ==
  LET p == proc[w]
  IN /\ p.at = "charge_event"
     /\ item' = IF p.ok THEN [item EXCEPT ![p.t].charge = @ + p.amount, ![p.t].can_cancel = FALSE]
                ELSE [item EXCEPT ![p.t].charge_failed = TRUE]
     /\ Goto(w, [at |-> "charge_next", todo |-> p.todo])
     /\ UNCHANGED <<card, codes, status, issued>>

charges_done(w) ==
  /\ proc[w].at = "charge_next" /\ proc[w].todo = {}
  /\ Goto(w, Idle)
  /\ UNCHANGED <<card, codes, item, status, issued>>

-----------------------------------------------------------------------------
(* transactionRequestAction for a gift card transaction.  A request for an  *)
(* amount of zero, or to cancel what may not be canceled, leaves the        *)
(* amounts as they are.                                                     *)
cancel_gift_card_transaction(w, t, asked) ==
  LET amount == Min({asked, authorized_value(t)})
  IN /\ MayStart(w) /\ amount > 0
     /\ InCheckout(t) /\ item[t].can_cancel
     /\ item' = [item EXCEPT ![t].canceled = @ + amount,
                             ![t].can_cancel = amount < authorized_value(t)]
     /\ UNCHANGED <<card, codes, status, proc, issued>>

(* No app answers a charge of a gift card: the request fails and remains.   *)
request_charge_action(w, t) ==
  /\ MayStart(w) /\ authorized_value(t) > 0
  /\ item' = [item EXCEPT ![t].charge_requested = TRUE, ![t].charge_failed = TRUE]
  /\ UNCHANGED <<card, codes, status, proc, issued>>

(* A refund is limited by the amount charged when it is asked for,          *)
request_refund(w, t, asked) ==
  LET amount == Min({asked, charged_value(t)})
  IN /\ MayStart(w) /\ amount > 0
     /\ Goto(w, [at |-> "refund", t |-> t, c |-> item[t].card, amount |-> amount])
     /\ UNCHANGED <<card, codes, item, status, issued>>

(* added to the balance of the locked card, when there is one,              *)
refund_gift_card_transaction(w) ==
  LET p == proc[w]
      ok == p.c # NoCard /\ card[p.c].exists
  IN /\ p.at = "refund"
     /\ card' = IF ok THEN [card EXCEPT ![p.c].current = @ + p.amount] ELSE card
     /\ Goto(w, IF ok THEN [at |-> "refund_event", t |-> p.t, amount |-> p.amount] ELSE Idle)
     /\ UNCHANGED <<codes, item, status, issued>>

(* and recorded.                                                            *)
create_refund_event(w) ==
  LET p == proc[w]
  IN /\ p.at = "refund_event"
     /\ item' = [item EXCEPT ![p.t].refunded = @ + p.amount]
     /\ Goto(w, Idle)
     /\ UNCHANGED <<card, codes, status, issued>>

-----------------------------------------------------------------------------
(* Mutant: the new balance is not clamped.                                  *)
adjust_unclamped(c, amount) ==
  LET new == card[c].current + amount
  IN /\ card[c].exists /\ (Overlap \/ AllIdle) /\ new <= MaxBalance
     /\ card' = [card EXCEPT ![c].current = new, ![c].initial = Max({@, new})]
     /\ issued' = [issued EXCEPT ![c] = @ + new - card[c].current]
     /\ UNCHANGED <<codes, item, status, proc>>

(* giftCardBalanceAdjust: under the lock, and not below zero.               *)
gift_card_balance_adjust(c, amount) ==
  LET new == Max({card[c].current + amount, 0})
  IN /\ card[c].exists /\ (Overlap \/ AllIdle) /\ new <= MaxBalance
     /\ card' = [card EXCEPT ![c].current = new, ![c].initial = Max({@, new})]
     /\ issued' = [issued EXCEPT ![c] = @ + new - card[c].current]
     /\ UNCHANGED <<codes, item, status, proc>>

(* giftCardUpdate loads the row, with or without a new balance for it,      *)
gift_card_update_load(w, c, balance) ==
  /\ MayStart(w) /\ card[c].exists
  /\ Goto(w, IF balance = {} THEN [at |-> "update", c |-> c, reset |-> FALSE,
                                   current |-> card[c].current, initial |-> card[c].initial]
             ELSE [at |-> "update", c |-> c, reset |-> TRUE,
                   current |-> Max(balance), initial |-> Max(balance)])
  /\ UNCHANGED <<card, codes, item, status, issued>>

(* and saves all of it.                                                     *)
gift_card_update_save(w) ==
  LET p == proc[w]
  IN /\ p.at = "update"
     /\ card' = [card EXCEPT ![p.c].exists = TRUE,
                             ![p.c].current = p.current, ![p.c].initial = p.initial]
     /\ issued' = IF p.reset THEN [issued EXCEPT ![p.c] = @ + p.current - card[p.c].current]
                  ELSE issued
     /\ Goto(w, Idle)
     /\ UNCHANGED <<codes, item, status>>

(* giftCardDelete: the foreign keys to the card become null.                *)
gift_card_delete(c) ==
  /\ card[c].exists /\ (Overlap \/ AllIdle)
  /\ card' = [card EXCEPT ![c] = Deleted]
  /\ item' = [t \in Items |-> IF item[t].card = c THEN [item[t] EXCEPT !.card = NoCard]
                              ELSE item[t]]
  /\ codes' = [k \in Checkouts |-> codes[k] \ {c}]
  /\ UNCHANGED <<status, proc, issued>>

-----------------------------------------------------------------------------
Init ==
  /\ \E balance \in Amounts :
       /\ card = [c \in Cards |-> [exists |-> TRUE, current |-> balance, initial |-> balance]]
       /\ issued = [c \in Cards |-> balance]
  /\ codes = [k \in Checkouts |-> {}]
  /\ item = [t \in Items |-> Unused]
  /\ status = [k \in Checkouts |-> "checkout"]
  /\ proc = [w \in Workers |-> Idle]

Next ==
  \/ \E w \in Workers, t \in Items :
       \/ \E k \in Checkouts, c \in Cards, amount \in Amounts :
            transaction_initialize_session(w, t, k, c, amount)
       \/ request_charge_action(w, t)
       \/ \E amount \in Amounts :
            cancel_gift_card_transaction(w, t, amount) \/ request_refund(w, t, amount)
  \/ \E w \in Workers :
       \/ create_authorization_event(w) \/ create_charge_event(w) \/ create_refund_event(w)
       \/ charge_gift_card_transactions(w) \/ charges_done(w)
       \/ /\ proc[w].at = "charge_next"
          /\ \E row \in proc[w].todo : charge_gift_card(w, row)
       \/ refund_gift_card_transaction(w)
       \/ order_confirm_write(w) \/ gift_card_update_save(w)
       \/ \E k \in Checkouts :
            \/ order_confirm_read(w, k)
            \/ \E total \in Amounts, confirm \in BOOLEAN :
                 create_order_from_checkout(w, k, total, confirm)
       \/ \E c \in Cards, balance \in {{}} \cup {{a} : a \in Amounts} :
            gift_card_update_load(w, c, balance)
  \/ \E c \in Cards :
       \/ gift_card_delete(c)
       \/ \E amount \in Adjustments :
            gift_card_balance_adjust(c, amount) \/ gift_card_balance_adjust(c, -amount)
       \/ \E k \in Checkouts :
            \/ add_gift_card_code_to_checkout(k, c)
            \/ remove_gift_card_code_from_checkout(k, c)

Spec == Init /\ [][Next]_vars

-----------------------------------------------------------------------------
(* Rows and amounts are well formed, and a balance is never negative: the   *)
(* database constraint is a backstop no path needs.                         *)
TypeOK ==
  /\ \A c \in Cards : card[c].current \in Nat /\ card[c].initial \in Nat
  /\ \A t \in Items :
       /\ item[t].of \in Checkouts \cup {NoCheckout} /\ item[t].card \in Cards \cup {NoCard}
       /\ item[t].charge \in Nat /\ item[t].canceled \in Nat /\ item[t].refunded \in Nat
  /\ \A k \in Checkouts :
       codes[k] \subseteq Cards /\ status[k] \in {"checkout", "unconfirmed", "confirmed"}

(* The books of a card: between requests, what is on it and what            *)
(* transactions have charged to it, less refunds, is what staff put on it,  *)
(* less what orders took by its code.                                       *)
BooksBalance ==
  AllIdle => \A c \in Cards : card[c].exists =>
    card[c].current
      + SignedTotal([t \in Items |-> charged_value(t)], {t \in Items : item[t].card = c})
      = issued[c]

(* "ensure a single gift card does not authorize funds to more than a       *)
(* single checkout at the time"                                             *)
OneCheckoutAtATime ==
  \A c \in Cards :
    Cardinality({t \in Items : item[t].from = c /\ InCheckout(t) /\ authorized_value(t) > 0}) <= 1

(* Confirming an order takes the money: funds a confirmed order still shows *)
(* as authorized from a card that exists have a failed charge to say why    *)
(* ("If gift card cannot be found or has insufficient funds the charge      *)
(* request fails.").  A card deleted before leaves them with neither.       *)
ConfirmedOrdersAreSettled ==
  AllIdle => \A t \in Items :
    /\ item[t].of # NoCheckout /\ status[item[t].of] = "confirmed"
    /\ item[t].card # NoCard /\ authorized_value(t) > 0
    => item[t].charge_failed
=============================================================================
