------------------------------- MODULE Vouchers -------------------------------
(***************************************************************************)
(* How the uses of one voucher are counted.  A use is counted before the   *)
(* order exists: completing a checkout validates the voucher, counts the   *)
(* use on the code and marks the checkout (is_voucher_usage_increased),    *)
(* and only a later transaction places the order.  Between these           *)
(* transactions the payment may fail, the stock may be gone, the process   *)
(* may die, and the customer may try again or change the code.  Staff      *)
(* count uses too, for draft orders.                                       *)
(*                                                                         *)
(* A step is a transaction, or the part of one up to a read that no lock   *)
(* covers.  proc[w] holds what the request a worker serves has in memory.  *)
(***************************************************************************)
EXTENDS RowSums

CONSTANTS
  Workers,       \* processes that serve requests
  Checkouts, Drafts, Customers,
  Codes,         \* the codes of the voucher
  UsageLimits,   \* the usage limits the voucher may have; 0 is no limit
  Overlap        \* requests may be served at the same time

VARIABLES
  voucher,    \* [usage_limit, apply_once_per_customer, single_use, expired]
  include_draft_order_in_voucher_usage,   \* of the channel
  codes,      \* VoucherCode: [used, is_active, customers]
  email,      \* the customer of a checkout or a draft order
  checkout,   \* [state, code, increased]; of an order, the code it was given
  draft,      \* [state, code]
  proc

NoCode == "no code"
ASSUME NoCodeAssumption == NoCode \notin Codes
ASSUME UsageLimitsAssumption == UsageLimits \subseteq Nat
ASSUME TablesAssumption == IsFiniteSet(Codes) /\ IsFiniteSet(Checkouts) /\ IsFiniteSet(Drafts)

settings == <<include_draft_order_in_voucher_usage, email>>
vars == <<voucher, codes, checkout, draft, proc, settings>>

Idle == [at |-> "idle"]
Goto(w, p) == proc' = [proc EXCEPT ![w] = p]
NoRequest == Overlap \/ \A w \in Workers : proc[w] = Idle
LockedByOther(w, c) ==
  \E v \in Workers \ {w} : proc[v].at \in {"validate", "increase", "t_increase"} /\ proc[v].c = c

-----------------------------------------------------------------------------
TotalUsed == Total([k \in Codes |-> codes[k].used], Codes)
active(validate_usage_limit) ==
  /\ ~voucher.expired
  /\ validate_usage_limit => voucher.usage_limit = 0 \/ TotalUsed < voucher.usage_limit

(* The voucher and its code, found for a checkout with this code and mark.  *)
get_voucher_for_checkout(code, increased) ==
  code # NoCode /\ codes[code].is_active /\ (increased \/ active(TRUE))

CanIncrease(code, who, customer_usage) ==
  voucher.apply_once_per_customer /\ customer_usage => who \notin codes[code].customers

increase_voucher_usage(code, who, customer_usage) ==
  [codes EXCEPT ![code] =
    [used |-> IF voucher.usage_limit > 0 THEN @.used + 1 ELSE @.used,
     is_active |-> @.is_active /\ ~voucher.single_use,
     customers |-> IF voucher.apply_once_per_customer /\ customer_usage
                   THEN @.customers \cup {who} ELSE @.customers]]

(* Mutant: the use is taken back twice, and not only down to zero.          *)
release_voucher_code_usage_twice(code, who) ==
  [codes EXCEPT ![code] =
    [used |-> IF voucher.usage_limit > 0 THEN @.used - 2 ELSE @.used,
     is_active |-> @.is_active \/ voucher.single_use,
     customers |-> @.customers \ who]]

release_voucher_code_usage(code, who) ==
  [codes EXCEPT ![code] =
    [used |-> IF voucher.usage_limit > 0 /\ @.used > 0 THEN @.used - 1 ELSE @.used,
     is_active |-> @.is_active \/ voucher.single_use,
     customers |-> @.customers \ who]]

(* _increase_checkout_voucher_usage, with the mark the request remembers.   *)
increase_checkout_voucher_usage(c, code, increased) ==
  IF increased THEN UNCHANGED <<codes, checkout>>
  ELSE /\ codes' = increase_voucher_usage(code, email[c], TRUE)
       /\ checkout' = [checkout EXCEPT ![c].increased = TRUE]

(* _release_checkout_voucher_usage: without a code only the mark goes.      *)
release_checkout_voucher_usage(c, code, increased) ==
  IF ~increased THEN UNCHANGED <<codes, checkout>>
  ELSE /\ checkout' = [checkout EXCEPT ![c].increased = FALSE]
       /\ codes' = IF code = NoCode THEN codes
                   ELSE release_voucher_code_usage(code, {email[c]})

-----------------------------------------------------------------------------
(* The customer changes the code of the checkout; the mark stays.           *)
add_voucher_code_to_checkout(c, code) ==
  /\ NoRequest /\ checkout[c].state = "open"
  /\ codes[code].is_active /\ active(TRUE)
  /\ voucher.apply_once_per_customer => \A k \in Codes : email[c] \notin codes[k].customers
  /\ checkout' = [checkout EXCEPT ![c].code = code]
  /\ UNCHANGED <<voucher, codes, draft, proc, settings>>

remove_voucher_from_checkout(c) ==
  /\ NoRequest /\ checkout[c].state = "open" /\ checkout[c].code # NoCode
  /\ checkout' = [checkout EXCEPT ![c].code = NoCode]
  /\ UNCHANGED <<voucher, codes, draft, proc, settings>>

VoucherExpires ==
  /\ ~voucher.expired
  /\ voucher' = [voucher EXCEPT !.expired = TRUE]
  /\ UNCHANGED <<codes, checkout, draft, proc, settings>>

-----------------------------------------------------------------------------
(* complete_checkout_with_payment.  The first transaction locks the         *)
(* checkout and fetches it with its voucher.                                *)
Found(c) ==
  IF get_voucher_for_checkout(checkout[c].code, checkout[c].increased)
  THEN checkout[c].code ELSE NoCode

fetch_checkout(w, c) ==
  /\ proc[w] = Idle /\ NoRequest
  /\ checkout[c].state = "open" /\ ~LockedByOther(w, c)
  /\ Goto(w, [at |-> "validate", c |-> c, info |-> Found(c)])
  /\ UNCHANGED <<voucher, codes, checkout, draft, settings>>

(* Mutant: the voucher is taken as it is on the checkout.                   *)
process_voucher_unchecked(w) ==
  LET p == proc[w]
      code == checkout[p.c].code
  IN /\ p.at = "validate"
     /\ Goto(w, IF code = NoCode
                THEN [at |-> "pay", c |-> p.c, info |-> p.info, code |-> NoCode,
                      increased |-> checkout[p.c].increased]
                ELSE [at |-> "increase", c |-> p.c, info |-> p.info, code |-> code])
     /\ UNCHANGED <<voucher, codes, checkout, draft, settings>>

(* _process_voucher_data_for_order reads the voucher again before it locks  *)
(* the code: "Voucher expired in meantime. Order placement aborted."        *)
process_voucher_data_for_order(w) ==
  LET p == proc[w]
      code == checkout[p.c].code
  IN /\ p.at = "validate"
     /\ Goto(w, CASE code = NoCode ->
                       [at |-> "pay", c |-> p.c, info |-> p.info, code |-> NoCode,
                        increased |-> checkout[p.c].increased]
                  [] code # NoCode /\ Found(p.c) = NoCode -> Idle
                  [] OTHER -> [at |-> "increase", c |-> p.c, info |-> p.info, code |-> code])
     /\ UNCHANGED <<voucher, codes, checkout, draft, settings>>

(* The end of the first transaction; NotApplicable rolls back what it did.  *)
increase_usage(w) ==
  LET p == proc[w]
      refused == ~checkout[p.c].increased /\ ~CanIncrease(p.code, email[p.c], TRUE)
  IN /\ p.at = "increase"
     /\ IF refused THEN UNCHANGED <<codes, checkout>>
        ELSE increase_checkout_voucher_usage(p.c, p.code, checkout[p.c].increased)
     /\ Goto(w, IF refused THEN Idle
                ELSE [at |-> "pay", c |-> p.c, info |-> p.info, code |-> p.code,
                      increased |-> TRUE])
     /\ UNCHANGED <<voucher, draft, settings>>

(* preprocess_order_creation raises TaxError: the use counted in the same   *)
(* transaction is given back, if the checkout was fetched with its voucher. *)
increase_usage_then_tax_error(w) ==
  LET p == proc[w]
      fresh == ~checkout[p.c].increased
  IN /\ p.at = "increase"
     /\ fresh => CanIncrease(p.code, email[p.c], TRUE)
     /\ checkout' = [checkout EXCEPT ![p.c].increased = FALSE]
     /\ codes' = CASE p.info # NoCode /\ fresh -> codes
                   [] p.info = NoCode /\ fresh -> increase_voucher_usage(p.code, email[p.c], TRUE)
                   [] p.info # NoCode /\ ~fresh -> release_voucher_code_usage(p.code, {email[p.c]})
                   [] OTHER -> codes
     /\ Goto(w, Idle)
     /\ UNCHANGED <<voucher, draft, settings>>

(* The second transaction: the payment is processed.  A failed payment      *)
(* leaves the use counted; a payment that has become inactive releases the  *)
(* checkout and passes no code to release.                                  *)
process_payment(w, result) ==
  LET p == proc[w]
  IN /\ p.at = "pay" /\ ~LockedByOther(w, p.c)
     /\ Goto(w, IF checkout[p.c].state = "open" /\ result = "success"
                THEN [p EXCEPT !.at = "place"] ELSE Idle)
     /\ IF checkout[p.c].state = "open" /\ result = "inactive" /\ p.code # NoCode
        THEN release_checkout_voucher_usage(p.c, NoCode, p.increased)
        ELSE UNCHANGED <<codes, checkout>>
     /\ UNCHANGED <<voucher, draft, settings>>

(* The third transaction: complete_checkout_post_payment_part with the      *)
(* checkout fetched again.                                                  *)
place_order(w, result) ==
  LET p == proc[w]
      co == checkout[p.c]
      known == IF p.info # NoCode THEN p.info ELSE Found(p.c)
  IN /\ p.at = "place" /\ ~LockedByOther(w, p.c)
     /\ CASE co.state = "open" /\ result = "order" ->
               /\ checkout' = [checkout EXCEPT ![p.c] =
                    [state |-> "ordered", code |-> p.code, increased |-> FALSE]]
               /\ UNCHANGED codes
          [] co.state = "open" /\ result \in {"action_required", "insufficient_stock"} ->
               IF result = "insufficient_stock" /\ known = NoCode
               THEN UNCHANGED <<codes, checkout>>
               ELSE release_checkout_voucher_usage(p.c, known, co.increased)
          [] OTHER -> UNCHANGED <<codes, checkout>>   \* gone, or a refund is ongoing
     /\ Goto(w, Idle)
     /\ UNCHANGED <<voucher, draft, settings>>

-----------------------------------------------------------------------------
(* complete_checkout_with_transaction: the checkout is read without a lock  *)
(* and refused when its voucher is not applicable.                          *)
load_checkout(w, c) ==
  /\ proc[w] = Idle /\ NoRequest
  /\ checkout[c].state = "open"
  /\ checkout[c].code = Found(c)
  /\ Goto(w, [at |-> IF Found(c) = NoCode THEN "create" ELSE "t_validate",
              c |-> c, code |-> Found(c), increased |-> checkout[c].increased])
  /\ UNCHANGED <<voucher, codes, checkout, draft, settings>>

(* create_order_from_checkout, its first transaction: a voucher that is no  *)
(* longer found is passed over.                                             *)
lock_and_find_voucher(w) ==
  LET p == proc[w]
  IN /\ p.at = "t_validate" /\ ~LockedByOther(w, p.c)
     /\ Goto(w, CASE checkout[p.c].state # "open" -> Idle
                  [] checkout[p.c].state = "open"
                       /\ ~get_voucher_for_checkout(p.code, p.increased) ->
                       [p EXCEPT !.at = "create", !.code = NoCode]
                  [] OTHER -> [p EXCEPT !.at = "t_increase"])
     /\ UNCHANGED <<voucher, codes, checkout, draft, settings>>

increase_voucher_code_usage(w) ==
  LET p == proc[w]
      refused == ~p.increased /\ ~CanIncrease(p.code, email[p.c], TRUE)
  IN /\ p.at = "t_increase"
     /\ IF refused THEN UNCHANGED <<codes, checkout>>
        ELSE increase_checkout_voucher_usage(p.c, p.code, p.increased)
     /\ Goto(w, IF refused THEN Idle ELSE [p EXCEPT !.at = "create"])
     /\ UNCHANGED <<voucher, draft, settings>>

(* The second transaction.  When the stock is insufficient the fail handler *)
(* runs in the transaction that is rolled back: nothing changes.            *)
create_order_from_checkout(w, result) ==
  LET p == proc[w]
  IN /\ p.at = "create" /\ ~LockedByOther(w, p.c)
     /\ checkout' = IF checkout[p.c].state = "open" /\ result = "order"
                    THEN [checkout EXCEPT ![p.c] =
                           [state |-> "ordered", increased |-> FALSE,
                            code |-> IF p.code # NoCode THEN p.code ELSE Found(p.c)]]
                    ELSE checkout
     /\ Goto(w, Idle)
     /\ UNCHANGED <<voucher, codes, draft, settings>>

(* The process dies, or the customer goes away, between two transactions;   *)
(* a transaction that is open is rolled back.                               *)
RequestDies(w) ==
  /\ proc[w] # Idle /\ Goto(w, Idle)
  /\ UNCHANGED <<voucher, codes, checkout, draft, settings>>

-----------------------------------------------------------------------------
(* Draft orders: the voucher is validated in clean_input, then counted.     *)
clean_voucher_code(w, d, code) ==
  /\ proc[w] = Idle /\ NoRequest
  /\ draft[d].state \in {"none", "draft"}
  /\ codes[code].is_active /\ active(include_draft_order_in_voucher_usage)
  /\ Goto(w, [at |-> "save_draft", d |-> d, code |-> code])
  /\ UNCHANGED <<voucher, codes, checkout, draft, settings>>

(* draft_order_create and draft_order_update with a voucher: the use of a   *)
(* code it replaces is not given back.                                      *)
handle_order_voucher(w) ==
  LET p == proc[w]
  IN /\ p.at = "save_draft" /\ draft[p.d].state \in {"none", "draft"}
     /\ draft' = [draft EXCEPT ![p.d] = [state |-> "draft", code |-> p.code]]
     /\ codes' = IF include_draft_order_in_voucher_usage
                 THEN increase_voucher_usage(p.code, email[p.d], FALSE) ELSE codes
     /\ Goto(w, Idle)
     /\ UNCHANGED <<voucher, checkout, settings>>

StaffOn(d) == NoRequest /\ draft[d].state = "draft" /\ draft[d].code # NoCode

(* draft_order_update without a voucher: "user_email is None as we do not   *)
(* have anything to release in terms of apply once per customer".           *)
remove_draft_voucher(d) ==
  /\ StaffOn(d)
  /\ draft' = [draft EXCEPT ![d].code = NoCode]
  /\ codes' = IF include_draft_order_in_voucher_usage
              THEN release_voucher_code_usage(draft[d].code, {}) ELSE codes
  /\ UNCHANGED <<voucher, checkout, proc, settings>>

draft_order_delete(d) ==
  /\ StaffOn(d)
  /\ draft' = [draft EXCEPT ![d] = [state |-> "deleted", code |-> NoCode]]
  /\ codes' = IF include_draft_order_in_voucher_usage
              THEN release_voucher_code_usage(draft[d].code, {email[d]}) ELSE codes
  /\ UNCHANGED <<voucher, checkout, proc, settings>>

draft_order_complete(d) ==
  LET code == draft[d].code
      once == voucher.apply_once_per_customer /\ include_draft_order_in_voucher_usage
  IN /\ StaffOn(d)
     /\ once => email[d] \notin codes[code].customers
     /\ draft' = [draft EXCEPT ![d].state = "ordered"]
     /\ codes' = [codes EXCEPT ![code].customers = IF once THEN @ \cup {email[d]} ELSE @,
                               ![code].is_active = @ /\ ~voucher.single_use]
     /\ UNCHANGED <<voucher, checkout, proc, settings>>

-----------------------------------------------------------------------------
Init ==
  /\ voucher \in [usage_limit : UsageLimits, apply_once_per_customer : BOOLEAN,
                  single_use : BOOLEAN, expired : {FALSE}]
  /\ include_draft_order_in_voucher_usage \in BOOLEAN
  /\ codes = [k \in Codes |-> [used |-> 0, is_active |-> TRUE, customers |-> {}]]
  /\ email \in [Checkouts \cup Drafts -> Customers]
  /\ checkout = [c \in Checkouts |-> [state |-> "open", code |-> NoCode, increased |-> FALSE]]
  /\ draft = [d \in Drafts |-> [state |-> "none", code |-> NoCode]]
  /\ proc = [w \in Workers |-> Idle]

Next ==
  \/ VoucherExpires
  \/ \E c \in Checkouts :
       \/ \E code \in Codes : add_voucher_code_to_checkout(c, code)
       \/ remove_voucher_from_checkout(c)
       \/ \E w \in Workers : fetch_checkout(w, c) \/ load_checkout(w, c)
  \/ \E w \in Workers :
       \/ process_voucher_data_for_order(w)
       \/ increase_usage(w) \/ increase_usage_then_tax_error(w)
       \/ \E result \in {"success", "failed", "inactive"} : process_payment(w, result)
       \/ \E result \in {"order", "action_required", "insufficient_stock", "refunding"} :
            place_order(w, result)
       \/ lock_and_find_voucher(w) \/ increase_voucher_code_usage(w)
       \/ \E result \in {"order", "insufficient_stock"} : create_order_from_checkout(w, result)
       \/ RequestDies(w)
       \/ \E d \in Drafts, code \in Codes : clean_voucher_code(w, d, code)
       \/ handle_order_voucher(w)
  \/ \E d \in Drafts : remove_draft_voucher(d) \/ draft_order_delete(d) \/ draft_order_complete(d)

Spec == Init /\ [][Next]_vars

-----------------------------------------------------------------------------
(* The tables hold what the code can have written to them.                  *)
TypeOK ==
  /\ codes \in [Codes -> [used : Nat, is_active : BOOLEAN, customers : SUBSET Customers]]
  /\ checkout \in [Checkouts -> [state : {"open", "ordered"}, code : Codes \cup {NoCode},
                                 increased : BOOLEAN]]
  /\ draft \in [Drafts -> [state : {"none", "draft", "ordered", "deleted"},
                           code : Codes \cup {NoCode}]]

OrdersWith(code) ==
  {c \in Checkouts : checkout[c].state = "ordered" /\ checkout[c].code = code}
DraftsWith(code) ==
  {d \in Drafts : draft[d].state \in {"draft", "ordered"} /\ draft[d].code = code}

Counted ==
  Cardinality(UNION {OrdersWith(k) : k \in Codes})
    + (IF include_draft_order_in_voucher_usage
       THEN Cardinality(UNION {DraftsWith(k) : k \in Codes}) ELSE 0)

(* Every order with the voucher has been counted and none is forgotten, so  *)
(* the usage limit of the voucher holds over all its codes, whatever fails, *)
(* is tried again or is given up in between.                                *)
OrdersAreCounted ==
  voucher.usage_limit > 0 =>
    Counted <= TotalUsed /\ TotalUsed <= voucher.usage_limit

(* "When set to 'True', each voucher code can be used only once": a code of *)
(* a single-use voucher serves one order, or one draft order.               *)
SingleUse ==
  voucher.single_use /\ include_draft_order_in_voucher_usage =>
    \A k \in Codes : Cardinality(OrdersWith(k)) + Cardinality(DraftsWith(k)) <= 1
=============================================================================
