---------------------------- MODULE VouchersProofs ----------------------------
(***************************************************************************)
(* Theorems about Vouchers for every number of workers, checkouts, draft   *)
(* orders, codes and customers and every usage limit.                      *)
(*                                                                         *)
(* The tables are well formed whatever overlaps.  That every order is      *)
(* counted within the limit needs requests to follow one another (Overlap  *)
(* = FALSE): a request judges the voucher in one step and counts the use   *)
(* in a later one.                                                         *)
(***************************************************************************)
EXTENDS Vouchers, RowSumsProofs, TLAPS

CodeOrNone == Codes \cup {NoCode}
CodeRow == [used : Nat, is_active : BOOLEAN, customers : SUBSET Customers]
CheckoutRow == [state : {"open", "ordered"}, code : CodeOrNone, increased : BOOLEAN]
DraftRow == [state : {"none", "draft", "ordered", "deleted"}, code : CodeOrNone]

(* What a request has in memory, by where it is.                            *)
ValidateRequest == [at : {"validate"}, c : Checkouts, info : CodeOrNone]
IncreaseRequest == [at : {"increase"}, c : Checkouts, info : CodeOrNone, code : Codes]
PayRequest ==
  [at : {"pay", "place"}, c : Checkouts, info : CodeOrNone, code : CodeOrNone,
   increased : BOOLEAN]
TransactionRequest ==
  [at : {"t_validate", "t_increase"}, c : Checkouts, code : Codes, increased : BOOLEAN]
CreateRequest == [at : {"create"}, c : Checkouts, code : CodeOrNone, increased : BOOLEAN]
DraftRequest == [at : {"save_draft"}, d : Drafts, code : Codes]

Request ==
  {Idle} \cup ValidateRequest \cup IncreaseRequest \cup PayRequest
    \cup TransactionRequest \cup CreateRequest \cup DraftRequest

Typed ==
  /\ voucher \in [usage_limit : UsageLimits, apply_once_per_customer : BOOLEAN,
                  single_use : BOOLEAN, expired : BOOLEAN]
  /\ include_draft_order_in_voucher_usage \in BOOLEAN
  /\ email \in [Checkouts \cup Drafts -> Customers]
  /\ TypeOK
  /\ proc \in [Workers -> Request]

-----------------------------------------------------------------------------
(* What the place of a request says of its contents.                        *)
LEMMA RequestContents ==
  ASSUME NEW p \in Request
  PROVE  /\ p.at = "idle" <=> p = Idle
         /\ p.at = "validate" => p \in ValidateRequest
         /\ p.at = "increase" => p \in IncreaseRequest
         /\ p.at \in {"pay", "place"} => p \in PayRequest
         /\ p.at \in {"t_validate", "t_increase"} => p \in TransactionRequest
         /\ p.at = "create" => p \in CreateRequest
         /\ p.at = "save_draft" => p \in DraftRequest
BY DEF Request, Idle, ValidateRequest, IncreaseRequest, PayRequest,
       TransactionRequest, CreateRequest, DraftRequest

(* Total uses of a table of codes.                                          *)
UsedIn(cs) == Total([k \in Codes |-> cs[k].used], Codes)

LEMMA UsedInType ==
  ASSUME NEW cs \in [Codes -> CodeRow]
  PROVE  UsedIn(cs) \in Nat
<1>1. \A k \in Codes : [j \in Codes |-> cs[j].used][k] \in Int
  BY DEF CodeRow
<1> QED BY <1>1, TotalType, TablesAssumption DEF UsedIn

LEMMA OneCodeChanges ==
  ASSUME NEW cs \in [Codes -> CodeRow], NEW code \in Codes, NEW row \in CodeRow
  PROVE  /\ [cs EXCEPT ![code] = row] \in [Codes -> CodeRow]
         /\ UsedIn([cs EXCEPT ![code] = row]) = UsedIn(cs) - cs[code].used + row.used
<1> DEFINE new == [cs EXCEPT ![code] = row]
           f == [k \in Codes |-> cs[k].used]
           g == [k \in Codes |-> new[k].used]
<1>1. new \in [Codes -> CodeRow]
  OBVIOUS
<1>2. \A k \in Codes : f[k] \in Nat /\ g[k] \in Nat
  BY <1>1 DEF CodeRow
<1>3. f[code] = cs[code].used /\ g[code] = row.used
  OBVIOUS
<1>4. \A k \in Codes \ {code} : f[k] = g[k]
  OBVIOUS
<1>5. UsedIn(cs) = Total(f, Codes) /\ UsedIn(new) = Total(g, Codes)
  BY DEF UsedIn
<1> HIDE DEF f, g, new
<1>6. Total(f, Codes \ {code}) = Total(g, Codes \ {code})
  BY <1>4, TotalSame
<1>7. /\ Total(f, Codes \ {code}) \in Nat
      /\ Total(f, Codes) = Total(f, Codes \ {code}) + (IF f[code] > 0 THEN f[code] ELSE 0)
  BY <1>2, TotalWithout, TablesAssumption
<1>8. Total(g, Codes) = Total(g, Codes \ {code}) + (IF g[code] > 0 THEN g[code] ELSE 0)
  BY <1>2, TotalWithout, TablesAssumption
<1>9. /\ Total(f, Codes) = Total(f, Codes \ {code}) + f[code]
      /\ Total(g, Codes) = Total(g, Codes \ {code}) + g[code]
  BY <1>2, <1>7, <1>8
<1>10. UsedIn(new) = UsedIn(cs) - cs[code].used + row.used
  BY <1>2, <1>3, <1>5, <1>6, <1>7, <1>9
<1> QED BY <1>1, <1>10 DEF new

(* Counting a use adds one to the uses of a limited voucher.                *)
LEMMA Increasing ==
  ASSUME Typed, NEW code \in Codes, NEW who \in Customers, NEW customer_usage \in BOOLEAN
  PROVE  /\ increase_voucher_usage(code, who, customer_usage) \in [Codes -> CodeRow]
         /\ voucher.usage_limit > 0 =>
              UsedIn(increase_voucher_usage(code, who, customer_usage)) = UsedIn(codes) + 1
<1> DEFINE row == [used |-> IF voucher.usage_limit > 0 THEN codes[code].used + 1 ELSE codes[code].used,
                   is_active |-> codes[code].is_active /\ ~voucher.single_use,
                   customers |-> IF voucher.apply_once_per_customer /\ customer_usage
                                 THEN codes[code].customers \cup {who} ELSE codes[code].customers]
<1>1. codes \in [Codes -> CodeRow] /\ codes[code] \in CodeRow
  BY DEF Typed, TypeOK, CodeRow
<1>2. /\ codes[code].used \in Nat /\ codes[code].is_active \in BOOLEAN
      /\ codes[code].customers \in SUBSET Customers
  BY <1>1 DEF CodeRow
<1>3. row.used \in Nat /\ row.is_active \in BOOLEAN /\ row.customers \in SUBSET Customers
  BY <1>2
<1>4. row \in CodeRow
  BY <1>3 DEF CodeRow
<1>5. increase_voucher_usage(code, who, customer_usage) = [codes EXCEPT ![code] = row]
  BY DEF increase_voucher_usage
<1>6. voucher.usage_limit > 0 => row.used = codes[code].used + 1
  OBVIOUS
<1> HIDE DEF row
<1>7. UsedIn(codes) \in Nat
  BY <1>1, UsedInType
<1>8. /\ [codes EXCEPT ![code] = row] \in [Codes -> CodeRow]
      /\ UsedIn([codes EXCEPT ![code] = row]) = UsedIn(codes) - codes[code].used + row.used
  BY <1>1, <1>4, OneCodeChanges
<1> QED BY <1>2, <1>5, <1>6, <1>7, <1>8

(* Giving a use back takes at most one away.                                *)
LEMMA Releasing ==
  ASSUME Typed, NEW code \in Codes, NEW who \in SUBSET Customers
  PROVE  /\ release_voucher_code_usage(code, who) \in [Codes -> CodeRow]
         /\ UsedIn(release_voucher_code_usage(code, who)) <= UsedIn(codes)
         /\ UsedIn(codes) <= UsedIn(release_voucher_code_usage(code, who)) + 1
<1> DEFINE row == [used |-> IF voucher.usage_limit > 0 /\ codes[code].used > 0
                            THEN codes[code].used - 1 ELSE codes[code].used,
                   is_active |-> codes[code].is_active \/ voucher.single_use,
                   customers |-> codes[code].customers \ who]
<1>1. codes \in [Codes -> CodeRow] /\ codes[code] \in CodeRow
  BY DEF Typed, TypeOK, CodeRow
<1>2. /\ codes[code].used \in Nat /\ codes[code].is_active \in BOOLEAN
      /\ codes[code].customers \in SUBSET Customers
  BY <1>1 DEF CodeRow
<1>3. /\ row.used \in Nat /\ row.is_active \in BOOLEAN /\ row.customers \in SUBSET Customers
      /\ row.used <= codes[code].used /\ codes[code].used <= row.used + 1
  BY <1>2
<1>4. row \in CodeRow
  BY <1>3 DEF CodeRow
<1>5. release_voucher_code_usage(code, who) = [codes EXCEPT ![code] = row]
  BY DEF release_voucher_code_usage
<1> HIDE DEF row
<1>7. UsedIn(codes) \in Nat
  BY <1>1, UsedInType
<1>8. /\ [codes EXCEPT ![code] = row] \in [Codes -> CodeRow]
      /\ UsedIn([codes EXCEPT ![code] = row]) = UsedIn(codes) - codes[code].used + row.used
  BY <1>1, <1>4, OneCodeChanges
<1> QED BY <1>2, <1>3, <1>5, <1>7, <1>8

LEMMA FoundType ==
  ASSUME Typed, NEW c \in Checkouts
  PROVE  /\ Found(c) \in CodeOrNone
         /\ Found(c) # NoCode => Found(c) = checkout[c].code
         /\ checkout[c].code \in CodeOrNone /\ checkout[c].increased \in BOOLEAN
BY DEF Typed, TypeOK, Found, CodeOrNone

LEMMA InitTyped == Init => Typed
<1> SUFFICES ASSUME Init PROVE Typed
  OBVIOUS
<1>1. codes \in [Codes -> [used : Nat, is_active : BOOLEAN, customers : SUBSET Customers]]
  BY DEF Init
<1>2. TypeOK
  BY <1>1 DEF Init, TypeOK
<1>3. proc \in [Workers -> Request]
  BY DEF Init, Request
<1> QED BY <1>2, <1>3 DEF Init, Typed

(* A row of one checkout is rewritten.                                      *)
LEMMA OneCheckoutChanges ==
  ASSUME Typed, NEW c \in Checkouts, NEW row \in CheckoutRow
  PROVE  [checkout EXCEPT ![c] = row] \in [Checkouts -> CheckoutRow]
BY DEF Typed, TypeOK, CheckoutRow, CodeOrNone

LEMMA MarkType ==
  ASSUME Typed, NEW c \in Checkouts, NEW b \in BOOLEAN
  PROVE  [checkout EXCEPT ![c].increased = b] \in [Checkouts -> CheckoutRow]
BY DEF Typed, TypeOK, CheckoutRow, CodeOrNone

(* The helper that releases the use of a checkout keeps the tables typed,   *)
LEMMA ReleasingCheckout ==
  ASSUME Typed, NEW c \in Checkouts, NEW code \in CodeOrNone, NEW increased \in BOOLEAN,
         release_checkout_voucher_usage(c, code, increased)
  PROVE  /\ codes' \in [Codes -> CodeRow] /\ checkout' \in [Checkouts -> CheckoutRow]
<1>1. codes \in [Codes -> CodeRow] /\ checkout \in [Checkouts -> CheckoutRow]
  BY DEF Typed, TypeOK, CodeRow, CheckoutRow, CodeOrNone
<1>2. UsedIn(codes) \in Nat
  BY <1>1, UsedInType
<1>3. email[c] \in Customers
  BY DEF Typed
<1>4. CASE ~increased
  BY <1>1, <1>2, <1>4 DEF release_checkout_voucher_usage
<1>5. CASE increased
  <2>1. /\ checkout' = [checkout EXCEPT ![c].increased = FALSE]
        /\ codes' = IF code = NoCode THEN codes ELSE release_voucher_code_usage(code, {email[c]})
    BY <1>5 DEF release_checkout_voucher_usage
  <2>2. checkout' \in [Checkouts -> CheckoutRow]
    BY <2>1, MarkType
  <2>3. CASE code = NoCode
    BY <1>1, <1>2, <1>5, <2>1, <2>2, <2>3
  <2>4. CASE code \in Codes /\ code # NoCode
    BY <1>3, <1>5, <2>1, <2>2, <2>4, Releasing
  <2> QED BY <2>3, <2>4 DEF CodeOrNone
<1> QED BY <1>4, <1>5

(* and so does the one that counts it.                                      *)
LEMMA IncreasingCheckout ==
  ASSUME Typed, NEW c \in Checkouts, NEW code \in Codes, NEW increased \in BOOLEAN,
         increase_checkout_voucher_usage(c, code, increased)
  PROVE  /\ codes' \in [Codes -> CodeRow] /\ checkout' \in [Checkouts -> CheckoutRow]
<1>1. codes \in [Codes -> CodeRow] /\ checkout \in [Checkouts -> CheckoutRow]
  BY DEF Typed, TypeOK, CodeRow, CheckoutRow, CodeOrNone
<1>2. email[c] \in Customers
  BY DEF Typed
<1>3. CASE increased
  BY <1>1, <1>3 DEF increase_checkout_voucher_usage
<1>4. CASE ~increased
  <2>1. /\ checkout' = [checkout EXCEPT ![c].increased = TRUE]
        /\ codes' = increase_voucher_usage(code, email[c], TRUE)
    BY <1>4 DEF increase_checkout_voucher_usage
  <2>2. checkout' \in [Checkouts -> CheckoutRow]
    BY <2>1, MarkType
  <2> QED BY <1>2, <1>4, <2>1, <2>2, Increasing
<1> QED BY <1>3, <1>4

(* A step that keeps the settings has only its tables to show well formed.  *)
LEMMA TablesSuffice ==
  ASSUME Typed, UNCHANGED <<voucher, settings>>,
         codes' \in [Codes -> CodeRow], checkout' \in [Checkouts -> CheckoutRow],
         draft' \in [Drafts -> DraftRow], proc' \in [Workers -> Request]
  PROVE  Typed'
BY DEF Typed, TypeOK, CodeRow, CheckoutRow, DraftRow, CodeOrNone, settings

LEMMA GotoType ==
  ASSUME Typed, NEW w \in Workers, NEW p \in Request, Goto(w, p)
  PROVE  proc' \in [Workers -> Request]
BY DEF Typed, Goto

LEMMA StepTyped == Typed /\ [Next]_vars => Typed'
<1> SUFFICES ASSUME Typed, [Next]_vars PROVE Typed'
  OBVIOUS
<1>t. /\ codes \in [Codes -> CodeRow] /\ checkout \in [Checkouts -> CheckoutRow]
      /\ draft \in [Drafts -> DraftRow] /\ proc \in [Workers -> Request]
  BY DEF Typed, TypeOK, CodeRow, CheckoutRow, DraftRow, CodeOrNone
<1>i. Idle \in Request
  BY DEF Request
<1>e. \A x \in Checkouts \cup Drafts : email[x] \in Customers
  BY DEF Typed
<1>1. CASE VoucherExpires
  BY <1>1, <1>t DEF VoucherExpires, Typed, TypeOK, settings
<1>2. CASE \E c \in Checkouts, code \in Codes : add_voucher_code_to_checkout(c, code)
  <2> PICK c \in Checkouts, code \in Codes : add_voucher_code_to_checkout(c, code)
    BY <1>2
  <2>1. checkout' \in [Checkouts -> CheckoutRow]
    BY <1>t DEF add_voucher_code_to_checkout, CheckoutRow, CodeOrNone
  <2> QED BY <1>t, <2>1, TablesSuffice DEF add_voucher_code_to_checkout
<1>3. CASE \E c \in Checkouts : remove_voucher_from_checkout(c)
  <2> PICK c \in Checkouts : remove_voucher_from_checkout(c)
    BY <1>3
  <2>1. checkout' \in [Checkouts -> CheckoutRow]
    BY <1>t DEF remove_voucher_from_checkout, CheckoutRow, CodeOrNone
  <2> QED BY <1>t, <2>1, TablesSuffice DEF remove_voucher_from_checkout
<1>4. CASE \E c \in Checkouts, w \in Workers : fetch_checkout(w, c)
  <2> PICK c \in Checkouts, w \in Workers : fetch_checkout(w, c)
    BY <1>4
  <2> DEFINE p == [at |-> "validate", c |-> c, info |-> Found(c)]
  <2>1. p \in Request
    BY FoundType DEF Request, ValidateRequest
  <2>2. Goto(w, p) /\ UNCHANGED <<voucher, codes, checkout, draft, settings>>
    BY DEF fetch_checkout
  <2> HIDE DEF p
  <2> QED BY <1>t, <2>1, <2>2, GotoType, TablesSuffice
<1>5. CASE \E c \in Checkouts, w \in Workers : load_checkout(w, c)
  <2> PICK c \in Checkouts, w \in Workers : load_checkout(w, c)
    BY <1>5
  <2> DEFINE p == [at |-> IF Found(c) = NoCode THEN "create" ELSE "t_validate",
                   c |-> c, code |-> Found(c), increased |-> checkout[c].increased]
  <2>1. p \in Request
    <3>1. Found(c) \in CodeOrNone /\ checkout[c].increased \in BOOLEAN
      BY FoundType
    <3>2. CASE Found(c) = NoCode
      <4>1. p \in CreateRequest
        BY <3>1, <3>2 DEF CreateRequest
      <4> HIDE DEF p
      <4> QED BY <4>1 DEF Request
    <3>3. CASE Found(c) # NoCode
      <4>1. p \in TransactionRequest
        BY <3>1, <3>3 DEF TransactionRequest, CodeOrNone
      <4> HIDE DEF p
      <4> QED BY <4>1 DEF Request
    <3> QED BY <3>2, <3>3
  <2>2. Goto(w, p) /\ UNCHANGED <<voucher, codes, checkout, draft, settings>>
    BY DEF load_checkout
  <2> HIDE DEF p
  <2> QED BY <1>t, <2>1, <2>2, GotoType, TablesSuffice
<1>6. CASE \E w \in Workers : process_voucher_data_for_order(w)
  <2> PICK w \in Workers : process_voucher_data_for_order(w)
    BY <1>6
  <2> DEFINE p == proc[w]
             code == checkout[p.c].code
             pay == [at |-> "pay", c |-> p.c, info |-> p.info, code |-> NoCode,
                     increased |-> checkout[p.c].increased]
             inc == [at |-> "increase", c |-> p.c, info |-> p.info, code |-> code]
  <2>1. p \in ValidateRequest
    BY <1>t, RequestContents DEF process_voucher_data_for_order
  <2>2. p.c \in Checkouts /\ p.info \in CodeOrNone
    BY <2>1 DEF ValidateRequest
  <2>3. code \in CodeOrNone /\ checkout[p.c].increased \in BOOLEAN
    BY <2>2, FoundType
  <2>4. pay \in PayRequest
    BY <2>2, <2>3 DEF PayRequest, CodeOrNone
  <2>5. code # NoCode => inc \in IncreaseRequest
    BY <2>2, <2>3 DEF IncreaseRequest, CodeOrNone
  <2>6. \/ Goto(w, pay) \/ Goto(w, Idle)
        \/ code # NoCode /\ Goto(w, inc)
    BY DEF process_voucher_data_for_order
  <2>7. UNCHANGED <<voucher, codes, checkout, draft, settings>>
    BY DEF process_voucher_data_for_order
  <2> HIDE DEF p, code, pay, inc
  <2>8. \E q \in Request : Goto(w, q)
    BY <1>i, <2>4, <2>5, <2>6 DEF Request
  <2> QED BY <1>t, <2>7, <2>8, GotoType, TablesSuffice
<1>7. CASE \E w \in Workers : increase_usage(w)
  <2> PICK w \in Workers : increase_usage(w)
    BY <1>7
  <2> DEFINE p == proc[w]
             refused == ~checkout[p.c].increased /\ ~CanIncrease(p.code, email[p.c], TRUE)
             pay == [at |-> "pay", c |-> p.c, info |-> p.info, code |-> p.code, increased |-> TRUE]
  <2>1. p \in IncreaseRequest
    BY <1>t, RequestContents DEF increase_usage
  <2>2. p.c \in Checkouts /\ p.info \in CodeOrNone /\ p.code \in Codes
    BY <2>1 DEF IncreaseRequest
  <2>3. pay \in PayRequest
    BY <2>2 DEF PayRequest, CodeOrNone
  <2>4. /\ IF refused THEN UNCHANGED <<codes, checkout>>
           ELSE increase_checkout_voucher_usage(p.c, p.code, checkout[p.c].increased)
        /\ Goto(w, IF refused THEN Idle ELSE pay)
        /\ UNCHANGED <<voucher, draft, settings>>
    BY DEF increase_usage
  <2>5. checkout[p.c].increased \in BOOLEAN
    BY <2>2, FoundType
  <2> HIDE DEF p, refused, pay
  <2>6. codes' \in [Codes -> CodeRow] /\ checkout' \in [Checkouts -> CheckoutRow]
    BY <1>t, <2>2, <2>4, <2>5, IncreasingCheckout
  <2>7. \E q \in Request : Goto(w, q)
    BY <1>i, <2>3, <2>4 DEF Request
  <2> QED BY <1>t, <2>4, <2>6, <2>7, GotoType, TablesSuffice
<1>8. CASE \E w \in Workers : increase_usage_then_tax_error(w)
  <2> PICK w \in Workers : increase_usage_then_tax_error(w)
    BY <1>8
  <2> DEFINE p == proc[w]
  <2>1. p \in IncreaseRequest
    BY <1>t, RequestContents DEF increase_usage_then_tax_error
  <2>2. p.c \in Checkouts /\ p.info \in CodeOrNone /\ p.code \in Codes /\ email[p.c] \in Customers
    BY <1>e, <2>1 DEF IncreaseRequest
  <2>3. /\ checkout' = [checkout EXCEPT ![p.c].increased = FALSE]
        /\ codes' \in {codes, increase_voucher_usage(p.code, email[p.c], TRUE),
                       release_voucher_code_usage(p.code, {email[p.c]})}
        /\ Goto(w, Idle) /\ UNCHANGED <<voucher, draft, settings>>
    BY DEF increase_usage_then_tax_error
  <2> HIDE DEF p
  <2>4. codes' \in [Codes -> CodeRow]
    <3>1. increase_voucher_usage(p.code, email[p.c], TRUE) \in [Codes -> CodeRow]
      BY <2>2, Increasing
    <3>2. release_voucher_code_usage(p.code, {email[p.c]}) \in [Codes -> CodeRow]
      BY <2>2, Releasing
    <3> QED BY <1>t, <2>3, <3>1, <3>2
  <2>5. checkout' \in [Checkouts -> CheckoutRow]
    BY <2>2, <2>3, MarkType
  <2> QED BY <1>t, <1>i, <2>3, <2>4, <2>5, GotoType, TablesSuffice
<1>9. CASE \E w \in Workers : \E result \in {"success", "failed", "inactive"} : process_payment(w, result)
  <2> PICK w \in Workers, result \in {"success", "failed", "inactive"} : process_payment(w, result)
    BY <1>9
  <2> DEFINE p == proc[w]
             place == [p EXCEPT !.at = "place"]
  <2>1. p \in PayRequest
    BY <1>t, RequestContents DEF process_payment
  <2>2. p.c \in Checkouts /\ p.increased \in BOOLEAN /\ place \in PayRequest
    BY <2>1 DEF PayRequest
  <2>3. /\ Goto(w, place) \/ Goto(w, Idle)
        /\ \/ release_checkout_voucher_usage(p.c, NoCode, p.increased)
           \/ UNCHANGED <<codes, checkout>>
        /\ UNCHANGED <<voucher, draft, settings>>
    BY DEF process_payment
  <2> HIDE DEF p, place
  <2>4. codes' \in [Codes -> CodeRow] /\ checkout' \in [Checkouts -> CheckoutRow]
    BY <1>t, <2>2, <2>3, ReleasingCheckout DEF CodeOrNone
  <2>5. \E q \in Request : Goto(w, q)
    BY <1>i, <2>2, <2>3 DEF Request
  <2> QED BY <1>t, <2>3, <2>4, <2>5, GotoType, TablesSuffice
<1>10. CASE \E w \in Workers : \E result \in {"order", "action_required", "insufficient_stock", "refunding"} :
              place_order(w, result)
  <2> PICK w \in Workers, result \in {"order", "action_required", "insufficient_stock", "refunding"} :
             place_order(w, result)
    BY <1>10
  <2> DEFINE p == proc[w]
             known == IF p.info # NoCode THEN p.info ELSE Found(p.c)
             row == [state |-> "ordered", code |-> p.code, increased |-> FALSE]
  <2>1. p \in PayRequest
    BY <1>t, RequestContents DEF place_order
  <2>2. p.c \in Checkouts /\ p.info \in CodeOrNone /\ p.code \in CodeOrNone
    BY <2>1 DEF PayRequest
  <2>3. known \in CodeOrNone /\ checkout[p.c].increased \in BOOLEAN
    BY <2>2, FoundType
  <2>4. row \in CheckoutRow
    BY <2>2 DEF CheckoutRow
  <2>5. /\ \/ checkout' = [checkout EXCEPT ![p.c] = row] /\ UNCHANGED codes
           \/ release_checkout_voucher_usage(p.c, known, checkout[p.c].increased)
           \/ UNCHANGED <<codes, checkout>>
        /\ Goto(w, Idle) /\ UNCHANGED <<voucher, draft, settings>>
    BY DEF place_order
  <2> HIDE DEF p, known, row
  <2>6. codes' \in [Codes -> CodeRow] /\ checkout' \in [Checkouts -> CheckoutRow]
    BY <1>t, <2>2, <2>3, <2>4, <2>5, ReleasingCheckout, OneCheckoutChanges
  <2> QED BY <1>t, <1>i, <2>5, <2>6, GotoType, TablesSuffice
<1>11. CASE \E w \in Workers : lock_and_find_voucher(w)
  <2> PICK w \in Workers : lock_and_find_voucher(w)
    BY <1>11
  <2> DEFINE p == proc[w]
             create == [p EXCEPT !.at = "create", !.code = NoCode]
             inc == [p EXCEPT !.at = "t_increase"]
  <2>1. p \in TransactionRequest
    BY <1>t, RequestContents DEF lock_and_find_voucher
  <2>2. create \in CreateRequest /\ inc \in TransactionRequest
    BY <2>1 DEF TransactionRequest, CreateRequest, CodeOrNone
  <2>3. /\ Goto(w, create) \/ Goto(w, inc) \/ Goto(w, Idle)
        /\ UNCHANGED <<voucher, codes, checkout, draft, settings>>
    BY DEF lock_and_find_voucher
  <2> HIDE DEF p, create, inc
  <2>4. \E q \in Request : Goto(w, q)
    BY <1>i, <2>2, <2>3 DEF Request
  <2> QED BY <1>t, <2>3, <2>4, GotoType, TablesSuffice
<1>12. CASE \E w \in Workers : increase_voucher_code_usage(w)
  <2> PICK w \in Workers : increase_voucher_code_usage(w)
    BY <1>12
  <2> DEFINE p == proc[w]
             create == [p EXCEPT !.at = "create"]
  <2>1. p \in TransactionRequest
    BY <1>t, RequestContents DEF increase_voucher_code_usage
  <2>2. /\ create \in CreateRequest
        /\ p.c \in Checkouts /\ p.code \in Codes /\ p.increased \in BOOLEAN
    BY <2>1 DEF TransactionRequest, CreateRequest, CodeOrNone
  <2>3. /\ \/ UNCHANGED <<codes, checkout>>
           \/ increase_checkout_voucher_usage(p.c, p.code, p.increased)
        /\ Goto(w, create) \/ Goto(w, Idle)
        /\ UNCHANGED <<voucher, draft, settings>>
    BY DEF increase_voucher_code_usage
  <2> HIDE DEF p, create
  <2>4. codes' \in [Codes -> CodeRow] /\ checkout' \in [Checkouts -> CheckoutRow]
    BY <1>t, <2>2, <2>3, IncreasingCheckout
  <2>5. \E q \in Request : Goto(w, q)
    BY <1>i, <2>2, <2>3 DEF Request
  <2> QED BY <1>t, <2>3, <2>4, <2>5, GotoType, TablesSuffice
<1>13. CASE \E w \in Workers : \E result \in {"order", "insufficient_stock"} :
              create_order_from_checkout(w, result)
  <2> PICK w \in Workers, result \in {"order", "insufficient_stock"} :
             create_order_from_checkout(w, result)
    BY <1>13
  <2> DEFINE p == proc[w]
             row == [state |-> "ordered", increased |-> FALSE,
                     code |-> IF p.code # NoCode THEN p.code ELSE Found(p.c)]
  <2>1. p \in CreateRequest
    BY <1>t, RequestContents DEF create_order_from_checkout
  <2>2. p.c \in Checkouts /\ p.code \in CodeOrNone
    BY <2>1 DEF CreateRequest
  <2>3. Found(p.c) \in CodeOrNone
    BY <2>2, FoundType
  <2>4. row \in CheckoutRow
    BY <2>2, <2>3 DEF CheckoutRow
  <2>5. /\ checkout' = [checkout EXCEPT ![p.c] = row] \/ checkout' = checkout
        /\ Goto(w, Idle) /\ UNCHANGED <<voucher, codes, draft, settings>>
    BY DEF create_order_from_checkout
  <2> HIDE DEF p, row
  <2>6. checkout' \in [Checkouts -> CheckoutRow]
    BY <1>t, <2>2, <2>4, <2>5, OneCheckoutChanges
  <2> QED BY <1>t, <1>i, <2>5, <2>6, GotoType, TablesSuffice
<1>14. CASE \E w \in Workers : RequestDies(w)
  BY <1>14, <1>t, <1>i, GotoType, TablesSuffice DEF RequestDies
<1>15. CASE \E w \in Workers : \E d \in Drafts, code \in Codes : clean_voucher_code(w, d, code)
  <2> PICK w \in Workers, d \in Drafts, code \in Codes : clean_voucher_code(w, d, code)
    BY <1>15
  <2> DEFINE p == [at |-> "save_draft", d |-> d, code |-> code]
  <2>1. p \in Request
    BY DEF Request, DraftRequest
  <2>2. Goto(w, p) /\ UNCHANGED <<voucher, codes, checkout, draft, settings>>
    BY DEF clean_voucher_code
  <2> HIDE DEF p
  <2> QED BY <1>t, <2>1, <2>2, GotoType, TablesSuffice
<1>16. CASE \E w \in Workers : handle_order_voucher(w)
  <2> PICK w \in Workers : handle_order_voucher(w)
    BY <1>16
  <2> DEFINE p == proc[w]
             row == [state |-> "draft", code |-> p.code]
  <2>1. p \in DraftRequest
    BY <1>t, RequestContents DEF handle_order_voucher
  <2>2. p.d \in Drafts /\ p.code \in Codes /\ email[p.d] \in Customers
    BY <1>e, <2>1 DEF DraftRequest
  <2>3. row \in DraftRow
    BY <2>2 DEF DraftRow, CodeOrNone
  <2>4. /\ draft' = [draft EXCEPT ![p.d] = row]
        /\ codes' \in {codes, increase_voucher_usage(p.code, email[p.d], FALSE)}
        /\ Goto(w, Idle) /\ UNCHANGED <<voucher, checkout, settings>>
    BY DEF handle_order_voucher
  <2> HIDE DEF p, row
  <2>5. codes' \in [Codes -> CodeRow] /\ draft' \in [Drafts -> DraftRow]
    BY <1>t, <2>2, <2>3, <2>4, Increasing
  <2> QED BY <1>t, <1>i, <2>4, <2>5, GotoType, TablesSuffice
<1>17. CASE \E d \in Drafts : remove_draft_voucher(d) \/ draft_order_delete(d)
  <2> PICK d \in Drafts : remove_draft_voucher(d) \/ draft_order_delete(d)
    BY <1>17
  <2>1. draft[d].code \in Codes
    BY <1>t DEF remove_draft_voucher, draft_order_delete, StaffOn, DraftRow, CodeOrNone
  <2>2. draft' \in [Drafts -> DraftRow]
    BY <1>t DEF remove_draft_voucher, draft_order_delete, DraftRow, CodeOrNone
  <2>3. /\ codes' \in {codes, release_voucher_code_usage(draft[d].code, {}),
                       release_voucher_code_usage(draft[d].code, {email[d]})}
        /\ UNCHANGED <<voucher, checkout, proc, settings>>
    BY DEF remove_draft_voucher, draft_order_delete
  <2>4. codes' \in [Codes -> CodeRow]
    <3>1. release_voucher_code_usage(draft[d].code, {}) \in [Codes -> CodeRow]
      BY <2>1, Releasing
    <3>2. release_voucher_code_usage(draft[d].code, {email[d]}) \in [Codes -> CodeRow]
      BY <1>e, <2>1, Releasing
    <3> QED BY <1>t, <2>3, <3>1, <3>2
  <2> QED BY <1>t, <2>2, <2>3, <2>4, TablesSuffice
<1>18. CASE \E d \in Drafts : draft_order_complete(d)
  <2> PICK d \in Drafts : draft_order_complete(d)
    BY <1>18
  <2>1. codes' \in [Codes -> CodeRow]
    BY <1>t, <1>e DEF draft_order_complete, StaffOn, DraftRow, CodeOrNone, CodeRow
  <2>2. draft' \in [Drafts -> DraftRow]
    BY <1>t DEF draft_order_complete, DraftRow
  <2> QED BY <1>t, <2>1, <2>2, TablesSuffice DEF draft_order_complete
<1>19. CASE UNCHANGED vars
  BY <1>19 DEF vars, settings, Typed, TypeOK
<1> QED
  BY <1>1, <1>2, <1>3, <1>4, <1>5, <1>6, <1>7, <1>8, <1>9, <1>10, <1>11, <1>12, <1>13,
     <1>14, <1>15, <1>16, <1>17, <1>18, <1>19 DEF Next

LEMMA TypesHold == Spec => []Typed
BY InitTyped, StepTyped, PTL DEF Spec

(* Whatever overlaps, the number of uses of a code never goes below zero,   *)
(* and rows hold only codes of the voucher and states the code can write.   *)
THEOREM VouchersAreWellFormed == Spec => []TypeOK
<1>1. Typed => TypeOK
  BY DEF Typed
<1> QED BY TypesHold, <1>1, PTL

-----------------------------------------------------------------------------
(* Counting.  A checkout has a claim on one counted use from the moment it  *)
(* is marked until it is given back, the mark is lost, or the order exists. *)
Claims(co) ==
  {c \in Checkouts : \/ co[c].state = "open" /\ co[c].increased
                     \/ co[c].state = "ordered" /\ co[c].code # NoCode}
DraftClaims(dr) ==
  IF include_draft_order_in_voucher_usage
  THEN {d \in Drafts : dr[d].state \in {"draft", "ordered"} /\ dr[d].code # NoCode}
  ELSE {}

Claimed == Cardinality(Claims(checkout)) + Cardinality(DraftClaims(draft))
Room == UsedIn(codes) < voucher.usage_limit

ClaimsAreCounted == Claimed <= UsedIn(codes) /\ UsedIn(codes) <= voucher.usage_limit

(* What the request in progress knows: a use it is about to count has room, *)
(* a code it is about to write to an order is paid for by the mark of the   *)
(* checkout, and a voucher that was not found stays not found.              *)
RequestOK(p) ==
  /\ p.at \in {"validate", "increase"} => checkout[p.c].state = "open"
  /\ p.at = "increase" => checkout[p.c].increased \/ Room
  /\ p.at \in {"pay", "place", "create"} /\ p.code # NoCode => checkout[p.c].increased
  /\ p.at \in {"t_validate", "t_increase"} =>
       p.increased = checkout[p.c].increased /\ p.code = checkout[p.c].code
  /\ p.at = "t_increase" => checkout[p.c].increased \/ Room
  /\ p.at = "create" /\ p.code = NoCode => Found(p.c) = NoCode
  /\ p.at = "save_draft" /\ include_draft_order_in_voucher_usage => Room

OneAtATime == \A v, w \in Workers : proc[v] # Idle /\ proc[w] # Idle => v = w

CountInv ==
  /\ OneAtATime
  /\ voucher.usage_limit > 0 => ClaimsAreCounted /\ \A w \in Workers : RequestOK(proc[w])

-----------------------------------------------------------------------------
LEMMA ClaimsFinite ==
  ASSUME NEW co, NEW dr
  PROVE  /\ IsFiniteSet(Claims(co)) /\ IsFiniteSet(DraftClaims(dr))
         /\ Cardinality(Claims(co)) \in Nat /\ Cardinality(DraftClaims(dr)) \in Nat
<1>1. Claims(co) \in SUBSET Checkouts
  BY DEF Claims
<1>2. DraftClaims(dr) \in SUBSET Drafts
  BY DEF DraftClaims
<1> QED BY <1>1, <1>2, FS_Subset, FS_CardinalityType, TablesAssumption

(* Sets that grow by at most an element, and sets that lose one.            *)
LEMMA GrowsByOne ==
  ASSUME NEW S, NEW T, NEW x, IsFiniteSet(S), T \subseteq S \cup {x}
  PROVE  Cardinality(T) <= Cardinality(S) + 1
<1>0. Cardinality(S) \in Nat
  BY FS_CardinalityType
<1>1. IsFiniteSet(S \cup {x}) /\ Cardinality(S \cup {x}) <= Cardinality(S) + 1
  BY <1>0, FS_AddElement
<1>2. Cardinality(T) <= Cardinality(S \cup {x}) /\ IsFiniteSet(T)
  BY <1>1, FS_Subset
<1>3. Cardinality(T) \in Nat /\ Cardinality(S) \in Nat /\ Cardinality(S \cup {x}) \in Nat
  BY <1>1, <1>2, FS_CardinalityType
<1> QED BY <1>1, <1>2, <1>3

LEMMA LosesOne ==
  ASSUME NEW S, NEW T, NEW x, IsFiniteSet(S), T \subseteq S \ {x}, x \in S
  PROVE  Cardinality(T) + 1 <= Cardinality(S)
<1>1. IsFiniteSet(S \ {x}) /\ Cardinality(S \ {x}) = Cardinality(S) - 1
  BY FS_RemoveElement
<1>2. Cardinality(T) <= Cardinality(S \ {x}) /\ IsFiniteSet(T)
  BY <1>1, FS_Subset
<1>3. Cardinality(T) \in Nat /\ Cardinality(S) \in Nat
  BY <1>2, FS_CardinalityType
<1> QED BY <1>1, <1>2, <1>3

(* The invariant says what the runs check.                                  *)
LEMMA CountInvImpliesCounted == Typed /\ CountInv => OrdersAreCounted
<1> SUFFICES ASSUME Typed, CountInv, voucher.usage_limit > 0
             PROVE  Counted <= TotalUsed /\ TotalUsed <= voucher.usage_limit
  BY DEF OrdersAreCounted
<1>1. TotalUsed = UsedIn(codes)
  BY DEF TotalUsed, UsedIn
<1>2. Claimed <= UsedIn(codes) /\ UsedIn(codes) <= voucher.usage_limit
  BY DEF CountInv, ClaimsAreCounted
<1> DEFINE orders == UNION {OrdersWith(k) : k \in Codes}
           drafts == UNION {DraftsWith(k) : k \in Codes}
<1>3. \A k \in Codes : k # NoCode
  BY NoCodeAssumption
<1>4. orders \subseteq Claims(checkout)
  BY <1>3 DEF OrdersWith, Claims
<1>5. include_draft_order_in_voucher_usage => drafts \subseteq DraftClaims(draft)
  BY <1>3 DEF DraftsWith, DraftClaims
<1>6. Counted = Cardinality(orders)
                  + (IF include_draft_order_in_voucher_usage THEN Cardinality(drafts) ELSE 0)
  BY DEF Counted
<1> HIDE DEF orders, drafts
<1>7. Cardinality(orders) <= Cardinality(Claims(checkout)) /\ Cardinality(orders) \in Nat
  BY <1>4, ClaimsFinite, FS_Subset, FS_CardinalityType
<1>8. include_draft_order_in_voucher_usage =>
        Cardinality(drafts) <= Cardinality(DraftClaims(draft)) /\ Cardinality(drafts) \in Nat
  BY <1>5, ClaimsFinite, FS_Subset, FS_CardinalityType
<1>9. UsedIn(codes) \in Nat /\ Cardinality(Claims(checkout)) \in Nat
        /\ Cardinality(DraftClaims(draft)) \in Nat
  BY ClaimsFinite, UsedInType DEF Typed, TypeOK, CodeRow
<1>10. Counted <= Claimed /\ Counted \in Nat /\ Claimed \in Nat
  BY <1>6, <1>7, <1>8, <1>9 DEF Claimed
<1>11. voucher.usage_limit \in Nat
  BY UsageLimitsAssumption DEF Typed
<1> QED BY <1>1, <1>2, <1>9, <1>10, <1>11

LEMMA InitCount == Init => CountInv
<1> SUFFICES ASSUME Init PROVE CountInv
  OBVIOUS
<1>1. Typed
  BY InitTyped
<1>2. Claims(checkout) = {} /\ DraftClaims(draft) = {}
  <2>1. \A c \in Checkouts : checkout[c].state = "open" /\ checkout[c].increased = FALSE
    BY DEF Init
  <2>2. \A d \in Drafts : draft[d].state = "none"
    BY DEF Init
  <2> QED BY <2>1, <2>2 DEF Claims, DraftClaims
<1>3. Claimed = 0
  BY <1>2, FS_EmptySet DEF Claimed
<1>4. UsedIn(codes) = 0
  <2> DEFINE f == [k \in Codes |-> codes[k].used]
  <2>1. \A k \in Codes : f[k] \in Int /\ f[k] <= 0
    BY DEF Init
  <2>2. UsedIn(codes) = Total(f, Codes)
    BY DEF UsedIn
  <2> HIDE DEF f
  <2> QED BY <2>1, <2>2, TotalZero
<1>5. \A w \in Workers : proc[w] = Idle
  BY DEF Init
<1>6. \A w \in Workers : RequestOK(proc[w])
  BY <1>5 DEF RequestOK, Idle
<1>7. OneAtATime
  BY <1>5 DEF OneAtATime
<1>8. voucher.usage_limit \in Nat
  BY <1>1, UsageLimitsAssumption DEF Typed
<1> QED BY <1>3, <1>4, <1>6, <1>7, <1>8 DEF CountInv, ClaimsAreCounted

-----------------------------------------------------------------------------
(* How a step may change the count: nobody claims more, ...                 *)
LEMMA NobodyClaimsMore ==
  ASSUME Typed, Typed', CountInv, voucher.usage_limit > 0, voucher'.usage_limit = voucher.usage_limit,
         Claims(checkout') \subseteq Claims(checkout),
         DraftClaims(draft)' \subseteq DraftClaims(draft),
         UsedIn(codes') = UsedIn(codes)
  PROVE  ClaimsAreCounted'
<1>1. /\ Cardinality(Claims(checkout')) <= Cardinality(Claims(checkout))
      /\ Cardinality(DraftClaims(draft)') <= Cardinality(DraftClaims(draft))
      /\ Cardinality(Claims(checkout')) \in Nat /\ Cardinality(DraftClaims(draft)') \in Nat
      /\ Cardinality(Claims(checkout)) \in Nat /\ Cardinality(DraftClaims(draft)) \in Nat
  BY ClaimsFinite, FS_Subset, FS_CardinalityType
<1>2. UsedIn(codes) \in Nat
  BY UsedInType DEF Typed, TypeOK, CodeRow
<1>3. Claimed <= UsedIn(codes) /\ UsedIn(codes) <= voucher.usage_limit
  BY DEF CountInv, ClaimsAreCounted
<1> QED BY <1>1, <1>2, <1>3 DEF Claimed, ClaimsAreCounted

(* ... one claim more is counted while there is room for it, ...            *)
LEMMA OneClaimMore ==
  ASSUME Typed, Typed', CountInv, voucher.usage_limit > 0, voucher'.usage_limit = voucher.usage_limit,
         NEW x,
         \/ /\ Claims(checkout') \subseteq Claims(checkout) \cup {x}
            /\ DraftClaims(draft)' \subseteq DraftClaims(draft)
         \/ /\ Claims(checkout') \subseteq Claims(checkout)
            /\ DraftClaims(draft)' \subseteq DraftClaims(draft) \cup {x},
         Room, UsedIn(codes') = UsedIn(codes) + 1
  PROVE  ClaimsAreCounted'
<1>1. /\ IsFiniteSet(Claims(checkout)) /\ IsFiniteSet(DraftClaims(draft))
      /\ Cardinality(Claims(checkout)) \in Nat /\ Cardinality(DraftClaims(draft)) \in Nat
  BY ClaimsFinite
<1>2. IsFiniteSet(DraftClaims(draft)') /\ IsFiniteSet(Claims(checkout'))
  <2>1. IsFiniteSet(DraftClaims(draft) \cup {x}) /\ IsFiniteSet(Claims(checkout) \cup {x})
    BY <1>1, FS_AddElement
  <2>2. /\ DraftClaims(draft)' \in SUBSET (DraftClaims(draft) \cup {x})
        /\ Claims(checkout') \in SUBSET (Claims(checkout) \cup {x})
    OBVIOUS
  <2> QED BY <2>1, <2>2, FS_Subset
<1>3. Cardinality(Claims(checkout')) \in Nat /\ Cardinality(DraftClaims(draft)') \in Nat
  BY <1>2, FS_CardinalityType
<1>4. UsedIn(codes) \in Nat /\ voucher.usage_limit \in Nat
  BY UsedInType, UsageLimitsAssumption DEF Typed, TypeOK, CodeRow
<1>5. Claimed <= UsedIn(codes) /\ UsedIn(codes) < voucher.usage_limit
  BY DEF CountInv, ClaimsAreCounted, Room
<1>6. Cardinality(Claims(checkout')) + Cardinality(DraftClaims(draft)')
        <= Cardinality(Claims(checkout)) + Cardinality(DraftClaims(draft)) + 1
  <2>1. CASE /\ Claims(checkout') \subseteq Claims(checkout) \cup {x}
             /\ DraftClaims(draft)' \subseteq DraftClaims(draft)
    <3>1. Cardinality(Claims(checkout')) <= Cardinality(Claims(checkout)) + 1
      BY <1>1, <2>1, GrowsByOne
    <3>2. Cardinality(DraftClaims(draft)') <= Cardinality(DraftClaims(draft))
      BY <1>1, <2>1, FS_Subset
    <3> QED BY <1>1, <1>3, <3>1, <3>2
  <2>2. CASE /\ Claims(checkout') \subseteq Claims(checkout)
             /\ DraftClaims(draft)' \subseteq DraftClaims(draft) \cup {x}
    <3>1. Cardinality(Claims(checkout')) <= Cardinality(Claims(checkout))
      BY <1>1, <2>2, FS_Subset
    <3>2. Cardinality(DraftClaims(draft)') <= Cardinality(DraftClaims(draft)) + 1
      BY <1>1, <2>2, GrowsByOne
    <3> QED BY <1>1, <1>3, <3>1, <3>2
  <2> QED BY <2>1, <2>2
<1> QED BY <1>1, <1>3, <1>4, <1>5, <1>6 DEF Claimed, ClaimsAreCounted

(* ... and a use is given back only with a claim on it.                     *)
LEMMA OneClaimLess ==
  ASSUME Typed, Typed', CountInv, voucher.usage_limit > 0, voucher'.usage_limit = voucher.usage_limit,
         NEW x,
         \/ /\ x \in Claims(checkout) /\ Claims(checkout') \subseteq Claims(checkout) \ {x}
            /\ DraftClaims(draft)' \subseteq DraftClaims(draft)
         \/ /\ Claims(checkout') \subseteq Claims(checkout)
            /\ x \in DraftClaims(draft) /\ DraftClaims(draft)' \subseteq DraftClaims(draft) \ {x},
         UsedIn(codes') <= UsedIn(codes), UsedIn(codes) <= UsedIn(codes') + 1
  PROVE  ClaimsAreCounted'
<1>1. /\ IsFiniteSet(Claims(checkout)) /\ IsFiniteSet(DraftClaims(draft))
      /\ Cardinality(Claims(checkout)) \in Nat /\ Cardinality(DraftClaims(draft)) \in Nat
  BY ClaimsFinite
<1>2. Cardinality(Claims(checkout')) \in Nat /\ Cardinality(DraftClaims(draft)') \in Nat
  BY <1>1, FS_Subset, FS_CardinalityType
<1>3. UsedIn(codes) \in Nat /\ UsedIn(codes') \in Nat /\ voucher.usage_limit \in Nat
  BY UsedInType, UsageLimitsAssumption DEF Typed, TypeOK, CodeRow
<1>4. Claimed <= UsedIn(codes) /\ UsedIn(codes) <= voucher.usage_limit
  BY DEF CountInv, ClaimsAreCounted
<1>5. Cardinality(Claims(checkout')) + Cardinality(DraftClaims(draft)') + 1
        <= Cardinality(Claims(checkout)) + Cardinality(DraftClaims(draft))
  <2>1. CASE /\ x \in Claims(checkout) /\ Claims(checkout') \subseteq Claims(checkout) \ {x}
             /\ DraftClaims(draft)' \subseteq DraftClaims(draft)
    <3>1. Cardinality(Claims(checkout')) + 1 <= Cardinality(Claims(checkout))
      BY <1>1, <2>1, LosesOne
    <3>2. Cardinality(DraftClaims(draft)') <= Cardinality(DraftClaims(draft))
      BY <1>1, <2>1, FS_Subset
    <3> QED BY <1>1, <1>2, <3>1, <3>2
  <2>2. CASE /\ Claims(checkout') \subseteq Claims(checkout)
             /\ x \in DraftClaims(draft) /\ DraftClaims(draft)' \subseteq DraftClaims(draft) \ {x}
    <3>1. Cardinality(Claims(checkout')) <= Cardinality(Claims(checkout))
      BY <1>1, <2>2, FS_Subset
    <3>2. Cardinality(DraftClaims(draft)') + 1 <= Cardinality(DraftClaims(draft))
      BY <1>1, <2>2, LosesOne
    <3> QED BY <1>1, <1>2, <3>1, <3>2
  <2> QED BY <2>1, <2>2
<1> QED BY <1>1, <1>2, <1>3, <1>4, <1>5 DEF Claimed, ClaimsAreCounted

(* Without overlap only the request that moves has anything in memory.      *)
LEMMA OneRequestMoves ==
  ASSUME Typed, CountInv, Overlap = FALSE, NEW w \in Workers, NEW p,
         proc[w] # Idle \/ NoRequest, Goto(w, p),
         voucher' = voucher,
         voucher.usage_limit > 0 => ClaimsAreCounted' /\ RequestOK(p)'
  PROVE  CountInv'
<1>1. \A v \in Workers : v # w => proc[v] = Idle
  BY DEF CountInv, OneAtATime, NoRequest
<1>2. \A v \in Workers : proc'[v] = IF v = w THEN p ELSE Idle
  BY <1>1 DEF Goto, Typed
<1>3. OneAtATime'
  BY <1>2 DEF OneAtATime
<1>4. RequestOK(Idle)'
  BY DEF RequestOK, Idle
<1>5. voucher.usage_limit > 0 => \A v \in Workers : RequestOK(proc[v])'
  <2> SUFFICES ASSUME voucher.usage_limit > 0, NEW v \in Workers PROVE RequestOK(proc[v])'
    OBVIOUS
  <2>1. CASE v = w
    BY <1>2, <2>1 DEF RequestOK
  <2>2. CASE v # w
    BY <1>2, <1>4, <2>2 DEF RequestOK
  <2> QED BY <2>1, <2>2
<1> QED BY <1>3, <1>5 DEF CountInv

(* ... and staff act between requests.                                      *)
LEMMA BetweenRequests ==
  ASSUME Typed, CountInv, Overlap = FALSE, NoRequest, UNCHANGED <<voucher, proc>>,
         voucher.usage_limit > 0 => ClaimsAreCounted'
  PROVE  CountInv'
<1>1. \A v \in Workers : proc[v] = Idle /\ proc'[v] = Idle
  BY DEF NoRequest
<1>2. \A v \in Workers : RequestOK(proc[v])'
  BY <1>1 DEF RequestOK, Idle
<1> QED BY <1>1, <1>2 DEF CountInv, OneAtATime

LEMMA StepCount ==
  ASSUME Overlap = FALSE, Typed, Typed', CountInv, [Next]_vars
  PROVE  CountInv'
<1>t. /\ codes \in [Codes -> CodeRow] /\ checkout \in [Checkouts -> CheckoutRow]
      /\ draft \in [Drafts -> DraftRow] /\ proc \in [Workers -> Request]
  BY DEF Typed, TypeOK, CodeRow, CheckoutRow, DraftRow, CodeOrNone
<1>r. voucher.usage_limit > 0 => \A w \in Workers : RequestOK(proc[w])
  BY DEF CountInv
<1>i. RequestOK(Idle)'
  BY DEF RequestOK, Idle
<1>e. \A x \in Checkouts \cup Drafts : email[x] \in Customers
  BY DEF Typed
(* Nothing is counted and no row changes.                                   *)
<1>s. ASSUME UNCHANGED <<voucher, codes, checkout, draft, settings>>, voucher.usage_limit > 0
      PROVE  ClaimsAreCounted'
  BY <1>s, NobodyClaimsMore DEF DraftClaims, settings
<1>1. CASE VoucherExpires
  <2>1. /\ UNCHANGED <<codes, checkout, draft, proc, settings>>
        /\ voucher'.usage_limit = voucher.usage_limit
        /\ \A b : active(b)' => active(b)
    BY <1>1, UsedInType DEF VoucherExpires, Typed, active, TotalUsed
  <2>2. voucher.usage_limit > 0 => ClaimsAreCounted'
    BY <2>1, NobodyClaimsMore DEF DraftClaims, settings
  <2>3. \A c : Found(c) = NoCode => Found(c)' = NoCode
    BY <2>1 DEF Found, get_voucher_for_checkout
  <2>4. Room' <=> Room
    BY <2>1 DEF Room
  <2>5. ASSUME NEW w \in Workers, RequestOK(proc[w]) PROVE RequestOK(proc[w])'
    BY <2>1, <2>3, <2>4, <2>5 DEF RequestOK, settings
  <2> QED BY <1>r, <2>1, <2>2, <2>5 DEF CountInv, OneAtATime
<1>2. CASE \E c \in Checkouts : \/ \E code \in Codes : add_voucher_code_to_checkout(c, code)
                                \/ remove_voucher_from_checkout(c)
  <2> PICK c \in Checkouts, code \in CodeOrNone :
         /\ NoRequest /\ checkout[c].state = "open"
         /\ checkout' = [checkout EXCEPT ![c].code = code]
         /\ UNCHANGED <<voucher, codes, draft, proc, settings>>
    BY <1>2 DEF add_voucher_code_to_checkout, remove_voucher_from_checkout, CodeOrNone
  <2>1. Claims(checkout') \subseteq Claims(checkout)
    BY <1>t DEF Claims, CheckoutRow
  <2>2. voucher.usage_limit > 0 => ClaimsAreCounted'
    BY <2>1, NobodyClaimsMore DEF DraftClaims, settings
  <2> QED BY <2>2, BetweenRequests
<1>3. CASE \E c \in Checkouts, w \in Workers : fetch_checkout(w, c)
  <2> PICK c \in Checkouts, w \in Workers : fetch_checkout(w, c)
    BY <1>3
  <2>1. PICK p : p = [at |-> "validate", c |-> c, info |-> Found(c)]
    OBVIOUS
  <2>2. /\ NoRequest /\ Goto(w, p) /\ checkout[c].state = "open"
        /\ UNCHANGED <<voucher, codes, checkout, draft, settings>>
    BY <2>1 DEF fetch_checkout
  <2>3. RequestOK(p)'
    BY <2>1, <2>2 DEF RequestOK
  <2> QED BY <1>s, <2>2, <2>3, OneRequestMoves
<1>4. CASE \E c \in Checkouts, w \in Workers : load_checkout(w, c)
  <2> PICK c \in Checkouts, w \in Workers : load_checkout(w, c)
    BY <1>4
  <2>1. PICK p : p = [at |-> IF Found(c) = NoCode THEN "create" ELSE "t_validate",
                      c |-> c, code |-> Found(c), increased |-> checkout[c].increased]
    OBVIOUS
  <2>2. /\ NoRequest /\ Goto(w, p) /\ checkout[c].code = Found(c)
        /\ UNCHANGED <<voucher, codes, checkout, draft, settings>>
    BY <2>1 DEF load_checkout
  <2>3. Found(c)' = Found(c)
    BY <2>2 DEF Found, get_voucher_for_checkout, active, TotalUsed
  <2>4. RequestOK(p)'
    BY <2>1, <2>2, <2>3 DEF RequestOK
  <2> QED BY <1>s, <2>2, <2>4, OneRequestMoves
<1>5. CASE \E w \in Workers : process_voucher_data_for_order(w)
  <2> PICK w \in Workers : process_voucher_data_for_order(w)
    BY <1>5
  <2>1. PICK p \in ValidateRequest : p = proc[w]
    BY <1>t, RequestContents DEF process_voucher_data_for_order
  <2>2. p.c \in Checkouts /\ proc[w] # Idle /\ p.at = "validate"
    BY <2>1 DEF ValidateRequest, Idle
  <2>3. UNCHANGED <<voucher, codes, checkout, draft, settings>>
    BY DEF process_voucher_data_for_order
  <2>4. PICK pay, inc : /\ pay = [at |-> "pay", c |-> p.c, info |-> p.info, code |-> NoCode,
                                 increased |-> checkout[p.c].increased]
                        /\ inc = [at |-> "increase", c |-> p.c, info |-> p.info,
                                  code |-> checkout[p.c].code]
    OBVIOUS
  <2>5. \/ Goto(w, pay) \/ Goto(w, Idle)
        \/ Found(p.c) # NoCode /\ Goto(w, inc)
    BY <2>1, <2>4 DEF process_voucher_data_for_order
  <2>6. RequestOK(pay)'
    BY <2>4 DEF RequestOK
  <2>7. ASSUME Found(p.c) # NoCode, voucher.usage_limit > 0 PROVE RequestOK(inc)'
    <3>1. checkout[p.c].increased \/ active(TRUE)
      BY <2>7 DEF Found, get_voucher_for_checkout
    <3>2. checkout[p.c].increased \/ Room
      BY <2>7, <3>1 DEF active, Room, TotalUsed, UsedIn
    <3>3. checkout[p.c].state = "open"
      BY <1>r, <2>1, <2>2, <2>7 DEF RequestOK
    <3>4. (checkout[p.c].increased \/ Room)'
      BY <2>3, <3>2 DEF Room
    <3> QED BY <2>3, <2>4, <3>3, <3>4 DEF RequestOK
  <2>8. CASE Goto(w, pay)
    BY <1>s, <2>2, <2>3, <2>6, <2>8, OneRequestMoves
  <2>9. CASE Goto(w, Idle)
    BY <1>s, <1>i, <2>2, <2>3, <2>9, OneRequestMoves
  <2>10. CASE Found(p.c) # NoCode /\ Goto(w, inc)
    BY <1>s, <2>2, <2>3, <2>7, <2>10, OneRequestMoves
  <2> QED BY <2>5, <2>8, <2>9, <2>10
<1>6. CASE \E w \in Workers : increase_usage(w)
  <2> PICK w \in Workers : increase_usage(w)
    BY <1>6
  <2>1. PICK p \in IncreaseRequest : p = proc[w]
    BY <1>t, RequestContents DEF increase_usage
  <2>2. /\ p.c \in Checkouts /\ p.code \in Codes /\ proc[w] # Idle /\ p.at = "increase"
        /\ checkout[p.c].increased \in BOOLEAN
    BY <1>t, <2>1 DEF IncreaseRequest, Idle, CheckoutRow
  <2>3. PICK pay : pay = [at |-> "pay", c |-> p.c, info |-> p.info, code |-> p.code,
                          increased |-> TRUE]
    OBVIOUS
  <2>4. /\ UNCHANGED <<voucher, draft, settings>>
        /\ \/ UNCHANGED <<codes, checkout>> /\ Goto(w, Idle)
           \/ /\ increase_checkout_voucher_usage(p.c, p.code, checkout[p.c].increased)
              /\ Goto(w, pay)
    BY <2>1, <2>3 DEF increase_usage
  <2>5. CASE UNCHANGED <<codes, checkout>> /\ Goto(w, Idle)
    BY <1>s, <1>i, <2>2, <2>4, <2>5, OneRequestMoves
  <2>6. CASE /\ increase_checkout_voucher_usage(p.c, p.code, checkout[p.c].increased)
             /\ Goto(w, pay)
    <3>1. /\ checkout[p.c].increased => codes' = codes /\ checkout' = checkout
          /\ ~checkout[p.c].increased =>
               /\ checkout' = [checkout EXCEPT ![p.c].increased = TRUE]
               /\ voucher.usage_limit > 0 => UsedIn(codes') = UsedIn(codes) + 1
      <4>1. CASE checkout[p.c].increased
        BY <2>6, <4>1 DEF increase_checkout_voucher_usage
      <4>2. CASE ~checkout[p.c].increased
        <5>1. /\ checkout' = [checkout EXCEPT ![p.c].increased = TRUE]
              /\ codes' = increase_voucher_usage(p.code, email[p.c], TRUE)
          BY <2>6, <4>2 DEF increase_checkout_voucher_usage
        <5> QED BY <1>e, <2>2, <4>2, <5>1, Increasing
      <4> QED BY <4>1, <4>2
    <3>2. checkout'[p.c].increased
      <4>1. CASE checkout[p.c].increased
        BY <3>1, <4>1
      <4>2. CASE ~checkout[p.c].increased
        BY <1>t, <2>2, <3>1, <4>2 DEF CheckoutRow
      <4> QED BY <4>1, <4>2
    <3>3. RequestOK(pay)'
      BY <2>3, <3>2 DEF RequestOK
    <3>4. ASSUME voucher.usage_limit > 0 PROVE ClaimsAreCounted'
      <4>1. CASE checkout[p.c].increased
        BY <1>s, <2>4, <3>1, <3>4, <4>1
      <4>2. CASE ~checkout[p.c].increased
        <5>1. Claims(checkout') \subseteq Claims(checkout) \cup {p.c}
          BY <1>t, <3>1, <4>2 DEF Claims, CheckoutRow
        <5>2. DraftClaims(draft)' \subseteq DraftClaims(draft)
          BY <2>4 DEF DraftClaims, settings
        <5>3. Room
          BY <1>r, <2>1, <2>2, <3>4, <4>2 DEF RequestOK
        <5>4. voucher'.usage_limit = voucher.usage_limit
          BY <2>4
        <5> QED BY <3>1, <3>4, <4>2, <5>1, <5>2, <5>3, <5>4, OneClaimMore
      <4> QED BY <4>1, <4>2
    <3> QED BY <2>2, <2>4, <2>6, <3>3, <3>4, OneRequestMoves
  <2> QED BY <2>4, <2>5, <2>6
<1>7. CASE \E w \in Workers : increase_usage_then_tax_error(w)
  <2> PICK w \in Workers : increase_usage_then_tax_error(w)
    BY <1>7
  <2>1. PICK p \in IncreaseRequest : p = proc[w]
    BY <1>t, RequestContents DEF increase_usage_then_tax_error
  <2>2. /\ p.c \in Checkouts /\ p.code \in Codes /\ proc[w] # Idle /\ p.at = "increase"
        /\ email[p.c] \in Customers /\ checkout[p.c].increased \in BOOLEAN
    BY <1>t, <1>e, <2>1 DEF IncreaseRequest, Idle, CheckoutRow
  <2>3. /\ UNCHANGED <<voucher, draft, settings>> /\ Goto(w, Idle)
        /\ checkout' = [checkout EXCEPT ![p.c].increased = FALSE]
        /\ \/ codes' = codes
           \/ /\ ~checkout[p.c].increased
              /\ codes' = increase_voucher_usage(p.code, email[p.c], TRUE)
           \/ /\ checkout[p.c].increased
              /\ codes' = release_voucher_code_usage(p.code, {email[p.c]})
    BY <2>1 DEF increase_usage_then_tax_error
  <2>4. DraftClaims(draft)' \subseteq DraftClaims(draft)
    BY <2>3 DEF DraftClaims, settings
  <2>5. Claims(checkout') \subseteq Claims(checkout)
    BY <1>t, <2>2, <2>3 DEF Claims, CheckoutRow
  <2>6. ASSUME voucher.usage_limit > 0 PROVE ClaimsAreCounted'
    <3>1. CASE codes' = codes
      BY <2>3, <2>4, <2>5, <2>6, <3>1, NobodyClaimsMore
    <3>2. CASE /\ ~checkout[p.c].increased
               /\ codes' = increase_voucher_usage(p.code, email[p.c], TRUE)
      <4>1. UsedIn(codes') = UsedIn(codes) + 1
        BY <2>2, <2>6, <3>2, Increasing
      <4>2. Room
        BY <1>r, <2>1, <2>2, <2>6, <3>2 DEF RequestOK
      <4> QED BY <2>3, <2>4, <2>5, <2>6, <4>1, <4>2, OneClaimMore
    <3>3. CASE /\ checkout[p.c].increased
               /\ codes' = release_voucher_code_usage(p.code, {email[p.c]})
      <4>1. UsedIn(codes') <= UsedIn(codes) /\ UsedIn(codes) <= UsedIn(codes') + 1
        BY <2>2, <3>3, Releasing
      <4>2. checkout[p.c].state = "open"
        BY <1>r, <2>1, <2>2, <2>6 DEF RequestOK
      <4>3. p.c \in Claims(checkout) /\ Claims(checkout') \subseteq Claims(checkout) \ {p.c}
        BY <1>t, <2>2, <2>3, <3>3, <4>2 DEF Claims, CheckoutRow
      <4> QED BY <2>3, <2>4, <2>6, <4>1, <4>3, OneClaimLess
    <3> QED BY <2>3, <3>1, <3>2, <3>3
  <2> QED BY <1>i, <2>2, <2>3, <2>6, OneRequestMoves
<1>8. CASE \E w \in Workers : \E result \in {"success", "failed", "inactive"} : process_payment(w, result)
  <2> PICK w \in Workers, result \in {"success", "failed", "inactive"} : process_payment(w, result)
    BY <1>8
  <2>1. PICK p \in PayRequest : p = proc[w]
    BY <1>t, RequestContents DEF process_payment
  <2>2. p.c \in Checkouts /\ p.increased \in BOOLEAN /\ proc[w] # Idle /\ p.at = "pay"
    BY <2>1 DEF PayRequest, Idle, process_payment
  <2>3. PICK place : place = [p EXCEPT !.at = "place"]
    OBVIOUS
  <2>4. place.at = "place" /\ place.c = p.c /\ place.code = p.code
    BY <2>1, <2>3 DEF PayRequest
  <2>5. /\ UNCHANGED <<voucher, draft, settings>>
        /\ \/ UNCHANGED <<codes, checkout>> /\ (Goto(w, place) \/ Goto(w, Idle))
           \/ release_checkout_voucher_usage(p.c, NoCode, p.increased) /\ Goto(w, Idle)
    BY <2>1, <2>3 DEF process_payment
  <2>6. CASE UNCHANGED <<codes, checkout>> /\ Goto(w, place)
    <3>1. voucher.usage_limit > 0 => RequestOK(p)
      BY <1>r, <2>1
    <3>2. voucher.usage_limit > 0 => RequestOK(place)'
      BY <2>2, <2>4, <2>6, <3>1 DEF RequestOK
    <3> QED BY <1>s, <2>2, <2>5, <2>6, <3>2, OneRequestMoves
  <2>7. CASE UNCHANGED <<codes, checkout>> /\ Goto(w, Idle)
    BY <1>s, <1>i, <2>2, <2>5, <2>7, OneRequestMoves
  <2>8. CASE release_checkout_voucher_usage(p.c, NoCode, p.increased) /\ Goto(w, Idle)
    <3>1. UNCHANGED codes /\ (checkout' = checkout \/ checkout' = [checkout EXCEPT ![p.c].increased = FALSE])
      BY <2>2, <2>8 DEF release_checkout_voucher_usage
    <3>2. Claims(checkout') \subseteq Claims(checkout)
      BY <1>t, <2>2, <3>1 DEF Claims, CheckoutRow
    <3>3. DraftClaims(draft)' \subseteq DraftClaims(draft)
      BY <2>5 DEF DraftClaims, settings
    <3>4. voucher.usage_limit > 0 => ClaimsAreCounted'
      BY <2>5, <3>1, <3>2, <3>3, NobodyClaimsMore
    <3> QED BY <1>i, <2>2, <2>5, <2>8, <3>4, OneRequestMoves
  <2> QED BY <2>5, <2>6, <2>7, <2>8
<1>9. CASE \E w \in Workers : \E result \in {"order", "action_required", "insufficient_stock", "refunding"} :
             place_order(w, result)
  <2> PICK w \in Workers, result \in {"order", "action_required", "insufficient_stock", "refunding"} :
             place_order(w, result)
    BY <1>9
  <2>1. PICK p \in PayRequest : p = proc[w]
    BY <1>t, RequestContents DEF place_order
  <2>2. /\ p.c \in Checkouts /\ proc[w] # Idle /\ p.at = "place"
        /\ p.info \in CodeOrNone /\ checkout[p.c].increased \in BOOLEAN
    BY <1>t, <2>1 DEF PayRequest, Idle, place_order, CheckoutRow
  <2>3. PICK known \in CodeOrNone : known = IF p.info # NoCode THEN p.info ELSE Found(p.c)
    BY <2>2, FoundType
  <2>4. /\ UNCHANGED <<voucher, draft, settings>> /\ Goto(w, Idle)
        /\ \/ UNCHANGED <<codes, checkout>>
           \/ /\ checkout[p.c].state = "open" /\ UNCHANGED codes
              /\ checkout' = [checkout EXCEPT ![p.c] =
                   [state |-> "ordered", code |-> p.code, increased |-> FALSE]]
           \/ /\ checkout[p.c].state = "open"
              /\ release_checkout_voucher_usage(p.c, known, checkout[p.c].increased)
    BY <2>1, <2>3 DEF place_order
  <2>5. DraftClaims(draft)' \subseteq DraftClaims(draft)
    BY <2>4 DEF DraftClaims, settings
  <2>6. ASSUME voucher.usage_limit > 0 PROVE ClaimsAreCounted'
    <3>1. CASE UNCHANGED <<codes, checkout>>
      BY <1>s, <2>4, <2>6, <3>1
    <3>2. CASE /\ checkout[p.c].state = "open" /\ UNCHANGED codes
               /\ checkout' = [checkout EXCEPT ![p.c] =
                    [state |-> "ordered", code |-> p.code, increased |-> FALSE]]
      <4>1. p.code # NoCode => checkout[p.c].increased
        BY <1>r, <2>1, <2>2, <2>6 DEF RequestOK
      <4>2. Claims(checkout') \subseteq Claims(checkout)
        BY <1>t, <2>2, <3>2, <4>1 DEF Claims, CheckoutRow
      <4> QED BY <2>4, <2>5, <2>6, <3>2, <4>2, NobodyClaimsMore
    <3>3. CASE /\ checkout[p.c].state = "open"
               /\ release_checkout_voucher_usage(p.c, known, checkout[p.c].increased)
      <4>1. /\ UsedIn(codes') <= UsedIn(codes) /\ UsedIn(codes) <= UsedIn(codes') + 1
            /\ ~checkout[p.c].increased => codes' = codes /\ checkout' = checkout
            /\ checkout[p.c].increased => checkout' = [checkout EXCEPT ![p.c].increased = FALSE]
        <5>1. UsedIn(codes) \in Nat
          BY <1>t, UsedInType
        <5>2. CASE ~checkout[p.c].increased
          BY <3>3, <5>1, <5>2 DEF release_checkout_voucher_usage
        <5>3. CASE checkout[p.c].increased
          <6>1. /\ checkout' = [checkout EXCEPT ![p.c].increased = FALSE]
                /\ codes' = IF known = NoCode THEN codes
                            ELSE release_voucher_code_usage(known, {email[p.c]})
            BY <3>3, <5>3 DEF release_checkout_voucher_usage
          <6>2. CASE known = NoCode
            BY <5>1, <5>3, <6>1, <6>2
          <6>3. CASE known # NoCode
            <7>1. known \in Codes /\ {email[p.c]} \in SUBSET Customers
              BY <1>e, <2>2, <6>3 DEF CodeOrNone
            <7> QED BY <5>3, <6>1, <6>3, <7>1, Releasing
          <6> QED BY <6>2, <6>3
        <5> QED BY <5>2, <5>3
      <4>2. CASE ~checkout[p.c].increased
        BY <1>s, <2>4, <2>6, <4>1, <4>2
      <4>3. CASE checkout[p.c].increased
        <5>1. p.c \in Claims(checkout) /\ Claims(checkout') \subseteq Claims(checkout) \ {p.c}
          BY <1>t, <2>2, <3>3, <4>1, <4>3 DEF Claims, CheckoutRow
        <5> QED BY <2>4, <2>5, <2>6, <4>1, <5>1, OneClaimLess
      <4> QED BY <4>2, <4>3
    <3> QED BY <2>4, <3>1, <3>2, <3>3
  <2> QED BY <1>i, <2>2, <2>4, <2>6, OneRequestMoves
<1>10. CASE \E w \in Workers : lock_and_find_voucher(w)
  <2> PICK w \in Workers : lock_and_find_voucher(w)
    BY <1>10
  <2>1. PICK p \in TransactionRequest : p = proc[w]
    BY <1>t, RequestContents DEF lock_and_find_voucher
  <2>2. /\ p.c \in Checkouts /\ proc[w] # Idle /\ p.at = "t_validate"
    BY <2>1 DEF TransactionRequest, Idle, lock_and_find_voucher
  <2>3. PICK create, inc : /\ create = [p EXCEPT !.at = "create", !.code = NoCode]
                           /\ inc = [p EXCEPT !.at = "t_increase"]
    OBVIOUS
  <2>4. /\ create.at = "create" /\ create.code = NoCode /\ create.c = p.c
        /\ inc.at = "t_increase" /\ inc.c = p.c /\ inc.code = p.code /\ inc.increased = p.increased
    BY <2>1, <2>3 DEF TransactionRequest
  <2>5. /\ UNCHANGED <<voucher, codes, checkout, draft, settings>>
        /\ \/ Goto(w, Idle)
           \/ ~get_voucher_for_checkout(p.code, p.increased) /\ Goto(w, create)
           \/ get_voucher_for_checkout(p.code, p.increased) /\ Goto(w, inc)
    BY <2>1, <2>3 DEF lock_and_find_voucher
  <2>6. CASE Goto(w, Idle)
    BY <1>s, <1>i, <2>2, <2>5, <2>6, OneRequestMoves
  <2>7. voucher.usage_limit > 0 =>
          p.increased = checkout[p.c].increased /\ p.code = checkout[p.c].code
    BY <1>r, <2>1, <2>2 DEF RequestOK
  <2>8. CASE ~get_voucher_for_checkout(p.code, p.increased) /\ Goto(w, create)
    <3>1. ASSUME voucher.usage_limit > 0 PROVE RequestOK(create)'
      <4>1. Found(p.c) = NoCode
        BY <2>7, <2>8, <3>1 DEF Found
      <4>2. Found(p.c)' = NoCode
        BY <2>5, <4>1 DEF Found, get_voucher_for_checkout, active, TotalUsed
      <4> QED BY <2>4, <4>2 DEF RequestOK
    <3> QED BY <1>s, <2>2, <2>5, <2>8, <3>1, OneRequestMoves
  <2>9. CASE get_voucher_for_checkout(p.code, p.increased) /\ Goto(w, inc)
    <3>1. ASSUME voucher.usage_limit > 0 PROVE RequestOK(inc)'
      <4>1. checkout[p.c].increased \/ Room
        BY <2>7, <2>9, <3>1 DEF get_voucher_for_checkout, active, Room, TotalUsed, UsedIn
      <4>2. (checkout[p.c].increased \/ Room)'
        BY <2>5, <4>1 DEF Room
      <4> QED BY <2>4, <2>5, <2>7, <3>1, <4>2 DEF RequestOK
    <3> QED BY <1>s, <2>2, <2>5, <2>9, <3>1, OneRequestMoves
  <2> QED BY <2>5, <2>6, <2>8, <2>9
<1>11. CASE \E w \in Workers : increase_voucher_code_usage(w)
  <2> PICK w \in Workers : increase_voucher_code_usage(w)
    BY <1>11
  <2>1. PICK p \in TransactionRequest : p = proc[w]
    BY <1>t, RequestContents DEF increase_voucher_code_usage
  <2>2. /\ p.c \in Checkouts /\ p.code \in Codes /\ p.increased \in BOOLEAN
        /\ proc[w] # Idle /\ p.at = "t_increase"
    BY <2>1 DEF TransactionRequest, Idle, increase_voucher_code_usage
  <2>3. PICK create : create = [p EXCEPT !.at = "create"]
    OBVIOUS
  <2>4. create.at = "create" /\ create.code = p.code /\ create.c = p.c
    BY <2>1, <2>3 DEF TransactionRequest
  <2>5. /\ UNCHANGED <<voucher, draft, settings>>
        /\ \/ UNCHANGED <<codes, checkout>> /\ Goto(w, Idle)
           \/ increase_checkout_voucher_usage(p.c, p.code, p.increased) /\ Goto(w, create)
    BY <2>1, <2>3 DEF increase_voucher_code_usage
  <2>6. CASE UNCHANGED <<codes, checkout>> /\ Goto(w, Idle)
    BY <1>s, <1>i, <2>2, <2>5, <2>6, OneRequestMoves
  <2>7. CASE increase_checkout_voucher_usage(p.c, p.code, p.increased) /\ Goto(w, create)
    <3>1. /\ p.increased => codes' = codes /\ checkout' = checkout
          /\ ~p.increased => /\ checkout' = [checkout EXCEPT ![p.c].increased = TRUE]
                             /\ voucher.usage_limit > 0 => UsedIn(codes') = UsedIn(codes) + 1
      <4>1. CASE p.increased
        BY <2>7, <4>1 DEF increase_checkout_voucher_usage
      <4>2. CASE ~p.increased
        <5>1. /\ checkout' = [checkout EXCEPT ![p.c].increased = TRUE]
              /\ codes' = increase_voucher_usage(p.code, email[p.c], TRUE)
          BY <2>7, <4>2 DEF increase_checkout_voucher_usage
        <5> QED BY <1>e, <2>2, <4>2, <5>1, Increasing
      <4> QED BY <4>1, <4>2
    <3>2. voucher.usage_limit > 0 => /\ p.increased = checkout[p.c].increased
                                     /\ p.increased \/ Room
      BY <1>r, <2>1, <2>2 DEF RequestOK
    <3>3. ASSUME voucher.usage_limit > 0 PROVE RequestOK(create)' /\ ClaimsAreCounted'
      <4>1. p.code # NoCode
        BY <2>2, NoCodeAssumption
      <4>2. CASE p.increased
        <5>1. checkout'[p.c].increased
          BY <3>1, <3>2, <3>3, <4>2
        <5>2. RequestOK(create)'
          BY <2>4, <4>1, <5>1 DEF RequestOK
        <5> QED BY <1>s, <2>5, <3>1, <3>3, <4>2, <5>2
      <4>3. CASE ~p.increased
        <5>1. checkout'[p.c].increased
          BY <1>t, <2>2, <3>1, <4>3 DEF CheckoutRow
        <5>2. RequestOK(create)'
          BY <2>4, <4>1, <5>1 DEF RequestOK
        <5>3. Claims(checkout') \subseteq Claims(checkout) \cup {p.c}
          BY <1>t, <3>1, <4>3 DEF Claims, CheckoutRow
        <5>4. DraftClaims(draft)' \subseteq DraftClaims(draft)
          BY <2>5 DEF DraftClaims, settings
        <5>5. ClaimsAreCounted'
          BY <2>5, <3>1, <3>2, <3>3, <4>3, <5>3, <5>4, OneClaimMore
        <5> QED BY <5>2, <5>5
      <4> QED BY <4>2, <4>3
    <3> QED BY <2>2, <2>5, <2>7, <3>3, OneRequestMoves
  <2> QED BY <2>5, <2>6, <2>7
<1>12. CASE \E w \in Workers : \E result \in {"order", "insufficient_stock"} :
              create_order_from_checkout(w, result)
  <2> PICK w \in Workers, result \in {"order", "insufficient_stock"} :
             create_order_from_checkout(w, result)
    BY <1>12
  <2>1. PICK p \in CreateRequest : p = proc[w]
    BY <1>t, RequestContents DEF create_order_from_checkout
  <2>2. p.c \in Checkouts /\ proc[w] # Idle /\ p.at = "create"
    BY <2>1 DEF CreateRequest, Idle
  <2>3. PICK code : code = IF p.code # NoCode THEN p.code ELSE Found(p.c)
    OBVIOUS
  <2>4. /\ UNCHANGED <<voucher, codes, draft, settings>> /\ Goto(w, Idle)
        /\ \/ UNCHANGED checkout
           \/ /\ checkout[p.c].state = "open"
              /\ checkout' = [checkout EXCEPT ![p.c] =
                   [state |-> "ordered", increased |-> FALSE, code |-> code]]
    BY <2>1, <2>3 DEF create_order_from_checkout
  <2>5. DraftClaims(draft)' \subseteq DraftClaims(draft)
    BY <2>4 DEF DraftClaims, settings
  <2>6. ASSUME voucher.usage_limit > 0 PROVE ClaimsAreCounted'
    <3>1. code # NoCode => checkout[p.c].increased
      BY <1>r, <2>1, <2>2, <2>3, <2>6 DEF RequestOK
    <3>2. Claims(checkout') \subseteq Claims(checkout)
      BY <1>t, <2>2, <2>4, <3>1 DEF Claims, CheckoutRow
    <3> QED BY <2>4, <2>5, <2>6, <3>2, NobodyClaimsMore
  <2> QED BY <1>i, <2>2, <2>4, <2>6, OneRequestMoves
<1>13. CASE \E w \in Workers : RequestDies(w)
  BY <1>13, <1>s, <1>i, OneRequestMoves DEF RequestDies
<1>14. CASE \E w \in Workers : \E d \in Drafts, code \in Codes : clean_voucher_code(w, d, code)
  <2> PICK w \in Workers, d \in Drafts, code \in Codes : clean_voucher_code(w, d, code)
    BY <1>14
  <2>1. PICK p : p = [at |-> "save_draft", d |-> d, code |-> code]
    OBVIOUS
  <2>2. /\ NoRequest /\ Goto(w, p) /\ active(include_draft_order_in_voucher_usage)
        /\ UNCHANGED <<voucher, codes, checkout, draft, settings>>
    BY <2>1 DEF clean_voucher_code
  <2>3. voucher.usage_limit > 0 => (include_draft_order_in_voucher_usage => Room)'
    BY <2>2 DEF active, Room, TotalUsed, UsedIn, settings
  <2>4. voucher.usage_limit > 0 => RequestOK(p)'
    BY <2>1, <2>3 DEF RequestOK
  <2> QED BY <1>s, <2>2, <2>4, OneRequestMoves
<1>15. CASE \E w \in Workers : handle_order_voucher(w)
  <2> PICK w \in Workers : handle_order_voucher(w)
    BY <1>15
  <2>1. PICK p \in DraftRequest : p = proc[w]
    BY <1>t, RequestContents DEF handle_order_voucher
  <2>2. /\ p.d \in Drafts /\ p.code \in Codes /\ email[p.d] \in Customers
        /\ proc[w] # Idle /\ p.at = "save_draft"
    BY <1>e, <2>1 DEF DraftRequest, Idle
  <2>3. /\ UNCHANGED <<voucher, checkout, settings>> /\ Goto(w, Idle)
        /\ draft' = [draft EXCEPT ![p.d] = [state |-> "draft", code |-> p.code]]
        /\ codes' = IF include_draft_order_in_voucher_usage
                    THEN increase_voucher_usage(p.code, email[p.d], FALSE) ELSE codes
    BY <2>1 DEF handle_order_voucher
  <2>4. ASSUME voucher.usage_limit > 0 PROVE ClaimsAreCounted'
    <3>1. CASE ~include_draft_order_in_voucher_usage
      <4>1. DraftClaims(draft)' \subseteq DraftClaims(draft)
        BY <2>3, <3>1 DEF DraftClaims, settings
      <4> QED BY <2>3, <2>4, <3>1, <4>1, NobodyClaimsMore
    <3>2. CASE include_draft_order_in_voucher_usage
      <4>1. DraftClaims(draft)' \subseteq DraftClaims(draft) \cup {p.d}
        BY <1>t, <2>2, <2>3 DEF DraftClaims, settings
      <4>2. Room
        BY <1>r, <2>1, <2>2, <2>4, <3>2 DEF RequestOK
      <4>3. UsedIn(codes') = UsedIn(codes) + 1
        BY <2>2, <2>3, <2>4, <3>2, Increasing
      <4> QED BY <2>3, <2>4, <4>1, <4>2, <4>3, OneClaimMore
    <3> QED BY <3>1, <3>2
  <2> QED BY <1>i, <2>2, <2>3, <2>4, OneRequestMoves
<1>16. CASE \E d \in Drafts : remove_draft_voucher(d) \/ draft_order_delete(d)
  <2> PICK d \in Drafts : remove_draft_voucher(d) \/ draft_order_delete(d)
    BY <1>16
  <2>1. /\ NoRequest /\ draft[d].state = "draft" /\ draft[d].code # NoCode /\ draft[d].code \in Codes
        /\ UNCHANGED <<voucher, checkout, proc, settings>>
    BY <1>t DEF remove_draft_voucher, draft_order_delete, StaffOn, DraftRow, CodeOrNone
  <2>2. /\ \A e \in Drafts : e # d => draft'[e] = draft[e]
        /\ draft'[d].code = NoCode
    BY <1>t DEF remove_draft_voucher, draft_order_delete, DraftRow
  <2>3. PICK who \in SUBSET Customers :
          codes' = IF include_draft_order_in_voucher_usage
                   THEN release_voucher_code_usage(draft[d].code, who) ELSE codes
    <3>1. {} \in SUBSET Customers /\ {email[d]} \in SUBSET Customers
      BY <1>e
    <3> QED BY <3>1 DEF remove_draft_voucher, draft_order_delete
  <2>4. ASSUME voucher.usage_limit > 0 PROVE ClaimsAreCounted'
    <3>1. CASE ~include_draft_order_in_voucher_usage
      <4>1. DraftClaims(draft)' \subseteq DraftClaims(draft)
        BY <2>1, <3>1 DEF DraftClaims, settings
      <4> QED BY <2>1, <2>3, <2>4, <3>1, <4>1, NobodyClaimsMore
    <3>2. CASE include_draft_order_in_voucher_usage
      <4>1. d \in DraftClaims(draft) /\ DraftClaims(draft)' \subseteq DraftClaims(draft) \ {d}
        BY <2>1, <2>2, <3>2 DEF DraftClaims, settings
      <4>2. UsedIn(codes') <= UsedIn(codes) /\ UsedIn(codes) <= UsedIn(codes') + 1
        BY <2>1, <2>3, <3>2, Releasing
      <4> QED BY <2>1, <2>4, <4>1, <4>2, OneClaimLess
    <3> QED BY <3>1, <3>2
  <2> QED BY <2>1, <2>4, BetweenRequests
<1>17. CASE \E d \in Drafts : draft_order_complete(d)
  <2> PICK d \in Drafts : draft_order_complete(d)
    BY <1>17
  <2>1. /\ NoRequest /\ draft[d].state = "draft" /\ draft[d].code # NoCode
        /\ UNCHANGED <<voucher, checkout, proc, settings>>
        /\ draft' = [draft EXCEPT ![d].state = "ordered"]
    BY DEF draft_order_complete, StaffOn
  <2>2. \A k \in Codes : codes'[k].used = codes[k].used
    BY <1>t DEF draft_order_complete, CodeRow
  <2>3. UsedIn(codes') = UsedIn(codes)
    BY <2>2 DEF UsedIn
  <2>4. DraftClaims(draft)' \subseteq DraftClaims(draft)
    BY <1>t, <2>1 DEF DraftClaims, DraftRow, settings
  <2>5. voucher.usage_limit > 0 => ClaimsAreCounted'
    BY <2>1, <2>3, <2>4, NobodyClaimsMore
  <2> QED BY <2>1, <2>5, BetweenRequests
<1>18. CASE UNCHANGED vars
  <2>1. UNCHANGED <<voucher, codes, checkout, draft, settings, proc>>
    BY <1>18 DEF vars
  <2>2. voucher.usage_limit > 0 => ClaimsAreCounted'
    BY <1>s, <2>1
  <2>3. ASSUME NEW w \in Workers, RequestOK(proc[w]) PROVE RequestOK(proc[w])'
    <3>1. \A c : Found(c)' = Found(c)
      BY <2>1 DEF Found, get_voucher_for_checkout, active, TotalUsed
    <3>2. Room' <=> Room
      BY <2>1 DEF Room
    <3> QED BY <2>1, <2>3, <3>1, <3>2 DEF RequestOK, settings
  <2> QED BY <1>r, <2>1, <2>2, <2>3 DEF CountInv, OneAtATime
<1> QED
  BY <1>1, <1>2, <1>3, <1>4, <1>5, <1>6, <1>7, <1>8, <1>9, <1>10, <1>11, <1>12, <1>13,
     <1>14, <1>15, <1>16, <1>17, <1>18 DEF Next

(* While requests follow one another, every order with the voucher is       *)
(* counted and the usage limit holds over all codes, for any number of      *)
(* codes and checkouts, through failed payments, tax errors, dead requests  *)
(* and changed codes: a use is given back only by a checkout or draft that  *)
(* has one.                                                                 *)
THEOREM UsageLimitHolds ==
  ASSUME Overlap = FALSE
  PROVE  Spec => []OrdersAreCounted
<1>1. Init => CountInv
  BY InitCount
<1>2. Typed /\ Typed' /\ CountInv /\ [Next]_vars => CountInv'
  BY StepCount
<1>3. Spec => []CountInv
  BY <1>1, <1>2, TypesHold, PTL DEF Spec
<1>4. Typed /\ CountInv => OrdersAreCounted
  BY CountInvImpliesCounted
<1> QED BY <1>3, <1>4, TypesHold, PTL
=============================================================================
