# Saleor in TLA+: stock, orders, checkouts, money and webhooks

This project models the parts of Saleor in which several actors change shared
state: the warehouse tables and the orders and checkouts that compete for
them, the transactions that record payments, the balance of gift cards, the
uses of vouchers, the circuit breaker and the delivery of webhooks. TLC checks
the models on small instances; TLAPS proves their safety properties for all
instances, and that orders and checkouts implement the abstract warehouse and
the calls of webhooks the abstract circuit breaker. Paths below are relative to
`src/saleor/`.

## Inventory

| Part | State | Operations | What is hard | What makes it correct |
|---|---|---|---|---|
| Stock management (`warehouse/management.py`, `lock_objects.py`) | `Stock.quantity`, the denormalised `Stock.quantity_allocated`, `Allocation` rows | allocate, increase, decrease, deallocate, ship, restock, delete | the counter and the rows are written separately; several rows of one stock in a call; splitting over warehouses | the counter is the sum of the rows; no allocation promises what is not there |
| Reservations (`warehouse/reservations.py`) | `Reservation` rows with `reserved_until` | reserve, refresh, expire | expiry at any moment, own reservations left out of checks | reserved units are kept for their checkout |
| Housekeeping (`warehouse/tasks.py`, celery) | ids or sums read by a task | sweep empty allocations, delete expired reservations, repair counters | read and write in different transactions | counters get repaired |
| Availability (`warehouse/availability.py`) | none | check a set of lines | the check takes no lock and the answer ages | an order placed after a check fits |
| Order lifecycle (`order/actions.py`, `order/utils.py`, `order/tasks.py`, `graphql/order/mutations/`) | `Order.status`, `OrderLine.quantity`, `quantity_fulfilled`, `Fulfillment` rows | complete a draft, edit, confirm, fulfil, approve, cancel, expire | validation happens before the transaction, often on objects that are saved later | lines, fulfillments, status and stock agree |
| Checkout (`checkout/complete_checkout.py`, `checkout/utils.py`, `graphql/checkout/mutations/`) | `Checkout`, `CheckoutLine`, reservations | change lines, complete with a payment or with transactions | three transactions with a gateway call between them; retries; concurrent completions | one order per checkout; no order for units promised to others |
| Transactions (`payment/transaction_item_calculations.py`, `payment/utils.py`, `graphql/payment/mutations/transaction/`) | `TransactionItem` amounts, `TransactionEvent` rows, the order's totals | report, request, answer, recalculate | duplicated, reordered and contradictory events; two paths with different locks | an action counts once; amounts follow from the events and add up |
| Gift cards (`giftcard/`, `graphql/giftcard/`) | `GiftCard` balances, attached transactions, codes on checkouts | authorise, charge, cancel, refund, spend by code, adjust, update, delete | authorised in one request, charged in another; several checkouts, one card | the books of a card balance; one checkout at a time |
| Vouchers (`discount/utils/voucher.py`, `discount/models.py`) | `VoucherCode.used`, `is_active`, customers; a mark on the checkout | count, release, validate | counted transactions before the order exists; retries and changes in between | no order is uncounted, no limit exceeded |
| Circuit breaker (`webhook/circuit_breaker/`) | state and event sets in Redis | count, open, probe, close | each Redis command on its own; Redis failing; time | an open breaker stops calls for its cooldown; a healthy app gets back in |
| Webhook delivery (`webhook/transport/`) | `EventDelivery`, `EventPayload`, Celery tasks | create, generate, send, retry, clear, expire | shared payloads, replica lag, tasks for deliveries that are gone | nothing is dropped undelivered; nothing stays pending |
| Stock availability events, preorders, returns, bulk import | notifications; thresholds; return fulfillments; imported orders | as their names say | the same races as above | as above |

The parts interact through the database. GraphQL mutations run in parallel API
workers; each loads and validates its objects, then opens a transaction and
calls `order/actions.py` or `checkout/complete_checkout.py`, which call
`warehouse/management.py`, `reservations.py`, `discount/utils/voucher.py` and
`giftcard/gateway.py`. Payment apps call back with `transactionEventReport`.
Celery workers run the tasks of `CELERY_BEAT_SCHEDULE` (`settings.py`) and the
webhook tasks against the same tables. Everything the code can get wrong that a
test would hardly reach is listed, line by line, under `hazards` in
`PROJECT.json`.

## Modules

```
RowSums ── RowSumsProofs (extended by every other ...Proofs module)
   ├── Warehouse ── MCWarehouse, WarehouseProofs
   │      ├── OrderFulfillment ── MCOrderFulfillment, OrderFulfillmentProofs
   │      └── CheckoutStock ── MCCheckoutStock, CheckoutStockProofs
   ├── Transactions ── MCTransactions, TransactionsProofs
   ├── GiftCards ── MCGiftCards, GiftCardsProofs
   ├── Vouchers ── VouchersProofs
   └── CircuitBreaker ──┬── WebhookProofs
WebhookDelivery ────────┘
Breaker ◁── CircuitBreaker (instantiates it)
```

**RowSums** defines `Total(f, K)`, the database's `SUM(column)` over a set of
rows, as the number of units in the rows. Written with cardinality it is
additive by the theorems about finite sets, without induction. `SignedTotal` is
the same for columns that may be negative.

**Warehouse** is the stock tables and every operation on them. A row of
`allocation` or `reservation` is named by its line, its stock and a copy number
(see `MaxCopies` below); `-1` is "no row". Every operation of `management.py`
and `reservations.py` runs in one transaction that locks its stock rows before
it reads them, so it is one action; a call that raises rolls back and is no
step. The tasks read first and lock later, so each is a read action and a write
action, and `sweep` and `repair` are what was read. `WarehouseNext` lets any
caller call any operation: it is the abstract specification of what the rest
of the shop may do to stock.

Details that are easy to lose are kept: `sort_stocks` with both strategies and
the collection point first; the availability that all lines of a call share;
the generator of `allocate_stocks` that is used up by the reservation query;
`bulk_update` given several copies of one stock, where the first one wins;
`increase_allocations` deleting and allocating anew; `decrease_stock` giving up
allocations wherever they are; cascades on deletion; `_reserve_stocks_without_availability_check`
adding a second row on the last stock.

**OrderFulfillment** extends Warehouse with orders. Each mutation is two
actions: the validation (`..._clean_input`, `..._validate`) records in
`request` what it read, the transaction acts on it. The action takes exactly
what the code takes from the objects loaded earlier: the lines of a draft, the
old quantity of an edited line, `quantity_fulfilled` of a fulfilled one.

**CheckoutStock** extends Warehouse with checkouts. `create_lines_for_order`
is the lock of the checkout and the availability check;
`create_order_from_checkout` allocates in the same transaction,
`reserve_during_payment`, `process_payment` and
`complete_checkout_post_payment_part` are the three transactions of
`complete_checkout_with_payment`. `RequestFails` ends a request at any point
and leaves what it committed.

**Transactions** is the events of an order's transaction items. An event type
is an action and a result, so that one definition serves the four parallel
branches of `recalculate_transaction_amounts`. `transaction_event_report` is
what happens under the lock of the transaction, with the three outcomes of
`deduplicate_event`: a new event, one that was there, or an error, which is
itself recorded as a failure that does not count. The recalculation and the
save are separate steps, and so are the order's totals, which a report writes
under the order's lock and an answer does not. `transaction_request_action`
stores a request that counts only when the app has given its psp reference.

**GiftCards** is the balance of cards. The gateway's transaction items keep the
sums of their events; attaching a card detaches it from every other checkout in
the same transaction, and the authorization is recorded afterwards. Confirming
an order loads the transactions to charge, then charges card after card, then
records each outcome. Spending by code follows `add_gift_cards_to_order`; the
choice of `Uses` is the order in which the cards are taken. The two ghosts,
`issued` and `item[t].from`, only serve the properties.

**Vouchers** is the counting of uses of one voucher with several codes. Both
ways of completing a checkout are there with their transactions and the objects
they keep between them, the fail handlers with what they release and what they
are not given, and the four mutations of draft orders. `RequestDies` stands for
a crash, and for a customer who never comes back.

**Breaker** is what the circuit breaker promises: no call while it is open, the
whole cooldown, a trial before it closes, and nothing while its storage is
down. **CircuitBreaker** is the code: one action for every Redis command of a
call, each of which Redis may fail to answer, and the passing of seconds, with
events aging in their sorted sets.

**WebhookDelivery** is the deliveries of one event. Webhooks without a
subscription query share a payload; those with a deferred one wait for
`generate_deferred_payloads`, which reads from the replica. Every send task
runs through finding its delivery, the request, the retry of Celery and the
clearing; staff can start a second task for a delivery at any moment.

### Abstractions

- Stocks are in pk order of their warehouse's number; warehouses and lines are
  numbers for that reason only.
- A checkout line and the order line it becomes are one member of `Lines`.
- `LineWarehouses` stands for the channel, shipping zone and click-and-collect
  queries that select the stocks a line may use.
- All variants track inventory in OrderFulfillment and CheckoutStock; in
  Warehouse the untracked lines of a shipment are a parameter.
- In OrderFulfillment an order has one line and a request names one warehouse.
- A transaction is atomic. Lock waits inside a transaction, and the abort of a
  deadlocked one, are the choice of when (or whether) its action happens.
- Every transaction event has a `created_at` of its own; equal ones, which the
  code orders by chance, are left out.
- A request to the gift card gateway and its answer are one step: no message
  leaves the process. Psp references made by the gateway are unique.
- A voucher's conditions on products, countries and minimum amounts are met.
- The breaker compares exact fractions where the code divides in floating
  point. A worker's clock is the model's.
- A Celery task that was accepted is run in the end, once per retry; a process
  that dies between storing deliveries and queueing their tasks is left out.
- Prices, e-mails, notifications, search indexes and metadata are left out.
- Settings do not change while a model runs, except a voucher's expiry.

### Bounds

`MaxQuantity` and `MaxNeed` bound the units set by the staff and asked for by a
call; `MaxCounter` bounds the counter where it may drift; `Fulfillments` bounds
the fulfillments that can be created. `MaxCopies` is how many rows a line can
have on one stock: the models declare one (`unique_together`), the database
accepts more since migrations 0024 and 0028 dropped the columns the constraints
were on. One or two units are enough for every case split in the code (none,
some, all, too many), two warehouses for every splitting of a quantity, two
lines for every competition, two workers for every race between a validation
and another transaction.

`Times` bounds the events of a transaction: three are the least in which a
success, a failure of it and a duplicate or contradiction of either meet, and
the fourth is what a refused answer needs (a request, an event that contradicts
its answer, the failure recorded for it, and a report after that); two psp
references keep two actions apart, two amounts make one of them wrong.
`Items` bounds the gift card sessions (two compete for a card), `MaxBalance` and
`Adjustments` what staff do with a card. Two checkouts, a draft and two codes
are every conflict over a usage limit of one or two. `MaxEvents` bounds what the
breaker has counted within its TTL: three reach both thresholds and leave one
call to spare. The retries of webhooks are bounded by one, which is enough to
separate "again" from "no more"; two deliveries share a payload or do not.

Deadlock is checked for the circuit breaker, where time never stops; elsewhere
it is not, because a shop in which nobody asks for anything may stop.

## Runs

| Run | Checks | Shows |
|---|---|---|
| WarehouseTasks | `TypeOK`, `QuietShopIsRepaired` | a click-and-collect checkout order and a draft order on two warehouses, every operation, with sweep and repair racing them: no dangling row, and counters that become right |
| OrderFulfillmentSerial | `OrderTypeOK`, `FulfilledCountsFulfillments`, `NeverFulfilledBeyondOrder`, `HeldWithinOpen`, `StatusShowsProgress`, `CounterMatchesRows`, `AllocationsFit` | two orders, two warehouses, automatic approval, requests one after another |
| OrderFulfillmentApproval | `FulfilledCountsFulfillments`, `StatusShowsProgress`, `CounterMatchesRows`, `WarehouseSpec` | fulfillments waiting for approval; refinement of Warehouse |
| CheckoutStockSerial | `CheckoutTypeOK`, `CounterMatchesRows`, `OrdersLeaveWhatIsPromised`, `WarehouseSpec` | two checkouts, both kinds of completion, failures and expiry, requests one after another; refinement of Warehouse |
| CheckoutStockConcurrent | `OneOrderPerCheckout`, `PlacedHoldsNoReservation`, `CounterMatchesRows` | two workers, a checkout with two lines and one with one |
| CheckoutStockOverallocated | violation of `AllocationsFit` | a checkout order is allocated on a stock that is taken, though another has the unit |
| CircuitBreakerCalls | `BoardTypeOK`, `BreakerPromise`, `HealthyAppIsUsed` | one worker's calls implement Breaker whatever Redis and the app do; liveness of recovery |
| VouchersSerial | `TypeOK`, `OrdersAreCounted` | failures, deaths and retries between the transactions of a completion |
| VouchersSwappedCode | violation of `SingleUse` | a failed completion, another code, a completion: the second code is never used up |
| TransactionsSerial | `TypeOK`, `OneEventPerAction`, `AmountsMatchEvents`, `MoneyIsConserved`, `FailureIsHeard` | reports in any order, repeated and wrong, with requests and answers between them |
| GiftCardsSerial | `TypeOK`, `BooksBalance`, `OneCheckoutAtATime`, `ConfirmedOrdersAreSettled` | two checkouts and staff share a card |
| WebhookDeliveryTasks | `TypeOK`, `NoDeliveryIsDropped`, `PendingHasATask`, `PendingIsResolved` | two deliveries, every mix of payloads, all tasks interleaved |

Two kinds of refinement are checked. OrderFulfillment and CheckoutStock use the
variables of Warehouse themselves, so that the mapping is the identity and
`WarehouseSpec` is a property of their runs; `OrdersUseTheWarehouse` and
`CheckoutsUseTheWarehouse` prove it for every instance. CircuitBreaker
implements Breaker under a mapping (`Promise`): between deleting the keys and
setting the state, the breaker's state is the one about to be set.
`CallsKeepThePromise` proves it for one worker and all settings.

### Reproducing the races

The serial runs and two workers are two halves of one statement: with one
request at a time the code keeps the property, with two it does not. They show
that the fault is the window between reading and writing. To see a race, change
the constants named here in a copy of the run's cfg and keep the property:

| Run | Change | Property violated | Race |
|---|---|---|---|
| OrderFulfillmentSerial | `Workers = {1, 2}`, `Lines = {1}` | `FulfilledCountsFulfillments` | two fulfillments of one line: the later save of `quantity_fulfilled` loses the earlier one (`order/actions.py:1066`) |
| OrderFulfillmentSerial | `Workers = {1, 2}`, `Lines = {1}`, `MaxCopies = 2`, `FulfillmentAutoApprove = FALSE` | `HeldWithinOpen` | one draft completed twice, its line allocated twice (`draft_order_complete.py:92`) |
| OrderFulfillmentSerial | `Workers = {1, 2}`, `Lines = {1}` | `StatusShowsProgress` | an edit validated before a shipment and saved after it |
| CheckoutStockSerial | `Workers = {1, 2}` | `OrdersLeaveWhatIsPromised` | both checks come before either allocation (`checkout/complete_checkout.py:1997`) |
| WarehouseTasks | no `Sweeper`, `LineOrder` the same for both lines | `CounterMatchesRows` | two lines of one order on one stock: deallocation subtracts one of them (`warehouse/management.py:449`) |
| TransactionsSerial | `Workers = {w1, w2}`, `Overlap = TRUE` | `AmountsMatchEvents` | an answer and a report recalculate at once |
| GiftCardsSerial | `Workers = {w1, w2}`, `Overlap = TRUE` | `BooksBalance` | `giftCardUpdate` saves the balance it loaded over a charge; `docs/adr/0004` asks never to "read a balance, decide, and write it back as separate steps" |
| GiftCardsSerial | `Workers = {w1, w2}`, `Overlap = TRUE` | `OneCheckoutAtATime` | two sessions attach the card before either authorization is recorded |
| GiftCardsSerial | `Workers = {w1, w2}`, `Overlap = TRUE` | `ConfirmedOrdersAreSettled` | an order is confirmed and charged after a session has attached the card and before its authorization is recorded |
| VouchersSerial | `Workers = {w1, w2}`, `Overlap = TRUE` | `OrdersAreCounted` | two completions validate the last use |
| CircuitBreakerCalls | `Workers = {1, 2}` | `BreakerPromise` | a call reads between the deletion of the keys and the new state |

Four more cases are outside the properties, each named in the comment of the
property it concerns or under `hazards`: a failure recorded for a wrong amount
hides a real one (`FailureIsHeard`); an answer that is refused leaves its
request counted and the amounts as they were until the next report
(`AmountsMatchEvents`, `payment/utils.py:1600`); the transaction of a deleted gift card is
left authorised without a failed charge (`ConfirmedOrdersAreSettled`); a
deferred delivery without data, or with a replica that is too slow, stays
PENDING (`PendingIsResolved` speaks of those with a payload).

What the runs do not check: `NeverFulfilledBeyondOrder` and `HeldWithinOpen`
with waiting fulfillments, because an unconfirmed order stays editable while
its fulfillments wait and can be edited below what they carry; `AllocationsFit`
with several lines of one variant in one call, which all see the same
availability; and that a canceled order stays canceled, because `orderFulfill`
does not look at the order's status.

### Fairness

- `FairWarehouseSpec`: weak fairness of the repair task's read and of its
  write. Celery beat starts the task again and again (`settings.py`,
  `CELERY_BEAT_SCHEDULE`), and a task that has read goes on to write. Nothing
  else is fair; `QuietShopIsRepaired` is about the time when the shop stops.
- `FairBoardSpec` of CircuitBreaker: a call that has begun goes on, another follows
  (customers keep calling; without calls nothing is sent or decided), and time
  passes. Neither Redis nor the app is assumed to recover; `HealthyAppIsUsed`
  has that as its premise.
- `FairSpec` of WebhookDelivery: weak fairness of each queued task and of the
  generation of payloads, because Celery runs what its broker has accepted, and
  of the request that queues them. Staff, expiry and replication are not fair.

## Proofs

Each theorem holds for every value of the constants that satisfies the named
`ASSUME`s of its module (finite sets of the right types, which TLC evaluates in
the runs) and the hypotheses the theorem states. There are three kinds of
hypotheses:

- *one request at a time*: `OneWorker`, `OneCaller`, or `Overlap = FALSE`. The table of races
  above shows for each such property how it fails without. The theorems then say
  that the window between reading and writing is the only way it fails, for any
  number of orders, checkouts, cards, codes and events;
- *shape of the data*: `DistinctVariants` (no two lines of an order share a
  variant), `MaxCopies = 1`, no reservations, no approval;
- *room in a bound*: `MaxCounter` is a bound of the model, so a refinement needs
  it large enough for all lines.

`RowSumsProofs` has the lemmas about sums that all others cite: splitting,
clearing, adding and changing rows, and when a sum is at most another. A sum is
a cardinality, so that they follow from the theorems about finite sets.

### Warehouse

- `TablesAreWellFormed`: `TypeOK`. It is inductive as it stands because it
  contains the foreign keys (a row's stock exists and is of the line's variant).
  One lemma per operation shows that the operation keeps it; they rest on lemmas
  about the helpers (`FillBounds`: a fill takes between nothing and what is
  there; `DeallocatedRows`; `CreatedRows`).
- `CounterIsTheSumOfTheRows`: `CounterMatchesRows`, when no two lines of an order
  share a variant, `MaxCopies = 1` and the tasks do not run. The invariant is
  `TypeOK /\ CounterMatchesRows`. For `deallocate_stock` the point is that the
  rows that give are on different stocks (`GiversOnDifferentStocks`), so that
  "the first copy wins" subtracts everything that was given (`OneGiver`). All
  three hypotheses are needed: two lines of one order on one stock, two rows on
  one stock and a late delete by the sweep each violate it.
- `AllocationsFitTheStock`: `AllocationsFit`, without reservations and checkout
  orders and with distinct variants. Checkout orders are left out because of the
  violation that CheckoutStockOverallocated shows.

### Checkouts and orders

- `CheckoutsAreWellFormed`, `CheckoutIsPlacedOnce`, `OrderedIsNotReserved`: the
  invariant `CheckoutInv`, for any number of workers. `OneOrderPerCheckout` needs
  two facts more: the transaction that is about to place an order holds the
  checkout's lock alone (`LocksAreHeldAlone`), and the lines of a checkout move
  to its order together (`LinesMove`). `RequestsOK` says what a request has read.
- `CheckoutsKeepTheCounter`: a checkout is ordered once, so each of its lines has
  one row on a stock (`AllocatedOnce`), and counters only ever grow by the rows
  that are created. Hence no hypothesis on variants or copies.
- `PromisesAreKept`: `OrdersLeaveWhatIsPromised`, an action property, with one
  worker, distinct variants and all warehouses in reach. The invariant
  `RequestsChecked` is what the availability check leaves behind: the units a
  request is about to take, with all allocations and the unexpired reservations
  of others, are in stock. `CheckPasses` establishes it, `PromisesEnd` keeps it
  when reservations expire, `PlacingAllocates` uses it. Units in a warehouse that
  another checkout cannot ship from are not interchangeable, which is why all
  warehouses have to be in reach.
- `OrdersAreWellFormed`, `OrdersKeepTheCounter` (`MaxCopies = 1`) and
  `OrdersFitTheStock` (no reservations) hold for any number of workers: a stale
  request cannot spoil the stock tables, since every call checks under its lock.
- `FulfilledIsCounted` and `StatusFollowsShipments`: one worker, with and without
  approval. `RequestsFresh` says that what the request in progress has read is
  still so; `Books` adds to the two properties the rows that are waiting, and the
  statuses that the properties do not name.
- `NothingIsShippedTwice` and `NothingIsPromisedTwice`: one worker and automatic
  approval (see above for waiting fulfillments). The invariant `Holds` relates
  the allocations of a line, its fulfillments and its quantity; neither property
  is inductive without the other, because a shipment beyond the order would
  follow from an allocation beyond it. The key lemma, `FillLeaves`, says that
  `deallocate_stock` leaves the units past those it was asked for: it maps the
  units that remain one to one into the units of the rows in their order.
- `OrdersUseTheWarehouse` and `CheckoutsUseTheWarehouse`: `Spec => WarehouseSpec`,
  one step per action.

### Money, vouchers, webhooks

- Transactions. `EventsAreWellFormed`, `ActionsCountOnce` and `FailuresAreHeard`
  hold for any number of workers, overlapping or not: events are created under
  the lock of the transaction, after the lookup of `deduplicate_event`.
  `OneEventPerAction` is inductive with the uniqueness of times (`OneTime`) and
  the request an answer is awaited for (`Unanswered`). `AmountsFollowEvents` and
  `NoMoneyIsLost` are for one request at a time; `Books` says at each place of a
  request which of amounts and totals are behind. Trying to prove it showed the
  refused answer, which four events are needed to reach.
- GiftCards. `BalancesAreWellFormed`, for any number of workers, includes that no
  balance is negative. `CardsPayForOneCheckout`, `ConfirmingTakesTheMoney` and
  `CardsKeepTheirBooks` share the invariant `SerialInv` of the request in progress:
  what it has done to the balance and not yet recorded (`Books(p)`), which
  authorizations it still has to charge (`Settled(p)`) or detach (`OneLive`), and
  that only confirmed orders are charged, for all that was authorized (`ItemOK`).
- Vouchers. `VouchersAreWellFormed` for any number of workers; `UsageLimitHolds`
  for one request at a time. The invariant `CountInv` counts claims: a checkout
  has one from the moment it is marked until it is given back or the order
  exists, also when the request died in between. Orders alone are not enough,
  since a use is counted transactions before its order.
- WebhookDelivery. `DeliveriesAreWellFormed`, `DeliveriesAreNotDropped` and
  `PendingIsAttended`, for any webhooks, tasks and retries. The invariant adds to
  the first two which payload a delivery may refer to and what a task in each
  place knows of its delivery (`TablesOK`, `TasksOK`). `PendingIsAttended` is the
  safety half of `PendingIsResolved`: a PENDING delivery with its payload always
  has a task that has still to try it. It needs `RowsHaveTasks` besides: a task
  that has deleted its row may end without a word because the row never comes
  back, and what `trigger_webhooks_async` does not queue has no payload yet,
  since no task generates payloads before it has run.
- CircuitBreaker. `BreakerKeysAreWellFormed`, for any number of workers: the
  bound on what is counted holds for each age because it holds for the sum, and
  aging moves events without losing or adding any (`AgedTotal`, by a bijection
  of ages). `CallsKeepThePromise` is the refinement of Breaker, for one worker
  and all settings. The invariant `ReadsOK` says that what the call in progress
  has read is still so: a state it has read is the one in Redis and as old, a
  change it has decided on is one that the breaker may make from there, and only
  a call that could not read or write is `blind`. Without it a worker could set a
  state that was decided on from an older one; with two workers it is false, as
  the table of races shows. Each step is then a step of Breaker or shows nothing
  of it (`CallPromised`, `SecondPromised`): deleting the keys is where the change
  of state becomes visible, setting the state is not.

### Only model-checked

- Liveness (`QuietShopIsRepaired`, `HealthyAppIsUsed`, `PendingIsResolved`), which
  the prover does not do.

Every other property of the passing runs is stated by a theorem, under the
hypotheses named above.

No module uses a RECURSIVE operator.

## Plan

Done: Warehouse, OrderFulfillment, CheckoutStock, Transactions, GiftCards,
Vouchers, Breaker and CircuitBreaker, WebhookDelivery, and the theorems above.
Next:

1. What of `OrdersLeaveWhatIsPromised` remains with several shipping zones.
2. transactionCreate, transactionUpdate and the transactions of a checkout.

## Not modelled

- Preorders repeat the pattern of stock on tables of their own; returns and
  replacements add statuses to the fulfillment actions.
- Stock availability events and all other notifications: they change nothing
  the modelled parts read.
- Bulk import: a migration tool, whose unlocked stock write is under `hazards`.
- Prices and taxes (decimal arithmetic), discounts and promotions, products,
  attributes and pages, accounts and permissions, the GraphQL layer and plugin
  dispatch, search, exports, invoices and thumbnails: records edited one at a
  time or derived data, without a protocol between actors. They are most of the
  repository's lines.
- The trees of categories and menus, whose code is a third-party library.
