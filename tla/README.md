# Verification of the shopping service

TLA+ models of the shopping service of this repository, model-checked with TLC
and proved about with TLAPS. Module names below are files of this directory;
paths are those of the repository.

## 1. The system

Two processes and a database.

    HTTP client -> gateway (cmd/gateway) --gRPC, 3 s--> API (cmd/catalog) --SQL--> PostgreSQL
                                    gRPC client ------->

The gateway turns each HTTP request into one RPC. The API registers four gRPC
services; each RPC runs in a goroutine of its own and keeps nothing in memory
beyond its end. All lasting state is in PostgreSQL, and no service takes a lock:
what keeps concurrent requests apart is single SQL statements, unique indexes,
CHECKs and, in the order service alone, a transaction.

| component | state | operations |
|---|---|---|
| cart service, `internal/cart` | tables `carts` (one active row per user, by a partial unique index) and `cart_items` | GetCart, CreateCart, GetOrCreateCart, AddItem, SetItemQuantity, RemoveItem, ClearCart |
| order service, `internal/order` | tables `orders`, `order_items`; a transaction per request | CreateOrder |
| checkout service, `internal/checkout` | none that lasts: a slice, an errgroup and its context per request | Quote |
| product catalog, `internal/catalog` | table `products` | CreateProduct, GetProduct, ListProducts |
| connection pool, `pkg/postgres` | at most 20 open connections | taken by BEGIN or a statement, released at the end of either |
| gateway, `cmd/gateway/main.go` | requests in flight | routing, validation, RPC with deadline, status |
| processes and shutdown, both `main.go`, `pkg/shutdown` | context, signal channel, serving goroutine, timer | start, serve, panic, signal, drain, force, exit |
| configuration, logging, generated stubs, deployment files | nothing that changes | not modelled |

Interactions: the gateway calls the API by RPC. Checkout calls the cart and the
catalog services as Go functions of the same process, through adapters. Orders
refer to products by id only and do not call the other services. `main` wakes by
a context that the signal goroutine or the serving goroutine cancels.

What is hard, and what has to be right:

- **Cart.** Handlers are sequences of autocommitted statements: read the cart,
  perhaps insert it and read again, write, read back. Others run between any
  two. GetOrCreate must converge when several requests insert the same cart;
  increments must not be lost; a write interrupted by its caller's deadline may
  still take effect, at most once; and the answer must be a state in which the
  write is there.
- **Order.** Several INSERTs in a transaction that can fail, wait for another's
  key, wait for a connection, be abandoned by its client, or be committed
  without the client's knowing: the handler answers a failed COMMIT, like any
  other failure, with Internal. Orders appear whole or not at all; amounts are
  computed in wrapping int64.
- **Checkout.** Goroutines share a slice and an error; at most ten run at a
  time; the first error cancels the others. The reported error must be real, each
  goroutine fills its own line, and no slot may be lost.
- **Catalog.** Products with random ids are inserted above and below the cursor
  of a walk. A walk must show nothing twice, miss nothing and end.
  Its limit is clamped twice, by different rules, and may change on the way.
- **Gateway and shutdown.** A deadline races the answer; a body may come slowly,
  up to a ReadTimeout that is longer than the shutdown waits; both processes
  drain with a limit of 10 s; handlers without a deadline may hang for ever, and
  one that panics takes the process with it; a signal may come before main waits
  for it. A status
  may not deny a write that happened, a stopping gateway may not cut off
  requests, the database may not be closed under a waiting caller, and the
  process must end.
- **All together.** A client that was told 503 can only send its request again,
  while the first sending may still take effect. A quote reads a cart and then
  products that are still being created. What a client knows to be done must
  stay done and show in later answers.

`PROJECT.json` lists every hazard at its line with the properties that cover it,
or a note why none does.

## 2. Modules

| module | models | composed with |
|---|---|---|
| `Amounts` | int64, wrapping, and the loops that add amounts up | extended by `Order`, `Checkout` |
| `Cart` | the cart handlers over their two tables | implements `CartContract` |
| `CartContract` | what a caller may rely on: atomic writes and readings | |
| `Order` | CreateOrder over tables, keys, transactions and the pool | implements `OrderContract` |
| `OrderContract` | an order is placed whole, once, with an OK or after a COMMIT that was overtaken | |
| `Checkout` | one quote: handler, goroutines, group | implements `CheckoutContract` |
| `CheckoutContract` | one reading of the cart at the catalog's prices, or a true reason | |
| `Catalog` | concurrent CreateProducts and walks | implements `CatalogContract` |
| `CatalogContract` | products appear once and whole; a walk shows them in order, without gaps | |
| `Http` | routes, refusals and statuses of the gateway | extended by `Gateway`, `Shop` |
| `Gateway` | HTTP requests, RPCs, both processes, time | abstracts each handler to one write or reading, as the contracts promise |
| `Shop` | clients, gateway, carts, quotes and the catalog together | instantiates `CartContract` in place of `Cart` |
| `MC*` | constants for TLC | |
| `SumProofs` | lemmas about the folds and sums of the community modules | extended by the proofs about sums |
| `*Proofs` | theorems about the module they extend | |

### How state and actions correspond to the code

**Cart.** `carts` and `items` are the two tables (0 stands for no row, which the
CHECK `quantity > 0` makes unambiguous; `NoUser` for a cart id not in use). `pc`
is the statement a handler waits for: `find` and `list` are the two SELECTs of
`CartRepo.Get`, `create` the INSERT of `CreateActiveCart`, `write` the upsert,
UPDATE or DELETE. `stage` tells the first read from the one after a lost race
and from the reading back. One action is one statement, since each is its own
transaction: `FindCart`, `FindNothing`, `ListItems`, `Create`, `CreateConflict`,
`Write`, `WriteRejected`. `Interrupt` may strike at any statement and leaves an
`orphan` if the statement writes; `LateCreate` and `LateWrite` are the database
getting to it. Ids that do not parse are the value `Malformed`. Timestamps and
status strings are left out: nothing reads them but the client.

**Order.** `orders` and `lines` are committed rows, `tx[r]` the uncommitted rows
of a transaction. An INSERT whose key an open transaction holds waits (its
action is disabled), one whose key is committed fails. `OrderId` and `LineId`
are the nil UUID because the code never assigns the fields they stand for.
`Connected` is who holds a connection; `Begin` waits for one. `Interrupt` is a
context that ends or a connection that breaks at a statement. The handler answers
whatever error that gave it, of `tx.Commit` too, with Internal, as it does a
refusal; or its caller is gone and hears nothing (Unknown). The transaction is
left to the database, which settles it by `LateRollback` or, if COMMIT was on its
way, `LateCommit`.

**Checkout.** `worker[k]` is the goroutine of item `k`: `new`, `asking` the
catalog, `priced` or one of the errors, `left` when it has released its slot.
Filling the line (`Answer`) and leaving the group (`Leave`) are separate steps,
because others run between. `Go` is blocked while the slots are taken, and does
not look at errors, as `g.Go` does not. One quote is enough: quotes share no
memory, and the cart is read once. The catalog is a constant because the program
never changes or deletes a product; `Shop` has one that grows. Money is an amount
with a currency; the total takes the currency of the first line, as the code
does.

**Catalog.** `Insert` gives the row any unused id (ids are random). A client
begins a walk at the top or with a cursor it kept; `base` and `seen` record what
it should see and has seen; `List` is one page: the newest ids below the cursor,
at most a page size of `PageSizes` of them, and a next cursor if the page is
full. `Interrupt` is an INSERT that fails for its context or its connection: the
handler answers Internal, or nobody hears it, and the row may come by
`LateInsert`. A limit passes through `PageSize`, and through `HttpLimit` before it if the
client asks the gateway; each page may be asked for with another. Asking
again for a page that was lost changes nothing and is not an action.

**Gateway.** `caller`, `stub`, `handler` are the three places a request lives:
the HTTP caller, the gateway's side of the RPC, the API's side. A caller is
`reading` while the gateway reads its body: `Arrive` begins the handler, `Read`
(`Refuse` or `Send`) is what it does with the body, `BodyTimesOut` what it does if
the ReadTimeout passes first. `io` counts what is left of the ReadTimeout and the
WriteTimeout, which begin together; an answer written past it is `lost`. `done`
says whether the write has taken effect, `orphan` whether it still may. `main`,
`serve`, `watch`, `queued`, `cancelled`, `timer` are each process: its main
function, serving goroutine, signal goroutine, channel, context and shutdown
timer. `Boot` and `BootFails` are the end of what main does before it serves;
signals are already caught then. `Panic` is the handler of a request without an
item. `Tick` lets time pass. The calls in `Direct` are RPCs of other clients,
without a deadline.

**Shop.** The cart service is its contract: `contents`, `req`, `called`, `wrote`,
`answer`, `view` are the variables of `CartContract`, and `Arrive` and `Work` are
its actions. `Send`, `Reply` and `Timeout` are the gateway for one request:
`status` is what its caller hears, from `StatusOf` of `Http`. A quote is a
request in `Quotes`: it reads the cart as a GetOrCreateCart does, then `Lookup`
finds its products one by one, in any order, in a `catalog` that `Publish`
extends. Of the errors that end a lookup only NotFound is told apart. `known` and
`listed` remember what had been answered, and what the catalog held, when the
request was sent. A client that repeats a request sends another one that asks
the same; so no client keeps a state, and every order of sendings is there.

## 3. Abstract specifications

`CartContract` has no rows of `carts`, statements or handlers. Each user has one
cart; a write takes effect in one step, in order, at most once, only after its
call. Its outcomes are what happened to the request, not always the code that
its caller is given: OK, every write has taken effect and the answer shows the
cart at that moment; NotFound, none has and the cart is empty; Internal, the
handler refused it, so that not all have and no more will; Unknown, a statement
was interrupted, and nothing can be said. An interrupted statement whose caller
is still there reaches it as the handler's Internal too: so a caller learns
nothing from that code, and `Shop` answers Unknown with any of Internal,
Unavailable and DeadlineExceeded. The refinement mapping is `Contents` (the rows
of the user's cart, or none) and `called` (a handler has begun).

`OrderContract` keeps the set of placed orders and that of the requests in doubt.
Here the outcomes are the codes: Internal is given for refusals and for
interruptions, and tells a caller nothing. What is promised is when an order may
appear: whole, for a request that can be placed (`Placeable`), once, and with its
OK or, if its COMMIT had been sent when it was answered, later. One that failed
before COMMIT never appears. The mapping is `Placed`, the requests whose order
row and every line are committed, and `Doubtful`, those whose COMMIT has been
overtaken.

`CheckoutContract` keeps the reading of the cart, whether the caller has given
up, and the answer. It has no goroutines, slots or shared slice; these are the
stuttering steps of `Checkout`.

`CatalogContract` has no cursors, limits or statements. A product appears once,
for a CreateProduct that carries what it must: with an OK or, if its INSERT was
under way when it was answered, perhaps later. InvalidArgument says there is
none; Internal, as for orders, is given in both cases and tells nothing. A walk
is owed what matches when it begins, from the top or from some id down. Each
showing goes strictly down from what has been shown, is at most `MaxPage` long and skips nothing that is owed. So
it says of a walk on its way what `NoneTwice` and `NoneMissed` say of its end, and
more: the order. `shown` is mapped to `seen` and `page` together.

Each is a PROPERTY of the component's run and a theorem of its proof module.

## 4. What the runs check

All passing runs explore every reachable state of their instance.

| run | config | properties | distinct states |
|---|---|---|---|
| cart | `MCCart.cfg` | TypeOK, SameCart, GetOrCreateConverges, NoIncrementLost, KeepsContract, WaitFree | 634 644 |
| cart_answers | `MCCartLive.cfg` | Answered | 254 781 |
| order | `MCOrder.cfg` | TypeOK, AllOrNothing, AmountsAddUp, NeverAllWait, KeepsContract, Answered | 254 500 |
| order_items | `MCOrderItems.cfg` | RefusedForCause (violated) | |
| order_second | `MCOrderSecond.cfg` | RefusedForCause (violated) | |
| checkout | `MCCheckout.cfg` | TypeOK, CauseIsReal, AmountsAddUp, KeepsContract, Answered | 1 824 |
| catalog | `MCCatalog.cfg` | TypeOK, OneProductEach, NoneTwice, NoneMissed, KeepsContract, WalkEnds | 1 121 658 |
| gateway | `MCGateway.cfg` | TypeOK, TruthfulStatus, NoneCut | 2 908 338 |
| gateway_api | `MCGatewayApi.cfg` | TruthfulStatus, DatabaseClosedLast, Answered, Ends | 221 691 |
| gateway_ends | `MCGatewayLive.cfg` | Answered, Ends | 38 198 |
| shop | `MCShop.cfg` | TypeOK, SetHolds, ShowsWhatIsKnown, MissingIsUnlisted | 979 022 |
| shop_again | `MCShopRetry.cfg` | SetHolds, AddsCounted | 546 792 |

`CHECK_DEADLOCK FALSE` is set everywhere because the behaviours are finite: once
every request has been answered there is nothing left to do. That nobody waits
for ever before that is what the liveness properties say; `Answered`, `WalkEnds`
and `Ends` are checked under `FairSpec`, in the runs that list them.

### Bounds, and why they are enough

- **Cart.** Three requests (two that race and a third that writes between their
  statements), two users, two products, two cart ids, `MaxQty = 3` in place of
  2^31 - 1 so that sums leave the range of the column with quantities that do
  not. The twelve inputs of `MCInputs` cover every RPC and every refusal. The
  run `cart_answers` keeps the inputs that loop or race, and one cart id.
- **Order.** Three requests over a pool of two connections, so that one must
  wait; orders of one and of three items. `Half = 8` makes an int64 -8 .. 7: a
  total wraps to a negative amount, a line total and a subtotal to one that the
  CHECKs accept. Seven inputs: two faultless in all but their size, three that
  are refused at different statements, and those that wrap.
- **Checkout.** Carts of up to four items and two slots in place of ten: the
  loop waits twice, and errors come before, between and after lookups. Products
  that are in no catalog, one in another currency; one line wraps.
- **Catalog.** Three creators, one walker (walkers do not see each other), four
  ids, so that inserts land on both sides of any cursor, and pages of one, two
  and three products, another size for each page (`DefaultPage = 2`,
  `MaxPage = 3`, limits below, between and above them, and none). Five inputs:
  two names, one of which the walk looks for, and one for each refusal.
- **Gateway.** One request and both processes; one request and one direct call
  where the two must be told apart, the latter without an item. `Deadline = 1`,
  `Grace = 2` and `IoLimit = 3` ticks stand for 3 s, 10 s and 15 s: what matters
  is their order (where the API alone is stopped, `IoLimit` is 2, just
  longer than the deadline). Inputs that differ only in names are one. `Stops`
  names the processes that may be signalled, fail to start or lose their
  listener.
- **Shop.** Two cart requests and a quote over two products, so that a quote may
  find one and miss the other while the catalog grows; and three requests on one
  row, so that a request may be sent three times, or twice with another one
  between. `MaxQty` bounds rows, not sendings: an addition beyond it does not
  take effect. One user: carts of others are other rows.
  `AddsCounted` is checked where a request may be sent three times and
  `ShowsWhatIsKnown` where there are quotes; the proofs of both cover either.

Symmetry is used in the runs `cart`, `shop` and `shop_again`, over requests, which
the actions tell apart only by their inputs, and in `shop` over its two products,
whose inputs are alike; never with a liveness property.

### Fairness

- `Cart`: weak fairness of each handler. Its goroutine runs and the database
  answers. Nothing is assumed of the environment.
- `Order`: the same, and the database ends the transaction of a client it has
  lost (`Settle`), without which the keys it holds would be held for ever.
- `Checkout`: the handler and every goroutine go on.
- `Catalog`: a client that walks asks for page after page.
- `Gateway`: the goroutines of `main` (which may be starting), of serving and of
  signals go on, a request's own goroutine goes on, and time passes. **Nothing is
  assumed of the handlers of the API, nor of bodies**: `Answered` and `Ends` hold
  though a statement never returns and a slow body never comes.
- `Shop` has safety properties only.

`Tick` waits for what is due (`Due`): a goroutine whose time is over runs before
the next tick. This is the one assumption about scheduling: delays are small
beside the 7 s between the deadline and the limit of the shutdown. `NoneCut` and
`DatabaseClosedLast` rest on it.

### What the runs show about the code

Two runs are expected to fail, each on one statement of the repository.

- `order_items`: `AddOrderItemParams.ID` is never assigned
  (`internal/order/infra/postgres/order_repo.go:72`). The query inserts the
  column explicitly, and the table declares it `id UUID PRIMARY KEY`, so every
  line gets the nil UUID, and no order of two items can be placed, although
  `api/proto/order/v1/order.proto:18` has `repeated` items.
- `order_second`: `CreateOrderParams.ID` is never assigned (line 47), so once an
  order is committed every later one violates the primary key, although
  `queries/order.sql:35` lists the orders of a user as `:many`.

The other properties of `Order` hold under both defects, which also hide part of
what they say: as the code is, the table never holds more than one order, and no
order more than one line. What TLC can exercise is what happens on the way, rows
inserted and rolled back, waits, lost commits. The proofs reach further. Of
`OrderId` and `LineId` they use that a request's ids do not change while it runs
and, for `NoDeadlock`, lemma `KeysAgree`: two requests whose lines have the same
key have orders with the same key. That is so while all ids are nil and when each
is fresh; it is where they would have to be looked at again if, say, orders got
fresh ids and lines did not.

Limits of properties that hold, stated where they are defined:

- `AmountsAddUp` says which amounts are stored and quoted, the exact ones modulo
  2^64, and not that they are exact: the code stores a wrapped total that is not
  negative without noticing. It follows that an amount is exact if the exact one
  is an int64, whatever wrapped on the way. The total of a quote is the sum of all
  lines in the currency of the first, whatever the others are in.
- `KeepsContract` of `Order` and of `Catalog` leave Internal without a meaning for
  the caller, as the code does: to send either request again may order or create
  twice.
- `KeepsContract` of `Cart` says of Unknown, as the code does, nothing: a caller
  that sends AddItem again after a 503 may add twice. `AddsCounted` says what
  remains true: no less than what is known, no more than what was sent.
- `NoIncrementLost` and `AddsCounted` speak of a cart for as long as no request
  that has arrived sets, removes or clears: with those, which of the additions
  remain depends on the order in which they ran, and `KeepsContract` says that
  they ran in one.
- `SetHolds` and `ShowsWhatIsKnown` hold for requests that are `Undisturbed`: with
  another request on the same rows whose end the caller did not know, or one sent
  later, nothing can be said.
- `NoneCut` is about requests whose body is not slow. Of the others it is false
  in both its parts: a stopping gateway waits 10 s and the body may take 15 s, so
  the connection is cut; and a body that takes more than 12 s leaves less than
  the 3 s of the RPC before the WriteTimeout, so the answer may be lost. Nothing
  in the repository promises otherwise.

## 5. What is proved

Every theorem holds for all values of the constants that satisfy the named
assumptions beside their declarations.

| module | theorems |
|---|---|
| `SumProofs` | lemmas: what sums over finite sets are, element by element, and how they compare |
| `AmountsProofs` | lemmas: `Wrap` yields an int64 and is the identity on those; a sum wrapped at every step is the sum wrapped once |
| `CartProofs` | TypeCorrect, OneCartPerUser, Converging, SumsKept, Refinement, FewStatements, NobodyWaits |
| `OrderProofs` | TypeCorrect, Atomic, AddUp, NoDeadlock, SomeoneRuns, Refinement |
| `CheckoutProofs` | TypeCorrect, RealCause, AddUp, Refinement, SomeoneRuns |
| `CatalogProofs` | TypeCorrect, OneProduct, NoneShownTwice, WalkComplete, Refinement |
| `GatewayProofs` | TypeCorrect, Truthful, NoRequestCut, ClosedLast |
| `ShopProofs` | TypeCorrect, RepeatingIsSafe, KnownIsShown, AddingIsCounted, MissingIsTrue |

Together they state every invariant and every action property that a passing run
checks, and all four refinements.

Each module defines `IInv`, proves `Init => IInv` and `IInv /\ [Next]_vars =>
IInv'` with one lemma per action (or group of actions that leave the same
variables alone), and derives the rest from `Spec => []IInv`. Why the properties
are not inductive themselves, and what `IInv` adds:

- **Cart.** `SameCart` needs that the table has one active cart per user
  (`OneActive`), that a learned id is the row of the request's user (`Learned`),
  and that rows of `carts` are never removed. `GetOrCreateConverges` needs `At`:
  a handler that reads again after its INSERT has a row to find. The refinement
  needs also `NoStrayItems` (creating a cart does not change what its user sees)
  and the account of writes in `At` and `Left`. `NoIncrementLost` needs
  `CountInv`: only finitely many requests have arrived, and row by row each cart
  that is only added to holds what the requests of its user have written, which one step changes by one
  summand.
- **Order.** `AllOrNothing` needs how far each transaction is (`TxOf`: at
  statement `n` it holds the order and the first `n - 1` lines) and what of it
  is in the tables by the answer it got (`TablesOf`). `AmountsAddUp` and the
  refinement need `Accepted`: what checks a request has passed (`Passed`), by the statement
  it is at. So the amounts of a row are of validated items, and the lemma of
  `AmountsProofs` that a sum wrapped at every step is the sum wrapped once, for
  sequences of any length, applies; and at COMMIT the request is `Placeable`.
  `NeverAllWait` needs `KeysApart` (no two open transactions have inserted the
  same order key) and `PoolBounded` (there are no more connections than the pool
  has). Then a transaction past its order waits for nobody: with whoever held the
  key of its line it would share an order key (`KeysAgree`). One that waits for the key of
  its order waits for such a transaction; one that waits for a connection, for any.
  `SomeoneRuns` ties the reasons to wait in `Waits` to the guards of the actions.
- **Checkout.** `WorkerOk`: a goroutine that has left has filled its own line or
  the group has an error. Together with `HandlerOk` an OK answer then has every
  line, hence the contract's bill. `Real` strengthens `CauseIsReal` by the errors
  goroutines carry before they leave. `AmountsAddUp` needs `BillOk`: the lines
  of an OK answer are those of its items. `SomeoneRuns`: if no slot is held, the
  handler can start the next goroutine or all have left; and whoever holds one can
  go on to release it.
- **Catalog.** `WalkerOk`: what has been shown is at or above the cursor, what is
  still owed is below it. New products may be on either side and disturb
  neither. The last page is short, hence everything below the cursor. The same
  two facts give the contract (lemma `Onwards`): a page is below what has been
  shown, and is the top of what is left, so it skips nothing that is owed.
- **Gateway.** `TimeOk`: while a process is stopping, the deadline of every
  request it still works for has fewer ticks left than its timer; so the timer
  cannot run out first. It is here that `Deadline < Grace` is used, and, for
  `io`, `Deadline < IoLimit`. `GateOk` is the part that a slow body breaks. `TruthOk`
  relates codes and statuses to the handler: a code that denies the write comes
  from a handler that has ended and left nothing behind.
- **Shop.** `SetHolds` speaks of what a caller was told; `Effect` is the same from
  the write on, and is kept because a later write on the rows of a request is
  one of those known to be over when it was sent, which `Order` shows cannot
  write any more, or asks the same. `ShowsWhatIsKnown` follows at the moment of
  the answer. `MissingIsUnlisted` needs that the catalog only grows
  (`QuoteOrder`). `AddsCounted` needs a `CountInv` like that of `Cart`, between
  the requests known to be done and those that were sent, for the row, for each
  answer at the moment it reads it, and for what its caller knew before.

Assumptions: `SentinelAssumption`, `InputAssumption`, `MaxQtyAssumption` (Cart);
`InputAssumption`, `PoolAssumption`, `MalformedAssumption` (Order);
`CatalogAssumption`, `CartsAssumption`, `MaxConcurrentAssumption`,
`NoProductAssumption` (Checkout); `IdsAssumption`, `CursorsAssumption`,
`BlankAssumption`, `FindsAssumption`, `LimitsAssumption`, `PageAssumption`
(Catalog); `DirectAssumption`, `InputsAssumption`, `StopsAssumption`,
`TimeAssumption` (Gateway); `RequestsAssumption`, `InputsAssumption`,
`MaxQtyAssumption` (Shop); `HalfAssumption` (Amounts). TLC evaluates each on
every run of its module.

Sums are recursive definitions (`MapThenFoldSet` of the community modules), and
the library's induction theorems take a predicate as an operator, which the
provers here cannot instantiate. `SumProofs` does the induction over sets
instead: a set `A` of subsets of a finite `S` that contains every `T` of which it
contains all `T \ {x}` contains all of them, as `S` has no infinite descending
chain of subsets. A predicate becomes the set of subsets it holds of. Everything
about sums in the other modules cites lemmas proved that way.

Model-checked only: the liveness properties `Answered`, `WalkEnds` and `Ends`, which
need fairness and ENABLED. What they rest on is proved where it is not about
time. For `Cart`, `WaitFree` bounds the statements a handler issues, by a number
that each of them makes smaller, and `NobodyWaits` says that each can be issued (if
cart ids, which are random UUIDs, do not run out: `EnoughIds`). For `Order` and
`Checkout`, `NoDeadlock` and `SomeoneRuns` say that never everybody waits. The
step from there to "is answered" is fairness.

## 6. Not modelled

- Timestamps, names and descriptions, JSON, log lines, request ids, the text of
  errors, and the endpoints that always answer 200: they change no state that
  anything reads again.
- GetProduct as an RPC of its own: one SELECT by primary key of rows that never
  change. It is the lookup of `Shop` and the constant catalog of `Checkout`.
- Which of its steps fails when a process does not start (configuration, dial,
  listen, ping): `BootFails` stands for each.
- A process that is killed outright, and, for the services' own modules, one that
  dies of a panic: the RPCs in it see `Interrupt`. Only `Gateway` has the process.
- Connections of single statements: they hold one for a statement and wait for
  nothing while they do. The pool is modelled where it can block, in `Order`.
- Generated protobuf and gRPC stubs, and generated queries nothing calls.
- Configuration: read once, with defaults, before anything concurrent begins.

## 7. Plan

Done, in this order: `Cart` and its contract, `Order` and its contract,
`Checkout` and its contract, `Catalog`, `Gateway`, each with its runs, then its
proofs; then slow bodies, starting, panics and the WriteTimeout in `Gateway`,
limits and absent prices in `Catalog`, currencies in `Checkout`; then `Shop`, its
runs and proofs; then the proofs about sums and amounts, freedom from deadlock,
bounded handlers, and the contract of `Catalog`.

What could follow:

1. The pool shared by all four services, with checkout's ten lookups per quote.
   None of them waits for a connection while it holds one, except by the
   transactions that `Order` has.
2. The ids of `Order` as a parameter, so that TLC too can check its transactions
   with ids assigned, once the code assigns them.
3. Proofs for `Gateway` that time is never stopped for good: whatever `Tick` waits
   for can run.
4. `Shop` with `Cart` itself in place of its contract, as one theorem: that every
   step of such a composition is a step of `Shop` should follow from `KeepsContract`.
