# A verification project for the microservices course repository

The repository holds two systems with logic of their own: a **flight booking**
system of two services (`hw3`, and `hw7`, which adds metrics and alerts to the
same handlers) and a **marketplace** (`hw2`). Both are Go programs whose
handlers run concurrently and share state through PostgreSQL rows, and, in the
flight service, a Redis cache. This project models those handlers in TLA+,
model-checks them with TLC on small instances, and proves every safety property
and both refinements with TLAPS for every size of the system.

The handlers of `hw3` are those of `hw7` word for word (except for the default
API key), so one model stands for both: definitions that stand for statements are
mapped to `hw7`, definitions that stand for whole handlers to `hw3`.

Line references without a path are to the file named in the same paragraph.

## Inventory

### Flight service (`hw7/cmd/flight/main.go`, schema `hw7/db/flight/V1__init.sql`)

State: rows of `flights` (`available_seats`, bounded by a CHECK) and of
`seat_reservations` (one per booking, ACTIVE or RELEASED), and Redis keys
`flight:<id>` and `search:<...>`. Operations: `ReserveSeats` (190-231),
`ReleaseReservation` (233-266), `GetFlight` (167-188), `SearchFlights`
(138-165), `invalidate` (268-270). It is called over gRPC by the booking
service, and a call may end on the client's side (timeout, lost answer) at any
point of the server's transaction.

Hard: the lookup of `ReserveSeats` is not locked; the two mutating handlers lock
the same two rows in opposite orders; a commit may take effect and report an
error; a cache fill races an invalidation. Correct means: no flight is
overbooked, a release credits once, a repeated reservation debits once, every
seat is free or reserved, every call is answered, and `GetFlight` answers nothing
older than the TTL and the call that filled the cache. Nothing in the repository
calls `SearchFlights` (`hw3/task3.md:276` asks the booking service for a route
that would), and nothing gives it a deadline; of its answers only the TTL is
bounded.

### Booking service (`hw7/cmd/booking/main.go`, schema `hw7/db/booking/V1__init.sql`)

State: rows of `bookings` in a second database. Operations: `createBooking`
(138-171: GetFlight, ReserveSeats, INSERT, and a compensating release when the
INSERT fails), `cancelBooking` (173-196: read, ReleaseReservation, UPDATE) and
`retryCall` (198-217: three attempts of two seconds each).

Hard: two databases with no common transaction, retries of calls whose effect is
unknown, attempts that outlive their caller, crashes between steps. Correct
means: a confirmed booking has its seats, a cancelled one has released them, a
booking refused with 409 holds none, and every request ends.

### Marketplace (`hw2/internal/api`, schema `hw2/db/migration/V1__init.sql`)

State: `products` (stock, status), `promo_codes` (`current_uses`), `orders` with
`order_items`, `user_operations` (for rate limits), `users`; tokens are signed
and not stored. Operations: `CreateOrder`, `UpdateOrder`, `CancelOrder`,
`GetOrder` (`orders.go`), products and promo codes (`server.go`), registration,
login and refresh (`auth.go`, `jwt.go`), the checks of token and role
(`middleware.go`) for the groups of routes (`cmd/app/main.go`).

Hard: unlocked reads before locked writes, locks on several products in the
order of the request, ignored statement errors, counters changed by three
handlers; answers that say "not found" or "exists" after any database error, a
commit that took effect included; roles that are copied from token to token; two
kinds of token signed with one key. Correct means: no piece of stock and no use
of a promo code is lost or given back twice, limits are respected, a canceled
order is final, every request is answered; one registration of a username wins;
what is in the catalog was put there by sellers; archiving is final.

### Counters of the flight booking system (`hw7`)

State: `http_requests_total` and `http_request_errors_total` in the booking
service, `grpc_requests_total` and `grpc_request_errors_total` in the flight
service, all in memory, and the API key each process was started with.
Operations: `metricsMiddleware` (`booking/main.go:105-119`), the stubs and method
handlers generated from the proto file (`gen/flightpb/flight_grpc.pb.go`),
`metricsInterceptor` around `authInterceptor` (`flight/main.go:79, 104-136`).

Hard: two increments in two steps after the answer, retries whose RPCs are
counted though nobody waits for them, refusals that must pass through the
metrics, restarts that reset counters and may change a key. Correct means: the
counters amount to the requests of the running process, a status passed on to a
client was counted by the flight service before, under the method that was called
and the code it ended with, and every request is counted in the end.

### The rest

Prometheus rules and Grafana dashboards, message classes generated from the proto
file, the `hw1` stub, containers and scripts keep no state that the services'
behaviour depends on. They are listed in `PROJECT.json` and not modelled.

## Modules

| Module | What it is |
|---|---|
| `FlightService` | `ReserveSeats` and `ReleaseReservation`, statement by statement, with row locks, the schema's CHECKs, failures and deadlocks |
| `SeatLedger` | what the flight service promises: each attempt is one atomic change of a ledger of seats, or none |
| `FlightServiceProofs`, `FlightLedgerProofs` | the theorems about the two |
| `FlightCache`, `FlightCacheProofs` | `GetFlight` and `SearchFlights` against commits and invalidations; how old an answer can be, and where it comes from |
| `ServiceMetrics`, `ServiceMetricsProofs` | what both services count, through retries, refusals, lost calls and restarts; that the counters say what happened |
| `FlightBooking` | `createBooking`, `cancelBooking`, `retryCall`; an `INSTANCE` of `FlightService` serves its calls |
| `FlightBookingProofs` | the booking service keeps the hypothesis of the ledger theorems; what bookings, cancellations and refusals say of the seats |
| `Orders` | `CreateOrder`, `UpdateOrder`, `CancelOrder` and `DeleteProduct`, lock by lock |
| `OrderLedger` | what the marketplace promises about orders: each request is one atomic change of stocks, uses and orders, or none; `Orders` implements it |
| `OrdersProofs`, `OrderLedgerProofs` | what the row locks of a handler protect; that no piece of stock is lost, and that `Orders` implements `OrderLedger` |
| `Accounts` | registration, login, refresh, tokens, and the middleware before a handler |
| `Catalog` | extends `Accounts` by the handlers of products and promo codes |
| `CatalogProofs` | the theorems about accounts and catalog |
| `MCFlightService`, `MCFlightCache`, `MCFlightBooking`, `MCServiceMetrics`, `MCOrders`, `MCCatalog` | small instances for TLC |

### How the modules correspond to the code

**Transactions.** A handler's program counter `pc` names the point its
transaction has reached. A step is one SQL statement, or several that run under
a row lock the handler already holds and need not wait for another. What a
transaction writes appears in the shared variables at its commit
(`ReserveApply`, `ReleaseApply`, `Apply`), as READ COMMITTED has it, and whoever
waited for a lock sees the row as it is when the lock is granted. In
`FlightService` the locks a call holds are read off `pc`; in `Orders`, where
their number depends on the items, they are the variable `locked`, and `delta`
is what the transaction has added to stocks that nobody else sees yet.

**Failures.** Any statement may fail before the commit (`Abort`, `Fail`), and a
commit may take effect with its answer lost: the commit actions answer "OK" or
an error. A process that stops looks like either. PostgreSQL resolves cycles of
waits (`DeadlockAbort`).

**Calls and attempts.** In `FlightService` a call is one RPC attempt; what
`retryCall` sends again is another call with the same booking id.
`FlightBooking` records for each attempt whether it was sent and whether its
context is still alive (`ctx`), and the handler of a request goes on, retries or
gives up without knowing where the attempt is. `Spec` lets an attempt that was
given up go on in the flight service; `SpecPrompt` assumes that a call that is
given up is over there too (it never arrived, or it had been answered).

`ServiceMetrics` has the same handlers once more, with the databases left out and
the counters put in: there only the code a handler ends with matters. An RPC is
*sent*, *handled* (the chain inside `metricsInterceptor` has returned), maybe
*total* (one of two counters incremented) and *answered*. Canceling a call that
has not arrived drops it, one that has arrived runs on. Each request remembers
which process of the booking service received it (`life`) and which process of
the flight service decided its status (`from`), because a counter starts from
zero with its process.

**Accounts.** Every request has its own handler. `tokens` is the set of all
tokens ever signed, since nothing revokes one and a client may keep any; a call
presents any of them, or none. The password is a choice: a login may always be
refused, and signing may fail. A body or a parameter that does not parse is
refused on every route. What the middleware puts into the request's context is `claims`.
`Catalog` adds a handler for every route; those of orders are answered "SERVED"
there and modelled in `Orders`, which starts from products and promo codes that
exist.

**Abstract orders.** `OrderLedger` has no locks, no items in progress and no
program counters. `Orders` refines it with the identity on stock, uses, orders
and replies, and with `MayChange` computed from users and roles. A handler's
dozen statements are a stutter up to its commit; a refusal changes nothing, and
the refusals that give a reason an outsider can check (owner, canceled) are only
given when it is true. `Unsure` are the answers that leave it open whether the
change took effect: an error of the COMMIT, and `ORDER_NOT_FOUND` for updates and
cancellations, which are answered by a `GetOrder` in a transaction of its own.

**Abstractions.** Ids, codes and users are strings of a small set. The cache holds
the number of the committed state it was filled from, and whether the list was
read to its end. Every step of a `GetFlight` on its way to the cache comes within
`Timeout` of its miss, which stands for the two seconds of `retryCall`
(`hw7/cmd/booking/main.go:203-205`) and what a command started in time may take;
the steps of a search come at any time. Names, e-mails, prices, JSON, durations
and log lines are left out; `ReachesMin` says which promo codes' minimum the items
of a request reach, which is constant because no statement changes a price.
`seat_count` and the quantity of an item are integers of any sign, as in the code,
which checks neither; the runs of `FlightService` use a zero and a negative count,
those of `Orders` quantities that are valid (see below for the others). A promo
code's validity may end at any moment but does not begin in the middle of a run.
`recent` holds the operations of the last minute; `Minute` ages one at any time.

## Runs

Every run names its bounds in its `.cfg`; the shared constants are in the MC
modules. Deadlock checking is off throughout because requests are finite in
number and all of them end; that they do end is a checked property where it
matters.

| Run | Instance | What it shows |
|---|---|---|
| `flight_overlap` | one flight of 5 seats, bookings of 2 and 3, 3 reserve and 3 release attempts | overlapping, repeated and failing attempts never overbook, release once, are never refused by the CHECK, and are all answered; `IInv` is checked here before it is proved inductive |
| `flight_apart` | as above, attempts to reserve kept apart (`SpecApart`), plus requests with a zero and a negative count and an unknown flight | no seat leaks, no second debit, refinement of `SeatLedger`, sound rows |
| `flight_double_debit` | as `flight_overlap` | **violated**: overlapping attempts of one booking debit twice |
| `cache_staleness` | 2 GetFlight, 2 SearchFlights, 1 mutation, TTL 1, request timeout 1, clock to 3, failing Redis, lists that break off | `GetFlight` answers a state at most TTL + timeout old; a read of either method answers what it has queried itself or what a read of that method set less than a TTL ago, a list that broke off included |
| `booking_retry` | a flight of 2 seats, one booking, 1 create, 2 cancels, 2 attempts, attempts outlive their caller | confirmed bookings have seats, bookings have reservations, requests end |
| `booking_prompt` | two bookings compete (1 and 2 seats), one is cancelled, 2 attempts, `SpecPrompt` | cancelled means released, 409 holds nothing, attempts to reserve stay apart |
| `booking_half_done` | one booking, 3 attempts, `SpecPrompt` | **violated**: the two databases disagree after a failure |
| `orders_stock` | 2 products of one piece, a promo code of one use, 2 orders of two users that are changed to each other's product (one also to an unknown one), one of them also back | `OrderLedger` is implemented, the code is not overused, updates of an order are a minute apart, requests are answered in spite of deadlocks |
| `orders_apart` | 3 creates of one user one after another (one below the minimum of its code), an update that adds the other product, a cancel by an admin and one by a stranger (`SpecApart`) | `OrderLedger` is implemented (so changes are by owner or admin only and canceled is final), one active order, one create a minute, stock is conserved, promo uses are counted |
| `orders_active` | 2 overlapping creates of one user | **violated**: two active orders |
| `catalog` | one username registered as a seller and as a buyer, a login, a refresh, 3 calls on any of 7 routes, access tokens of one tick and refresh tokens of two, clock to 2 | one registration wins, tokens carry its role and so do rows and orders, a route that asks for a token is reached only after a login and with a fresh access token, shown products stay and stay archived; `IInv` is checked here before it is proved inductive |
| `metrics` | a create and a cancel, 2 keys, 2 attempts, 3 RPCs that arrive, 1 restart of either service | counters amount to the requests; every 401, 404, 409, 502, 201 and 204 a client was given is backed by the other service's counter of that method and code; every request is counted |

Why the bounds are enough: each hazard needs at most two concurrent transactions
on one row, or three on two rows (a reservation, its retry and a competitor); the
instances have one more. Seats and pieces are chosen so that two transactions fit
and a third does not, which is where a missing lock or a second debit shows. Two
attempts are enough for everything `retryCall` does except counting, and
`booking_half_done` uses its three. The clock of the cache runs one tick past TTL
+ timeout, and a second read of a kind can answer what the first one cached, at
once or, for a search, as late as the clock goes. In `catalog` the calls are
interchangeable (symmetry): one makes a row, one changes it, one reads it. In
`metrics` three RPCs that arrive let one request finish its chain of GetFlight,
ReserveSeats and a release, or let two requests' calls meet a restart; after that
every call is lost (`MaxArrivals`), which is the connection being down for good,
and `EveryRequestCounted` still holds. Both services start with one key
(`FirstKey`; a restart may take another), and `MCHandlerErrors` leaves one error
to each of `GetFlight` and `ReserveSeats`, beside `ResourceExhausted`, which keeps
every status reachable.

Every property of a passing run is violated when one definition of the model is
replaced by a named mutant (`PROJECT.json`, "mutants"; the mutants stand above the
definitions they change).

**Fairness.** `FlightService` and `Orders`: a handler that has begun issues its
next statement, and PostgreSQL grants a free row lock and resolves wait cycles
after `deadlock_timeout`; nothing makes a request arrive or a statement fail.
`FlightBooking`: a handler is woken at the latest by the timeout of its attempt,
so weak fairness on its continuation is all that `EveryRequestEnds` needs.
`ServiceMetrics`: the Go runtime runs every handler on, and the timer of an
attempt fires, so one or the other moves a request on (`Serve` or `LoseAttempt`);
nothing is assumed of the flight service or of the connection.
The properties that are not about progress use no fairness.

## What the violations mean

- `flight_double_debit`: `ReserveSeats` looks for the booking (200) before it
  locks anything, so two overlapping calls both find none, debit one after the
  other (209-218), and the upsert (222) hides the second. The task asks for
  idempotence of a retried call (`hw3/task3.md:236`).
- `booking_half_done`: two databases, no common transaction, no recovery.
  `hw3/task3.md:157-159` asks for no partially applied changes.
- `orders_active`: the count of active orders (`orders.go:58-63`) takes no lock.
  The rate limit of creates (51-56) is read the same way. `orders_apart` shows
  both hold when a user waits for each answer.

The models show more, on which no run is spent; a reader can check each in a
minute by adding the formula to a run:

- **A late reservation undoes a cancellation.** The upsert (`flight/main.go:222`)
  turns a RELEASED row ACTIVE, so an attempt that was given up and goes on after
  the cancellation takes the seats again. `CancelledReleased` is violated under
  `Spec` of `FlightBooking` with 3 attempts; under `SpecPrompt`, `booking_prompt`
  shows that it holds. `hw7/README.md:75` expects `CANCELLED` with `RELEASED`.
- **A late fill keeps an old flight.** A read queries, a mutation commits and
  deletes the key, the read sets it (`flight/main.go:186`). `hw3/task3.md:217`
  asks for no stale data after a mutation. `StalenessBounded` is what `GetFlight`
  does have. The keys of searches are deleted by no mutation at all, and a search
  has no deadline, so what it sets may be of any age: stated for all reads,
  `StalenessBounded` is violated. `AnswersBounded` is what both have.
- **Quantities are not checked.** `hw2/api/openapi.yaml:150-153` and
  `hw2/task/task.md:150-154` ask for a quantity of at least 1 and for
  `VALIDATION_ERROR` otherwise. `orders.go:82` and 307 only compare it with the
  stock, so an item of minus one is accepted and adds a piece to the stock.
  `StockConserved` of `orders_apart` is violated when `MCItemsOf` gives `updateBack`
  the item `<<"p2", -1>>`. It is proved for items of at least one piece
  (`NoPieceLost`); `QuantitiesBalance` proves what the code does with any others:
  the stock lacks the sum of what orders ask for, whatever its sign.
- **Products cannot be read without a token.** `hw2/cmd/app/main.go:52-58` has
  both GETs of products in the group of `AuthMiddleware`, but
  `hw2/e2e_test.sh:82` reads a product without a token and expects its stock, and
  `hw2/api/openapi.yaml:418-470` gives these operations no security. The model does
  as the code does (`RefuseToken` on any route), and `AdmittedSoonAfterLogin` speaks
  only of `SecuredRoutes`, for which the API asks for a token.
- **Errors are told as something else.** The victim of a deadlock is answered
  `PRODUCT_INACTIVE` (`orders.go:77-80`, 302-306; `FailureReply`), a failing read
  after a commit `ORDER_NOT_FOUND` (`GetOrder`), any error of a registration
  `USER_EXISTS` (`auth.go:37-40`), any error of a read `PRODUCT_NOT_FOUND`
  (`server.go:128-131`). The properties are stated so that they hold all the same:
  `Unsure`, and "who is told OK" in `OneAccount`.
- **A part passes for the whole.** `rows.Err()` is looked at neither in
  `SearchFlights` (`flight/main.go:155-162`), which caches the part
  (`AnswersBounded` says for how long), nor in `ListProducts` (`server.go:44-53`):
  the model answers a part there too, and `ShownStays` says nothing of the rows that
  are missing.
- **Any seller may archive any product**: `DeleteProduct` (`server.go:112-119`)
  does not compare `seller_id`; `RowsByRole` says what does hold.
- **The gRPC SLI** of `hw7/scripts/check_prometheus_sli.sh:21` excludes
  `Unavailable` and `DeadlineExceeded`, which the server does not count when the
  call never arrived (`ServerCodes`).

## Proofs

Every safety invariant and action property of the passing runs is a theorem, and
so are the two refinements. The theorems hold for every set of flights, products,
bookings, users, requests and calls, every list of items and every bound, and rest
only on the named assumptions on constants, which TLC evaluates on the runs. An
inductive invariant was checked with TLC on the run of its module before it was
proved (`LedgerInv` with `a` and `b` up to the longest list instead of `Nat`).
Where two transactions touch one row, the invariant always has the same shape:
locks are exclusive, and what a handler has read under a lock is still true while
it has the lock.

`FlightServiceProofs`. `IInv` is inductive (`Inductive`). `NoOverbooking` alone
is not: a release adds the `seatCount` it scanned some steps ago, and a reserve
subtracts after a check made some steps ago. So `IInv` says that row locks are
exclusive (`LocksExclusive`), that what a call checked or scanned under a lock
still holds while it holds the lock (`ReserveLocal`, `ReleaseLocal`), and that
rows are sound (`RowsSound`). Seats held by reservations are counted as a set of
pairs (booking, number), so that the proof needs cardinality lemmas of unions and
differences and no sum. `TypeCorrect`, `NeverOverbooked`, `ReleasesFit` and
`RowsStaySound` follow from `IInv`; `CreditsOnce` is an action property proved
from it.

`FlightLedgerProofs`. Under `SpecApart` (at most one attempt to reserve of a
booking has looked up and not answered), `LookupFresh` is added to the
invariant: what the unlocked lookup found is still so at the commit. From it
`NoSeatLeaks` ([]SeatBalance), `DebitsOnce` and `ImplementsLedger` (the handlers
implement `SeatLedger`, with the refinement mapping being the identity on the
committed data and the replies).

`FlightBookingProofs`. `ReservesKeptApart` and `FlightUsedApart`: under
`SpecPrompt` the handlers of the booking service keep attempts apart, i.e. every
behaviour of the booking system is one the ledger theorems are about, and
`NoSeatLeaks` applies them. The argument: a call in progress has a live context
(`Prompt`), a live context is the one its handler waits for (`LiveIsCurrent`), a
handler waits for one call, and a booking id belongs to one create
(`FreshIdsAssumption`). `BookInv` is inductive under `Spec`, where attempts
outlive their caller: which calls a request has sent follows from its stage
(`SentInTurn`), a reservation was released only if somebody asked for it
(`RowsFit`), and every OK left a row behind (`OkLeavesRow`, `ReservedBefore`).
From it `RowsHaveReservations`, `ConfirmedStays` and, by the theorem about the
flight service, `BookingsNeverOverbook`. `ToldInv` adds under `SpecPrompt` that
what an answer says of the reservation stays so (`ReleasesTold`, `RefusalsTold`),
which gives `CancelGivesBack` and `RefusedHoldsNothing`.

`FlightCacheProofs`. `IInv` says where an entry of the cache comes from: a read of
its method, which still has in `got` what it set, whose TTL (`until`) is the entry's
(`Supplies`, `EntryFits`); and that what a read has queried was the committed state at
some time since it missed (`ReadFits`). `AnswersComeFromReads` follows for the step
that answers. A `GetFlight` sets within `Timeout` of its miss, so `until` is at most
TTL + Timeout later than `began`, which gives `AnswersAreFresh`; for a search there
is no such bound and the theorem claims none. `CallsAssumption` says that a call is a
read or a mutation, not both.

`ServiceMetricsProofs`. The counters of the booking service are the cardinalities
of sets of its requests (`HttpFits`), and a restart sets both to zero because
`Here` and the states it leaves exclude the requests of former processes. For
`AnswersBacked` the requests that were told a status are not enough: a call that
has been counted and answered backs one request to come. So `CountersFit` adds
the answers on their way and the requests between the reservation and the INSERT
to the left side; an answer that is taken moves one from one set to the other.
This is one inequality for each method and code, since both services keep these
apart; `AnswersAreCounted` drops the additional sets again.

`OrdersProofs`. `IInv` holds for `Init /\ [][Next]_vars` and so for `Spec` and
`SpecApart`. It says that row locks are exclusive (`Exclusive`), that a handler has
changed only stocks it has locked and has nothing in progress outside its
transaction (`HandlerFits`), that what it gives back or has taken is a known
product (`ItemsFit`), that an order stays CREATED while somebody works on it
(`OrdersFit`), and that what was found under the promo code's lock still holds at
the commit (`PromoFits`). `UsesAreCounted` and `UsesAreLimited` follow, although
three handlers change `current_uses`; `UpdatesWait` because updates of one order
wait for its lock before they read the last operation. `CreatesFit` adds under
`SpecApart` that what a create has read without a lock is still so: `OneActive`
and `CreatesWait`. `ItemsAssumption` types the items of the requests (pairs of an
id and an integer of any sign).

`OrderLedgerProofs`. `LedgerInv` says of every handler at work how far it has got
(`Reached(t, a, b)`: it has given back the first `a` items of the old order and
taken the first `b` of the request, what is left is in `todo`, and unless an item
was short `delta` is the difference of the two parts), which makes the commit the
change the ledger describes. The parts are sums over lists of any length. A fold
cannot be unfolded by induction here, because the library's induction theorems
take an operator; the lemmas about sums (`SumsExist`, `TotalOne`, `TotalSame`)
instead take a smallest counterexample among the finite subsets of the index set,
which `WFMin` provides as a fact about sets. From `LedgerInv` follow
`QuantitiesBalance` ([]Balanced: stock plus the sum of what active orders ask for
is constant, for any integers), `NoPieceLost` ([]StockConserved, where an order
takes only what it asks for in positive quantities; it is Balanced when every item
asks for at least one piece, `Positive`) and `ImplementsLedger`, which needs no
such hypothesis: every step commits, declines with a true reason, or only prepares
(`StepOutcomes`), and each of these is a step or a stutter of `OrderLedger`.

`CatalogProofs`. `IInv` of `Catalog` ties what a running handler has copied to
the rows it came from: the claims of a handler name a registered user with the
registered role (`ClaimsTrue`), and so do tokens and rows (`RowsOwned`).
Whoever has a token, or is about to be given one, has logged in (`SessionsFit`).
`OneRegistrationWins`, `RolesAreRegistered`, `OnlyByRole` and `ShownProductsStay` are
conjuncts of it or follow at once; `FreshLoginAdmits` is an action property of the
middleware's step, from `SessionsFit` and the comparison of subjects.

**Only model-checked.** The four properties of progress, `EveryCallAnswered`,
`EveryRequestEnds`, `EveryRequestAnswered` and `EveryRequestCounted`: they need
fairness and ENABLED, which are out of the prover's reach. The three violations
are counterexamples and need no proof.

## Not modelled

Money: the discounts of `orders.go:133-148` and 346-357 are `float32` arithmetic
that no later decision depends on. `JSONLoggerMiddleware` and the message
classes of `flight.pb.go` and `api` (accessors generated from the proto file and
from OpenAPI). `/healthz`, `/metrics` and the histograms of durations. Prometheus
rules, Grafana, containers, scripts and the `hw1` stub.

## Plan

Done: all modules of the table above with their runs, the theorems about all
safety properties and action properties, and the refinements of `SeatLedger` and
`OrderLedger`.

What may still be proved: properties of the abstract ledgers themselves, which
the handlers inherit through the refinements (a canceled order is final, an order
is changed by its owner or an admin only); with the fairness of the code left out,
the safety part of progress: that a handler's number of steps is bounded
(`retryCall`, `booking/main.go:198-217`).

## Running

    tlc -config flight_overlap.cfg MCFlightService.tla
    tlapm FlightServiceProofs.tla

and likewise for the other runs and proof modules.
