# Verification of the movie-booking platform

TLA+ models of the five Go services under `src/movie-booking`, TLC runs that check
them on small instances, and TLAPS proofs of what matters most. Every definition is
written from the code; `PROJECT.json` maps each one to the lines it stands for.

    tlc -workers 2 -config booking_faults.cfg MCBookingService
    tlapm BookingServiceProofs.tla

- [1. The system](#1-the-system)
- [2. The modules and the code](#2-the-modules-and-the-code)
- [3. What the environment may do](#3-what-the-environment-may-do)
- [4. The runs](#4-the-runs)
- [5. Fairness](#5-fairness)
- [6. The proofs](#6-the-proofs)
- [7. Where the code and its documentation differ](#7-where-the-code-and-its-documentation-differ)
- [8. Not modelled, and what comes next](#8-not-modelled-and-what-comes-next)

## 1. The system

    client -> api-gateway -> movie-service          Postgres (movies, cinemas, showtimes)
                          -> booking-service        Redis (hold keys, booked sets), Postgres (bookings)
                          |     ^   \-> movie-service (price of a showtime)
                          |     | Confirm over HTTP
                          -> payment-service        Postgres (payments)
                          |     \-> RabbitMQ, exchange booking.events
                          |            \-> queue notification.email
                          -> notification-service   Postgres (notifications), SMTP

No state is shared between services except through HTTP calls and the queue. Inside a
service, request goroutines on any number of replicas share Redis and Postgres and
nothing else; only the gateway keeps state in memory (the rate limiter). The Ingress leads to the gateway and,
for `/movies`, past it to movie-service.

| component | state | operations | what is hard about it |
|---|---|---|---|
| booking-service | `hold:<showtime>:<seat>` keys with a TTL, the set `booked:<showtime>`, the table `bookings` | Hold, Confirm, Cancel, GetByID; the CronJob mode `-cleanup-expired-holds` | no transaction spans Redis and Postgres, nor two Redis calls; handlers of several replicas interleave between any two calls; keys expire by themselves; clients leave and pods die in the middle |
| seat map | none | GetSeatMap: SCAN, then SMEMBERS | it reads two lists at different times while seats move from one to the other |
| payment-service | the table `payments`, a channel to RabbitMQ | Process, GetByID | the call to Confirm can outlive its caller; the answer can be lost; two clients pay at once; a booking can be confirmed, cancelled or cleaned up by others at the same time |
| notification-service | the durable queue, the table `notifications` | Run/handleMessage, GetByBookingID | at-least-once delivery, ack after the work, no ack on failure, the loop ends when the connection does |
| api-gateway, rate limiter | one token bucket per client key | Allow, cleanupLoop | refill is lazy, idle buckets are thrown away, and neither may be noticed |
| api-gateway, the rest | none: tokens are signed, not stored | Login, RequireAuth, the routes, the reverse proxies | the order of the layers; a request that the proxy has given up may still be executed; movie-service is also reached past the gateway |
| movie-service | the tables `movies`, `cinemas`, `showtimes` | CRUD, one statement per handler; Delete cascades to the showtimes | overlapping requests, a statement whose outcome is lost, a showtime that disappears under a Hold that has read it |
| start-up | which stores answer, which tables exist, what RabbitMQ has declared, what each pod is doing | init containers: wait with a deadline, migrate; then connect and serve; probes | several replicas migrate at once, a wait runs out, the kubelet restarts one container or the other, one channel for the whole life of a process |
| manifests, labs, scripts | - | - | only their facts about the environment are used: replicas, the CronJob, Redis without a volume |

What makes each component correct:

- **booking-service.** A seat is offered to one booking at a time and never sold twice.
  A booking reported CONFIRMED has all its seats. The lock of a seat lasts as long as
  its booking can be confirmed, and not for ever when its owner dies. What a booking
  has become (CONFIRMED, CANCELLED, EXPIRED) it stays. A booking nobody pays for is
  resolved in the end.
- **seat map.** A seat that is taken during the whole request is shown as taken.
- **payment-service.** Money is kept, and a ticket is sent, only for a booking that is
  sold; a booking is paid at most once; what is sold without a payment or a ticket has a reason.
- **notification-service.** No event leaves the queue unrecorded, a row that says SENT is
  true, every event is recorded in the end.
- **rate limiter.** Every answer is the one an ideal token bucket would give; no stretch of
  time lets through more than the burst plus its refill.
- **gateway and movie-service.** What was deleted does not come back, in no answer to a later
  request. An answer tells whether a row was changed. One of several DELETEs of a movie wins.
  No showtime without its movie and its cinema.
- **start-up.** No server runs without its tables, no event is published before the queue is
  bound (a RabbitMQ that has lost its queue excepted), and everything is ready in the end without anybody's help.

## 2. The modules and the code

| module | models | against |
|---|---|---|
| `SeatLedger` | what booking-service promises, as single decisions: offer, lapse, sell, cancel | - |
| `BookingService` | Hold, Confirm, Cancel, the CronJob, key expiry, failures | `booking_handler.go`, `cmd/server/main.go` |
| `*Proofs` | theorems about the module they are named after; those of `PaymentOutcome` are in `PaymentServiceProofs` | - |
| `BookingLedgerProofs` | theorems about `BookingService` under the hypotheses of the refinement, and about `SeatLedger` | - |
| `SeatMap` | EXTENDS `BookingService` with one reader of the seat map | `seatmap_handler.go` |
| `PaymentService` | Process, with both ends of the call to Confirm, and the others that decide a booking | `payment_handler.go`, `bookingclient/client.go`, `rabbitmq.go`, `booking_handler.go` |
| `NotificationService` | the queue and the consumers | `consumer.go`, `rabbitmq.go`, `mailer.go` |
| `TokenBucket` | what a token bucket promises | - |
| `RateLimiter` | Allow and cleanupLoop | `limiter.go` |
| `MovieService` | the handlers of movie-service, and the question Hold asks it | `movie_handler.go`, `cinema_handler.go`, `showtime_handler.go`, `movieclient/client.go` |
| `Gateway` | EXTENDS `RateLimiter` and `MovieService` with a request's way through the gateway, or past it | api-gateway's `cmd/server/main.go`, `middleware`, `auth`, `proxy`; `k8s/network/ingress.yaml` |
| `StartUp` | the five `main` functions as init container and as server, the probes, the stores | `cmd/server/main.go`, `internal/db`, `redisclient`, `rabbitmq`, `health_handler.go` |
| `PaymentOutcome` | EXTENDS `PaymentService` with a history of what went wrong | `payment_handler.go` |
| `MC*` | model values and small definitions for TLC | - |

**BookingService.** `hold`, `booked` and `rows` are the Redis keys, the Redis set and the
Postgres table; `task[p]` is the stack of goroutine (or CronJob pod) `p`: the call that
comes next, the seats it loops over and the index, the booking, the status it will
store, whether the context of its request has ended. Every call to Redis or Postgres is
one action, because between two calls any other goroutine may run:

| code | actions |
|---|---|
| Hold, lines 69-149 | `HoldBegin`, then per seat `HoldCheck` (SISMEMBER) and `HoldSetNX`, then `HoldStamp` (`expiresAt`), `HoldInsert`, per seat `HoldTag` (SET) |
| rollbackHolds, 154-158 | `Release`, one DEL per step |
| Confirm, 166-204 | `ConfirmLoad` (SELECT and both checks), per seat `ConfirmSAdd` and `ConfirmUnlock`, `UpdateStatus` |
| Cancel, 207-234 | `CancelLoad`, `Release`, `UpdateStatus` |
| CronJob, main.go 111-158 | `CleanupSelect`, per booking `CleanupNext`, `Release`, `UpdateStatus` |
| TTLs, `time.Now` | `Tick` |

A call that fails may have had its effect (the reply is lost) or not; a call under a
context that has ended is not sent (`gone`). The code ignores the errors of SADD, SET and
DEL, and so does the model. One showtime is modelled: every key and every row carries the
showtime, and no operation touches two. Prices and user ids are left out. GetByID reads
one row and changes nothing.

*Time* is what remains: `hold[s].ttl` and `rows[b].left` count down at every `Tick`; 0 is
still alive, below 0 is expired, in Redis, in Confirm (`After`) and in the CronJob (`<`).
There is one clock; skew between the machines is not modelled.

**SeatMap** adds `read`, the request, and the history variable `wasFree`, the seats that were
free at some moment of it. SCAN returns pages of any size in any order.

**PaymentService** keeps the row, the handler, and `call`, the request to Confirm on the side
of booking-service, which goes on when the handler has given up. `other` are the handlers of
booking-service that serve somebody else. All of these have one form there: the status is read,
and must be HOLD, and later another one is stored by an UPDATE without a condition.

| code | actions |
|---|---|
| Confirm, called by payment-service (`booking_handler.go` 166-204) | `ConfirmLoad`, then `ConfirmStore`, or `ConfirmExpires` when `expires_at` has passed (`late`) |
| Confirm, called by a client through the gateway (api-gateway `main.go:137`) | `ClientConfirm`, `OtherStore` |
| Cancel (206-234) | `Cancel`, which does not look at `late`, `OtherStore` |
| the CronJob (booking-service `main.go` 111-158) | `CleanUp`, only of what is late, `OtherStore` |

So two of them that have both read HOLD overwrite each other in either order, and CONFIRMED can
become CANCELLED or EXPIRED. The seats, which these handlers move in between, are in `BookingService`.

**NotificationService** has for each message where RabbitMQ has it (`place`) and for each pod
the step of `handleMessage`. A lost connection gives the message back while the handler goes
on; its ack then does nothing.

**RateLimiter** counts in parts of a token so that a tick refills a whole number of them; the
code's float64 rounding is left out. `watch` is a history variable: it counts the requests
let through to a client from any moment on.

**PaymentOutcome** adds three histories: `disturbed`, the payments one of whose calls has failed or
was cut off (a refusal by Confirm is not a fault); `crossed`, the bookings on which a call that will
store CONFIRMED and one that will store something else have both read HOLD; `bypassed`, the bookings
to which a client has sent Confirm itself. `SuccessMeansConfirmed` and `EventMeansSold` say that a
booking somebody was told is sold was sold, and stays CONFIRMED unless it is `crossed`: what undoes a
sale must have read HOLD before the sale was stored, so that nobody who comes afterwards can.
`OnlyFaultsLose` says that a fault and a client that bypasses the payment are the only ways in which
a sold booking ends without its payment or its ticket, whatever other payments do at the same time.

**MovieService** is a module without a specification of its own: it has the tables, `issued` (ids
are never used twice: `gen_random_uuid`), and `call[r]`, what the services do for request `r`.
Every handler is one SQL statement and so one action; a statement may be executed although the
handler is told that it failed (`Answers`). What surrounds the statement is the gateway's. Of
Hold it keeps the question for the showtime (`HoldAsks`) and that the rest takes its time and
ends in 201, 409 or 500 (`HoldEnds`); what the rest does is in `BookingService`.

**Gateway** composes the limiter, unchanged, with `MovieService`:

| code | actions |
|---|---|
| `middleware/ratelimit.go`, before everything else | `Limited`, and `Allow` inside every other action of a client |
| `auth_handler.go`, Login | `Login` |
| the route and RequireAuth (`main.go` 119-146, `auth.go`) | `Unauthorised`, or `Forward` |
| the backend | `Backend`, a handler of `MovieService` |
| `proxy.go`, the answer; the 502 | `Relay`; `ProxyError`, after which the handler runs on alone until `Abandoned` |
| the token's expiry | `GatewayTick` |
| `k8s/network/ingress.yaml` 21-27: `/movies` goes to movie-service | `ViaIngress`, with neither limiter nor token |

What a request asks for is chosen when its handler runs (`may` says which routes it can be for):
nothing before depends on more than whether the route is wrapped, or is one of the Ingress. Of the
private routes of the other backends only Hold is there. `knew`, `did` and `deleted` are history: what
was known to be deleted when the request was sent, whether it has changed a row, which movies somebody
was told are gone. No property says that rows change for clients with a token only: of the gateway
alone it would repeat the guard of `Forward`, and of the system it is false (section 7).

**StartUp** has one record per pod: the step of `main` that comes next, whether its RabbitMQ
channel is open, and for the gateway the backends that have answered. `Main` says for each
service which step follows which; what is before `serve` or `connect` runs in the init container.
A step that ends in `log.Fatalf` starts that container again (`InitAgain`); a server that dies
starts again without the init container (`Crash`); a new pod starts with it (`Replace`). The
sixty seconds of a wait are not counted: `WaitExpires` may happen whenever something is missing.
Two pods that create the same tables at once may fail each other (`losers`), as concurrent
`CREATE ... IF NOT EXISTS` do in Postgres. RabbitMQ keeps its topology when its container starts again
(`StoreFails`, `StoreStarts`), and has none when its pod is replaced (`BrokerReplaced`):
`k8s/rabbitmq/deployment.yaml` is a Deployment with a volume, without a fixed hostname or node name, and
RabbitMQ files its data under the name of its node. payment-service then declares the exchange again, since its probe
restarts it; the consumer loop of notification-service has ended, its probe does not notice, and nobody
declares the queue until that pod starts for another reason. `lost` is the history variable for this
time. The loss of the messages in the queue is not modelled in `NotificationService`, which has one
broker node for ever.

## 3. What the environment may do

`BookingService`, `PaymentService` and `NotificationService` have a constant `Env`, a subset of
`Conduct`, that says which troubles a run includes. With everything switched on several properties are false of the code, and the
point of a run is to say exactly under which conduct each one holds.

| `BookingService` | meaning |
|---|---|
| `crash` | a pod dies with the handlers in it |
| `leave` | a client disconnects; the context of its request ends |
| `dbFault`, `redisFault` | a Postgres, a Redis call fails, with or without effect |
| `redisRestart` | Redis restarts empty (its Deployment has no volume) |
| `duplicate` | Confirm or Cancel of a booking while another one runs |
| `gap` | a Confirm frees a seat that a Hold has just read as not sold |
| `lateCancel` | a client cancels after `expires_at` |
| `slow` | no bound on how long a handler takes |

"No trouble" in what follows is `Env = {}`, and that is more than the absence of failures: it also
excludes two calls at once on one booking, late cancels, slow handlers and the `gap` race, none of
which is a failure. The CronJob, which is always deployed, is not in `Env`: a run without it has `Jobs = {}`.

Without `slow`, `Timely` bounds a handler to `MaxDelay` ticks and lets no booking expire
inside a call on it. The code does not enforce either: HTTP timeouts of ten seconds against a
TTL of 300 make it likely, which is why it is an assumption of `booking_careful` and
of no other run that passes. A Hold, too, is bounded: with `MaxDelay` larger than `TTL` a Hold of several
seats would lose its first key before its last one. `MaxDelay <= TTL` is enough, and
is what the theorems of `BookingLedgerProofs` assume.

`PaymentService` and `NotificationService` have `crash`, `leave`, `connLost`, `timeout`,
`dbFault`, `smtpFault`, `qrFault`, `brokerFault`; `concurrent` lets a booking be paid by two
requests at once. `Gateway` and `StartUp` have no such switch: every trouble they know is there in every run. In `StartUp` the number of failures is bounded by `MaxFaults`, which counts stores that go
away, containers that die and pods that are replaced; what follows from a failure (waits that
expire, migrations and connections that fail, liveness probes) is not counted.

Bounds on what is unbounded in the code: the ids of bookings (`IdsRemain`: no more Holds start
than ids are left), the payments and the messages (finite sets), two e-mails stand for more
(`OneMore`), the age of a handler (`MaxDelay`), the idle time of a bucket (one past the point
where it is dropped), a watch (`Window`).

## 4. The runs

| run | instance | properties | what it shows |
|---|---|---|---|
| `booking_faults` | 2 seats in one list, 2 bookings, 2 goroutines, 1 CronJob, TTL 1; gap, crash, leave, dbFault, duplicate, lateCancel, slow | `TypeOK`, `ConfirmedSeatsAreSold` | whatever happens short of a Redis failure, a CONFIRMED booking has all its seats in the booked set, even in the race that `booking_gap` is about |
| `booking_careful` | 2 seats, 5 seat lists (both orders, one seat, the same seat twice, none), 3 bookings, 3 goroutines, TTL 2, MaxDelay 1; no CronJob, no trouble (section 3) | `HoldsAreLocked`, `NoOrphanLocks`, `SoldSeatsAreConfirmed`, `NoDoubleSale`, `OutcomeIsFinal`, `ImplementsLedger` | with nothing but handlers that interleave the locks are exact: they cover what can be sold and nothing else, outcomes are final, and booking-service implements `SeatLedger`: no seat is offered twice or sold twice |
| `booking_liveness` | 1 seat, 2 bookings, 1 goroutine, 1 CronJob; crash, leave, faults of both stores, Redis restarts, lateCancel, slow | `LocksAreReleased`, `ExpiredHoldsAreResolved` | no lock and no expired HOLD stays for ever |
| `seatmap` | 2 seats, 2 bookings, 1 goroutine, 1 reader; redisFault, slow | `TakenSeatsAreShown` | the order SCAN before SMEMBERS fits the order SADD before DEL of Confirm |
| `payment` | 1 booking, 2 payments of it one after the other, 2 more handlers of booking-service, all faults | `TypeOK`, `SuccessMeansConfirmed`, `EventMeansSold`, `OneSuccessPerBooking`, `OnlyFaultsLose` | lost answers, timeouts, retries, and others that confirm, cancel and clean up never give a payment for a booking that was not sold, nor two of them; only calls that cross undo a sale; only a fault or a client that bypasses the payment leaves a sold booking without its payment or its ticket |
| `notification` | 2 consumers, 1 event and 1 unreadable body, all faults | `TypeOK`, `AckedIsRecorded`, `SentIsMailed`, `EveryTicketIsRecorded` | at-least-once delivery, no lie in the table, no event forgotten |
| `gateway` | 1 client, 2 overlapping requests, 1 movie, 1 cinema, 1 showtime; 1 request per minute, 2 ticks per minute, buckets dropped after 2 idle ticks, windows of 1 tick, tokens of 3 ticks | `GatewayTypeOK`, `NoOrphanShowtimes`, `NoStaleAnswer`, `AnswersTellTheTruth`, `OneDeleteWins`, `TypeOK`, `WindowIsBounded`, `ImplementsTokenBucket` | requests that overlap, come by either way, or are given up and executed late, tell no lie; laziness and eviction of the limiter are invisible |
| `startup` | 6 pods (two of booking-service), 1 failure of anything at any time, besides stores that come up in any order | `TypeOK`, `ServesWithTables`, `NoEventIsDropped`, `EverythingIsReady` | however the pods come up or come back, no server runs without its tables, no event finds no queue unless RabbitMQ is a new node, and all become ready for good |
| `booking_gap`, `booking_cleanup`, `payment_twice`, `notification_duplicate` | the smallest instance each | one each | see section 7 |

Why these bounds are enough to be interesting. Two seats in both orders are the smallest lists
with which Holds can block each other crosswise and roll back a proper prefix; three goroutines
let two Holds meet a Confirm or a Cancel. Two bookings on one seat, one after the other, are what
every hazard of a stale key needs (the key of the second is hit by the first), so TTL 1 or 2 is
enough: what counts is that a booking can lapse, be replaced, and its ghost act again. Two
consumers are what a redelivery to somebody else needs. In `payment` a retry needs two payments
of one booking, and of two other handlers one can sell the booking while the other one undoes
it; bookings do not touch each other there, so that one is enough.

In `gateway` what counts is two requests that overlap, each in every role: two DELETEs of one
movie, a DELETE beside the creation of a showtime, a read or a Hold sent after the 204. The client
of a request plays no part in the backend, so that one client is enough; two clients of the limiter
never meet in one bucket. A token lives longer than a bucket, so that it can end inside a request.
`IdleLimit` 2 is the smallest number that fills a bucket of one token again, so that one tick less
would be noticed, and one request per minute at two ticks makes the refill a fraction of a token.
The ids are few because they are not used again: with one movie the run still creates it, deletes
it and answers for it afterwards. The proofs of section 6 have no such bounds.

In `startup` two pods of one service are what a rivalry for its tables needs. One failure in
addition to the start in any order reaches every restart once: an init container's, a server's,
a pod's, a store's. The safety properties are proved for any number of failures and pods.

The largest runs are `booking_faults` (about 1.5 million distinct states), `gateway` (1.3 million)
and `seatmap` (0.8 million); all the others have less than half a million.

Symmetry is used for ids, goroutines and request slots in the runs that check no liveness. Deadlock is checked
everywhere except in `payment`, `payment_twice` and `notification`, where requests and messages are
finite and nothing is left to do when all are answered, and in `startup`, where everything may be up
after the last failure with nothing left to start.

## 5. Fairness

`BookingService!FairSpec`. Calls return, so a goroutine takes its next step (weak fairness of the
steps of each handler); time passes (`Tick`); the CronJob is scheduled every five minutes
(weak fairness of its steps, `k8s/booking-service/cronjob.yaml`); and it is not killed at the same
step every single time, nor does Postgres always refuse its UPDATE (strong fairness of its `CleanupNext`,
of its `Release` and of the UPDATE that takes effect). No client is fair: nobody has to confirm, cancel
or ask for anything. The CronJob's part has a condition that is in no Go file: `k8s/network/networkpolicy.yaml`
(lines 116-121 and 166-171) admits to Redis and to the Postgres of the bookings only pods labelled
`app: booking-service`, and the pods of `cronjob.yaml` have no labels. Where the cluster enforces
NetworkPolicies the CronJob reaches neither, and `ExpiredHoldsAreResolved` does not hold: a HOLD
becomes EXPIRED only if somebody confirms it late. `LocksAreReleased` rests on the TTL and does not need the CronJob.

`NotificationService!FairSpec`. The kubelet starts pods again and a handler goes on (weak
fairness); RabbitMQ comes to every message of the queue, and it is not at the same step of the same
message that pods die or Postgres refuses the row time after time (strong fairness of the delivery
and of each step of `handleMessage` on a given message). Nothing restarts a consumer whose loop has
ended: `/healthz` and `/ready` look at Postgres only. So `EveryTicketIsRecorded` names that as the
other outcome.

`StartUp!FairSpec`. The loops that wait poll until what they wait for is there, and the kubelet
starts again whatever has ended (weak fairness of the `Step` of each pod), probes what runs
(weak fairness of `LivenessFails`), and starts the stores, which have Deployments of their own
(weak fairness of `StoreStarts`). Failures, waits that expire and events are not fair. Weak fairness
is enough because failures are finite and a wait that expires leads back to a wait. The run would
not hold with the liveness probe of the other services in payment-service, which is the mutant of
`EverythingIsReady`. Ready is what the probes see: a notification pod whose consumer loop has ended is
Ready and consumes nothing.

## 6. The proofs

`BookingServiceProofs` proves, for every number of seats, bookings, goroutines and CronJob pods,
every TTL and every set of seat lists:

- `TypeCorrect`: `Spec => []TypeOK`. The part that is not obvious is that a loop index is inside
  its list: it needs that no list is empty, which the code checks for a request (line 74) and
  which has to be carried through the table, since Confirm, Cancel and the CronJob loop over the
  seats of a row. The inductive invariant `TypeInv` is `TypeOK`, `RowsHaveSeats` (a row that
  exists has seats) and `Placed`/`TaskFits`, which say for every task what its step requires of it.
- `ConfirmedMeansSold`: `Spec => []ConfirmedSeatsAreSold`, from the one assumption
  `NoRedisFaults` (Redis calls do not fail and Redis does not restart). Everything else of
  `Conduct` is allowed, with any number of handlers on the same booking. `ConfirmedSeatsAreSold`
  is not inductive: it is an UPDATE that makes it true or false, long after the SADDs. `SoldInv`
  adds `ConfirmFits`: a goroutine in the loop of Confirm has put the seats before its index (and
  the one at it, once past SADD) in the booked set, and one about to store CONFIRMED has put all
  of them there, or its context has ended and the UPDATE will not be sent. The last case is why
  the same context for SADD and UPDATE matters; the mutant `UpdateStatusDetached` shows what
  happens otherwise.

That assumption is needed: the error of SADD is ignored (`booking_handler.go:193`), so a Redis
fault alone gives a CONFIRMED booking whose seat is not in the set.

- `OutcomesAreFinal`: `Spec => OutcomeIsFinal`, from `OneDecider`: no two calls of clients on one
  booking at once, and, where there is a CronJob, no handler still at work on a booking when it
  expires (`slow`) or beginning to cancel it afterwards (`lateCancel`). Crashes, disconnects and
  failures of both stores are all allowed. The UPDATE has no condition on the status, so `FinalInv`
  has to say that nobody else can have changed it since the SELECT: a call and the CronJob are kept apart
  by the expiry of the booking, and two CronJobs write the same. TLC finds the property violated
  when either half of `OneDecider` is dropped.

- `NoSeatIsLost`: `Spec => []SoldSeatsAreConfirmed`, from `OneDecider` and `ConfirmsEnd` (no crash, no
  client that leaves, no Postgres error: nothing stops a Confirm between its SADD and its UPDATE).
  Redis faults and restarts and the race of `booking_gap` are allowed. `SellingInv`: for a seat in the
  booked set there is a booking with that seat that is CONFIRMED or on which a Confirm is at work, and
  by `FinalInv` nobody overwrites what that Confirm stores.
- `NoLockIsOrphaned`: `Spec => []NoOrphanLocks`, from `KeysReachable` (no crash, no client that leaves, no
  failing Redis call: every DEL is sent and works). CronJobs, several calls at once on a booking, the race,
  late cancels, slow handlers, Postgres errors and Redis restarts are allowed. `KeyInv` says who is behind a
  key: a Hold *owes* the keys it has set and neither tagged nor deleted (`Owed`), so that "pending" is
  owed by somebody; and a key with an id is that of a booking which is HOLD or EXPIRED or has a call at work.

`BookingLedgerProofs` is about handlers that interleave at every call, and about nothing else. Its
hypothesis `Careful` is `Env \subseteq {"gap"}`, `Jobs = {}` and `MaxDelay <= TTL`; in words:

- nothing fails: no crash, no client that leaves, no Postgres or Redis error, no Redis restart;
- no CronJob runs, although one is always deployed;
- one call at a time works on a booking, and none begins to cancel after `expires_at`;
- every call ends within `MaxDelay`, which is no longer than the TTL, and before its booking expires.

`NoRace` excludes in addition a Confirm that frees a seat between the SISMEMBER and the SETNX of a Hold.
From these it proves, for any seats, seat lists (with repetitions too), bookings and handlers

- `HoldsAreAlwaysLocked` (`Careful`): `HoldsAreLocked` is an invariant;
- `ServiceIsALedger` (`Careful`, `NoRace`): `Spec => ImplementsLedger`, the refinement of `SeatLedger`;
- `NoSeatIsSoldTwice` (`Careful`, `NoRace`): `NoDoubleSale` is an invariant, because in every state of the
  ledger no seat has two owners (the lemma `NoSeatHasTwoOwners`).

`HoldsAreLocked` is not inductive. What is, `CarefulInv`, says who owns a key. The keys a handler
owes are pairwise different and live long enough for the Hold to end (`Pends`). It *keeps* the keys of
the booking it works on from the tag to the DEL (`Kept`), and they outlive `expires_at`
(`LockedBy`). No two handlers owe the same key or work on the same booking (`TasksApart`). The other
way round (`KeysInv`), a key that says "pending" is owed by somebody, and one with an id belongs
to a booking that is HOLD or EXPIRED. Under `NoRace` a seat in the booked set has no key, except one that its Confirm is about to
delete (`SoldSeatsInv`), and a Hold that has read "not sold" and finds no key finds a seat that is still not sold
(`Trying`, in `TaskInv`): that is the conjunct which `gap` breaks. Time is the delicate step: a key is set
before `expires_at` is computed, so it is the Hold's age and `MaxDelay <= TTL` that keep it alive up to the
tag, and from the tag on it has a whole TTL.

For the refinement the INSERT of Hold is the ledger's `Offer`, a `Tick` its `Lapse` of the bookings
that expire, `CancelLoad` decides "cancelled", the UPDATE to CONFIRMED decides "sold", and
all other steps stutter. `Offer` needs that no open or sold booking owns the seats, which is where the
exactness of the keys is used.

Each exclusion is needed. On an instance with one seat, TTL 1 and at most three bookings TLC finds
`NoDoubleSale` violated with each one of `crash`, `leave`, `dbFault`, `redisFault`, `redisRestart`,
`duplicate`, `lateCancel`, `slow` and `gap` alone in `Env`, with a CronJob and `Env = {}`, and with
`MaxDelay > TTL`; and `HoldsAreLocked` with all of them but `gap`. Of these `duplicate`, `lateCancel`,
`slow`, `gap` and the CronJob need no failure at all. So these theorems do not say that seats are never
sold twice in production. They say that the list above is the list of causes: no other interleaving of
Holds, Confirms and Cancels is one.

`SeatMapProofs` proves `TakenSeatsAreAlwaysShown`, besides that the reader is well typed, in every environment,
also with the conduct that the run `seatmap` leaves out (a Redis restart, crashes, the race of `booking_gap`).
The invariant (`Tracked`): a seat that was never free since the request began is still to be scanned, or
was seen, or is in the booked set, which is read last. Seats leave that set only when Redis restarts, and then they are free.

`PaymentServiceProofs` proves `TypeCorrect`, `SuccessIsSold` and `EventIsSold` for all bookings,
payments and other handlers of booking-service in every environment, overlapping payments included.
The invariant `Fits` relates the handler, its call and its row: up to the UPDATE the row is PENDING,
and from the 200 of Confirm on the booking has been sold. Nothing keeps CONFIRMED from being
overwritten but that a call which does it has read HOLD before. `CrossInv` says that a booking which
one call is about to sell and another one not is in `crossed`; that of any other booking that is
CONFIRMED nobody is about to store another status; and that one whose Confirm answered 200 is then
CONFIRMED. `OneSuccess`
proves `OneSuccessPerBooking` from the assumption that `concurrent` is not in `Env`, which
`payment_twice` shows to be needed. Two calls to Confirm for one booking may still be under way,
one of them given up, so that the invariant `OneInv` is about who listens: when a payment wins or
has won, no other one of its booking can still win (`MayWin`).

It also proves `OnlyFaults`, `OutcomeSpec => []OnlyFaultsLose`, of `PaymentOutcome` in every
environment. A payment that nothing has touched knows what its call has come to (`Clean`), and
a payment whose call made a booking CONFIRMED has heard so or was touched, or the booking is `bypassed`
(`Explained`).

`NotificationServiceProofs` proves `TypeCorrect`, `AckedMeansRecorded` and `SentMeansMailed` for
all messages, payments and pods in every environment. The invariant adds `Exclusive` (no two live
connections have the same message in hand, so that the ack or nack of one cannot change what
another one works on) and `InHand` (a message about to be acked has its row, and one about to be
recorded SENT its e-mail); `InHand` survives the steps of the others because rows and e-mails are
never taken back.

`RateLimiterProofs` proves, for all clients, rates, clock resolutions and idle limits of at least
one minute, `TypeCorrect`, `WindowBounded` and `LimiterIsABucket`, the refinement of `TokenBucket`.
The lemmas on one bucket are the heart of it: a tick raises the lazily computed level by the rate
(`LevelTicks`), and a bucket that is old enough to be dropped is full (`LevelIsFull`), for which
the idle limit must be at least the time the burst takes to refill.

`StartUpProofs` proves `TypeCorrect`, `ServersHaveTables` and `NothingIsDropped` for any pods, any
assignment of services and any number of failures, replaced brokers among them. The invariant says for every pod what its
step implies: beyond `migrate` its tables exist (tables are never dropped, so that neither a rival
nor a restart matters), a server that serves has declared its part of the topology unless it was `lost` since, and what a gateway has `seen` did serve. A gateway that serves has seen a
notification pod, that pod had bound the queue, and the queue is still there when an event comes, or RabbitMQ is a new node and notification-service
has not started since.

`GatewayProofs` proves the five invariants of the gateway for all movies, clients, rates and
numbers of requests. The invariant `GInv` has, besides the types, that every row and every id that
is known was issued, that what somebody knows to be deleted is issued and not among the rows, and
what each reply may say (`Sound`). An UPDATE or an INSERT cannot bring a deleted id back, because
it wants a row or an id that was not issued; that is the whole reason why a request given up long
ago does no harm. `LimitsHold` carries the theorems of `RateLimiterProofs` over: every step of the
gateway is a step of the limiter or leaves it alone (`LimiterRuns`). They are about the requests
that pass the gateway; those by the Ingress are not counted by anybody.

Every safety property of a passing run, invariant, action property or refinement, is thus the statement of a theorem.
Checked by TLC only are the liveness properties (`LocksAreReleased`, `ExpiredHoldsAreResolved`,
`EveryTicketIsRecorded`, `EverythingIsReady`), and they stay so: they rest on fairness and ENABLED,
which the prover does not handle. `CleanupKeepsLocks` and `NoDuplicateEmail` are
false of the code; `OneSuccessPerBooking` and `NoDoubleSale` are false in the runs of section 7, and
proved from the assumptions above.

## 7. Where the code and its documentation differ

Four runs end in a counterexample to a sentence of the repository:

1. `booking_gap`. SISMEMBER and SETNX are two calls. A Hold that has read "not sold" before a Confirm
   and does its SETNX after it locks a seat that is sold, and Confirm sells it again. The comment
   at `booking_handler.go:58-61` says SETNX settles the race.
2. `booking_cleanup`. The CronJob deletes keys by name for bookings that lapsed; the key may belong
   to the booking that holds the seat now. `main.go:26-29` says that the cleanup does not affect
   whether a seat is locked.
3. `payment_twice`. Two payments of a booking at once both become SUCCESS;
   `migrations/001_init.sql:26-28` says at most one should.
4. `notification_duplicate`. The e-mail goes out before the row that makes the message idempotent;
   a redelivery after a crash sends it again. `consumer.go:37-39` says it does not.

The models show more that no run is spent on:

- Cancel does not look at `expires_at` (`booking_handler.go:206`): a late cancel deletes the key of
  the booking that has the seat now (`lateCancel`).
- Cancel deletes the keys of the seats and then stores CANCELLED (`booking_handler.go:225`). If the UPDATE
  fails, or the pod dies or the client leaves before it, the booking is HOLD without locks: somebody
  else may hold and buy its seats, and Confirm, which does not look at the keys, sells them again. A crash, a disconnect or a Postgres error alone is enough, and TLC
  finds `NoDoubleSale` violated with each of `crash`, `leave`, `dbFault`.
- The UPDATE of the status has no condition: with two calls on one booking, or a booking that
  expires inside a call, CONFIRMED can be overwritten by CANCELLED or EXPIRED while its seats stay
  sold (`duplicate`, `slow`) and its payment SUCCESS (`crossed` in `PaymentOutcome`).
- The gateway offers Confirm to clients (api-gateway `main.go:137`). One that sends it has its booking
  CONFIRMED without a payment, and a payment it sends afterwards is refused by 409 and FAILED.
  `bookingclient/client.go:26-28` says that a booking becomes CONFIRMED only after a payment has succeeded.
- The Ingress sends `/movies` straight to movie-service (`k8s/network/ingress.yaml:21-27`), POST, PUT and
  DELETE included, past the limiter and RequireAuth; api-gateway `main.go:128` says that these need a login.
- A replaced pod of RabbitMQ has no queue and the gateway goes on serving, so that events of paid
  bookings are dropped until notification-service is started again (`BrokerReplaced`).
- Where NetworkPolicies are enforced the CronJob's pods are not admitted to Redis and Postgres (section 5).
- The rollback runs under the context of the request: when the client has left, none of its DELs is
  sent and the seats stay locked until the TTL, which the comment at lines 151-153 wants to avoid.
- A restart of Redis forgets what is sold.
- An e-mail that could not be sent is recorded FAILED and acked: nobody sends it again, although
  `rabbitmq.go:83-86` says the ack comes after the e-mail was sent.
- A lost answer of Confirm leaves a CONFIRMED booking with a FAILED payment and no ticket
  (`payment_handler.go:83-93` thinks only of the booking that has expired).
- The limiter lets through up to twice `requestsPerMinute` in a minute, the burst and its refill
  (`limiter.go:29-30` says at most `requestsPerMinute`); with a rate of 0 the first request of a
  client still passes.
- CreateShowtime answers 400 for every error (`showtime_handler.go:36`), also for one after which
  the row exists. `AnswersTellTheTruth` has to except it.
- `movieclient/client.go:49-52` wants booking-service to answer 503 when movie-service is down, and
  Hold answers 400 for every error of that call (`booking_handler.go:84-86`).
- The lists of movie-service do not read `rows.Err`: one that a broken connection cuts short is
  answered 200 (`movie_handler.go:63`).

## 8. Not modelled, and what comes next

Not modelled: HTTP and JSON encoding, the signing of tokens, QR codes and MIME, logging, metrics,
the manifests and labs beyond the facts named above. `total_seats` of a showtime is never read by
booking-service, so seat names are not validated there; the model has no notion of a seat that
does not exist. The readers GetByID and GetByBookingID of booking-, payment- and
notification-service are one SELECT each and change nothing. The filters of ListShowtimes, prices
and titles are data that no property distinguishes. Of the CronJob's SELECT, rows that a broken
connection cuts off are not there: the next run of the CronJob reads them.

Done: `BookingService` with `SeatLedger`, `SeatMap`, `RateLimiter` with `TokenBucket`,
`PaymentService` with `PaymentOutcome`, `NotificationService`, `MovieService`, `Gateway`, `StartUp`;
theorems about all of them.

What comes next, in order:

1. The chain payment - queue - notification as one composition, from SUCCESS to the ticket.
2. A queue that disappears under the consumers in `NotificationService`, as `BrokerReplaced` has it in `StartUp`.
3. How much of the ledger survives a weaker `Careful`. Not `NoDoubleSale`: every one of its exclusions breaks
   it (section 6). But a Hold that is cut off leaves keys behind that should do no harm.
