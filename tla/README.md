# Evently in TLA+

Evently sells tickets. A request to book is answered `202` and put on a BullMQ
queue; a worker takes it, acquires a Redis lease for the event, and runs
`bookingService.createBooking` against PostgreSQL. Cancellation, waitlist,
seats, administration of events and accounts work on the same tables directly
from their HTTP handlers, without the lease.

The modules here model that code (paths below are relative to `src/`), TLC checks
them on small instances, and TLAPS proves the safety properties of every part and both
refinements for every value of the constants. `PROJECT.json` maps each definition to the
source lines it stands for.

## 1. The system

| Component | State it keeps | Operations | What is hard about it | What makes it correct |
|---|---|---|---|---|
| Booking service `services/booking.service.ts` | `Event.availableCapacity`, table `Booking` | `createBooking`, `cancelBooking` | check and decrement are two statements without a row lock; every error is retried; a key is looked up once, outside the transaction | no overselling, the counter agrees with the bookings, a key books once, a request books once |
| Queue `queue/booking.producer.ts`, `queue/index.ts` | jobs in Redis | enqueue; BullMQ fetches, retries, detects stalls | at-least-once delivery: three attempts, redelivery, late reports of stale workers | every job is decided, and stays so |
| Worker `queue/booking.processor.ts` | the job it is processing | acquire, create, release, report | dies anywhere; the release may fail and is only logged | one worker per event; what it reports is what it did |
| Lease `utils/redisLock.ts` | `lock:event:{id}` | acquire with retries, release | 3 s, never extended | held by one, and never forever |
| Booking routes `controllers/booking.controller.ts` | none | book, cancel | cancellations of one booking overlap | as booking service |
| Waitlist `services/waitlist.service.ts` | table `Waitlist` | `join`, `leave`, `popNext`, `getWaitlist` | find-then-create without an index; find-then-delete; the job is added after the commit; pages of a list that changes | one entry per user; promoted once, in order, and never lost; who stays is listed |
| Seats `services/seat.service.ts` | table `Seat` | `holdSeats`, `confirmSeats` | `createBooking` commits in its own transaction inside the one that updates the seats | a seat and its booking agree, one booking per seat |
| Administration `services/admin.service.ts`, `repositories/event.repo.ts` | table `Event` | create, update, delete | the payload of an update is written as it is, with any numbers and between a worker's check and its decrement | bookings keep their event, the counter follows what was put on sale |
| Analytics `services/analytics.service.ts` | none | `getEventStats`, `getTopEvents` | several queries, no snapshot | never more active bookings than there are |
| Accounts `services/auth.service.ts` | table `User`, tokens in clients' hands | signup, login, refresh | two signups overlap; answers are lost | one account per address; a client's 201 holds |
| Access `middleware/auth.middlware.ts`, the routers, `app.ts` | none | `requireAuth`, `requireAdmin`, in the chain each route mounts | roles change while tokens and requests live | only administrators are served |
| Rate limiter `middleware/rateLimit.middleware.ts` (no route mounts it) | counters in Redis | INCR, then EXPIRE | two commands, many processes, errors let requests through | no more than `max` in one life of a key; a counter stays only after a crash or a failed command |
| Server `server.ts` | the listener, a queue and a database connection | listen, shutdown, exit on errors | signals at any time, also twice; connections that stay open or silent | a shutdown answers every request, and ends unless a client holds it |
| Everything else: validation, errors, health, configuration, logging, notifications | none | | | not modelled (section 8) |

How they interact: handlers, workers and services share nothing in memory. They
meet in PostgreSQL (default isolation, READ COMMITTED), in the queue (from the
booking handler and `popNext` to the worker) and in the lease (among workers
only). `confirmSeats` calls `createBooking` directly, without queue and lease. The
rate limiter meets its other requests in Redis; a request meets the shutdown of its
process in the connection it came on.

## 2. The modules

```
Evently             ids, users, payloads
 +- BookingQueue    jobs                    +- Waitlist (EXTENDS BookingQueue)
 |                                          |   +- WaitlistReader
 +- EventLock       the lease               |
 +- BookingService  createBooking,          +- SeatBooking, EventAdmin
 |                  cancelBooking           |   (each EXTENDS BookingService)
 +- Ticketing       what booking promises   +- SeatSales  what seats promise
     BookingSystem = BookingQueue + EventLock + BookingService + the worker
Accounts <- AccessControl
RateLimiter <- Server
MCBookingSystem, MCWaitlist <- MCWaitlistReader, MCSeatBooking, MCEventAdmin, MCAccessControl
Proofs: BookingSystemProofs <- BookingOutcomeProofs, SeatBookingProofs, WaitlistProofs,
        AccessControlProofs, ServerProofs, EventAdminProofs; SetSums (lemmas about sums)
```

**An action is what happens between two awaits.** Two things are coarser, and why
it is sound: the writes of a transaction and its COMMIT are one step, because the
writes are relative, their row locks last until COMMIT, and nobody sees them
before; an `updateMany` with its count is one step where its transaction contains
nothing else. Reads in a transaction are steps of their own: at READ COMMITTED they
lock nothing.

* **BookingService**: `available` is `availableCapacity`, `bookings` the table in
  order of insertion. `LookupFinds/Misses/Fails`, `ReadAccepts/Refuses`, `Commit`,
  `CommitUnacknowledged`, `TransactionFails` are the awaits of `createBooking`;
  `CatchError` is its catch block, which retries refusals too. `CancelRead`,
  `CancelCommit`, `CancelFails` are those of `cancelBooking`. Its requests that
  are refused (404, 403, 409) write nothing and are left out.
* **BookingQueue**: `jobs` is everything ever enqueued (nothing is removed). Waiting
  out a backoff and waiting in line are one state, since backoff makes every order
  possible. `JobStalled` is BullMQ's stall check, true or false alarm.
* **EventLock**: `lock`, and `lapses`, a count of leases that ended while their
  holder was still inside `createBooking`. There are no clocks.
* **BookingSystem**: `Fetch`, `Acquire`, `AcquireGivesUp`, `CreateBooking`, `Release`,
  `Report` are the processor function; `Crash` is the death of a process at any of
  them. `shutdown` in `server.ts` has the same effect, since it closes the queue and
  the database but not the worker.
* **Ticketing**: the promise, as indivisible `Sell` and `Refund`.
* **Waitlist**: `JoinFind`/`JoinCreate`, `Leave`, and `PopFind`/`PopDelete`/`PopEnqueue`
  with their failures: the entry may be gone and its job not added (`PopLost`), or the job
  added, the answer lost and the command sent again (`PopEnqueueUnanswered`). An entry carries
  its `createdAt`, which identifies it: two
  entries of one millisecond, whose order is the database's choice, are not modelled.
* **WaitlistReader** adds one client that reads `getWaitlist` page by page
  (`ReadPage`), between the steps of all the others. It follows one entry, any one, and
  remembers whether it was shown and what changed ahead of it.
* **SeatBooking**: `HoldSeats`; `ConfirmSeats` opens the outer transaction and
  locks the rows, `CreateSeatBooking` is the `createBooking` running inside it,
  `ConfirmCommit`, `ConfirmFails`, `OuterEnds` and `ConfirmDies` the ways it ends.
* **SeatSales**: what that comes to, as indivisible `Hold` and `Sell`. A fault may
  part a sale from its seats; it is counted, and `Fault` and `Strand` say what it may
  do. `SellsSeats` (in `SeatBooking`) maps a seat to booked from the commit of its
  booking on, as long as its outer transaction is open, and `faults` to the faults of
  `SeatBooking`.
* **EventAdmin**: events are created by administrators or users, updated, and deleted under
  the foreign key; `Stats...` are the queries of `getEventStats`. The router validates no
  update, so its payload (`Payloads`) names `capacity`, `availableCapacity`, both or neither,
  with any number, and comes at any step of a booking: it asks for no lease. Whether a
  client took the numbers from a stale form does not matter then. Prisma's nested writes,
  which a payload could also ask for, are left out. A second worker comes to an event
  only when the lease of the first has lapsed (`LeaseFree`, `lapses`); the lease itself is
  the subject of `BookingSystem`.
* **Accounts, AccessControl**: a token is its subject and the role it claims, and may
  expire at any moment. `held` are the roles an account had while a request ran.
  The program never changes a role, an operator of the database does (`SetRole`).
  A route is the chain of middleware its router mounts, one set of chains per file
  (`AdminRoutes`, ...); `Enter` is the part before the await of `requireAuth`,
  `LoadUser` what follows it.
* **RateLimiter**: a request counts itself (`Incr`), gives the key its lifetime if it was
  the first (`Expire`), and is let through or refused. A command may fail with or
  without effect, or be sent twice by ioredis. `window` numbers the lives of a key.
* **Server**: connections carry one request at a time through `RateLimiter` and the
  booking handler; processes start, close (`Signal`, `SignalAgain`, `ServerClosed`,
  `Disconnect`, `CloseQueue`), exit and crash. A connection is `open` when it waits for a next
  request, and `arriving` when a request has begun and not come in full, or when it is new and
  has carried none. `server.close` is that of Node 20, the version of the `Dockerfile`: it
  closes the first kind, not the second, and calls back when all are closed, with an
  error for every call but the first. What an exit does to the worker is `Crash` in
  `BookingSystem`.

Libraries and services (BullMQ, Redlock and Redis, PostgreSQL, JWT, Node's HTTP
server) are external: they do what the options the code passes ask for, and may fail at every call.

**Ghosts.** `lapses`, `lostAcks`, `aborts`, `lost`, `resends`, `failures`, `crashes` and the
`stalls` of a job count the faults that happened, so that a property can say "as long as none did", and a
cfg bounds them. `refunds`, `job` and `seatLevel` of a booking, `popped`, `late`,
`edits`, `offered`, `undercut`, `answers`, `signedUp`, `held`, `walk`, `window`, `passed` and `cut`
record history for properties. No guard of the code's own behaviour reads one; a guard compares one only with its
bound.

**Mutants.** A definition whose comment begins with "Mutant of" is a plausible bug
in the definition it names: a dropped guard, an off-by-one, a missing count.
Putting it in that definition's place must break the property it is paired
with in `PROJECT.json`; no specification uses one.

## 3. The runs

All bounds are constants named in the modules (`Max...`, `Attempts`); when they are
used up the system stops, so deadlock is not checked.

| Run | Instance | Shows |
|---|---|---|
| `booking_core` | 2 workers, 2 jobs, 1 canceller, 2 retries, 1 stall, 1 lapse | mutual exclusion, no negative counter, no overselling, keys, counter, jobs against bookings, settled jobs stay |
| `booking_faults` | 1 worker, 2 attempts, 2 cancellers, 1 lost acknowledgement, all four kinds of request | the counter and the bookings per job, through every branch of `createBooking` |
| `booking_live` | 2 workers, 2 attempts, 1 stall, no lapse | every job settles, no event stays locked, and the sales are those of `Ticketing` (without keys and cancellations: those are proved only) |
| `waitlist` | 3 callers, 4 joins, 1 lost promotion, 1 job sent again, 3 jobs, pages of 2 | promoted once, in order, and into the queue; who stays is shown |
| `seats` | 3 seats of 2 events, 5 lists of them (empty, with a repetition, over two events), 3 confirmations, 1 abort, 1 lost acknowledgement | booked seats have a booking, one each, holds are not stolen; `SeatSales` is implemented |
| `event_admin` | 1 event of 2 seats, 2 workers, 1 canceller, 1 request for statistics, 2 updates writing -1 or 1, 2 bookings (of 2 seats, or seat-level), 1 lapse | foreign key, what the counter is made of, sales against what was put on sale, statistics |
| `access_control` | 2 clients, 2 addresses, 2 signups, 2 role changes, every chain of middleware | one signup wins, a login knows it, only administrators pass |
| `server` | 2 processes, 2 connections, 1 caller, limit 2, 4 requests, 1 failed command, 2 starts, 1 crash | the limit, no request cut off by a shutdown, counters expire, processes exit unless a client keeps them |
| `lease_lapse`, `double_refund`, `waitlist_duplicate`, `seats_partial` | as the above, smaller | the four disagreements of section 5 |

**Why the bounds are enough.** The hazards are races of two: two workers, two
cancellations, two signups, and a third call in the waitlist that may come between
them; two connections and two processes for the rate limiter, whose limit of two is
reached, exceeded, and begun anew in the next life of the key. Of the numbers an
administrator may write, what matters is whether they are below zero and below what a worker
has found, which is 2. An event of the booking path has three
seats and a booking takes two, so that one fits, two do not, and the single seat left
tells an exact check from a lenient one. Two retries make every catch block both retry
and give up; one stall more than tolerated fails a job. One fault of a kind is what
distinguishes a property that survives it from one that does not; properties that
allow for faults count them. The bounds on length (jobs, joins, confirmations) leave
room for the second actor after the first is done. The theorems of section 6 have no
such bounds.

Symmetry is used over interchangeable processes only (workers, callers, clients,
requests) and over values no property singles out (users of the waitlist and of the
seats, addresses and passwords), and never in the
liveness runs. In `booking_core` both requests are of one user, so that only the key
tells their bookings apart.

## 4. The properties

*Booking path* (`BookingSystem`): `OneWorkerPerEvent`, `NeverNegative` and
`NoOverselling` hold while no lease lapsed; `KeyUsedOnce` while also every commit
was acknowledged. `CounterMatchesBookings` holds always: since every write of the
counter is relative, it differs from capacity by the seats sold and by wrong refunds
(a booking refunded twice, or a seat-level booking that never took any). A job makes
at most one booking, one more for each stall and each lost acknowledgement
(`BookingsPerJob`); a completed job returns a booking of its own request
(`CompletedHasBooking`); a failed one that never stalled booked nothing
(`FailedHasNoBooking`); a late report changes no settled job (`SettledIsFinal`).

*Fairness* (`booking_live`). `WF(WorkerStep)`: a live process goes on; every await
of the worker ends in an answer or an error. It also means that a process that crashed is started
again, which no file of the repository sees to (`docker-compose.yaml` has no restart
policy): with every worker gone, jobs wait. `WF(LeaseExpires)`: the key has a TTL.
`WF` of the stall check, for jobs whose process is gone: BullMQ runs it
periodically in every worker. Clients, crashes and false alarms owe nothing; they
are bounded by attempts and stalls, because a crash only comes back through the
stall check. `EveryJobSettles` and `EventUnlocked` follow.

*Waitlist*: `PromotedOnce`; `PromotedInOrder` up to entries inserted after a younger
one was already chosen; `PromotionsReachQueue`: a user's
promotions and jobs are equally many, up to those counted in `lost` (the entry deleted, the job
not added) and in `resends` (added twice). `WalkSeesStayers`: offsets over a changing list skip an entry only
if an older one left meanwhile, and show it twice only if an older one was inserted
late; both happen in the run.

*Seats*: `BookedSeatHasBooking` whatever fails: the row of a booking that names the seat, which
may have been cancelled since, because `cancelBooking` leaves the seats booked;
`OneBookingPerSeat` while no outer
transaction ended early and no acknowledgement was lost; `OpenConfirmOwnsSeats` and
`HeldSeatNotStolen`, that the row locks and the WHERE of the update are enough.
`SellsSeats`, the refinement, says in one formula what a fault-free confirmation is: all
the seats it names and the booking at once, or nothing; and after a fault which of the
two may be missing.

*Administration*: `BookedEventsListed`; `CounterFollowsOffers`: `offered` is the capacity an
event was created with and every difference an update made in `availableCapacity`, and the
counter is that, less what bookings took and cancellations did not give back, whatever is
written and when. So an update of the capacity alone puts no seat on sale, and one with a stale
`availableCapacity` puts sold seats on sale again: it is in `offered`. `SoldFromOffer`: no
more is sold than was put on sale while no lease lapsed and refunds were owed, unless the
last update left less than a worker had found between its check and its decrement, or less
than nothing (`undercut`). `StatsNeverOverstate`: the order of the queries keeps the
difference from exceeding what is there; it may be too small, or negative.

*Rate limiter and server*: `WithinLimit`: in one life of a key at most `max` requests
pass, one more for every command that went wrong, whatever runs between INCR and
EXPIRE and however often processes restart. That is not the "per minute" of
`rateLimit.middleware.ts:8`: two lives may meet in one minute. `CountersExpire`: only a crash or a
failed command between the two leaves a counter for good, never a shutdown, because
of `ShutdownCutsNoRequest`: however many signals come, every request is answered
before its process exits or closes what it needs. `SignalledExits`: a process that was
told to stop does, if every client at some time completes what it began or hangs up. This is a
hypothesis, not fairness: nothing in the code or in Node sees to it (section 5).

*Fairness* (`server`). Redis and the handler answer (`Limiter`, `Handle`), a connection that
waits for a next request is closed after Node's `keepAliveTimeout` (`KeepAliveTimeout`), a key with a lifetime
expires (`WindowEnds`), the calls of `shutdown` return or throw (`Stop`). Clients,
signals, starts and failures owe nothing, nor does `HangUp`. A client that never stopped sending
requests on its connection could hold a shutdown back for ever; requests are bounded by
`MaxHits`.

*Accounts and access*: `OneSignupWins`, `LoginKnowsSignup`, and `AdminsOnly`: whoever
is served where `requireAdmin` is mounted was an administrator at some time during the
request, and whoever is answered 403 was not one all the time. The 401 of the analytics routes
says nothing: they answer it to everybody.

## 5. Where code and documentation disagree

* **`lease_lapse`**: the lease of 3 s is never extended, `createBooking` may take
  three transactions of up to 5 s, and the check takes no row lock: one lease that
  lapses oversells the event. `booking.service.ts:154` and `README.md:199` say this
  is prevented.
* **`double_refund`**: two overlapping cancellations of one booking both read
  `confirmed` and both increment; the counter ends above capacity.
  (`booking.service.ts:4`: "with concurrency control".)
* **`waitlist_duplicate`**: two overlapping joins leave two entries of one user.
  (`waitlist.service.ts:24`: "User is already on the waitlist".)
* **`seats_partial`**: the inner transaction commits the booking, then the outer one
  expires: a confirmed booking whose seats are only held. (`README.md:200`: "Ensures
  booking + seat update consistency".)

What follows has no run, because it is visible in one request or because no property of the code
could say it:

* Release: `package.json:30` asks for redlock 5, whose locks have `release()` and no `unlock()`.
  `lock.unlock()` (`booking.processor.ts:55`) then always throws and is only logged: the lease
  of every job ends by its TTL of 3 s, and each event takes one job in that time. The model
  lets the release work or fail, so what it shows holds for both.
* Shutdown: a client that connects and sends nothing, or stops in the middle of a request, is not
  idle to `server.close`, which also stops the check of Node that would end it after
  `headersTimeout`. `server.ts:27` then waits for ever, and no timeout of its own ends it.
* Access: `analytics.route.ts` mounts `requireAdmin` without `requireAuth` and answers 401 to
  everybody, administrators too (`README.md:176-177`: "admin only"). Reading a waitlist is for
  "organizer/admin" (`README.md:165`, `waitlist.route.ts:35`, `waitlist.controller.ts:51`), but the
  route mounts `requireAuth` alone, and any account gets it.
* Updates: `PUT /api/admin/events/:eventId` is validated by nothing. A capacity may become zero or
  negative, an `availableCapacity` that was read before the last bookings sells their seats
  again, and one without the other leaves the two apart.
* Statistics: bookings are counted since a date and cancellations of all time, so that the
  difference may be negative.
* `rateLimit.middleware.ts:8` promises a number "per minute"; the code keeps it per life of a key.

Smaller things: `popNext` enqueues a job without seats, which the
checks of `createBooking` let through and the database refuses; a hold never
expires, because nothing reads `heldUntil`; updating a missing
event answers 500 rather than the 404 in the code; the 401 for a refresh token whose
account is gone becomes a 500 in the surrounding catch; the handler of
`seats/confirm` passes a `holdToken` and never `seatIds`, so that the service answers 400
to every such request; cancelling a booking of seats leaves the seats booked; the
list of events is paged by `startTime` alone, which leaves the order of equal ones,
and so what a page shows, to the database. `popNext` and `confirmSeats` with seat ids have no
caller in the repository; the models let anybody call them. No route mounts the rate
limiter; the model takes it in front of the booking handler, as its own usage example
does.

## 6. The proofs

Every safety property and action property a passing run checks, and both refinements,
are theorems of the specifications: for every set of workers, users, events, seats,
keys, requests, clients, callers and processes, every capacity, limit and page size,
and every number of jobs, attempts, retries, calls and faults. They assume the
`ASSUME`s of the modules, which say that numbers are numbers, that `Nobody` and `NoKey`
are not members of the sets they stand apart from, that what `popNext` enqueues is
among the requests, and that seats and orders are made of what exists. One theorem,
`ImplementsTicketing`, has a hypothesis of its own, `Protected` below.

| Module | Theorem | Property |
|---|---|---|
| `BookingSystemProofs` | `TypeCorrect`, `WellTyped` | `TypeInv`, `TypeOK` |
| | `MutualExclusion` | `OneWorkerPerEvent` |
| | `CapacityNeverNegative` | `NeverNegative` |
| | `KeysUsedOnce` | `KeyUsedOnce` |
| | `SettledJobsAreFinal` | `SettledIsFinal` |
| `BookingOutcomeProofs` | `CounterIsRight` | `CounterMatchesBookings` |
| | `NeverOversells` | `NoOverselling` |
| | `CompletedJobsHaveBookings` | `CompletedHasBooking` |
| | `FailedJobsHaveNoBooking` | `FailedHasNoBooking` |
| | `JobsBookWithinBudget` | `BookingsPerJob` |
| | `ImplementsTicketing` | `SellsTickets`, under `Protected` |
| `SeatBookingProofs` | `SeatsTypeCorrect` | `SeatTypeOK` |
| | `OpenConfirmKeepsSeats` | `OpenConfirmOwnsSeats` |
| | `HoldersKeepSeats` | `HeldSeatNotStolen` |
| | `BookedSeatsHaveBookings` | `BookedSeatHasBooking` |
| | `SeatsSoldOnce` | `OneBookingPerSeat` |
| | `ImplementsSeatSales` | `SellsSeats` |
| `WaitlistProofs` | `WaitlistTypeCorrect` | `WaitlistTypeOK` |
| | `EntriesPromotedOnce` | `PromotedOnce` |
| | `OldestPromotedFirst` | `PromotedInOrder` |
| | `PromotionsBecomeJobs` | `PromotionsReachQueue` |
| | `WalksSeeStayers` | `WalkSeesStayers` |
| `AccessControlProofs` | `AccountsTypeCorrect` | `AccountsTypeOK` |
| | `SignupsHaveOneWinner` | `OneSignupWins` |
| | `LoginsKnowSignups` | `LoginKnowsSignup` |
| | `AdminRoutesServeAdmins` | `AdminsOnly` |
| `ServerProofs` | `ServerTypeCorrect` | `ServerTypeOK` |
| | `LimitIsKept` | `WithinLimit` |
| | `ShutdownIsGraceful` | `ShutdownCutsNoRequest` |
| `EventAdminProofs` | `AdminTypeCorrect` | `AdminTypeOK` |
| | `BookedEventsStayListed` | `BookedEventsListed` |
| | `StatsAreModest` | `StatsNeverOverstate` |
| | `CounterFollows` | `CounterFollowsOffers` |
| | `SalesStayWithinOffer` | `SoldFromOffer` |

Almost none of these is inductive as it stands; what each needs follows.

**Booking path, state** (`BookingSystemProofs`).

1. `TypeInv` = `TypeOK`, `LiveJobs` (a job that is waiting or active has attempts and
   stalls left, without which the bounds on its counters do not hold after a step) and
   `References` (a busy worker has a job, an open cancellation a booking: without
   them `jobs[cur[w]]` and `bookings[cancelling[c]]` mean nothing).
2. `LockHeld`: until a lease lapses, a worker inside `createBooking` is the one in
   the lock of its event. Mutual exclusion is a corollary.
3. `RoomLeft`: between check and commit the seats are still there. A step of another
   worker takes seats only of another event, by `LockHeld`; a cancellation only adds.
   Hence the counter stays at zero or above.
4. `KeyFresh`: between lookup and commit no booking has the key. Another commit
   is of another event, by `LockHeld`; its own retries follow transactions that
   wrote nothing, as long as no acknowledgement was lost.

The proofs are laid out by what an action changes: `QueueCases`, `TableCases` and
`LockCases` sort the disjuncts of `Next` by variable once, `QueueStep`,
`TableStep` and `LockStep` prove type and frame facts per case, and each invariant
then argues about the few cases that can disturb it.

**Sums** (`SetSums`). `CounterMatchesBookings` sums seats over bookings with
`MapThenSumSet`, which takes out elements that `CHOOSE` picks. The library's induction
theorems take a predicate and cannot be used; `MinimalSet` says the same of a set of
subsets (a non-empty set of subsets of a finite set has a minimal member, by the
well-founded order of `FiniteSetTheorems`), and from it follow that the recursive
function exists, that it is unique, and what adding, removing or reweighing one
element does to the sum. `CounterInv` then needs one lemma per kind of write: a sale adds
an element, a refund removes one, a wrong refund reweighs the surplus. `NoOverselling`
combines it with `NeverNegative`.

**Jobs and their bookings** (`BookingOutcomeProofs`).

* `JobLocals` and `AnswersRight` for completed jobs: what a worker holds in `result`,
  and what a job returned, is a booking of that request, its own or one its key found.
* `WorkersOwn` and `BookedOnce` for failed jobs: until a job stalls, one worker
  processes it, and until an acknowledgement is lost that worker has a result
  as soon as the job has a booking.
* `JobBudget` for the number of bookings. A job in the queue or with a worker that has
  no result yet may still book, so these count against the budget: bookings, plus such
  workers, plus one if queued, never exceed one plus stalls plus lost acknowledgements. A
  stall adds one to both sides.
* `CancelPending`, for the refinement: what a cancellation read is still so when it
  writes, if cancellations do not overlap. With `RoomLeft` and `KeyFresh` a `Commit` maps
  to `Sell`, a `CancelCommit` to `Refund`, and every other step leaves `available`
  and `bookings` as the abstract state sees them.

`Protected` says what the code leaves to its environment: no lapse, no lost
acknowledgement, no overlapping cancellations, no seat-level requests. Each is
needed: the runs of section 5 and the surplus in `CounterMatchesBookings` show
what happens without it. The run of `SellsTickets` has no canceller and no key, so that `Refund`
and the keys of `Ticketing` rest on this theorem alone.

**Seats.** `SeatLinks` ties a request to its call and its booking. `RowsLocked`: the rows of an open
transaction are locked for it alone. With it `OpenConfirmOwnsSeats` is inductive,
and `HeldSeatNotStolen` follows. For `OneBookingPerSeat`, `OpenWhileBusy` (without an
abort, a request inside `createBooking` has its outer transaction) and `SeatsFollow` (the seats
of a booking are booked, or its transaction is still open and about to book them): a second
sale of a seat would need it held. The refinement `SellsSeats` has no hypothesis: it rests on
`OneInv`, all of these together, and covers every fault. The inner commit is the `Sell`, the
outer one changes nothing `SeatSales` sees, and a step that parts the two is its `Fault` or
`Strand`.

**Waitlist.** An entry is identified by its time: `EntriesStamped` (nothing is from the
future) and `EntriesDiffer` (no two entries on the list share one, and one about to be
inserted shares it with nothing listed, promoted or about to be inserted). The order
rests on `ChosenIsFirst` (what a call chose had nobody
before it but those marked late) and `OvertakenIsLate`. `PromotionsReachQueue` counts promotions,
jobs, calls in between, lost ones and those sent again, which needs that finitely many calls are busy (`FewBusy`).
The reader changes nothing of the waitlist (`ReaderChangesNothing`), so `ReaderSpec` has its
invariants. `RanksAreTaken` shows that positions on the list are `1 .. n` without
a gap; `WalkOK` then says of the page a walk has reached where the entry it follows can be:
before it and shown, or after it and not, unless an older one left or came in between.

**Accounts and access.** `UniqueEmails` is the index; `AnswersKnown` and `OneWinner` tie
each answer to the table; `CallOK` says what a request in progress may rely on: rows are
never removed (`RowsKept`), so what it found is still there; `held` contains the role the
account has now; who passed `requireAdmin` was found to be an administrator after the request
began.

**Rate limiter and server.** `Counts` bounds requests, commands and failures by
counting the connections that are waiting; `KeyOK` says of each key that what passed in its
current life is at most its counter, up to failures; `ConnOK` that a request between INCR
and EXPIRE is the only one of its caller there and that its key has no lifetime yet, so that
the life cannot end under it. `ProcessInv` ties the phase of a process to its
connections: once the database is being closed, it has none.

**Administration.** `AdminInv` has four parts: the tables with the foreign key
(`TablesOK`), the workers and their tasks, what administrators have offered, and the reports. What
a report has counted is at most the bookings there are, because rows are only ever added.
`CounterInv` is `CounterFollowsOffers` as a sum of `SetSums`, in which a sale adds an element, a
refund reweighs one, and an update changes both sides by the same number. `SaleInv` is
the booking path's argument again: until a lease lapses the tasks of two workers differ in their
event (`TasksDiffer`), so that between check and commit the seats are still there unless an
update took them (`RoomLeft`, `NeverBelowZero`, both for events outside `undercut`). With the
sum, a counter that is not negative bounds what is sold. No hypothesis is needed: refunds that
were not owed are in the sum, and `SoldFromOffer` names the rest.

**Only model-checked**: the four liveness properties, `EveryJobSettles`, `EventUnlocked`,
`CountersExpire` and `SignalledExits`, since fairness is defined with `ENABLED`, which is
beyond the prover. The four properties of section 5 are false of the code.

## 7. Plan

Done: every component the table of section 1 names has its module, its run and its theorems.

What is left: `SellsTickets` without `Protected`, for which `Ticketing` would count lapses and wrong
refunds, as `SeatSales` counts its faults.

## 8. Not modelled

* *Validation and error formatting*: stateless. What the zod schemas let through
  bounds the inputs (`Requests`, `Sizes`); updates of events have no schema (`Numbers`).
* *Notifications*: stubs that log, without a caller.
* *Health, configuration, logging, the database client*: I/O and constants.
* *Lists and single reads* (`getUserBookings`, seat and event lists, `getTopEvents`):
  they change nothing, and no other step depends on them.
* *The worker inside `Server`*: shutdown does not close it; that its process may go at any
  step is `Crash` in `BookingSystem`.
* *The row lock of an UPDATE as a state of its own*: it is argued (section 2), not
  checked, that writes and COMMIT are one step.
* *Methods without a caller*: `EventRepo.adjustAvailableCapacity`,
  `SeatRepo.updateStatus`, `bulkUpdateStatus`.
* *Time*: leases, tokens and transactions end at any moment instead of at theirs, which
  allows more behaviours than the clock does.
