----------------------------- MODULE EventAdmin -----------------------------
(***************************************************************************)
(* Administration of events (admin.service.ts, event.service.ts,           *)
(* event.repo.ts) and their statistics (analytics.service.ts) while         *)
(* customers book and cancel through booking.service.ts.                   *)
(*                                                                         *)
(* Nothing validates the payload of an update: whatever numbers it has are *)
(* written, capacity and availableCapacity each with or without the other, *)
(* and the lease of the booking worker is not asked for.  How the client   *)
(* came by the numbers (a form that is stale by now, say) is up to it.     *)
(* Of a payload only these two columns are kept; Prisma's nested writes    *)
(* into other tables are left out, and so are requests that are refused or *)
(* fail, which write nothing.  A second worker comes to an event that is   *)
(* being booked only when the lease of the first has lapsed; BookingSystem *)
(* has the lease itself.  Bookings have no idempotency key here: looking   *)
(* one up does not touch the event.                                        *)
(***************************************************************************)
EXTENDS BookingService, FiniteSetsExt

CONSTANTS
    Admins,        \* requests for statistics that may run at the same time
    Sizes,         \* capacities events are created with: z.number().int().positive()
    Numbers,       \* numbers updates write: any
    MaxEdits,      \* bound of the model: updates of events
    MaxBookings,   \* bound of the model: bookings ever made
    MaxLapses      \* bound of the model: leases that run out under their holder

ASSUME AdminAssumption ==
    /\ Nobody \notin Events
    /\ Sizes \subseteq Nat \ {0}
    /\ Numbers \subseteq Int
    /\ MaxEdits \in Nat /\ MaxBookings \in Nat /\ MaxLapses \in Nat
    /\ \A d \in Requests : d.key = NoKey

VARIABLES
    phase,       \* of each event id: not created yet, a row of Event, or deleted
    capacity,    \* Event.capacity
    task,        \* the payload each worker is inside createBooking with
    report,      \* where each getEventStats is
    edits,       \* ghost: updates so far
    lapses,      \* ghost: workers that came to an event another was booking
    offered,     \* ghost: seats administrators have put on sale, of each event
    undercut     \* ghost: events whose last update left less than was promised

tables == <<available, bookings, cancelling>>
workers == <<pc, attempt, result, lostAcks, task>>
offers == <<edits, offered, undercut>>
adminVars == <<available, bookings, pc, attempt, result, lostAcks, cancelling,
               phase, capacity, task, report, edits, lapses, offered, undercut>>

NoTask == [user |-> Nobody, event |-> Nobody, seats |-> 0, seatLevel |-> FALSE, key |-> NoKey]

NoRow == [event |-> Nobody, capacity |-> 0]

NoReport == [running |-> FALSE, counts |-> [e \in Events |-> 0], todo |-> {}, row |-> NoRow, stats |-> {}]

Listed(e) == e \in Events /\ phase[e] = "listed"

AdminInit ==
    /\ ServiceInit
    /\ phase = [e \in Events |-> "new"]
    /\ capacity = [e \in Events |-> 0]
    /\ task = [w \in Workers |-> NoTask]
    /\ report = [a \in Admins |-> NoReport]
    /\ edits = 0
    /\ lapses = 0
    /\ offered = [e \in Events |-> 0]
    /\ undercut = {}

-----------------------------------------------------------------------------
(* Events *)

\* EventRepo.create sets availableCapacity from capacity whatever the payload
\* says.
CreateRow(e, n) ==
    /\ phase[e] = "new"
    /\ phase' = [phase EXCEPT ![e] = "listed"]
    /\ capacity' = [capacity EXCEPT ![e] = n]
    /\ available' = [available EXCEPT ![e] = n]
    /\ offered' = [offered EXCEPT ![e] = n]
    /\ UNCHANGED <<bookings, cancelling, workers, report, edits, lapses, undercut>>

\* POST /api/admin/events
CreateEvent(e, n) == CreateRow(e, n)

\* POST /api/events, by any user; the service tests the capacity once more.
CreateUserEvent(e, n) ==
    /\ n > 0
    /\ CreateRow(e, n)

\* The columns a payload may name.
Columns == {"capacity", "availableCapacity"}

Payloads == UNION {[named -> Numbers] : named \in SUBSET Columns}

\* Mutant of Put: as in create, the counter follows the capacity.
PutBoth(p, column, old) ==
    IF column \in DOMAIN p THEN p[column]
    ELSE IF "capacity" \in DOMAIN p THEN p["capacity"]
    ELSE old

\* update({ where: { id }, data: payload }): a column that is not named stays.
Put(p, column, old) == IF column \in DOMAIN p THEN p[column] ELSE old

\* Worker w has found seats of event e, and has not taken them yet.
HasChecked(w, e) == pc[w] = "commit" /\ task[w].event = e /\ ~task[w].seatLevel

\* With n seats left, fewer than none, or than a worker has found.
TooFew(e, n) == n < 0 \/ \E w \in Workers : HasChecked(w, e) /\ task[w].seats > n

\* PUT /api/admin/events/:eventId.  The offer grows by what the counter is
\* raised by, if the payload names it.
UpdateEvent(e, p) ==
    LET n == Put(p, "availableCapacity", available[e]) IN
    /\ edits < MaxEdits
    /\ Listed(e)
    /\ capacity' = [capacity EXCEPT ![e] = Put(p, "capacity", @)]
    /\ available' = [available EXCEPT ![e] = n]
    /\ edits' = edits + 1
    /\ offered' = IF "availableCapacity" \in DOMAIN p
                    THEN [offered EXCEPT ![e] = @ + (n - available[e])]
                    ELSE offered
    /\ undercut' = IF TooFew(e, n) THEN undercut \cup {e} ELSE undercut \ {e}
    /\ UNCHANGED <<bookings, cancelling, workers, phase, report, lapses>>

\* Mutant of Referenced: cancelled bookings do not count.
ReferencedByConfirmed(e) ==
    \E b \in BookingIds : bookings[b].event = e /\ bookings[b].status = "confirmed"

\* Booking.eventId is a foreign key without onDelete, so PostgreSQL restricts.
Referenced(e) == \E b \in BookingIds : bookings[b].event = e

DeleteEvent(e) ==
    /\ Listed(e)
    /\ ~Referenced(e)
    /\ phase' = [phase EXCEPT ![e] = "deleted"]
    /\ UNCHANGED <<tables, workers, capacity, report, lapses, offers>>

-----------------------------------------------------------------------------
(* createBooking and cancelBooking *)

\* Mutant of LeaseFree: the promise of acquire is not awaited.
LeaseFreeAlways(d) == TRUE

\* lock:event:<id> is nobody's.
LeaseFree(d) == \A v \in Workers : task[v].event # d.event

\* Otherwise acquire throws (see EventLock), until the lease of the worker
\* inside runs out: nothing extends it.
StartBooking(w, d) ==
    /\ pc[w] = "idle"
    /\ Len(bookings) < MaxBookings
    /\ \/ LeaseFree(d) /\ UNCHANGED lapses
       \/ ~LeaseFree(d) /\ lapses < MaxLapses /\ lapses' = lapses + 1
    /\ CallCreateBooking(w, d)
    /\ task' = [task EXCEPT ![w] = d]
    /\ UNCHANGED <<phase, capacity, report, offers>>

\* The event may be created or deleted between two steps: the read of a
\* missing row is a refusal, its update an error, like any other retried.
CreateBooking(w) ==
    /\ \/ Listed(task[w].event) /\ ReadAccepts(w, task[w])
       \/ Listed(task[w].event) /\ ReadRefuses(w, task[w])
       \/ Listed(task[w].event) /\ Commit(w, task[w], 0)
       \/ TransactionFails(w)
    /\ UNCHANGED <<phase, capacity, task, report, lapses, offers>>

FinishBooking(w) ==
    /\ pc[w] = "release"
    /\ Goto(w, "idle")
    /\ task' = [task EXCEPT ![w] = NoTask]
    /\ attempt' = [attempt EXCEPT ![w] = 0]
    /\ result' = [result EXCEPT ![w] = 0]
    /\ UNCHANGED <<tables, lostAcks, phase, capacity, report, lapses, offers>>

Cancel(c) ==
    /\ \/ \E u \in Users, b \in BookingIds : CancelRead(c, u, b)
       \/ CancelCommit(c)
       \/ CancelFails(c)
    /\ UNCHANGED <<phase, capacity, task, report, lapses, offers>>

-----------------------------------------------------------------------------
(* getEventStats: one query for the bookings of every event since a date,  *)
(* then two for each event that has any.  groupBy is ignored.              *)

Goes(a, r) ==
    /\ report' = [report EXCEPT ![a] = r]
    /\ UNCHANGED <<tables, workers, phase, capacity, lapses, offers>>

\* Mutant of Counted: a group for every event.
CountedAll(count) == Events

\* groupBy returns no group without rows.
Counted(count) == {e \in Events : count[e] > 0}

StatsCount(a, from) ==
    LET count == [e \in Events |-> Cardinality({b \in BookingIds : bookings[b].event = e /\ b >= from})]
    IN
    /\ ~report[a].running
    /\ Goes(a, [running |-> TRUE, counts |-> count, todo |-> Counted(count),
                row |-> NoRow, stats |-> {}])

\* An event that is gone is skipped.
StatsEvent(a, e) ==
    /\ report[a].row = NoRow
    /\ e \in report[a].todo
    /\ Goes(a, [report[a] EXCEPT
                  !.todo = @ \ {e},
                  !.row = IF Listed(e) THEN [event |-> e, capacity |-> capacity[e]] ELSE NoRow])

\* Mutant of CancelledOf: the status in the WHERE is misspelt.
CancelledOfNone(e) == {b \in BookingIds : bookings[b].event = e /\ bookings[b].status = "canceled"}

\* No date here: cancellations of every time.
CancelledOf(e) == {b \in BookingIds : bookings[b].event = e /\ bookings[b].status = "cancelled"}

StatsCancelled(a) ==
    LET x == report[a].row IN
    /\ x # NoRow
    /\ Goes(a, [report[a] EXCEPT
                  !.row = NoRow,
                  !.stats = @ \cup {[event |-> x.event, bookings |-> report[a].counts[x.event],
                                     cancellations |-> Cardinality(CancelledOf(x.event)),
                                     capacity |-> x.capacity]}])

StatsDone(a) ==
    /\ report[a].running
    /\ report[a].todo = {}
    /\ report[a].row = NoRow
    /\ Goes(a, NoReport)

\* A query fails: 500 ANALYTICS_ERROR.
StatsFails(a) ==
    /\ report[a].running
    /\ Goes(a, NoReport)

-----------------------------------------------------------------------------
AdminNext ==
    \/ \E e \in Events, n \in Sizes : CreateEvent(e, n) \/ CreateUserEvent(e, n)
    \/ \E e \in Events, p \in Payloads : UpdateEvent(e, p)
    \/ \E e \in Events : DeleteEvent(e)
    \/ \E w \in Workers, d \in Requests : StartBooking(w, d)
    \/ \E w \in Workers : CreateBooking(w) \/ FinishBooking(w)
    \/ \E c \in Cancellers : Cancel(c)
    \/ \E a \in Admins, from \in 1 .. MaxBookings : StatsCount(a, from)
    \/ \E a \in Admins, e \in Events : StatsEvent(a, e)
    \/ \E a \in Admins : StatsCancelled(a) \/ StatsDone(a) \/ StatsFails(a)

AdminSpec == AdminInit /\ [][AdminNext]_adminVars

-----------------------------------------------------------------------------
Stats == [event: Events, bookings: Nat \ {0}, cancellations: Nat, capacity: Int]

\* Well-formed; a report is about events with bookings, whatever their capacity.
AdminTypeOK ==
    /\ ServiceTypeOK
    /\ phase \in [Events -> {"new", "listed", "deleted"}]
    /\ capacity \in [Events -> Int]
    /\ task \in [Workers -> Requests \cup {NoTask}]
    /\ \A a \in Admins : report[a].stats \subseteq Stats /\ report[a].todo \subseteq Events
    /\ edits \in 0 .. MaxEdits
    /\ lapses \in 0 .. MaxLapses
    /\ offered \in [Events -> Int]
    /\ undercut \subseteq Events

Confirmed(e) == {b \in BookingIds : bookings[b].event = e /\ bookings[b].status = "confirmed"}

\* A booking, cancelled or not, belongs to an event that exists, whatever is
\* deleted between createBooking's steps.
BookedEventsListed == \A b \in BookingIds : Listed(bookings[b].event)

BookingsOf(e) == {b \in BookingIds : bookings[b].event = e}

\* How often a booking took its seats from the counter: those that name seats
\* never do.
Taken(b) == IF bookings[b].seatLevel THEN 0 ELSE 1

\* Whatever administrators write, and whenever, the counter of an event is what
\* they have put on sale, less the seats of every general-admission booking,
\* plus those every cancellation gave back.  In particular an update that only
\* names the capacity puts nothing on sale.
CounterFollowsOffers ==
    \A e \in Events : Listed(e) =>
        available[e] = offered[e]
            + MapThenSumSet(LAMBDA b : bookings[b].seats * (bookings[b].refunds - Taken(b)), BookingsOf(e))

Sold(e) ==
    MapThenSumSet(LAMBDA b : bookings[b].seats, {b \in Confirmed(e) : ~bookings[b].seatLevel})

\* Every booking was refunded once when it was cancelled, if it had taken seats.
RefundsOwed(e) ==
    \A b \in BookingsOf(e) :
        bookings[b].refunds = IF bookings[b].status = "cancelled" THEN Taken(b) ELSE 0

\* Customers are sold no more than was put on sale, as long as no lease has
\* lapsed, refunds were owed, and the last update did not come between a
\* worker's check and its decrement with less than the worker had found (an
\* update asks for no lease), or with less than nothing.
SoldFromOffer ==
    lapses = 0 =>
        \A e \in Events \ undercut : Listed(e) =>
            available[e] >= 0 /\ (RefundsOwed(e) => Sold(e) <= offered[e])

\* The queries of the statistics are not one snapshot, but their order keeps
\* them from reporting more active bookings than there are when they end.
StatsNeverOverstate ==
    [][\A a \in Admins : \A x \in report'[a].stats \ report[a].stats :
          x.bookings - x.cancellations <= Cardinality(Confirmed(x.event)')]_adminVars

=============================================================================
