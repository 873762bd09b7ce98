--------------------------- MODULE BookingService ---------------------------
(***************************************************************************)
(* booking.service.ts over the tables Event and Booking.                   *)
(*                                                                         *)
(* Transactions run at PostgreSQL's default READ COMMITTED and take no     *)
(* lock when they read, so what a transaction read may be stale when it    *)
(* writes: reading and writing are two steps.  The writes of a transaction *)
(* become visible together at COMMIT, the row locks they take are held     *)
(* until then, and they are relative (decrement, increment): the writes    *)
(* and the COMMIT are one step.  Any transaction may fail with nothing     *)
(* written, and a COMMIT may succeed although its caller sees an error.    *)
(*                                                                         *)
(* A Booking row keeps, beside its columns, ghost fields only properties   *)
(* read: seatLevel (was seat_ids given; the code does not store it), job   *)
(* (the call that made it) and refunds (how often its seats went back to   *)
(* the event).                                                             *)
(***************************************************************************)
EXTENDS Evently

CONSTANTS
    MaxRetries,    \* maxRetries = 3
    MaxLostAcks,   \* bound of the model: commits whose caller saw an error
    Cancellers     \* HTTP requests inside cancelBooking at the same time

ASSUME ServiceAssumption ==
    /\ MaxRetries \in Nat \ {0}
    /\ MaxLostAcks \in Nat

VARIABLES
    available,   \* Event.availableCapacity
    bookings,    \* table Booking in the order of insertion; a row's id is its position
    pc,          \* where each worker is in its processor function
    attempt,     \* createBooking's loop variable
    result,      \* id of the booking createBooking returned; 0 if it threw
    lostAcks,    \* ghost: commits whose caller saw an error
    cancelling   \* id each cancelBooking found confirmed; 0 while it is not running

\* acquire, release and report belong to booking.processor.ts; the others are
\* the awaits of createBooking.
Steps == {"idle", "acquire", "lookup", "read", "commit", "release", "report"}

Status == {"confirmed", "cancelled"}

Booking == [user: Users, event: EventIds, seats: Nat \ {0}, key: Keys \cup {NoKey},
            status: Status, seatLevel: BOOLEAN, job: Nat, refunds: Nat]

BookingIds == DOMAIN bookings

ServiceInit ==
    /\ available = Capacity
    /\ bookings = << >>
    /\ pc = [w \in Workers |-> "idle"]
    /\ attempt = [w \in Workers |-> 0]
    /\ result = [w \in Workers |-> 0]
    /\ lostAcks = 0
    /\ cancelling = [c \in Cancellers |-> 0]

Goto(w, step) == pc' = [pc EXCEPT ![w] = step]

-----------------------------------------------------------------------------
(* createBooking, called by worker w with payload d *)

\* Where createBooking starts: without a key there is nothing to look up.
FirstStep(d) == IF d.key = NoKey THEN "read" ELSE "lookup"

CallCreateBooking(w, d) ==
    /\ Goto(w, FirstStep(d))
    /\ attempt' = [attempt EXCEPT ![w] = 0]
    /\ result' = [result EXCEPT ![w] = 0]
    /\ UNCHANGED <<available, bookings, lostAcks, cancelling>>

\* Mutant of KeyMatches: cancelled bookings no longer count.
KeyMatchesConfirmed(d) ==
    {b \in BookingIds : /\ bookings[b].user = d.user
                        /\ bookings[b].event = d.event
                        /\ bookings[b].key = d.key
                        /\ bookings[b].status = "confirmed"}

\* Mutant of KeyMatches: the key itself is missing from the WHERE.
KeyMatchesAnyKey(d) ==
    {b \in BookingIds : bookings[b].user = d.user /\ bookings[b].event = d.event}

\* BookingRepo.findByIdempotencyKey, whatever the status of the row
KeyMatches(d) ==
    {b \in BookingIds : /\ bookings[b].user = d.user
                        /\ bookings[b].event = d.event
                        /\ bookings[b].key = d.key}

LookupFinds(w, d) ==
    /\ pc[w] = "lookup"
    /\ \E b \in KeyMatches(d) : result' = [result EXCEPT ![w] = b]
    /\ Goto(w, "release")
    /\ UNCHANGED <<available, bookings, attempt, lostAcks, cancelling>>

LookupMisses(w, d) ==
    /\ pc[w] = "lookup"
    /\ KeyMatches(d) = {}
    /\ Goto(w, "read")
    /\ UNCHANGED <<available, bookings, attempt, result, lostAcks, cancelling>>

\* The repository turns a database error into ApiError 500, outside the loop.
LookupFails(w) ==
    /\ pc[w] = "lookup"
    /\ Goto(w, "release")
    /\ UNCHANGED <<available, bookings, attempt, result, lostAcks, cancelling>>

\* The catch block: every error is retried while attempts are left, the
\* refusals (404, 409) included; a retry does not look the key up again.
AttemptsLeft(w) == attempt[w] < MaxRetries - 1

CatchError(w) ==
    /\ IF AttemptsLeft(w)
         THEN /\ attempt' = [attempt EXCEPT ![w] = @ + 1]
              /\ Goto(w, "read")
         ELSE /\ Goto(w, "release")
              /\ UNCHANGED attempt
    /\ UNCHANGED <<result, cancelling>>

\* Mutant of Accepted: off by one.
AcceptedOffByOne(d) ==
    \/ d.seatLevel
    \/ d.event \in Events /\ available[d.event] + 1 >= d.seats

\* Mutant of Accepted: any seat left is enough.
AcceptedIfAnyLeft(d) ==
    \/ d.seatLevel
    \/ d.event \in Events /\ available[d.event] > 0

\* The capacity check.  Seat-level requests skip it: their branch is a TODO.
Accepted(d) ==
    \/ d.seatLevel
    \/ d.event \in Events /\ available[d.event] >= d.seats

ReadAccepts(w, d) ==
    /\ pc[w] = "read"
    /\ Accepted(d)
    /\ Goto(w, "commit")
    /\ UNCHANGED <<available, bookings, attempt, result, lostAcks, cancelling>>

\* 404 EVENT_NOT_FOUND or 409 EVENT_FULL
ReadRefuses(w, d) ==
    /\ pc[w] = "read"
    /\ ~Accepted(d)
    /\ CatchError(w)
    /\ UNCHANGED <<available, bookings, lostAcks>>

NewBooking(d, j) ==
    [user |-> d.user, event |-> d.event, seats |-> d.seats, key |-> d.key,
     status |-> "confirmed", seatLevel |-> d.seatLevel, job |-> j, refunds |-> 0]

\* Mutant of Decremented: one seat, whatever was asked.
DecrementedByOne(d) ==
    IF d.seatLevel THEN available ELSE [available EXCEPT ![d.event] = @ - 1]

\* Mutant of Decremented: seat-level bookings take capacity too.
DecrementedAlways(d) == [available EXCEPT ![d.event] = @ - d.seats]

\* availableCapacity: { decrement: seats }; the seat-level branch has no update.
Decremented(d) ==
    IF d.seatLevel THEN available
    ELSE [available EXCEPT ![d.event] = @ - d.seats]

\* The foreign key on eventId lets no booking of an unknown event through, and
\* Prisma none without seats.
WriteBooking(d, j) ==
    /\ d.event \in Events
    /\ d.seats # Unset
    /\ available' = Decremented(d)
    /\ bookings' = Append(bookings, NewBooking(d, j))

\* Mutant of Commit: the loop goes on after a success.
CommitLoopsOn(w, d, j) ==
    /\ pc[w] = "commit"
    /\ WriteBooking(d, j)
    /\ CatchError(w)
    /\ UNCHANGED lostAcks

\* Mutant of Commit: it returns nothing.
CommitReturnsNothing(w, d, j) ==
    /\ pc[w] = "commit"
    /\ WriteBooking(d, j)
    /\ Goto(w, "release")
    /\ UNCHANGED <<attempt, result, lostAcks, cancelling>>

Commit(w, d, j) ==
    /\ pc[w] = "commit"
    /\ WriteBooking(d, j)
    /\ result' = [result EXCEPT ![w] = Len(bookings) + 1]
    /\ Goto(w, "release")
    /\ UNCHANGED <<attempt, lostAcks, cancelling>>

\* The connection breaks between COMMIT and its acknowledgement.
CommitUnacknowledged(w, d, j) ==
    /\ pc[w] = "commit"
    /\ lostAcks < MaxLostAcks
    /\ WriteBooking(d, j)
    /\ lostAcks' = lostAcks + 1
    /\ CatchError(w)

\* A database error, a timeout of the transaction, a row WriteBooking refuses.
TransactionFails(w) ==
    /\ pc[w] \in {"read", "commit"}
    /\ CatchError(w)
    /\ UNCHANGED <<available, bookings, lostAcks>>

-----------------------------------------------------------------------------
(* cancelBooking, in HTTP request c of user u for booking b.  A request that *)
(* is refused (404, 403, 409) writes nothing and is not modelled.            *)

Cancellable(u, b) ==
    /\ b \in BookingIds
    /\ bookings[b].user = u
    /\ bookings[b].status = "confirmed"

CancelRead(c, u, b) ==
    /\ cancelling[c] = 0
    /\ Cancellable(u, b)
    /\ cancelling' = [cancelling EXCEPT ![c] = b]
    /\ UNCHANGED <<available, bookings, pc, attempt, result, lostAcks>>

\* increment: booking.seats
Restored(b) == [available EXCEPT ![bookings[b].event] = @ + bookings[b].seats]

\* The update's WHERE is the id alone: the status that was read is not
\* looked at again.
CancelCommit(c) ==
    LET b == cancelling[c] IN
    /\ b # 0
    /\ bookings' = [bookings EXCEPT ![b].status = "cancelled", ![b].refunds = @ + 1]
    /\ available' = Restored(b)
    /\ cancelling' = [cancelling EXCEPT ![c] = 0]
    /\ UNCHANGED <<pc, attempt, result, lostAcks>>

CancelFails(c) ==
    /\ cancelling[c] # 0
    /\ cancelling' = [cancelling EXCEPT ![c] = 0]
    /\ UNCHANGED <<available, bookings, pc, attempt, result, lostAcks>>

-----------------------------------------------------------------------------
ServiceTypeOK ==
    /\ available \in [Events -> Int]
    /\ bookings \in Seq(Booking)
    /\ pc \in [Workers -> Steps]
    /\ attempt \in [Workers -> 0 .. (MaxRetries - 1)]
    /\ result \in [Workers -> Nat]
    /\ lostAcks \in 0 .. MaxLostAcks
    /\ cancelling \in [Cancellers -> Nat]

=============================================================================
