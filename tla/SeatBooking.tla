----------------------------- MODULE SeatBooking -----------------------------
(***************************************************************************)
(* seat.service.ts over table Seat, with the bookings it makes through     *)
(* bookingService.createBooking.                                           *)
(*                                                                         *)
(* confirmSeats runs createBooking inside a transaction of its own: the    *)
(* seats are updated in the outer transaction (utils/db.ts), the booking    *)
(* is committed by an inner one on another PrismaClient.  The outer update  *)
(* locks the rows until that transaction ends; it ends with everybody's     *)
(* consent (ConfirmCommit), with the error createBooking threw              *)
(* (ConfirmFails), or before createBooking is done: interactive             *)
(* transactions expire after five seconds, createBooking may need fifteen.  *)
(*                                                                         *)
(* A Worker of BookingService is here an HTTP request inside confirmSeats, *)
(* and a booking's job is the call that made it.  holdSeats takes no lock  *)
(* it keeps and is one step.  heldUntil is never read and not modelled: no *)
(* hold ends but by confirmation.                                          *)
(***************************************************************************)
EXTENDS BookingService, SequencesExt

CONSTANTS
    Seats,       \* rows of table Seat
    SeatEvent,   \* Seat.eventId
    Orders,      \* lists of seat ids clients send
    MaxCalls,    \* bound of the model: calls of confirmSeats that find the seats held
    MaxAborts    \* bound of the model: outer transactions that end early

\* Seat.heldBy is null while nobody holds the seat.
ASSUME SeatAssumption ==
    /\ Nobody \notin Users
    /\ SeatEvent \in [Seats -> Events]
    /\ Orders \subseteq Seq(Seats)
    /\ MaxCalls \in Nat
    /\ MaxAborts \in Nat

VARIABLES
    seat,         \* Seat.status and Seat.heldBy, as committed
    calls,        \* ghost: what each call of confirmSeats asked for
    confirming,   \* the call each request is in (0: none), and is its outer transaction open
    aborts        \* ghost: outer transactions that ended early

serviceVars == <<available, bookings, pc, attempt, result, lostAcks, cancelling>>
seatVars == <<seat, calls, confirming, aborts, available, bookings, pc,
              attempt, result, lostAcks, cancelling>>

Seat == [status: {"available", "held", "booked"}, heldBy: Users \cup {Nobody}]

SeatCall == [user: Users, event: EventIds, order: Orders]

NotConfirming == [call |-> 0, open |-> FALSE]

CallOf(r) == calls[confirming[r].call]

SeatInit ==
    /\ ServiceInit
    /\ seat = [s \in Seats |-> [status |-> "available", heldBy |-> Nobody]]
    /\ calls = << >>
    /\ confirming = [r \in Workers |-> NotConfirming]
    /\ aborts = 0

\* updateMany with id in order: a list that names a seat twice asks for more
\* rows than there are, and the count refuses it.
UpdatesAll(order, rows) == IsInjective(order) /\ ToSet(order) \subseteq rows

\* The handler refuses a list without seats before any query, and so does the
\* service: updateMany would match the count of none.
Named(order) == order # << >>

Updated(order, row) == [s \in Seats |-> IF s \in ToSet(order) THEN row ELSE seat[s]]

-----------------------------------------------------------------------------
(* holdSeats *)

\* Mutant of Holdable: the status in the WHERE only excludes booked seats.
HoldableUnlessBooked(e) == {s \in Seats : SeatEvent[s] = e /\ seat[s].status # "booked"}

Holdable(e) == {s \in Seats : SeatEvent[s] = e /\ seat[s].status = "available"}

HoldSeats(u, e, order) ==
    /\ Named(order)
    /\ UpdatesAll(order, Holdable(e))
    /\ seat' = Updated(order, [status |-> "held", heldBy |-> u])
    /\ UNCHANGED <<calls, confirming, aborts, serviceVars>>

\* POST .../seats/hold
RequestHold(u, e, order) == Named(order) /\ HoldSeats(u, e, order)

-----------------------------------------------------------------------------
(* confirmSeats *)

\* Mutant of HeldBy: heldBy is not in the WHERE.
HeldByAnyone(u, e) == {s \in Seats : SeatEvent[s] = e /\ seat[s].status = "held"}

\* Mutant of HeldBy: booked seats match too.
HeldByOrBooked(u, e) ==
    {s \in Seats : /\ SeatEvent[s] = e
                   /\ \/ seat[s].status = "held" /\ seat[s].heldBy = u
                      \/ seat[s].status = "booked"}

HeldBy(u, e) ==
    {s \in Seats : SeatEvent[s] = e /\ seat[s].status = "held" /\ seat[s].heldBy = u}

\* Rows an open outer transaction has updated; a second update waits for it.
RowLocked(s) == \E r \in Workers : confirming[r].open /\ s \in ToSet(CallOf(r).order)

SeatInput(call) ==
    [user |-> call.user, event |-> call.event, seats |-> Len(call.order),
     seatLevel |-> TRUE, key |-> NoKey]

\* The outer transaction has updated its rows and calls createBooking.
ConfirmSeats(r, u, e, order) ==
    /\ pc[r] = "idle"
    /\ Named(order)
    /\ Len(calls) < MaxCalls
    /\ \A s \in ToSet(order) : ~RowLocked(s)
    /\ UpdatesAll(order, HeldBy(u, e))
    /\ calls' = Append(calls, [user |-> u, event |-> e, order |-> order])
    /\ confirming' = [confirming EXCEPT ![r] = [call |-> Len(calls) + 1, open |-> TRUE]]
    /\ CallCreateBooking(r, SeatInput([user |-> u, event |-> e, order |-> order]))
    /\ UNCHANGED <<seat, aborts>>

\* createBooking takes its seat-level branch: no event is read or updated.
CreateSeatBooking(r) ==
    LET d == SeatInput(CallOf(r)) IN
    /\ \/ ReadAccepts(r, d)
       \/ Commit(r, d, confirming[r].call)
       \/ CommitUnacknowledged(r, d, confirming[r].call)
       \/ TransactionFails(r)
    /\ UNCHANGED <<seat, calls, confirming, aborts>>

Respond(r) ==
    /\ Goto(r, "idle")
    /\ attempt' = [attempt EXCEPT ![r] = 0]
    /\ result' = [result EXCEPT ![r] = 0]
    /\ confirming' = [confirming EXCEPT ![r] = NotConfirming]
    /\ UNCHANGED <<calls, available, bookings, lostAcks, cancelling>>

\* Mutant of BookedRow: heldBy is not cleared.
BookedRowStillHeld(u) == [status |-> "booked", heldBy |-> u]

BookedRow(u) == [status |-> "booked", heldBy |-> Nobody]

\* Mutant of ConfirmCommit: createBooking's error is swallowed.
ConfirmCommitAnyway(r) ==
    /\ pc[r] = "release"
    /\ confirming[r].open
    /\ seat' = Updated(CallOf(r).order, BookedRow(CallOf(r).user))
    /\ Respond(r)
    /\ UNCHANGED aborts

ConfirmCommit(r) ==
    /\ pc[r] = "release"
    /\ result[r] # 0
    /\ confirming[r].open
    /\ seat' = Updated(CallOf(r).order, BookedRow(CallOf(r).user))
    /\ Respond(r)
    /\ UNCHANGED aborts

\* createBooking threw, or the transaction is gone: 500, the seats stay held.
ConfirmFails(r) ==
    /\ pc[r] = "release"
    /\ result[r] = 0 \/ ~confirming[r].open
    /\ Respond(r)
    /\ UNCHANGED <<seat, aborts>>

\* It expired, or its connection broke; createBooking does not notice.
OuterEnds(r) ==
    /\ confirming[r].open
    /\ aborts < MaxAborts
    /\ aborts' = aborts + 1
    /\ confirming' = [confirming EXCEPT ![r].open = FALSE]
    /\ UNCHANGED <<seat, calls, serviceVars>>

\* The process dies: both transactions are rolled back, if still open.
ConfirmDies(r) ==
    /\ pc[r] # "idle"
    /\ aborts < MaxAborts
    /\ aborts' = aborts + 1
    /\ Respond(r)
    /\ UNCHANGED seat

-----------------------------------------------------------------------------
(* cancelBooking knows nothing of seats: they stay booked *)

CancelSeatBooking(c) ==
    /\ \/ \E u \in Users, b \in BookingIds : CancelRead(c, u, b)
       \/ CancelCommit(c)
       \/ CancelFails(c)
    /\ UNCHANGED <<seat, calls, confirming, aborts>>

SeatNext ==
    \/ \E u \in Users, e \in EventIds, o \in Orders : RequestHold(u, e, o)
    \/ \E r \in Workers, u \in Users, e \in EventIds, o \in Orders : ConfirmSeats(r, u, e, o)
    \/ \E r \in Workers : \/ CreateSeatBooking(r) \/ ConfirmCommit(r) \/ ConfirmFails(r)
                          \/ OuterEnds(r) \/ ConfirmDies(r)
    \/ \E c \in Cancellers : CancelSeatBooking(c)

SeatSpec == SeatInit /\ [][SeatNext]_seatVars

-----------------------------------------------------------------------------
\* Well-formed, and a seat names a holder exactly while it is held.
SeatTypeOK ==
    /\ ServiceTypeOK
    /\ seat \in [Seats -> Seat]
    /\ \A s \in Seats : seat[s].status = "held" <=> seat[s].heldBy # Nobody
    /\ calls \in Seq(SeatCall) /\ Len(calls) <= MaxCalls
    /\ confirming \in [Workers -> [call: 0 .. MaxCalls, open: BOOLEAN]]
    /\ aborts \in 0 .. MaxAborts

SeatsOf(b) == ToSet(calls[bookings[b].job].order)

\* "Atomically mark held seats as booked": no seat is marked booked unless
\* createBooking has inserted a booking that names it, whatever either
\* transaction runs into.  The booking may be cancelled since: cancelBooking
\* does not look at seats.
BookedSeatHasBooking ==
    \A s \in Seats : seat[s].status = "booked" => \E b \in BookingIds : s \in SeatsOf(b)

\* The row locks of the outer update and its WHERE keep two confirmations,
\* overlapping or retried, from booking one seat twice, as long as no outer
\* transaction ends early and no commit looks failed.
OneBookingPerSeat ==
    aborts = 0 /\ lostAcks = 0 =>
        \A a, b \in BookingIds : SeatsOf(a) \cap SeatsOf(b) # {} => a = b

\* While an outer transaction is open its seats are its user's to book: the
\* WHERE it evaluated before calling createBooking still holds when it commits.
OpenConfirmOwnsSeats ==
    \A r \in Workers : confirming[r].open =>
        ToSet(CallOf(r).order) \subseteq HeldBy(CallOf(r).user, CallOf(r).event)

\* A held seat leaves its holder only by being booked, in a call of theirs.
HeldSeatNotStolen ==
    [][\A s \in Seats : seat[s].status = "held" /\ seat'[s] # seat[s] =>
          /\ seat'[s].status = "booked"
          /\ \E r \in Workers : /\ confirming[r].open
                                /\ CallOf(r).user = seat[s].heldBy
                                /\ s \in ToSet(CallOf(r).order)]_seatVars

\* "Ensures booking + seat update consistency" (README.md:200): the seats of a
\* confirmed booking are booked, or the call that made it is still running.
BookingHasItsSeats ==
    \A b \in BookingIds : bookings[b].status = "confirmed" =>
        \/ \A s \in SeatsOf(b) : seat[s].status = "booked"
        \/ \E r \in Workers : confirming[r].call = bookings[b].job

-----------------------------------------------------------------------------
(* Refinement *)

SaleOf(b) ==
    [user |-> bookings[b].user, seats |-> SeatsOf(b), status |-> bookings[b].status]

\* Seats whose booking is committed and whose own update is about to be.
InSale(s) ==
    \E r \in Workers : confirming[r].open /\ result[r] # 0 /\ s \in ToSet(CallOf(r).order)

Promise == INSTANCE SeatSales WITH
    row <- [s \in Seats |-> IF InSale(s) THEN BookedRow(Nobody) ELSE seat[s]],
    sales <- [b \in BookingIds |-> SaleOf(b)],
    faults <- aborts + lostAcks

\* The two transactions of confirmSeats look like one indivisible sale, with
\* all its seats or none, up to the faults that SeatSales allows and counts.
SellsSeats == Promise!SalesSpec

=============================================================================
