------------------------------ MODULE Evently ------------------------------
(***************************************************************************)
(* Vocabulary shared by the modules that model the booking path: who runs  *)
(* the code, what a client may ask for, and what the job payload carries.  *)
(* A payload is CreateBookingInput (booking.service.ts) with seat_ids       *)
(* reduced to the only thing the code looks at, whether it is empty.       *)
(***************************************************************************)
EXTENDS Integers, Sequences, FiniteSets

CONSTANTS
    Workers,    \* server processes; each runs one BullMQ worker, one job at a time
    Nobody,     \* no worker (owner of a job or of a lock)
    Users,      \* authenticated users
    Events,     \* rows of table Event
    EventIds,   \* ids a client may put in the URL: those of Events, and unknown ones
    Capacity,   \* Event.capacity
    Keys,       \* Idempotency-Key header values
    NoKey,      \* the header is absent
    Requests    \* payloads clients send

\* The id space of EventRepo is a string; only membership in the table matters.
ASSUME ParticipantsAssumption ==
    /\ Nobody \notin Workers
    /\ NoKey \notin Keys
    /\ Events \subseteq EventIds

ASSUME CapacityAssumption == Capacity \in [Events -> Nat]

(***************************************************************************)
(* What a job carries.  The zod schema of booking.controller.createBooking *)
(* lets only positive integers through as seats, so createBooking's own    *)
(* test of seats <= 0 never fires; the payload of waitlistService.popNext  *)
(* has no seats at all (Unset), which passes that test too.                *)
(***************************************************************************)
Unset == 0

CreateBookingInput ==
    [user: Users, event: EventIds, seats: Nat, seatLevel: BOOLEAN, key: Keys \cup {NoKey}]

ASSUME RequestsAssumption == Requests \subseteq CreateBookingInput

=============================================================================
