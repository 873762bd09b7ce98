-------------------------- MODULE MCBookingSystem --------------------------
(***************************************************************************)
(* Instances of BookingSystem for TLC.  Every event has three seats and    *)
(* the bookings ask for two: one fits, two do not, and what is left after  *)
(* one (a single seat) tells an exact capacity check from a lenient one.   *)
(***************************************************************************)
EXTENDS BookingSystem, TLC

CONSTANTS w1, w2, u1, u2, e1, unknown, k1

MCCapacity == [e \in Events |-> 3]

Ask(u, e, n, seatLevel, k) ==
    [user |-> u, event |-> e, seats |-> n, seatLevel |-> seatLevel, key |-> k]

\* A user asks for an event with a key and without one; only the key tells the
\* two bookings apart.
GeneralAdmission == {Ask(u1, e1, 2, FALSE, k1), Ask(u1, e1, 2, FALSE, NoKey)}

\* One of each branch of createBooking: general admission with a key,
\* seat-level, an event that does not exist, and no seats (from the waitlist).
AllKinds == {Ask(u1, e1, 2, FALSE, k1), Ask(u1, e1, 1, TRUE, NoKey),
             Ask(u2, unknown, 1, FALSE, NoKey), Ask(u2, e1, Unset, FALSE, NoKey)}

\* For liveness: what is sold matters less than that every path ends.
Anonymous == {Ask(u1, e1, 2, FALSE, NoKey)}

WorkerSymmetry == Permutations(Workers)

=============================================================================
