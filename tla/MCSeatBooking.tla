---------------------------- MODULE MCSeatBooking ----------------------------
(* Instances of SeatBooking for TLC. *)
EXTENDS SeatBooking

CONSTANTS u1, u2, e1, e2, s1, s2, s3

MCCapacity == [e \in Events |-> 2]

MCSeatEvent == [s \in Seats |-> IF s = s3 THEN e2 ELSE e1]

\* No seat, one seat, two seats, one seat twice, seats of two events.
MCOrders == {<< >>, <<s1>>, <<s1, s2>>, <<s1, s1>>, <<s1, s3>>}

RequestSymmetry == Permutations(Workers) \cup Permutations(Users)

=============================================================================
