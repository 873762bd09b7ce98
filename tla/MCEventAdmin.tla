---------------------------- MODULE MCEventAdmin ----------------------------
(* Instances of EventAdmin for TLC. *)
EXTENDS EventAdmin, TLC

CONSTANTS u1, e1

\* Not used before an event is created.
MCCapacity == [e \in Events |-> 0]

MCRequests ==
    [user: Users, event: EventIds, seats: {2}, seatLevel: {FALSE}, key: {NoKey}]
    \cup [user: Users, event: EventIds, seats: {1}, seatLevel: {TRUE}, key: {NoKey}]

MCNumbers == {-1, 1}

AdminSymmetry == Permutations(Workers)

=============================================================================
