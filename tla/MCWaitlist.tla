----------------------------- MODULE MCWaitlist -----------------------------
(* Instances of Waitlist for TLC. *)
EXTENDS Waitlist, TLC

CONSTANTS u1, u2, e1, unknown

MCCapacity == [e \in Events |-> 1]

\* What popNext adds to the queue.
MCRequests == [user: Users, event: EventIds, seats: {Unset}, seatLevel: {FALSE}, key: {NoKey}]

CallerSymmetry == Permutations(Callers) \cup Permutations(Users)

=============================================================================
