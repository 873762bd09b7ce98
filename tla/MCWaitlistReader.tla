-------------------------- MODULE MCWaitlistReader --------------------------
(* Instances of WaitlistReader for TLC. *)
EXTENDS MCWaitlist, WaitlistReader

=============================================================================
