--------------------------- MODULE MCAccessControl ---------------------------
(* Instances of AccessControl for TLC. *)
EXTENDS AccessControl, TLC

AccessSymmetry == Permutations(Clients) \cup Permutations(Emails) \cup Permutations(Passwords)

=============================================================================
