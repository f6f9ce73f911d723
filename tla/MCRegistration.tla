--------------------------- MODULE MCRegistration ---------------------------
(* TLC instances of Registration. *)
EXTENDS Registration, TLC

Symmetry ==
    Permutations(Requests) \union Permutations(Names) \union Permutations(Passwords)
=============================================================================
