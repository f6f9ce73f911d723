---------------------------- MODULE MCLoginSession --------------------------
(* TLC instances of LoginSession: browsers, users, ids and threads are     *)
(* interchangeable.                                                        *)
EXTENDS LoginSession, TLC

Symmetry ==
    Permutations(Browsers) \union Permutations(Users)
        \union Permutations(Ids) \union Permutations(Handlers)
=============================================================================
