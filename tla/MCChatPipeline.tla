---------------------------- MODULE MCChatPipeline --------------------------
(* TLC instances of ChatPipeline. *)
EXTENDS ChatPipeline, TLC

Symmetry == Permutations(Users) \union Permutations(Ids) \union Permutations(Requests)
=============================================================================
