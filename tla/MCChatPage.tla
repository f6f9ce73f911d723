----------------------------- MODULE MCChatPage -----------------------------
(* TLC instances of ChatPage. *)
EXTENDS ChatPage, TLC

CONSTANTS s1, s2, s3

(* s1 exists when the page loads. *)
Symmetry == Permutations({s2, s3})
=============================================================================
