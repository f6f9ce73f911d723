------------------------------ MODULE MCAIHelper ----------------------------
(* TLC instances of AIHelper.  Requests are interchangeable; the two plain *)
(* models differ in being the default one or not, so only Requests may be  *)
(* permuted.                                                               *)
EXTENDS AIHelper, TLC

RequestSymmetry == Permutations(Requests)
=============================================================================
