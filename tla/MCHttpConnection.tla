------------------------- MODULE MCHttpConnection ---------------------------
(* TLC instances of HttpConnection. *)
EXTENDS HttpConnection

AllKinds == {"get", "getBody", "post", "postEmpty", "postNegative", "postNoLength",
             "badLine", "badHeader"}
=============================================================================
