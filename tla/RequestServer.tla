--------------------------- MODULE RequestServer ---------------------------
(***************************************************************************)
(* What an HTTP server promises on one connection, with no bytes, no       *)
(* buffers and no parser: requests are handled one by one in the order     *)
(* they were sent, an answer goes out with each as long as the connection  *)
(* is open, and a refusal ends both.  HttpConnection implements this       *)
(* module (HttpConnection!ServiceSpec).                                    *)
(***************************************************************************)
EXTENDS Naturals, Sequences

VARIABLES asked,       \* number of requests the client has sent
          handled,     \* numbers of the requests handlers have got, in order
          answers,     \* numbers of the requests answered; 0 for a refusal
          open,        \* answers still go out
          refused      \* something was refused

serviceVars == <<asked, handled, answers, open, refused>>

Init ==
    /\ asked = 0
    /\ handled = <<>>
    /\ answers = <<>>
    /\ open = TRUE
    /\ refused = FALSE

Ask ==
    /\ open
    /\ asked' = asked + 1
    /\ UNCHANGED <<handled, answers, open, refused>>

SendOut(a) == answers' = IF open THEN Append(answers, a) ELSE answers

(* The next request of the client is handled and answered, and the         *)
(* connection may be closed after it.                                      *)
Handle ==
    LET i == Len(handled) + 1 IN
    /\ ~refused
    /\ i <= asked
    /\ handled' = Append(handled, i)
    /\ SendOut(i)
    /\ open' \in {open, FALSE}
    /\ UNCHANGED <<asked, refused>>

(* Something is no request: the last answer of the connection. *)
Refuse ==
    /\ SendOut(0)
    /\ open' = FALSE
    /\ refused' = TRUE
    /\ UNCHANGED <<asked, handled>>

(* What is behind a refused request may be skipped or still be handled,    *)
(* but is not answered, and nothing is handled again.                      *)
HandleUnanswered ==
    /\ refused
    /\ ~open
    /\ \E i \in 1..asked :
          /\ \A h \in 1..Len(handled) : handled[h] < i
          /\ handled' = Append(handled, i)
    /\ UNCHANGED <<asked, answers, open, refused>>

Next == Ask \/ Handle \/ Refuse \/ HandleUnanswered

Spec == Init /\ [][Next]_serviceVars
=============================================================================
