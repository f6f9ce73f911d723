------------------------------ MODULE MCGomoku ------------------------------
(* A TLC instance of GomokuPage: three in a row on a 3x3 board, where both *)
(* players win and the board fills up without a winner.                    *)
EXTENDS GomokuPage

(* Bounds: messages overlap while the board is empty but for one corner;   *)
(* from there the first game is played to its end, as long as the page has *)
(* missed nothing, and a new one begins on such a board or a full one.     *)
Opening == \A c \in Cells \ {<<0, 0>>} : board_[c] = 0
Sends == Len(pending') + Len(replies') > Len(pending) + Len(replies)
MCBounds ==
    \/ Opening
    \/ /\ Sends => resets = 0 /\ ~stale /\ pending = <<>> /\ replies = <<>>
       /\ UNCHANGED resets \/ IsBoardFull(board_)

MCSpec == PageInit /\ [][PageNext /\ MCBounds]_vars /\ PageFairness
=============================================================================
