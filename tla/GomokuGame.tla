----------------------------- MODULE GomokuGame -----------------------------
(***************************************************************************)
(* One game of GomokuServer: GomokuGame and the move, AI move and reset    *)
(* handlers (AIApps/GomokuServer/src).  Every handler holds boardMapMutex  *)
(* from the look-up of the game to its last access, the AI handler for all *)
(* its calls of the model too, so a handler is one step.  Requests come in *)
(* any order and at any time: several tabs may play one session, and the   *)
(* handlers do not ask whether the game is over.                           *)
(***************************************************************************)
EXTENDS Integers, FiniteSets

CONSTANTS BoardSize,      \* 16 in GomokuGame.h
          Five            \* stones in a row that win: 5 in hasFiveInDirection

ASSUME GomokuAssumption ==
    /\ BoardSize \in Nat \ {0}
    /\ Five \in Nat \ {0}

VARIABLES
    board_,            \* GomokuGame::board_
    currentPlayer_     \* GomokuGame::currentPlayer_

game == <<board_, currentPlayer_>>

Side  == 0..BoardSize - 1
Cells == Side \X Side
Black == 1
White == 2

EmptyBoard == [c \in Cells |-> 0]

(* hasFiveInDirection from a cell, by row and column steps. *)
HasFive(board, player, cell, step) ==
    \A offset \in 0..Five - 1 :
       LET c == <<cell[1] + offset * step[1], cell[2] + offset * step[2]>> IN
       c \in Cells /\ board[c] = player

(* Fault: one diagonal is forgotten. *)
ThreeDirections == {<<0, 1>>, <<1, 0>>, <<1, 1>>}

Directions == {<<0, 1>>, <<1, 0>>, <<1, 1>>, <<1, -1>>}

(* checkWin: only for the current player, in four directions.              *)
CheckWin(board, player) ==
    \E cell \in Cells, step \in Directions : HasFive(board, player, cell, step)

IsBoardFull(board) == \A c \in Cells : board[c] # 0

(* switchPlayer *)
Other(player) == IF player = Black THEN White ELSE Black

(* What the handlers reply: the game as checkWin sees it with the current  *)
(* player.                                                                 *)
Snapshot(board, player) ==
    LET isWin == CheckWin(board, player) IN
    [board |-> board, currentTurn |-> player,
     gameOver |-> isWin \/ IsBoardFull(board),
     winner |-> IF isWin THEN player ELSE 0]

Init ==
    /\ board_ = EmptyBoard
    /\ currentPlayer_ = Black

(* placeStone on an empty cell, and checkWin for the current player: the   *)
(* turn passes on unless that ends the game.                               *)
Play(c, stone) ==
    /\ board_[c] = 0
    /\ board_' = [board_ EXCEPT ![c] = stone]
    /\ currentPlayer_' = IF Snapshot(board_', currentPlayer_).gameOver
                         THEN currentPlayer_ ELSE Other(currentPlayer_)

(* GomokuMoveHandler, and the moves it refuses: 400, nothing changed.      *)
Move(c) == currentPlayer_ = Black /\ Play(c, Black)

MoveRefused(c) ==
    /\ currentPlayer_ # Black \/ board_[c] # 0
    /\ UNCHANGED game

(* GomokuAIMoveHandler: up to three answers of the model are tried; one of *)
(* them is an empty cell, or the call fails or none is usable, and the     *)
(* game is as before, White to move.                                       *)
AIMove == currentPlayer_ = White /\ \E c \in Cells : Play(c, White)

AIRefused == UNCHANGED game

(* GomokuResetHandler, and a request with a session id that is new to      *)
(* boardMap, as after the session has expired.                             *)
ResetGame ==
    /\ board_' = EmptyBoard
    /\ currentPlayer_' = Black

Next ==
    \/ \E c \in Cells : Move(c) \/ MoveRefused(c)
    \/ AIMove
    \/ AIRefused
    \/ ResetGame

Spec == Init /\ [][Next]_game

-----------------------------------------------------------------------------
TypeOK ==
    /\ board_ \in [Cells -> 0..2]
    /\ currentPlayer_ \in {Black, White}

Now == Snapshot(board_, currentPlayer_)
Stones(player) == Cardinality({c \in Cells : board_[c] = player})

(* Until the game is over, White has as many stones as Black on Black's    *)
(* turn and one fewer on White's, whatever is requested and in whatever    *)
(* order: no double move, no skipped turn.                                 *)
AlternateMoves ==
    ~Now.gameOver =>
       Stones(Black) - Stones(White) = IF currentPlayer_ = Black THEN 0 ELSE 1

(* A row of Five stones of one player, along any of the eight directions:  *)
(* the definition of the game, without the scan of checkWin.               *)
Row(player) ==
    LET own == {c \in Cells : board_[c] = player} IN
    \E start \in Cells, dr, dc \in {-1, 0, 1} :
       /\ <<dr, dc>> # <<0, 0>>
       /\ \A k \in 0..Five - 1 : <<start[1] + k * dr, start[2] + k * dc>> \in own

(* checkWin looks at the current player only, in half of the directions;   *)
(* still it tells exactly whether somebody has won.                        *)
WinnerIsRight ==
    Now.winner = IF Row(Black) THEN Black ELSE IF Row(White) THEN White ELSE 0

(* The rules are kept: turns alternate and a win is told for what it is,   *)
(* though the handlers look at the turn only and never at gameOver.        *)
RulesKept == AlternateMoves /\ WinnerIsRight

(* A finished game stays finished with the same winner until a new game:   *)
(* nobody checks gameOver before a move, so this rests on checkWin and on  *)
(* the turn that is not passed on.                                         *)
VerdictStands ==
    [][Now.gameOver /\ ~ResetGame => Now'.gameOver /\ Now'.winner = Now.winner]_game
=============================================================================
