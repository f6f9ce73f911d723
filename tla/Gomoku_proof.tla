---------------------------- MODULE Gomoku_proof ----------------------------
(***************************************************************************)
(* Proofs about GomokuGame and GomokuPage, for every board size, every     *)
(* length of the winning row and any number of messages under way: types,  *)
(* the verdict of a finished game, the alternation of moves, that the scan *)
(* of checkWin finds exactly the winner, and that the page finds back to   *)
(* the server's game.                                                      *)
(***************************************************************************)
EXTENDS GomokuPage, FiniteSetTheorems, SequenceTheorems, TLAPS

LEMMA TypeOKInit == Init => TypeOK
  BY GomokuAssumption DEF Init, TypeOK, EmptyBoard, Black, White

(* A stone of the current player keeps the types. *)
LEMMA PlayTypeOK ==
  ASSUME TypeOK, NEW c \in Cells, NEW stone \in {Black, White}, Play(c, stone)
  PROVE  TypeOK'
  BY DEF TypeOK, Play, Other, Black, White

(* The steps of the game: a stone of the current player, a new game, or    *)
(* nothing.                                                                *)
LEMMA GameSteps ==
  ASSUME [Next]_game
  PROVE  \/ \E c \in Cells : currentPlayer_ \in {Black, White} /\ Play(c, currentPlayer_)
         \/ ResetGame
         \/ UNCHANGED game
  BY DEF Next, Move, MoveRefused, AIMove, AIRefused, game

LEMMA TypeOKNext == TypeOK /\ [Next]_game => TypeOK'
  <1> SUFFICES ASSUME TypeOK, [Next]_game PROVE TypeOK'
    OBVIOUS
  <1>1. CASE ResetGame
    BY <1>1 DEF ResetGame, TypeOK, EmptyBoard, Black, White
  <1>2. CASE UNCHANGED game
    BY <1>2 DEF TypeOK, game
  <1> QED
    BY <1>1, <1>2, GameSteps, PlayTypeOK

(* The board holds stones of two colours and the turn is one of them.      *)
THEOREM TypeCorrect == Spec => []TypeOK
  BY TypeOKInit, TypeOKNext, PTL DEF Spec

-----------------------------------------------------------------------------
(* Rows of stones. *)

(* A stone on an empty cell breaks no row. *)
LEMMA RowsStay ==
  ASSUME TypeOK, NEW c \in Cells, NEW stone \in {Black, White}, board_[c] = 0,
         board_' = [board_ EXCEPT ![c] = stone],
         NEW player \in {Black, White}, CheckWin(board_, player)
  PROVE  CheckWin(board_', player)
  <1>1. \A d \in Cells : board_[d] = player => board_'[d] = player
    BY DEF TypeOK, Black, White
  <1> QED
    BY <1>1 DEF CheckWin, HasFive

(* A stone of one player makes no row of the other. *)
LEMMA NoRowOfTheOther ==
  ASSUME TypeOK, NEW c \in Cells, NEW stone \in {Black, White}, board_[c] = 0,
         board_' = [board_ EXCEPT ![c] = stone],
         NEW player \in {Black, White}, player # stone,
         ~CheckWin(board_, player)
  PROVE  ~CheckWin(board_', player)
  <1>1. \A d \in Cells : board_'[d] = player => board_[d] = player
    BY DEF TypeOK, Black, White
  <1> QED
    BY <1>1 DEF CheckWin, HasFive

(* A finished game stays finished, with its winner, until a new game. *)
LEMMA VerdictStep ==
  ASSUME TypeOK, [Next]_game, Now.gameOver, ~ResetGame
  PROVE  Now'.gameOver /\ Now'.winner = Now.winner
  <1>1. CASE UNCHANGED game
    BY <1>1 DEF game, Now
  <1>2. ASSUME NEW c \in Cells, currentPlayer_ \in {Black, White}, Play(c, currentPlayer_)
        PROVE  Now'.gameOver /\ Now'.winner = Now.winner
    <2>1. ~IsBoardFull(board_)
      BY <1>2 DEF Play, IsBoardFull
    <2>2. CheckWin(board_, currentPlayer_)
      BY <2>1 DEF Now, Snapshot
    <2>3. CheckWin(board_', currentPlayer_)
      BY <1>2, <2>2, RowsStay DEF Play
    <2>4. currentPlayer_' = currentPlayer_
      BY <1>2, <2>3 DEF Play, Snapshot
    <2> QED
      BY <2>2, <2>3, <2>4 DEF Now, Snapshot
  <1> QED
    BY <1>1, <1>2, GameSteps

(* No handler asks whether the game is over, and none needs to.            *)
THEOREM VerdictIsFinal == Spec => VerdictStands
  <1>1. TypeOK /\ [Next]_game =>
           [Now.gameOver /\ ~ResetGame => Now'.gameOver /\ Now'.winner = Now.winner]_game
    BY VerdictStep
  <1> QED
    BY <1>1, TypeCorrect, PTL DEF Spec, VerdictStands

-----------------------------------------------------------------------------
(* Counting stones. *)

LEMMA CellsFinite == IsFiniteSet(Cells)
  <1>1. IsFiniteSet(Side)
    BY FS_Interval, GomokuAssumption DEF Side
  <1> QED
    BY <1>1, FS_Product DEF Cells

LEMMA StonesNat ==
  ASSUME NEW player
  PROVE  /\ IsFiniteSet({c \in Cells : board_[c] = player})
         /\ Stones(player) \in Nat
  BY CellsFinite, FS_Subset, FS_CardinalityType DEF Stones

LEMMA PlayStones ==
  ASSUME TypeOK, NEW c \in Cells, NEW stone \in {Black, White}, Play(c, stone)
  PROVE  /\ Stones(stone)' = Stones(stone) + 1
         /\ \A player \in {Black, White} \ {stone} : Stones(player)' = Stones(player)
  <1> DEFINE S(player) == {d \in Cells : board_[d] = player}
             T(player) == {d \in Cells : board_'[d] = player}
  <1>1. T(stone) = S(stone) \union {c} /\ c \notin S(stone)
    BY DEF Play, TypeOK, Black, White
  <1>2. Cardinality(T(stone)) = Cardinality(S(stone)) + 1
    <2> HIDE DEF T
    <2>1. IsFiniteSet(S(stone))
      BY StonesNat
    <2> HIDE DEF S
    <2> QED
      BY <1>1, <2>1, FS_AddElement
  <1>3. \A player \in {Black, White} \ {stone} : T(player) = S(player)
    BY DEF Play, TypeOK, Black, White
  <1> QED
    BY <1>2, <1>3 DEF Stones

LEMMA AlternateMovesNext == TypeOK /\ AlternateMoves /\ [Next]_game => AlternateMoves'
  <1> SUFFICES ASSUME TypeOK, AlternateMoves, [Next]_game, ~Now'.gameOver
               PROVE  (Stones(Black) - Stones(White))'
                         = IF currentPlayer_' = Black THEN 0 ELSE 1
    BY DEF AlternateMoves
  <1>1. CASE ResetGame
    <2>1. {c \in Cells : board_'[c] = Black} = {} /\ {c \in Cells : board_'[c] = White} = {}
      BY <1>1 DEF ResetGame, EmptyBoard, Black, White
    <2> QED
      BY <1>1, <2>1, FS_EmptySet DEF Stones, ResetGame
  <1>2. CASE UNCHANGED game
    BY <1>2 DEF game, AlternateMoves, Now, Stones
  <1>3. ASSUME ~ResetGame, NEW c \in Cells, currentPlayer_ \in {Black, White},
               Play(c, currentPlayer_)
        PROVE  (Stones(Black) - Stones(White))'
                  = IF currentPlayer_' = Black THEN 0 ELSE 1
    <2>1. ~Now.gameOver
      BY <1>3, VerdictStep
    <2>2. Stones(Black) - Stones(White) = IF currentPlayer_ = Black THEN 0 ELSE 1
      BY <2>1 DEF AlternateMoves
    <2>3. currentPlayer_' = Other(currentPlayer_)
      BY <1>3 DEF Play, Now
    <2>4. Stones(Black) \in Nat /\ Stones(White) \in Nat
      BY StonesNat
    <2>5. CASE currentPlayer_ = Black
      <3>1. Stones(Black)' = Stones(Black) + 1 /\ Stones(White)' = Stones(White)
        BY <1>3, <2>5, PlayStones DEF Black, White
      <3> QED
        BY <2>2, <2>3, <2>4, <2>5, <3>1 DEF Other, Black, White
    <2>6. CASE currentPlayer_ = White
      <3>1. Stones(White)' = Stones(White) + 1 /\ Stones(Black)' = Stones(Black)
        BY <1>3, <2>6, PlayStones DEF Black, White
      <3> QED
        BY <2>2, <2>3, <2>4, <2>6, <3>1 DEF Other, Black, White
    <2> QED
      BY <1>3, <2>5, <2>6
  <1> QED
    BY <1>1, <1>2, <1>3, GameSteps

LEMMA AlternateMovesInit == Init => AlternateMoves
  <1> SUFFICES ASSUME Init PROVE AlternateMoves
    OBVIOUS
  <1>1. {c \in Cells : board_[c] = Black} = {} /\ {c \in Cells : board_[c] = White} = {}
    BY DEF Init, EmptyBoard, Black, White
  <1> QED
    BY <1>1, FS_EmptySet DEF Init, AlternateMoves, Stones

(* Nobody moves twice and nobody's turn is skipped before the game is over.*)
THEOREM MovesAlternate == Spec => []AlternateMoves
  <1>1. Init => TypeOK /\ AlternateMoves
    BY TypeOKInit, AlternateMovesInit
  <1>2. TypeOK /\ AlternateMoves /\ [Next]_game => (TypeOK /\ AlternateMoves)'
    BY TypeOKNext, AlternateMovesNext
  <1> QED
    BY <1>1, <1>2, PTL DEF Spec

-----------------------------------------------------------------------------
(* checkWin's scan. *)

(* Walking a row backwards: offset k from its end is Five - 1 - k from its *)
(* start.                                                                  *)
LEMMA Backwards ==
  ASSUME NEW x \in Int, NEW d \in {-1, 0, 1}, NEW k \in 0..Five - 1
  PROVE  /\ x + (Five - 1) * d + k * (-d) = x + (Five - 1 - k) * d
         /\ Five - 1 - k \in 0..Five - 1
  <1>1. CASE d = -1
    BY <1>1, GomokuAssumption
  <1>2. CASE d = 0
    BY <1>2, GomokuAssumption
  <1>3. CASE d = 1
    BY <1>3, GomokuAssumption
  <1> QED
    BY <1>1, <1>2, <1>3

LEMMA RowIsWin ==
  ASSUME NEW player
  PROVE  Row(player) <=> CheckWin(board_, player)
  <1>1. ASSUME CheckWin(board_, player) PROVE Row(player)
    <2>1. PICK cell \in Cells, step \in Directions : HasFive(board_, player, cell, step)
      BY <1>1 DEF CheckWin
    <2>2. step[1] \in {-1, 0, 1} /\ step[2] \in {-1, 0, 1} /\ <<step[1], step[2]>> # <<0, 0>>
      BY DEF Directions
    <2> QED
      BY <2>1, <2>2 DEF HasFive, Row
  <1>2. ASSUME Row(player) PROVE CheckWin(board_, player)
    <2> DEFINE S == {c \in Cells : board_[c] = player}
    <2>1. PICK start \in Cells, dr \in {-1, 0, 1}, dc \in {-1, 0, 1} :
             /\ <<dr, dc>> # <<0, 0>>
             /\ \A k \in 0..Five - 1 : <<start[1] + k * dr, start[2] + k * dc>> \in S
      BY <1>2 DEF Row
    <2>2. CASE <<dr, dc>> \in Directions
      BY <2>1, <2>2 DEF CheckWin, HasFive
    <2>3. CASE <<-dr, -dc>> \in Directions
      <3> DEFINE end == <<start[1] + (Five - 1) * dr, start[2] + (Five - 1) * dc>>
      <3>1. Five - 1 \in 0..Five - 1
        BY GomokuAssumption
      <3>2. end \in Cells
        BY <2>1, <3>1
      <3>3. start[1] \in Int /\ start[2] \in Int
        BY GomokuAssumption DEF Cells, Side
      <3>4. \A k \in 0..Five - 1 : <<end[1] + k * (-dr), end[2] + k * (-dc)>> \in S
        <4> SUFFICES ASSUME NEW k \in 0..Five - 1
                     PROVE  <<end[1] + k * (-dr), end[2] + k * (-dc)>> \in S
          OBVIOUS
        <4>1. end[1] + k * (-dr) = start[1] + (Five - 1 - k) * dr
          BY <3>3, Backwards
        <4>2. end[2] + k * (-dc) = start[2] + (Five - 1 - k) * dc
          BY <3>3, Backwards
        <4>3. Five - 1 - k \in 0..Five - 1
          BY Backwards, <3>3
        <4> QED
          BY <2>1, <4>1, <4>2, <4>3
      <3> HIDE DEF end
      <3> QED
        BY <2>3, <3>2, <3>4 DEF CheckWin, HasFive
    <2>4. <<dr, dc>> \in Directions \/ <<-dr, -dc>> \in Directions
      BY <2>1 DEF Directions
    <2> QED
      BY <2>2, <2>3, <2>4
  <1> QED
    BY <1>1, <1>2

(* The player who is not to move has no row: checkWin need not look.       *)
OnlyTheMoverWins == ~CheckWin(board_, Other(currentPlayer_))

LEMMA EmptyHasNoRow ==
  ASSUME NEW player \in {Black, White} PROVE ~CheckWin(EmptyBoard, player)
  <1>1. 0 \in 0..Five - 1
    BY GomokuAssumption
  <1>2. \A d \in Cells : EmptyBoard[d] # player
    BY DEF EmptyBoard, Black, White
  <1>3. ASSUME NEW cell \in Cells, NEW step \in Directions, HasFive(EmptyBoard, player, cell, step)
        PROVE  FALSE
    <2> DEFINE c == <<cell[1] + 0 * step[1], cell[2] + 0 * step[2]>>
    <2>1. c \in Cells /\ EmptyBoard[c] = player
      BY <1>1, <1>3 DEF HasFive
    <2> QED
      BY <1>2, <2>1
  <1> QED
    BY <1>3 DEF CheckWin

LEMMA OnlyTheMoverWinsNext ==
  TypeOK /\ OnlyTheMoverWins /\ [Next]_game => OnlyTheMoverWins'
  <1> SUFFICES ASSUME TypeOK, OnlyTheMoverWins, [Next]_game PROVE OnlyTheMoverWins'
    OBVIOUS
  <1>1. CASE ResetGame
    BY <1>1, EmptyHasNoRow DEF ResetGame, OnlyTheMoverWins, Other, Black, White
  <1>2. CASE UNCHANGED game
    BY <1>2 DEF game, OnlyTheMoverWins
  <1>3. ASSUME NEW c \in Cells, currentPlayer_ \in {Black, White}, Play(c, currentPlayer_)
        PROVE  OnlyTheMoverWins'
    <2>1. Other(currentPlayer_) \in {Black, White} /\ Other(currentPlayer_) # currentPlayer_
          /\ Other(Other(currentPlayer_)) = currentPlayer_
      BY <1>3 DEF Other, Black, White
    <2>2. ~CheckWin(board_', Other(currentPlayer_))
      BY <1>3, <2>1, NoRowOfTheOther DEF Play, OnlyTheMoverWins
    <2>3. CASE Snapshot(board_', currentPlayer_).gameOver
      BY <1>3, <2>2, <2>3 DEF Play, OnlyTheMoverWins
    <2>4. CASE ~Snapshot(board_', currentPlayer_).gameOver
      <3>1. ~CheckWin(board_', currentPlayer_)
        BY <2>4 DEF Snapshot
      <3> QED
        BY <1>3, <2>1, <2>4, <3>1 DEF Play, OnlyTheMoverWins
    <2> QED
      BY <2>3, <2>4
  <1> QED
    BY <1>1, <1>2, <1>3, GameSteps

(* The reply names as winner the player with a row of Five, in whichever   *)
(* direction, and nobody if there is none.                                 *)
THEOREM WinnerFound == Spec => []WinnerIsRight
  <1>1. Init => OnlyTheMoverWins
    BY EmptyHasNoRow DEF Init, OnlyTheMoverWins, Other, Black, White
  <1>2. TypeOK /\ OnlyTheMoverWins => WinnerIsRight
    BY RowIsWin DEF TypeOK, OnlyTheMoverWins, WinnerIsRight, Now, Snapshot, Other, Black, White
  <1> QED
    BY <1>1, <1>2, TypeOKInit, TypeOKNext, OnlyTheMoverWinsNext, PTL DEF Spec

-----------------------------------------------------------------------------
(* The page and its server. *)

LEMMA RemoveAtProperties ==
  ASSUME NEW S, NEW s \in Seq(S), NEW i \in 1..Len(s)
  PROVE  /\ RemoveAt(s, i) \in Seq(S)
         /\ Len(RemoveAt(s, i)) = Len(s) - 1
         /\ \A j \in 1..Len(s) - 1 : RemoveAt(s, i)[j] = s[IF j < i THEN j ELSE j + 1]
  <1> DEFINE front == SubSeq(s, 1, i - 1)
             back == SubSeq(s, i + 1, Len(s))
  <1>1. /\ front \in Seq(S) /\ Len(front) = i - 1
        /\ \A j \in 1..i - 1 : front[j] = s[j]
    BY SubSeqProperties
  <1>2. /\ back \in Seq(S) /\ Len(back) = Len(s) - i
        /\ \A j \in 1..Len(s) - i : back[j] = s[i + j]
    BY SubSeqProperties
  <1>3. RemoveAt(s, i) = front \o back
    BY DEF RemoveAt
  <1> HIDE DEF front, back
  <1>4. /\ front \o back \in Seq(S)
        /\ Len(front \o back) = Len(front) + Len(back)
        /\ \A j \in 1..Len(front) + Len(back) : (front \o back)[j] =
              IF j <= Len(front) THEN front[j] ELSE back[j - Len(front)]
    BY <1>1, <1>2, ConcatProperties, Zenon
  <1>5. Len(s) \in Nat /\ Len(front) + Len(back) = Len(s) - 1
    BY <1>1, <1>2, LenProperties
  <1>6. ASSUME NEW j \in 1..Len(s) - 1
        PROVE  (front \o back)[j] = s[IF j < i THEN j ELSE j + 1]
    <2>1. CASE j < i
      <3>1. j \in 1..i - 1 /\ j <= Len(front)
        BY <1>1, <1>5, <2>1
      <3> QED
        BY <1>1, <1>4, <1>5, <2>1, <3>1
    <2>2. CASE j >= i
      <3>1. /\ j - Len(front) \in 1..Len(s) - i
            /\ i + (j - Len(front)) = j + 1
            /\ ~(j <= Len(front)) /\ ~(j < i)
        BY <1>1, <1>5, <2>2
      <3> QED
        BY <1>2, <1>4, <1>5, <3>1
    <2> QED
      BY <1>5, <2>1, <2>2
  <1> QED
    BY <1>3, <1>4, <1>5, <1>6

(* Only a failure comes without a state; and the player who is not to move *)
(* has no row, without which a reply computed before the switch of players *)
(* might differ from the game after it.                                    *)
OkRepliesHaveStates == \A i \in 1..Len(replies) : replies[i].ok => replies[i].state \in Views

PageTyped == TypeOK /\ OnlyTheMoverWins /\ PageTypeOK /\ OkRepliesHaveStates

Requests == [kind : Kinds, cell : Cells]
Replies == [kind : Kinds, ok : BOOLEAN, state : Views \union {Message}]

LEMMA SnapshotTyped ==
  ASSUME NEW board \in [Cells -> 0..2], NEW player \in {Black, White}
  PROVE  Snapshot(board, player) \in Views
  <1>1. CheckWin(board, player) \in BOOLEAN /\ IsBoardFull(board) \in BOOLEAN
    BY DEF CheckWin, IsBoardFull
  <1> QED
    BY <1>1 DEF Snapshot, Views, Black, White

LEMMA NewGameTyped == NewGame \in Views /\ NoCell \in Cells
  <1>1. EmptyBoard \in [Cells -> 0..2] /\ NoCell \in Cells
    BY GomokuAssumption DEF EmptyBoard, NoCell, Cells, Side
  <1> QED
    BY <1>1, SnapshotTyped DEF NewGame

LEMMA PageTypedInit == PageInit => PageTyped
  <1> SUFFICES ASSUME PageInit PROVE PageTyped
    OBVIOUS
  <1>1. TypeOK /\ OnlyTheMoverWins
    BY TypeOKInit, EmptyHasNoRow
       DEF PageInit, Init, OnlyTheMoverWins, Other, Black, White
  <1>2. pending \in Seq(Requests)
    BY NewGameTyped DEF PageInit, Request, Requests, Kinds
  <1>3. view \in Views /\ replies = <<>> /\ resets \in 0..MaxResets
    BY NewGameTyped, PageAssumption DEF PageInit
  <1>4. aiThinking \in BOOLEAN /\ stale \in BOOLEAN
    BY Zenon DEF PageInit
  <1> QED
    BY <1>1, <1>2, <1>3, <1>4 DEF PageTyped, PageTypeOK, OkRepliesHaveStates, Requests

LEMMA SnapshotTurn ==
  ASSUME NEW board, NEW turn, NEW over, NEW winner, NEW next
  PROVE  [[board |-> board, currentTurn |-> turn, gameOver |-> over, winner |-> winner]
             EXCEPT !.currentTurn = next]
         = [board |-> board, currentTurn |-> next, gameOver |-> over, winner |-> winner]
  OBVIOUS

(* GameOver is computed for the player who has moved, before the switch;   *)
(* it is the verdict of the game as it is after the move all the same.     *)
LEMMA MoveReplyIsNow ==
  ASSUME TypeOK, OnlyTheMoverWins, NEW c \in Cells, Play(c, currentPlayer_)
  PROVE  [Snapshot(board_', currentPlayer_) EXCEPT !.currentTurn = currentPlayer_'] = Now'
  <1>1. currentPlayer_ \in {Black, White} /\ Other(currentPlayer_) \in {Black, White}
        /\ Other(currentPlayer_) # currentPlayer_
    BY DEF TypeOK, Other, Black, White
  <1>2. ~CheckWin(board_', Other(currentPlayer_))
    BY <1>1, NoRowOfTheOther DEF Play, OnlyTheMoverWins
  <1>3. CASE Snapshot(board_', currentPlayer_).gameOver
    <2>1. currentPlayer_' = currentPlayer_
      BY <1>3 DEF Play
    <2> QED
      BY <2>1, SnapshotTurn DEF Now, Snapshot
  <1>4. CASE ~Snapshot(board_', currentPlayer_).gameOver
    <2>1. currentPlayer_' = Other(currentPlayer_)
      BY <1>4 DEF Play
    <2>2. ~CheckWin(board_', currentPlayer_) /\ ~IsBoardFull(board_')
      BY <1>4 DEF Snapshot
    <2> QED
      BY <1>2, <2>1, <2>2 DEF Now, Snapshot
  <1> QED
    BY <1>3, <1>4

(* What a handler leaves: one request less, and at the end of the replies  *)
(* the game as it is now, or a failure.                                    *)
LEMMA HandleStep ==
  ASSUME PageTyped, NEW k \in Kinds, Handle(k)
  PROVE  /\ [Next]_game
         /\ UNCHANGED <<page, resets, stale>>
         /\ \E i \in 1..Len(pending) : pending' = RemoveAt(pending, i)
         /\ \E r \in Replies : /\ replies' = Append(replies, r)
                               /\ r.ok => r.state = Now'
                               /\ r.ok => r.state \in Views
  <1>1. PICK i \in 1..Len(pending) :
           LET r == pending[i] IN
           /\ r.kind = k
           /\ \/ r.kind = "move"  /\ Move(r.cell) /\ AnswerMove(r)
              \/ r.kind = "move"  /\ MoveRefused(r.cell) /\ AnswerFailure(r)
              \/ r.kind = "ai"    /\ AIMove /\ AnswerMove(r)
              \/ r.kind = "ai"    /\ AIRefused /\ AnswerFailure(r)
              \/ r.kind = "reset" /\ ResetGame /\ Answer(r)
              \/ r.kind = "state" /\ UNCHANGED game /\ Answer(r)
           /\ pending' = RemoveAt(pending, i)
           /\ UNCHANGED <<page, resets, stale>>
    BY DEF Handle
  <1> DEFINE rq == pending[i]
  <1>2. rq.kind = k /\ rq.kind \in Kinds /\ rq.cell \in Cells
    <2>1. rq \in Requests
      BY ElementOfSeq DEF PageTyped, PageTypeOK, Requests
    <2> QED
      BY <1>1, <2>1 DEF Requests
  <1> HIDE DEF rq
  <1>3. \/ AnswerMove(rq) /\ \E c \in Cells : Play(c, currentPlayer_) /\ [Next]_game
        \/ AnswerFailure(rq) /\ [Next]_game
        \/ Answer(rq) /\ [Next]_game
    <2>1. \/ Move(rq.cell) /\ AnswerMove(rq)
          \/ MoveRefused(rq.cell) /\ AnswerFailure(rq)
          \/ AIMove /\ AnswerMove(rq)
          \/ AIRefused /\ AnswerFailure(rq)
          \/ ResetGame /\ Answer(rq)
          \/ UNCHANGED game /\ Answer(rq)
      BY <1>1 DEF rq
    <2>2. ASSUME Move(rq.cell) PROVE \E c \in Cells : Play(c, currentPlayer_) /\ [Next]_game
      BY <1>2, <2>2 DEF Move, Next
    <2>3. ASSUME AIMove PROVE \E c \in Cells : Play(c, currentPlayer_) /\ [Next]_game
      BY <2>3 DEF AIMove, Next
    <2>4. MoveRefused(rq.cell) \/ AIRefused \/ ResetGame \/ UNCHANGED game => [Next]_game
      BY <1>2 DEF Next
    <2> QED
      BY <2>1, <2>2, <2>3, <2>4
  <1>4. [Next]_game
    BY <1>3
  <1>5. Now' \in Views
    <2>1. TypeOK'
      BY <1>4, TypeOKNext DEF PageTyped
    <2> QED
      BY <2>1, SnapshotTyped DEF TypeOK, Now
  <1>6. \E r \in Replies : /\ replies' = Append(replies, r)
                           /\ r.ok => r.state = Now'
                           /\ r.ok => r.state \in Views
    <2>1. CASE AnswerFailure(rq)
      <3>1. Reply(rq.kind, FALSE, Message) \in Replies
        BY <1>2 DEF Reply, Replies
      <3>2. ~Reply(rq.kind, FALSE, Message).ok
        BY DEF Reply
      <3> QED
        BY <2>1, <3>1, <3>2, Zenon DEF AnswerFailure
    <2>2. ASSUME replies' = Append(replies, Reply(rq.kind, TRUE, Now'))
          PROVE  \E r \in Replies : /\ replies' = Append(replies, r)
                                    /\ r.ok => r.state = Now'
                                    /\ r.ok => r.state \in Views
      <3>1. Reply(rq.kind, TRUE, Now') \in Replies
        BY <1>2, <1>5 DEF Reply, Replies
      <3>2. Reply(rq.kind, TRUE, Now').state = Now'
        BY DEF Reply
      <3> QED
        BY <1>5, <2>2, <3>1, <3>2, Zenon
    <2>3. CASE AnswerMove(rq) /\ \E c \in Cells : Play(c, currentPlayer_)
      BY <2>2, <2>3, MoveReplyIsNow DEF AnswerMove, PageTyped
    <2>4. CASE Answer(rq)
      BY <2>2, <2>4 DEF Answer, Now
    <2> QED
      BY <1>3, <2>1, <2>3, <2>4
  <1> QED
    BY <1>1, <1>4, <1>6

(* Sending a request keeps the type of the requests, in any step that does *)
(* not touch the game.                                                     *)
LEMMA RequestTyped ==
  ASSUME PageTyped, NEW kind \in Kinds, NEW cell \in Cells
  PROVE  /\ Append(pending, Request(kind, cell)) \in Seq(Requests)
         /\ Append(pending, Request(kind, cell)) # <<>>
  <1>1. pending \in Seq(Requests) /\ Request(kind, cell) \in Requests
    BY DEF PageTyped, PageTypeOK, Request, Requests
  <1> QED
    BY <1>1, AppendProperties

(* A reply that is removed takes nothing else with it. *)
LEMMA ReplyRemoved ==
  ASSUME PageTyped, NEW i \in 1..Len(replies)
  PROVE  /\ replies[i] \in Replies
         /\ replies[i].ok => replies[i].state \in Views
         /\ RemoveAt(replies, i) \in Seq(Replies)
         /\ \A j \in 1..Len(RemoveAt(replies, i)) :
               RemoveAt(replies, i)[j].ok => RemoveAt(replies, i)[j].state \in Views
  <1>1. replies \in Seq(Replies) /\ OkRepliesHaveStates
    BY DEF PageTyped, PageTypeOK, Replies
  <1>2. replies[i] \in Replies
    BY <1>1, ElementOfSeq
  <1>3. /\ RemoveAt(replies, i) \in Seq(Replies)
        /\ Len(RemoveAt(replies, i)) = Len(replies) - 1
        /\ \A j \in 1..Len(replies) - 1 :
              RemoveAt(replies, i)[j] = replies[IF j < i THEN j ELSE j + 1]
    BY <1>1, RemoveAtProperties
  <1>4. \A j \in 1..Len(replies) - 1 : (IF j < i THEN j ELSE j + 1) \in 1..Len(replies)
    BY <1>1, LenProperties
  <1> QED
    BY <1>1, <1>2, <1>3, <1>4 DEF OkRepliesHaveStates

(* So does one after a fetch that threw. *)
LEMMA RestTyped ==
  ASSUME NEW requests \in Seq(Requests), NEW kind, FetchThrows(kind, requests)
  PROVE  pending' \in Seq(Requests) /\ (pending' = <<>> => stale')
  <1> DEFINE asked == Append(requests, Request("state", NoCell))
  <1>1. Request("state", NoCell) \in Requests
    BY NewGameTyped DEF Request, Requests, Kinds
  <1>2. asked \in Seq(Requests) /\ asked # <<>>
    BY <1>1, AppendProperties
  <1>3. pending' = IF kind = "state" THEN requests ELSE asked
    BY DEF FetchThrows
  <1> HIDE DEF asked
  <1>4. kind = "state" => stale'
    BY Zenon DEF FetchThrows
  <1> QED
    BY <1>2, <1>3, <1>4

LEMMA PageTypedNext == PageTyped /\ [PageNext]_vars => PageTyped'
  <1> SUFFICES ASSUME PageTyped, [PageNext]_vars PROVE PageTyped'
    OBVIOUS
  <1> USE DEF Requests, Replies
  <1>0. /\ TypeOK /\ OnlyTheMoverWins /\ view \in Views /\ aiThinking \in BOOLEAN
        /\ pending \in Seq(Requests) /\ replies \in Seq(Replies)
        /\ resets \in 0..MaxResets /\ stale \in BOOLEAN /\ OkRepliesHaveStates
    BY DEF PageTyped, PageTypeOK
  <1>a. ASSUME [Next]_game PROVE TypeOK' /\ OnlyTheMoverWins'
    BY <1>0, <1>a, TypeOKNext, OnlyTheMoverWinsNext
  <1>b. ASSUME [Next]_game, view' \in Views, aiThinking' \in BOOLEAN, stale' \in BOOLEAN,
               pending' \in Seq(Requests), replies' \in Seq(Replies),
               resets' \in 0..MaxResets, OkRepliesHaveStates'
        PROVE  PageTyped'
    BY <1>a, <1>b DEF PageTyped, PageTypeOK
  <1>c. ASSUME UNCHANGED replies PROVE OkRepliesHaveStates'
    BY <1>0, <1>c DEF OkRepliesHaveStates
  <1>1. CASE UNCHANGED vars
    BY <1>0, <1>1, <1>b, <1>c DEF vars, page
  <1>2. ASSUME NEW c \in Cells, Click(c) PROVE PageTyped'
    <2>1. pending' \in Seq(Requests)
      BY <1>2, RequestTyped DEF Click, Kinds
    <2> QED
      BY <1>0, <1>2, <2>1, <1>b, <1>c DEF Click, page
  <1>3. CASE RequestAiMove
    <2>1. pending' \in Seq(Requests)
      BY <1>3, RequestTyped, NewGameTyped DEF RequestAiMove, Kinds
    <2> QED
      BY <1>0, <1>3, <2>1, <1>b, <1>c DEF RequestAiMove
  <1>4. CASE ResetRemoteBoard
    <2>1. pending' \in Seq(Requests)
      BY <1>4, RequestTyped, NewGameTyped DEF ResetRemoteBoard, Kinds
    <2>2. resets' \in 0..MaxResets
      BY <1>0, <1>4, PageAssumption DEF ResetRemoteBoard
    <2> QED
      BY <1>0, <1>4, <2>1, <2>2, <1>b, <1>c DEF ResetRemoteBoard
  <1>5. ASSUME NEW k \in Kinds, Handle(k) PROVE PageTyped'
    <2>1. PICK i \in 1..Len(pending) : pending' = RemoveAt(pending, i)
      BY <1>5, HandleStep
    <2>2. pending' \in Seq(Requests)
      BY <1>0, <2>1, RemoveAtProperties
    <2>3. PICK r \in Replies : replies' = Append(replies, r) /\ (r.ok => r.state \in Views)
      BY <1>5, HandleStep
    <2>4. /\ replies' \in Seq(Replies) /\ Len(replies') = Len(replies) + 1
          /\ \A j \in 1..Len(replies) : replies'[j] = replies[j]
          /\ replies'[Len(replies) + 1] = r
      BY <1>0, <2>3, AppendProperties
    <2>5. OkRepliesHaveStates'
      BY <1>0, <2>3, <2>4 DEF OkRepliesHaveStates
    <2> QED
      BY <1>0, <1>5, <2>2, <2>4, <2>5, <1>b, HandleStep DEF page
  <1>6. ASSUME NEW i \in 1..Len(replies), ReplyArrives(i) PROVE PageTyped'
    <2>1. replies' \in Seq(Replies) /\ OkRepliesHaveStates'
      BY <1>6, ReplyRemoved DEF ReplyArrives, OkRepliesHaveStates
    <2>2. view' \in Views
      BY <1>0, <1>6, ReplyRemoved DEF ReplyArrives
    <2>3. pending' \in Seq(Requests)
      BY <1>0, <1>6, RequestTyped, NewGameTyped DEF ReplyArrives, Kinds
    <2>4. aiThinking' \in BOOLEAN /\ stale' \in BOOLEAN
      BY <1>0, <1>6, Zenon DEF ReplyArrives
    <2> QED
      BY <1>0, <1>6, <2>1, <2>2, <2>3, <2>4, <1>b DEF ReplyArrives
  <1>7. ASSUME NEW i \in 1..Len(replies), ReplyLost(i) PROVE PageTyped'
    <2>1. replies' \in Seq(Replies) /\ OkRepliesHaveStates'
      BY <1>7, ReplyRemoved DEF ReplyLost, OkRepliesHaveStates
    <2>2. UNCHANGED <<game, resets>> /\ FetchThrows(replies[i].kind, pending)
      BY <1>7 DEF ReplyLost, FetchThrows
    <2>3. pending' \in Seq(Requests) /\ view' \in Views
      BY <1>0, <2>2, RestTyped, NewGameTyped DEF FetchThrows
    <2>4. aiThinking' \in BOOLEAN /\ stale' \in BOOLEAN
      BY <1>0, <2>2, Zenon DEF FetchThrows
    <2> QED
      BY <1>0, <2>1, <2>2, <2>3, <2>4, <1>b
  <1>8. ASSUME NEW i \in 1..Len(pending), RequestLost(i) PROVE PageTyped'
    <2> DEFINE rest == RemoveAt(pending, i)
    <2>1. rest \in Seq(Requests)
      BY <1>0, RemoveAtProperties
    <2>2. UNCHANGED <<game, replies, resets>> /\ FetchThrows(pending[i].kind, rest)
      BY <1>8 DEF RequestLost, FetchThrows
    <2> HIDE DEF rest
    <2>3. pending' \in Seq(Requests) /\ view' \in Views
      BY <1>0, <2>1, <2>2, RestTyped, NewGameTyped DEF FetchThrows
    <2>4. aiThinking' \in BOOLEAN /\ stale' \in BOOLEAN
      BY <1>0, <2>2, Zenon DEF FetchThrows
    <2> QED
      BY <1>0, <2>2, <2>3, <2>4, <1>b, <1>c
  <1>9. CASE SessionLost
    <2>1. [Next]_game /\ resets' \in 0..MaxResets /\ stale' \in BOOLEAN
      BY <1>0, <1>9, PageAssumption DEF SessionLost, Next
    <2> QED
      BY <1>0, <1>9, <2>1, <1>b, <1>c DEF SessionLost, page
  <1> QED
    BY <1>1, <1>2, <1>3, <1>4, <1>5, <1>6, <1>7, <1>8, <1>9 DEF PageNext, ReplyEnds

(* The types of page, requests and replies. *)
THEOREM PageTypeCorrect == PageSpec => []PageTypeOK
  <1>1. PageTyped => PageTypeOK
    BY DEF PageTyped
  <1> QED
    BY <1>1, PageTypedInit, PageTypedNext, PTL DEF PageSpec

-----------------------------------------------------------------------------
(* The page finds back to the server's game. *)

(* As long as nothing was overtaken or lost for good, either a request is  *)
(* still to be handled, or the last reply under way brings the game as it  *)
(* is (or a failure, after which the page asks for it), or the page shows  *)
(* it already.                                                             *)
LastReplyIsNow ==
    LET last == replies[Len(replies)] IN last.ok => last.state = Now

Settled ==
    ~stale => \/ pending # <<>>
              \/ replies # <<>> /\ LastReplyIsNow
              \/ replies = <<>> /\ view = Now

(* Taking away the first reply leaves the last one, or none. *)
LEMMA FirstReplyRemoved ==
  ASSUME PageTyped, 1 \in 1..Len(replies), replies' = RemoveAt(replies, 1)
  PROVE  \/ Len(replies) = 1 /\ replies' = <<>>
         \/ Len(replies) > 1 /\ replies' # <<>> /\ replies'[Len(replies')] = replies[Len(replies)]
  <1>1. replies \in Seq(Replies)
    BY DEF PageTyped, PageTypeOK, Replies
  <1>2. /\ replies' \in Seq(Replies)
        /\ Len(replies') = Len(replies) - 1
        /\ \A j \in 1..Len(replies) - 1 : replies'[j] = replies[IF j < 1 THEN j ELSE j + 1]
    BY <1>1, RemoveAtProperties
  <1>3. CASE Len(replies) = 1
    BY <1>2, <1>3, EmptySeq
  <1>4. CASE Len(replies) > 1
    <2>1. Len(replies) - 1 \in 1..Len(replies) - 1 /\ ~(Len(replies) - 1 < 1)
          /\ (Len(replies) - 1) + 1 = Len(replies)
      BY <1>1, <1>4, LenProperties
    <2>2. replies'[Len(replies')] = replies[Len(replies)]
      BY <1>2, <2>1
    <2> QED
      BY <1>2, <1>4, <2>1, <2>2
  <1>5. Len(replies) = 1 \/ Len(replies) > 1
    <2>1. Len(replies) \in Nat
      BY <1>1, LenProperties
    <2>2. Len(replies) >= 1
      BY <2>1
    <2> DEFINE n == Len(replies)
    <2> HIDE DEF n
    <2>3. n \in Nat /\ n >= 1 => n = 1 \/ n > 1
      OBVIOUS
    <2> QED
      BY <2>1, <2>2, <2>3 DEF n
  <1> QED
    BY <1>3, <1>4, <1>5

LEMMA SettledNext == PageTyped /\ Settled /\ [PageNext]_vars => Settled'
  <1> SUFFICES ASSUME PageTyped, Settled, [PageNext]_vars, ~stale', pending' = <<>>
               PROVE  \/ replies' # <<>> /\ LastReplyIsNow'
                      \/ replies' = <<>> /\ view' = Now'
    BY DEF Settled
  <1>1. CASE UNCHANGED vars
    BY <1>1 DEF vars, game, page, Settled, LastReplyIsNow, Now
  <1>2. ASSUME NEW c \in Cells, Click(c) PROVE FALSE
    BY <1>2, RequestTyped DEF Click, Kinds
  <1>3. CASE RequestAiMove
    BY <1>3, RequestTyped, NewGameTyped DEF RequestAiMove, Kinds
  <1>4. CASE ResetRemoteBoard
    BY <1>4, RequestTyped, NewGameTyped DEF ResetRemoteBoard, Kinds
  <1>5. ASSUME NEW k \in Kinds, Handle(k) PROVE replies' # <<>> /\ LastReplyIsNow'
    <2>1. PICK r \in Replies : replies' = Append(replies, r) /\ (r.ok => r.state = Now')
      BY <1>5, HandleStep
    <2>2. replies \in Seq(Replies)
      BY DEF PageTyped, PageTypeOK, Replies
    <2>3. replies' # <<>> /\ replies'[Len(replies')] = r
      BY <2>1, <2>2, AppendProperties
    <2> QED
      BY <2>1, <2>3 DEF LastReplyIsNow
  <1>6. ASSUME NEW i \in 1..Len(replies), ReplyArrives(i)
        PROVE  \/ replies' # <<>> /\ LastReplyIsNow'
               \/ replies' = <<>> /\ view' = Now'
    <2>1. ~stale /\ i = 1 /\ replies[i].ok /\ view' = replies[i].state /\ UNCHANGED <<game, pending>>
      BY <1>6, RequestTyped, NewGameTyped DEF ReplyArrives, Kinds
    <2>2. replies' = RemoveAt(replies, i) /\ Now' = Now
      BY <1>6, <2>1 DEF ReplyArrives, game, Now
    <2>3. replies # <<>> /\ LastReplyIsNow
      BY <2>1, EmptySeq DEF Settled
    <2> QED
      BY <2>1, <2>2, <2>3, FirstReplyRemoved DEF LastReplyIsNow
  <1>7. ASSUME NEW i \in 1..Len(replies), ReplyLost(i) PROVE FALSE
    <2>1. pending \in Seq(Requests) /\ FetchThrows(replies[i].kind, pending)
      BY <1>7 DEF ReplyLost, FetchThrows, PageTyped, PageTypeOK, Requests
    <2> QED
      BY <2>1, RestTyped
  <1>8. ASSUME NEW i \in 1..Len(pending), RequestLost(i) PROVE FALSE
    <2>1. pending \in Seq(Requests)
      BY DEF PageTyped, PageTypeOK, Requests
    <2> DEFINE rest == RemoveAt(pending, i)
    <2>2. rest \in Seq(Requests)
      BY <2>1, RemoveAtProperties
    <2>3. FetchThrows(pending[i].kind, rest)
      BY <1>8 DEF RequestLost, FetchThrows
    <2> HIDE DEF rest
    <2> QED
      BY <2>2, <2>3, RestTyped
  <1>9. CASE SessionLost
    BY <1>9 DEF SessionLost
  <1> QED
    BY <1>1, <1>2, <1>3, <1>4, <1>5, <1>6, <1>7, <1>8, <1>9 DEF PageNext, ReplyEnds

LEMMA SettledInit == PageInit => Settled
  BY DEF PageInit, Settled

(* The page shows the server's game once nothing is under way, whatever    *)
(* failed on the way there.                                                *)
THEOREM PageFindsBack == PageSpec => []ViewInSync
  <1>1. Settled => ViewInSync
    BY DEF Settled, ViewInSync
  <1> QED
    BY <1>1, PageTypedInit, PageTypedNext, SettledInit, SettledNext, PTL DEF PageSpec

(* Whatever the page sends and loses, the server plays a game of           *)
(* GomokuGame: what is proved of the game holds of the composition.        *)
THEOREM PagePlaysTheGame == PageSpec => Spec
  <1>1. PageInit => Init
    BY DEF PageInit
  <1>2. PageTyped /\ [PageNext]_vars => [Next]_game
    <2> SUFFICES ASSUME PageTyped, [PageNext]_vars PROVE [Next]_game
      OBVIOUS
    <2>1. ASSUME NEW k \in Kinds, Handle(k) PROVE [Next]_game
      BY <2>1, HandleStep
    <2>2. SessionLost => [Next]_game
      BY DEF SessionLost, Next
    <2>3. PageNext /\ ~(\E k \in Kinds : Handle(k)) /\ ~SessionLost => UNCHANGED game
      BY DEF PageNext, Click, RequestAiMove, ResetRemoteBoard, ReplyEnds, ReplyArrives, ReplyLost,
             RequestLost, FetchThrows
    <2> QED
      BY <2>1, <2>2, <2>3 DEF vars
  <1> QED
    BY <1>1, <1>2, PageTypedInit, PageTypedNext, PTL DEF PageSpec, Spec

(* So the rules are kept behind any page: no move out of turn, and the     *)
(* winner a page is told of is the winner.                                 *)
THEOREM PageRulesKept == PageSpec => []RulesKept
  <1>1. AlternateMoves /\ WinnerIsRight => RulesKept
    BY DEF RulesKept
  <1> QED
    BY <1>1, PagePlaysTheGame, WinnerFound, MovesAlternate, PTL

=============================================================================
