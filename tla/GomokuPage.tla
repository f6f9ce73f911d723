----------------------------- MODULE GomokuPage -----------------------------
(***************************************************************************)
(* A game and the page that plays it: GomokuGame with the browser's state  *)
(* (AIApps/GomokuServer/resource/gomoku.js) and the requests and replies   *)
(* between them.  They travel on several connections: requests may be      *)
(* handled in any order, replies may arrive in any order or not at all.    *)
(***************************************************************************)
EXTENDS GomokuGame, Sequences, SequencesExt

CONSTANTS MaxPending,     \* bound: requests and replies under way
          MaxResets       \* bound: resets and lost sessions

ASSUME PageAssumption == MaxPending \in Nat /\ MaxResets \in Nat

VARIABLES
    view,              \* state.board, currentTurn, gameOver and winner
    aiThinking,        \* state.aiThinking
    pending,           \* requests sent and not handled, in any order
    replies,           \* replies not yet arrived, in the order of handling
    resets,            \* new games so far
    stale              \* a reply was overtaken, a state reply, a state
                       \* request or the session was lost (history)

page == <<view, aiThinking>>
vars == <<game, page, pending, replies, resets, stale>>

NewGame == Snapshot(EmptyBoard, Black)
Request(kind, cell) == [kind |-> kind, cell |-> cell]
Reply(kind, ok, state) == [kind |-> kind, ok |-> ok, state |-> state]
NoCell == <<0, 0>>
Message == [message |-> "error"]
Kinds == {"move", "ai", "reset", "state"}

(* The page asks for the state when it is loaded. *)
PageInit ==
    /\ Init
    /\ view = NewGame
    /\ aiThinking = FALSE
    /\ pending = <<Request("state", NoCell)>>
    /\ replies = <<>>
    /\ resets = 0
    /\ stale = FALSE

Room == Len(pending) + Len(replies) < MaxPending

(* A click on the board: sendMove, as long as the page thinks it is        *)
(* Black's turn.  The cell need not be empty, nor the last click answered. *)
Click(c) ==
    /\ ~view.gameOver
    /\ view.currentTurn = Black
    /\ Room
    /\ pending' = Append(pending, Request("move", c))
    /\ UNCHANGED <<game, page, replies, resets, stale>>

(* The AI button. *)
RequestAiMove ==
    /\ ~view.gameOver
    /\ view.currentTurn = White
    /\ ~aiThinking
    /\ Room
    /\ aiThinking' = TRUE
    /\ pending' = Append(pending, Request("ai", NoCell))
    /\ UNCHANGED <<game, view, replies, resets, stale>>

(* The start and reset buttons. *)
ResetRemoteBoard ==
    /\ Room
    /\ resets < MaxResets
    /\ resets' = resets + 1
    /\ aiThinking' = FALSE
    /\ pending' = Append(pending, Request("reset", NoCell))
    /\ UNCHANGED <<game, view, replies, stale>>

-----------------------------------------------------------------------------
Answer(r) ==
    replies' = Append(replies, Reply(r.kind, TRUE, Snapshot(board_', currentPlayer_')))

AnswerFailure(r) == replies' = Append(replies, Reply(r.kind, FALSE, Message))

(* A move that ends the game leaves the turn, any other passes it: in both *)
(* cases the reply is the game as it is after the handler.  GameOver is    *)
(* computed before the switch, for the player who has moved.               *)
AnswerMove(r) ==
    replies' = Append(replies, Reply(r.kind, TRUE,
        [Snapshot(board_', currentPlayer_) EXCEPT !.currentTurn = currentPlayer_']))

Handle(kind) ==
    \E i \in 1..Len(pending) :
       LET r == pending[i] IN
       /\ r.kind = kind
       /\ \/ r.kind = "move"  /\ Move(r.cell) /\ AnswerMove(r)
          \/ r.kind = "move"  /\ MoveRefused(r.cell) /\ AnswerFailure(r)
          \/ r.kind = "ai"    /\ AIMove /\ AnswerMove(r)
          \/ r.kind = "ai"    /\ AIRefused /\ AnswerFailure(r)
          \/ r.kind = "reset" /\ ResetGame /\ Answer(r)
          \/ r.kind = "state" /\ UNCHANGED game /\ Answer(r)
       /\ pending' = RemoveAt(pending, i)
       /\ UNCHANGED <<page, resets, stale>>

(* The session expires: the next request finds a new game in boardMap.     *)
SessionLost ==
    /\ resets < MaxResets
    /\ resets' = resets + 1
    /\ ResetGame
    /\ stale' = TRUE
    /\ UNCHANGED <<page, pending, replies>>

(* Fault: response.ok is not looked at. *)
ReplyArrivesUnchecked(i) ==
    LET r == replies[i] IN
    /\ replies' = RemoveAt(replies, i)
    /\ stale' = (stale \/ i # 1)
    /\ aiThinking' = (aiThinking /\ r.kind # "ai")
    /\ view' = r.state
    /\ UNCHANGED <<game, pending, resets>>

(* A reply arrives.  After a failed move or AI move the page asks for the  *)
(* state.                                                                  *)
ReplyArrives(i) ==
    LET r == replies[i] IN
    /\ replies' = RemoveAt(replies, i)
    /\ stale' = (stale \/ i # 1)
    /\ aiThinking' = (aiThinking /\ r.kind # "ai")
    /\ IF r.ok
       THEN view' = r.state /\ UNCHANGED pending
       ELSE pending' = Append(pending, Request("state", NoCell)) /\ UNCHANGED view
    /\ UNCHANGED <<game, resets>>

(* Fault: a failed fetch is only logged. *)
FetchThrowsIgnored(kind, requests) ==
    /\ aiThinking' = (aiThinking /\ kind \notin {"ai", "reset"})
    /\ pending' = requests
    /\ stale' = (stale \/ kind = "state")
    /\ UNCHANGED <<game, view, resets>>

(* Fault: the thinking flag is cleared on success only. *)
FetchThrowsThinking(kind, requests) ==
    /\ pending' = IF kind = "state" THEN requests
                  ELSE Append(requests, Request("state", NoCell))
    /\ stale' = (stale \/ kind = "state")
    /\ UNCHANGED <<game, page, resets>>

(* fetch throws: the page asks for the state; a reset clears the page's    *)
(* board first, and a failed requestState is only logged.                  *)
FetchThrows(kind, requests) ==
    /\ aiThinking' = (aiThinking /\ kind \notin {"ai", "reset"})
    /\ view' = IF kind = "reset" THEN NewGame ELSE view
    /\ pending' = IF kind = "state" THEN requests
                  ELSE Append(requests, Request("state", NoCell))
    /\ stale' = (stale \/ kind = "state")
    /\ UNCHANGED <<game, resets>>

(* The connection breaks after the request was handled, or before.         *)
ReplyLost(i) ==
    replies' = RemoveAt(replies, i) /\ FetchThrows(replies[i].kind, pending)

RequestLost(i) ==
    FetchThrows(pending[i].kind, RemoveAt(pending, i)) /\ UNCHANGED replies

ReplyEnds(kind) ==
    \E i \in 1..Len(replies) :
       replies[i].kind = kind /\ (ReplyArrives(i) \/ ReplyLost(i))

PageNext ==
    \/ \E c \in Cells : Click(c)
    \/ RequestAiMove
    \/ ResetRemoteBoard
    \/ \E k \in Kinds : Handle(k) \/ ReplyEnds(k)
    \/ \E i \in 1..Len(pending) : RequestLost(i)
    \/ SessionLost

(* An AI request is handled unless it is lost, whatever else the page      *)
(* sends (the calls of the model time out after 120 s), and its reply      *)
(* arrives or is found lost.                                               *)
PageFairness == WF_vars(Handle("ai")) /\ WF_vars(ReplyEnds("ai"))

PageSpec == PageInit /\ [][PageNext]_vars /\ PageFairness

-----------------------------------------------------------------------------
Views == [board : [Cells -> 0..2], currentTurn : {Black, White},
          gameOver : BOOLEAN, winner : 0..2]
PageTypeOK ==
    /\ view \in Views
    /\ aiThinking \in BOOLEAN
    /\ pending \in Seq([kind : Kinds, cell : Cells])
    /\ replies \in Seq([kind : Kinds, ok : BOOLEAN, state : Views \union {Message}])
    /\ resets \in 0..MaxResets
    /\ stale \in BOOLEAN

(* The page shows the server's game once nothing is under way, though      *)
(* requests and replies are lost, fail and overlap, as long as no reply    *)
(* overtook another and no fetch of the state threw.                       *)
ViewInSync ==
    pending = <<>> /\ replies = <<>> /\ ~stale => view = Now

(* The AI button comes back: the thinking flag does not outlive a lost or  *)
(* failed answer.                                                          *)
ThinkingEnds == aiThinking ~> ~aiThinking
=============================================================================
