------------------------------ MODULE ChatPage ------------------------------
(***************************************************************************)
(* The chat page (AIApps/ChatServer/resource/AI.html:285-456) in one       *)
(* browser tab.  Its handlers are async functions: each runs to its await, *)
(* and continues when the answer of its fetch arrives, with whatever the   *)
(* other handlers have made of the page's variables in the meantime.       *)
(*                                                                         *)
(* The server's side is the chat log the handlers of ChatServer keep per   *)
(* session; requests reach it, and their answers return, in any order.  A  *)
(* request or an answer may be lost, which is the catch of each handler,   *)
(* and a chat may fail on the server, which the page shows in the same way.*)
(***************************************************************************)
EXTENDS Naturals, Sequences, FiniteSets, SequencesExt

CONSTANTS Sessions,       \* session ids
          Listed,         \* sessions the user has when the page loads
          MaxQuestions,   \* bound: questions asked
          MaxVisits,      \* bound: clicks on sessions, new chat and sync
          MaxFaults       \* bound: lost requests and answers, failed chats

Null == "null"
Temp == "temp"

ASSUME PageAssumption ==
    /\ Listed \subseteq Sessions
    /\ {Null, Temp} \intersect Sessions = {}
    /\ MaxQuestions \in Nat /\ MaxVisits \in Nat /\ MaxFaults \in Nat

VARIABLES
    currentSessionId, tempSession,
    sessions,     \* sessions[id].messages of the ids in the list
    view,         \* chatContainer
    calls,        \* fetches under way
    log,          \* the server: texts of each session, in order
    asked,        \* questions so far, which numbers them
    visits, faults,
    unanswered,   \* questions whose fetch failed (history)
    halved,       \* sessions with a question the server kept without an
                  \* answer (history)
    undisturbed   \* no handler has started while another one waited, and
                  \* no fetch of a history or of the list failed (history)

page == <<currentSessionId, tempSession, sessions, view>>
counters == <<asked, visits, faults>>
pageVars == <<page, calls, log, counters, unanswered, halved, undisturbed>>

(* What was said about question n, and a bubble showing it.                *)
Question(n) == <<"question", n>>
Reply(n)    == <<"answer", n>>
Excuse(n)   == <<"error", n>>
User(text)  == [role |-> "user", text |-> text]
Assistant(text) == [role |-> "assistant", text |-> text]

(* ChatHistoryHandler: roles go by position. *)
History(texts) ==
    [i \in DOMAIN texts |-> IF i % 2 = 1 THEN User(texts[i]) ELSE Assistant(texts[i])]

(* The chats the user already has hold the exchange number 0. *)
PageInit ==
    /\ currentSessionId = Null
    /\ tempSession = FALSE
    /\ sessions = <<>>
    /\ view = <<>>
    /\ calls = {[kind |-> "load", id |-> Null, n |-> 0, at |-> "out", got |-> <<>>]}
    /\ log = [s \in Listed |-> <<Question(0), Reply(0)>>]
    /\ asked = 0
    /\ visits = 0
    /\ faults = 0
    /\ unanswered = {}
    /\ halved = {}
    /\ undisturbed = TRUE

Fetch(kind, id, n) ==
    calls' = calls \union {[kind |-> kind, id |-> id, n |-> n, at |-> "out", got |-> <<>>]}

(* A handler starts. *)
Starts == undisturbed' = (undisturbed /\ calls = {})

Click ==
    /\ visits < MaxVisits
    /\ visits' = visits + 1
    /\ Starts
    /\ UNCHANGED <<log, halved, asked, faults, unanswered>>

-----------------------------------------------------------------------------
(* switchSession down to its await; a session with messages has none. *)
SwitchSession(id) ==
    /\ Click
    /\ id \in DOMAIN sessions
    /\ currentSessionId' = id
    /\ tempSession' = FALSE
    /\ IF sessions[id] = <<>>
       THEN view' = <<>> /\ Fetch("switch", id, visits)
       ELSE view' = sessions[id] /\ UNCHANGED calls
    /\ UNCHANGED sessions

(* Fault: the old chat stays in sight. *)
NewChatKeepsView ==
    /\ Click
    /\ currentSessionId' = Temp
    /\ tempSession' = TRUE
    /\ UNCHANGED <<sessions, view, calls>>

NewChat ==
    /\ Click
    /\ currentSessionId' = Temp
    /\ tempSession' = TRUE
    /\ view' = <<>>
    /\ UNCHANGED <<sessions, calls>>

Sync ==
    /\ Click
    /\ currentSessionId # Null
    /\ ~tempSession
    /\ Fetch("sync", currentSessionId, visits)
    /\ UNCHANGED page

(* The submit handler down to its await. *)
Submit ==
    /\ asked < MaxQuestions
    /\ asked' = asked + 1
    /\ view' = Append(view, User(Question(asked')))
    /\ IF tempSession
       THEN Fetch("new", Temp, asked') /\ UNCHANGED sessions
       ELSE /\ currentSessionId \in DOMAIN sessions
            /\ sessions' = [sessions EXCEPT ![currentSessionId] =
                                Append(@, User(Question(asked')))]
            /\ Fetch("send", currentSessionId, asked')
    /\ Starts
    /\ UNCHANGED <<currentSessionId, tempSession, log, halved, visits, faults, unanswered>>

(* With no session chosen (null) sessions[currentSessionId] is undefined:  *)
(* the bubble stays and nothing is sent.                                   *)
SubmitNowhere ==
    /\ asked < MaxQuestions
    /\ ~tempSession
    /\ currentSessionId \notin DOMAIN sessions
    /\ asked' = asked + 1
    /\ view' = Append(view, User(Question(asked')))
    /\ unanswered' = unanswered \union {asked'}
    /\ Starts
    /\ UNCHANGED <<currentSessionId, tempSession, sessions, calls, log, halved, visits, faults>>

-----------------------------------------------------------------------------
(* The server and the network, external to the page. *)
Advance(c, d) == calls' = (calls \ {c}) \union {d}

ServerAsks(c) ==
    /\ c.at = "out"
    /\ c.kind \in {"send", "new"}
    /\ \E id \in Sessions :
          /\ IF c.kind = "send" THEN id = c.id ELSE id \notin DOMAIN log
          /\ log' = [s \in DOMAIN log \union {id} |->
                        IF s # id THEN log[s]
                        ELSE Append(IF s \in DOMAIN log THEN log[s] ELSE <<>>, Question(c.n))]
          /\ Advance(c, [c EXCEPT !.id = id, !.at = "asked"])
    /\ UNCHANGED <<page, counters, unanswered, halved, undisturbed>>

ServerAnswers(c) ==
    /\ c.at = "asked"
    /\ log' = [log EXCEPT ![c.id] = Append(@, Reply(c.n))]
    /\ Advance(c, [c EXCEPT !.at = "back"])
    /\ UNCHANGED <<page, counters, unanswered, halved, undisturbed>>

(* The provider, or publishing, throws out of chat() when the question, or *)
(* the prompt made of it, is in the log: it stays, and the answer is a 400.*)
ServerFails(c) ==
    /\ c.at = "asked"
    /\ faults < MaxFaults
    /\ faults' = faults + 1
    /\ halved' = halved \union {c.id}
    /\ Advance(c, [c EXCEPT !.at = "lost"])
    /\ UNCHANGED <<page, log, asked, visits, unanswered, undisturbed>>

ServerReads(c) ==
    /\ c.at = "out"
    /\ \/ /\ c.kind \in {"switch", "sync"}
          /\ Advance(c, [c EXCEPT !.at = "back", !.got = History(log[c.id])])
       \/ /\ c.kind = "load"
          /\ Advance(c, [c EXCEPT !.at = "back", !.got = <<DOMAIN log>>])
    /\ UNCHANGED <<page, log, counters, unanswered, halved, undisturbed>>

(* The request never arrives, or its answer does not, or chat() throws     *)
(* before it has kept anything or after it has kept the answer.            *)
Loses(c) ==
    /\ c.at \in {"out", "back"}
    /\ faults < MaxFaults
    /\ faults' = faults + 1
    /\ Advance(c, [c EXCEPT !.at = "lost"])
    /\ UNCHANGED <<page, log, asked, visits, unanswered, halved, undisturbed>>

-----------------------------------------------------------------------------
(* The handlers continue. *)
Continue(c, at) ==
    /\ c \in calls
    /\ c.at = at
    /\ calls' = calls \ {c}
    /\ UNCHANGED <<log, halved, counters>>

(* switchSession: the history becomes sessions[id], and sessions[id] is    *)
(* shown, whichever session is current by now.                             *)
Switched(c) ==
    /\ c.kind = "switch"
    /\ \/ Continue(c, "back") /\ sessions' = [sessions EXCEPT ![c.id] = c.got]
          /\ UNCHANGED undisturbed
       \/ Continue(c, "lost") /\ undisturbed' = FALSE /\ UNCHANGED sessions
    /\ view' = view \o sessions'[c.id]
    /\ UNCHANGED <<currentSessionId, tempSession, unanswered>>

(* Fault: the bubbles are not cleared first. *)
SyncedTwice(c) ==
    /\ c.kind = "sync"
    /\ UNCHANGED <<currentSessionId, tempSession, unanswered>>
    /\ \/ /\ Continue(c, "back")
          /\ view' = view \o c.got
          /\ IF currentSessionId \in DOMAIN sessions
             THEN sessions' = [sessions EXCEPT ![currentSessionId] = c.got]
             ELSE UNCHANGED sessions
          /\ UNCHANGED undisturbed
       \/ /\ Continue(c, "lost")
          /\ undisturbed' = FALSE
          /\ UNCHANGED <<sessions, view>>

(* Sync: the history replaces the messages of the session that is current  *)
(* by now; if there is none the handler throws before it clears the view.  *)
Synced(c) ==
    /\ c.kind = "sync"
    /\ UNCHANGED <<currentSessionId, tempSession, unanswered>>
    /\ \/ /\ Continue(c, "back")
          /\ IF currentSessionId \in DOMAIN sessions
             THEN /\ view' = c.got
                  /\ sessions' = [sessions EXCEPT ![currentSessionId] = c.got]
             ELSE UNCHANGED <<sessions, view>>
          /\ UNCHANGED undisturbed
       \/ /\ Continue(c, "lost")
          /\ undisturbed' = FALSE
          /\ UNCHANGED <<sessions, view>>

(* The answer of a chat that is listed already. *)
Answered(c) ==
    /\ c.kind = "send"
    /\ Continue(c, "back")
    /\ IF currentSessionId \in DOMAIN sessions
       THEN /\ view' = Append(view, Assistant(Reply(c.n)))
            /\ sessions' = [sessions EXCEPT ![currentSessionId] =
                                Append(@, Assistant(Reply(c.n)))]
       ELSE \* thrown and caught after the answer was shown
            /\ view' = view \o <<Assistant(Reply(c.n)), Assistant(Excuse(c.n))>>
            /\ UNCHANGED sessions
    /\ UNCHANGED <<currentSessionId, tempSession, unanswered, undisturbed>>

(* The first answer of a new chat. *)
AnsweredNew(c) ==
    /\ c.kind = "new"
    /\ Continue(c, "back")
    /\ sessions' = [s \in DOMAIN sessions \union {c.id} |->
                       IF s = c.id THEN <<User(Question(c.n)), Assistant(Reply(c.n))>>
                                   ELSE sessions[s]]
    /\ currentSessionId' = c.id
    /\ tempSession' = FALSE
    /\ view' = Append(view, Assistant(Reply(c.n)))
    /\ UNCHANGED <<unanswered, undisturbed>>

(* Fault: a failed new chat is entered under the id it has so far. *)
UnansweredEntered(c) ==
    /\ c.kind \in {"send", "new"}
    /\ Continue(c, "lost")
    /\ view' = Append(view, Assistant(Excuse(c.n)))
    /\ unanswered' = unanswered \union {c.n}
    /\ sessions' = [s \in DOMAIN sessions \union {currentSessionId} |->
                       IF s \in DOMAIN sessions THEN sessions[s] ELSE <<>>]
    /\ UNCHANGED <<currentSessionId, tempSession, undisturbed>>

Unanswered(c) ==
    /\ c.kind \in {"send", "new"}
    /\ Continue(c, "lost")
    /\ view' = Append(view, Assistant(Excuse(c.n)))
    /\ unanswered' = unanswered \union {c.n}
    /\ UNCHANGED <<currentSessionId, tempSession, sessions, undisturbed>>

(* loadSessions: each session of the list starts without messages. *)
Loaded(c) ==
    /\ c.kind = "load"
    /\ \/ /\ Continue(c, "back")
          /\ sessions' = [s \in DOMAIN sessions \union c.got[1] |->
                             IF s \in c.got[1] THEN <<>> ELSE sessions[s]]
          /\ UNCHANGED undisturbed
       \/ Continue(c, "lost") /\ undisturbed' = FALSE /\ UNCHANGED sessions
    /\ UNCHANGED <<currentSessionId, tempSession, view, unanswered>>

UserStep ==
    \/ \E id \in Sessions : SwitchSession(id)
    \/ NewChat
    \/ Sync
    \/ Submit
    \/ SubmitNowhere

ServerStep ==
    \E c \in calls : \/ ServerAsks(c)
                     \/ ServerAnswers(c)
                     \/ ServerFails(c)
                     \/ ServerReads(c)
                     \/ Loses(c)

PageStep ==
    \E c \in calls : \/ Switched(c)
                     \/ Synced(c)
                     \/ Answered(c)
                     \/ AnsweredNew(c)
                     \/ Unanswered(c)
                     \/ Loaded(c)

PageNext == UserStep \/ ServerStep \/ PageStep

PageSpec == PageInit /\ [][PageNext]_pageVars

-----------------------------------------------------------------------------
Texts == {"question", "answer", "error"} \X (0..MaxQuestions)
Bubbles == [role : {"user", "assistant"}, text : Texts]

(* Types of the variables. *)
PageTypeOK ==
    /\ currentSessionId \in Sessions \union {Null, Temp}
    /\ tempSession \in BOOLEAN
    /\ tempSession => currentSessionId \notin {Null}
    /\ DOMAIN sessions \subseteq DOMAIN log
    /\ \A s \in DOMAIN sessions : sessions[s] \in Seq(Bubbles)
    /\ view \in Seq(Bubbles)
    /\ \A s \in DOMAIN log : log[s] \in Seq(Texts)
    /\ halved \subseteq DOMAIN log
    /\ undisturbed \in BOOLEAN

(* Bubbles that are the same, their roles only where roles are sure. *)
Same(a, b, sure) == a.text = b.text /\ (sure => a.role = b.role)

(* Two rows of bubbles agree when they are the same but for the questions  *)
(* in but: as many others, and those of equal rank among them the same.    *)
Rank(bubbles, i, but) == Cardinality({j \in 1..i : bubbles[j].text[2] \notin but})

Agree(s, t, but, sure) ==
    /\ Rank(s, Len(s), but) = Rank(t, Len(t), but)
    /\ \A i \in 1..Len(s), j \in 1..Len(t) :
          s[i].text[2] \notin but /\ t[j].text[2] \notin but =>
             (Rank(s, i, but) = Rank(t, j, but) => Same(s[i], t[j], sure))

InSession == currentSessionId \in DOMAIN sessions /\ ~tempSession

(* A user who waits for each answer before the next click sees the chat as *)
(* the server holds it, whatever was clicked before and whichever requests *)
(* were lost or chats failed, failed questions aside; and who said what,   *)
(* unless the server kept a question without an answer: ChatHistoryHandler *)
(* goes by position, so from then on it turns the roles round.             *)
PatientUserSeesTheChat ==
    undisturbed /\ calls = {} /\ InSession =>
       Agree(view, History(log[currentSessionId]), unanswered, currentSessionId \notin halved)

(* ... and so will every session kept by the page when it is opened.       *)
PatientUserKeepsTheChats ==
    undisturbed /\ calls = {} =>
       \A s \in DOMAIN sessions :
          sessions[s] # <<>> => Agree(sessions[s], History(log[s]), unanswered, s \notin halved)

(* What a patient user sees, now or later, is what was said.               *)
PatientUser == PatientUserSeesTheChat /\ PatientUserKeepsTheChats

(* A patient user's new chat starts in an empty window and holds only      *)
(* questions that were not answered.                                       *)
NewChatStartsEmpty ==
    undisturbed /\ calls = {} /\ tempSession =>
       \A i \in 1..Len(view) : view[i].text[2] \in unanswered
=============================================================================
