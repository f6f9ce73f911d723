---------------------------- MODULE ChatPipeline ----------------------------
(***************************************************************************)
(* Conversations over the life of several server processes: chatInformation*)
(* and sessionsIdsMap of ChatServer, the handlers that create, list, read  *)
(* and continue a conversation, the SQL queue they write to, and the       *)
(* restore from MySQL at the start of a process (ChatServer.cpp, handlers/,*)
(* aiappmain/AiApp.cpp).                                                   *)
(*                                                                         *)
(* A conversation is named by its user and session id, the two keys of     *)
(* chatInformation.  The write path is its abstract specification SqlLog,  *)
(* which MessageQueue implements: statements are accepted and stored, or   *)
(* stored twice after a redelivery (that a statement is forgotten once it  *)
(* is acknowledged is left out).  chat() is taken at the grain of          *)
(* addMessage; AIHelper models it access by access.  The tool protocol is  *)
(* one prompt pushed and popped.  The clock counts milliseconds and does   *)
(* not go back.                                                            *)
(***************************************************************************)
EXTENDS Naturals, Sequences, FiniteSets

CONSTANTS Users,
          Ids,             \* session ids
          Requests,        \* calls of /chat/send and /chat/send-new-session
          None,            \* no conversation
          MaxTime,         \* bound: milliseconds
          MaxRestarts,     \* bound: starts of the server after the first
          MaxFaults        \* bound: failing publishes, model calls and queries

Keys == Users \X Ids

ASSUME PipelineAssumption ==
    /\ None \notin Keys
    /\ MaxTime \in Nat
    /\ MaxRestarts \in Nat
    /\ MaxFaults \in Nat

VARIABLES
    helpers,         \* conversations in chatInformation
    messages,        \* AIHelper::messages of each
    sessionsIdsMap,  \* the ids a user's session list shows, in order
    pc,              \* where each request is
    key,             \* its conversation
    unread,          \* rows of the restoring query that are still to be read
    now,             \* system_clock, in ms
    declared,        \* some worker has declared sql_queue
    accepted, stored,               \* SqlLog
    doubled,         \* statements that were executed twice
    known,           \* ids each user's page has got from the server
    restarts, faults,
    said,            \* all that was added to each conversation, ever (history)
    cut,             \* conversations with a chat that failed, was cut off by
                     \* a restart, or overlapped (history)
    disturbed,       \* those with an overlap, a message that was never
                     \* accepted, or one restored twice (history)
    tied,            \* those restored with two messages of one ms (history)
    missing,         \* those with rows this process did not find (history)
    unsaid           \* those a page knew when this process began, though
                     \* nothing had been said in them (history)

process  == <<helpers, messages, sessionsIdsMap>>
requestVars == <<pc, key, unread>>
logVars  == <<accepted, stored>>
world    == <<now, declared, known>>
bounds   == <<restarts, faults>>
excuses  == <<cut, disturbed, tied, missing, unsaid>>
history  == <<said, excuses>>
vars == <<process, requestVars, logVars, doubled, world, bounds, history>>

Statement(k, role, r) == [key |-> k, role |-> role, req |-> r, ts |-> now]
Statements == [key : Keys, role : {"user", "ai"}, req : Requests, ts : Nat]
Log == INSTANCE SqlLog WITH waiting <- accepted

InChat == {"ready", "asked", "prompted", "answering"}
Chatting(k) == {r \in Requests : key[r] = k /\ pc[r] \in InChat \union {"listing"}}
Goto(r, p) == pc' = [pc EXCEPT ![r] = p]

(* main calls initChatMessage before it starts the workers and the server. *)
Serving == unread = {}

(* mutexForChatInformation is held over a step of a creating request only. *)
MutexFree == Serving /\ \A r \in Requests : pc[r] # "listing"

Listed(u) == {sessionsIdsMap[u][i] : i \in 1..Len(sessionsIdsMap[u])}

Init ==
    /\ helpers = {}
    /\ messages = [k \in Keys |-> <<>>]
    /\ sessionsIdsMap = [u \in Users |-> <<>>]
    /\ pc = [r \in Requests |-> "idle"]
    /\ key = [r \in Requests |-> None]
    /\ unread = {}
    /\ now = 0
    /\ declared \in BOOLEAN          \* durable: an earlier run may have done it
    /\ accepted = {} /\ stored = {}
    /\ doubled = {}
    /\ known = [u \in Users |-> {}]
    /\ restarts = 0
    /\ faults = 0
    /\ said = [k \in Keys |-> <<>>]
    /\ cut = {} /\ disturbed = {} /\ tied = {} /\ missing = {} /\ unsaid = {}

-----------------------------------------------------------------------------
(* The handlers find or make the helper under mutexForChatInformation.     *)

(* Request r begins to use conversation k: an overlap if another one does. *)
Enter(r, k, p) ==
    /\ key' = [key EXCEPT ![r] = k]
    /\ Goto(r, p)
    /\ UNCHANGED unread
    /\ LET both == IF Chatting(k) = {} THEN {} ELSE {k} IN
       /\ cut' = cut \union both
       /\ disturbed' = disturbed \union both

(* ChatSendHandler: a helper the server does not have is made, and is not  *)
(* put on the session list.  A page sends with ids it got from the server, *)
(* maybe from an earlier process.                                          *)
Find(r, k) ==
    /\ pc[r] = "idle"
    /\ MutexFree
    /\ k[2] \in known[k[1]]
    /\ helpers' = helpers \union {k}
    /\ Enter(r, k, "ready")
    /\ UNCHANGED <<messages, sessionsIdsMap, logVars, doubled, world, bounds, said, tied, missing, unsaid>>

(* Fault: the id is listed before there is a helper for it. *)
EmplaceListsFirst(r, k) ==
    /\ pc[r] = "idle"
    /\ MutexFree
    /\ sessionsIdsMap' = [sessionsIdsMap EXCEPT ![k[1]] = Append(@, k[2])]
    /\ Enter(r, k, "ready")
    /\ UNCHANGED <<helpers, messages, logVars, doubled, world, bounds, said, tied, missing, unsaid>>

(* ChatCreateAndSendHandler: generate() draws an id, which may be one that *)
(* is in use, and only a new one is going to be listed.                    *)
Emplace(r, k) ==
    /\ pc[r] = "idle"
    /\ MutexFree
    /\ helpers' = helpers \union {k}
    /\ Enter(r, k, IF k \in helpers THEN "ready" ELSE "listing")
    /\ UNCHANGED <<messages, sessionsIdsMap, logVars, doubled, world, bounds, said, tied, missing, unsaid>>

(* sessionsIdsMap[userId].push_back, the mutex still being held. *)
PushId(r) ==
    /\ pc[r] = "listing"
    /\ sessionsIdsMap' = [sessionsIdsMap EXCEPT ![key[r][1]] = Append(@, key[r][2])]
    /\ Goto(r, "ready")
    /\ UNCHANGED <<helpers, messages, key, unread, logVars, doubled, world, bounds, history>>

(* ChatHistoryHandler makes a helper too. *)
History(k) ==
    /\ MutexFree
    /\ k[2] \in known[k[1]]
    /\ helpers' = helpers \union {k}
    /\ UNCHANGED <<messages, sessionsIdsMap, requestVars, logVars, doubled, world, bounds, history>>

(* The ids a request is about to push, or pushing, for u. *)
Pushing(u) == {key[r][2] : r \in {q \in Requests : pc[q] = "listing" /\ key[q][1] = u}}

(* ChatSessionsHandler holds mutexForSessionsId, which nobody else takes:  *)
(* it may copy the list in the middle of a creation, and a copy made while *)
(* an id is pushed is a data race: it may miss ids or have the new one.    *)
ListSessions(u) ==
    /\ Serving
    /\ \E copy \in SUBSET (Listed(u) \union Pushing(u)) :
          /\ Pushing(u) = {} => copy = Listed(u)
          /\ known' = [known EXCEPT ![u] = @ \union copy]
    /\ UNCHANGED <<process, requestVars, logVars, doubled, now, declared, bounds, history>>

-----------------------------------------------------------------------------
(* chat() *)

(* chat() is left, by return or by exception.                             *)
Leave(r) == Goto(r, "done") /\ key' = [key EXCEPT ![r] = None]

(* chat() goes on, or has returned: the answer names the conversation.     *)
Proceed(r, next) ==
    IF next = "done"
    THEN /\ Leave(r)
         /\ known' = [known EXCEPT ![key[r][1]] = @ \union {key[r][2]}]
    ELSE /\ Goto(r, next)
         /\ UNCHANGED <<key, known>>

(* addMessage appends a message with the time and publishes it; publish    *)
(* returns when the broker has it, or has dropped it because there is no   *)
(* queue yet, or throws out of chat().                                     *)
AddMessage(r, old, role, next) ==
    LET m == Statement(key[r], role, r) IN
    /\ messages' = [messages EXCEPT ![key[r]] = Append(old, m)]
    /\ said' = [said EXCEPT ![key[r]] = Append(@, m)]
    /\ \/ /\ declared
          /\ Log!Accept(m)
          /\ Proceed(r, next)
          /\ UNCHANGED <<faults, cut, disturbed>>
       \/ /\ ~declared
          /\ Proceed(r, next)
          /\ disturbed' = disturbed \union {key[r]}
          /\ UNCHANGED <<logVars, faults, cut>>
       \/ /\ faults < MaxFaults
          /\ faults' = faults + 1
          /\ Leave(r)
          /\ cut' = cut \union {key[r]}
          /\ disturbed' = disturbed \union {key[r]}
          /\ UNCHANGED <<logVars, known>>
    /\ UNCHANGED <<helpers, sessionsIdsMap, unread, doubled, now, declared, restarts,
                   tied, missing, unsaid>>

(* A plain model: the question is added first. *)
Ask(r) ==
    /\ pc[r] = "ready"
    /\ AddMessage(r, messages[key[r]], "user", "asked")

(* The answer comes over the network: in a later millisecond. *)
Answer(r) ==
    /\ pc[r] = "asked"
    /\ \A m \in accepted : m.req = r => m.ts < now
    /\ AddMessage(r, messages[key[r]], "ai", "done")

(* A model with tools: the prompt is in messages while it is asked.        *)
PushPrompt(r) ==
    /\ pc[r] = "ready"
    /\ messages' = [messages EXCEPT ![key[r]] = Append(@, Statement(key[r], "prompt", r))]
    /\ Goto(r, "prompted")
    /\ UNCHANGED <<helpers, sessionsIdsMap, key, unread, logVars, doubled, world, bounds, history>>

AllButLast(s) == IF s = <<>> THEN <<>> ELSE SubSeq(s, 1, Len(s) - 1)

(* Fault: the prompt is left in the conversation. *)
AnswerWithPrompt(r) ==
    /\ pc[r] = "prompted"
    /\ AddMessage(r, messages[key[r]], "user", "answering")

(* pop_back, then question and answer are added one right after the other. *)
PopPrompt(r) ==
    /\ pc[r] = "prompted"
    /\ AddMessage(r, AllButLast(messages[key[r]]), "user", "answering")

AddAnswer(r) ==
    /\ pc[r] = "answering"
    /\ AddMessage(r, messages[key[r]], "ai", "done")

(* The call of the model throws out of chat(): 400 to the page. *)
CallThrows(r) ==
    /\ pc[r] \in {"asked", "prompted"}
    /\ faults < MaxFaults
    /\ faults' = faults + 1
    /\ Leave(r)
    /\ cut' = cut \union {key[r]}
    /\ UNCHANGED <<process, unread, logVars, doubled, world, restarts, said, disturbed, tied, missing, unsaid>>

(* Before anything is said: the factory does not know the model, or there  *)
(* is no key for it or no configuration.  The id stays listed, and the     *)
(* helper stays.                                                           *)
CreateThrows(r) ==
    /\ pc[r] = "ready"
    /\ Leave(r)
    /\ UNCHANGED <<process, unread, logVars, doubled, world, bounds, history>>

-----------------------------------------------------------------------------
(* The SQL queue and the clock *)

DeclareQueue ==
    /\ Serving
    /\ ~declared
    /\ declared' = TRUE
    /\ UNCHANGED <<process, requestVars, logVars, doubled, now, known, bounds, history>>

Store(m) ==
    /\ Serving
    /\ m \notin stored
    /\ Log!Store(m)
    /\ UNCHANGED <<process, requestVars, doubled, world, bounds, history>>

(* A statement that was not acknowledged is executed again. *)
StoreAgain(m) ==
    /\ Serving
    /\ m \in stored \ doubled
    /\ faults < MaxFaults
    /\ faults' = faults + 1
    /\ Log!Store(m)
    /\ doubled' = doubled \union {m}
    /\ UNCHANGED <<process, requestVars, world, restarts, history>>

Tick ==
    /\ Serving
    /\ now < MaxTime
    /\ now' = now + 1
    /\ UNCHANGED <<process, requestVars, logVars, doubled, declared, known, bounds, history>>

-----------------------------------------------------------------------------
(* A process ends and the next one starts. *)

Rows == {<<m, 1>> : m \in stored} \union {<<m, 2>> : m \in doubled}

Tied(k) == \E m, n \in stored : m # n /\ m.key = k /\ n.key = k /\ m.ts = n.ts

(* Memory and the requests under way are gone with their process; the page *)
(* and the queue stay.  cut records what is left half-done, tied and       *)
(* missing what the restore may get wrong, unsaid what leaves no row.      *)
NewProcess ==
    /\ restarts < MaxRestarts
    /\ restarts' = restarts + 1
    /\ helpers' = {}
    /\ messages' = [k \in Keys |-> <<>>]
    /\ sessionsIdsMap' = [u \in Users |-> <<>>]
    /\ pc' = [r \in Requests |-> IF pc[r] = "idle" THEN "idle" ELSE "done"]
    /\ key' = [r \in Requests |-> None]
    /\ cut' = cut \union {k \in Keys : Chatting(k) # {}}
    /\ disturbed' = disturbed \union {m.key : m \in doubled}
    /\ tied' = {k \in Keys : Tied(k)}
    /\ unsaid' = {k \in Keys : k[2] \in known[k[1]] /\ said[k] = <<>>}
    /\ UNCHANGED <<logVars, doubled, world, said>>

(* readDataFromMySQL has its result set. *)
Restart ==
    /\ NewProcess
    /\ unread' = Rows
    /\ missing' = {m.key : m \in accepted \ stored}
    /\ UNCHANGED faults

(* The SELECT throws: the server runs on with no conversation. *)
RestartUnread ==
    /\ NewProcess
    /\ faults < MaxFaults
    /\ faults' = faults + 1
    /\ unread' = {}
    /\ missing' = Keys

(* Fault: no ORDER BY. *)
NextRowUnsorted(row) == row \in unread

(* ORDER BY ts ASC, id ASC, where id is the user's: rows of one user and   *)
(* one ms come in any order.                                               *)
NextRow(row) == row \in unread /\ \A other \in unread : row[1].ts <= other[1].ts

(* Fault: helpers are found by session id alone. *)
ReadRowOfSession(row) ==
    LET m == row[1]
        k == IF \E u \in Users : <<u, m.key[2]>> \in helpers
             THEN <<CHOOSE u \in Users : <<u, m.key[2]>> \in helpers, m.key[2]>>
             ELSE m.key IN
    /\ NextRow(row)
    /\ unread' = unread \ {row}
    /\ helpers' = helpers \union {k}
    /\ sessionsIdsMap' = IF k \in helpers THEN sessionsIdsMap
                         ELSE [sessionsIdsMap EXCEPT ![k[1]] = Append(@, k[2])]
    /\ messages' = [messages EXCEPT ![k] = Append(@, m)]
    /\ UNCHANGED <<pc, key, logVars, doubled, world, bounds, history>>

(* Fault: a helper is made without listing it, as in ChatSendHandler. *)
ReadRowUnlisted(row) ==
    /\ NextRow(row)
    /\ unread' = unread \ {row}
    /\ helpers' = helpers \union {row[1].key}
    /\ messages' = [messages EXCEPT ![row[1].key] = Append(@, row[1])]
    /\ UNCHANGED <<sessionsIdsMap, pc, key, logVars, doubled, world, bounds, history>>

(* A turn of the loop over the result: a helper and a place on the list at *)
(* the first row of a session, and restoreMessage.                         *)
ReadRow(row) ==
    LET k == row[1].key IN
    /\ NextRow(row)
    /\ unread' = unread \ {row}
    /\ helpers' = helpers \union {k}
    /\ sessionsIdsMap' = IF k \in helpers THEN sessionsIdsMap
                         ELSE [sessionsIdsMap EXCEPT ![k[1]] = Append(@, k[2])]
    /\ messages' = [messages EXCEPT ![k] = Append(@, row[1])]
    /\ UNCHANGED <<pc, key, logVars, doubled, world, bounds, history>>

-----------------------------------------------------------------------------
Request(r) ==
    \/ \E k \in Keys : Find(r, k) \/ Emplace(r, k)
    \/ PushId(r)
    \/ Ask(r)
    \/ Answer(r)
    \/ PushPrompt(r)
    \/ PopPrompt(r)
    \/ AddAnswer(r)
    \/ CallThrows(r)
    \/ CreateThrows(r)

Next ==
    \/ \E r \in Requests : Request(r)
    \/ \E k \in Keys : History(k)
    \/ \E u \in Users : ListSessions(u)
    \/ DeclareQueue
    \/ \E m \in accepted : Store(m) \/ StoreAgain(m)
    \/ Tick
    \/ Restart
    \/ RestartUnread
    \/ \E row \in unread : ReadRow(row)

Spec == Init /\ [][Next]_vars

-----------------------------------------------------------------------------
Messages == [key : Keys, role : {"user", "ai", "prompt"}, req : Requests, ts : Nat]

(* Types, and: chat() runs on a helper that is there. *)
TypeOK ==
    /\ helpers \subseteq Keys
    /\ messages \in [Keys -> Seq(Messages)]
    /\ sessionsIdsMap \in [Users -> Seq(Ids)]
    /\ pc \in [Requests -> InChat \union {"idle", "listing", "done"}]
    /\ key \in [Requests -> Keys \union {None}]
    /\ \A r \in Requests : pc[r] \in InChat => key[r] \in helpers
    /\ unread \subseteq Rows
    /\ now \in Nat
    /\ stored \subseteq accepted
    /\ accepted \subseteq Statements
    /\ doubled \subseteq stored
    /\ known \in [Users -> SUBSET Ids]
    /\ said \in [Keys -> Seq(Messages)]
    /\ cut \union disturbed \union tied \union missing \union unsaid \subseteq Keys

(* A session is on its user's list once, though generated ids may repeat,  *)
(* helpers are made by three handlers and restores come in between.        *)
ListedOnce ==
    \A u \in Users : \A i, j \in 1..Len(sessionsIdsMap[u]) :
       sessionsIdsMap[u][i] = sessionsIdsMap[u][j] => i = j

(* Whoever copies the list, also in the middle of a creation, finds only   *)
(* conversations the server has.                                           *)
ListedHaveHelpers == \A u \in Users : \A i \in Listed(u) : <<u, i>> \in helpers

(* The lists are right at every moment, though they are written under one  *)
(* mutex and read under another.                                           *)
ListsAreRight == ListedOnce /\ ListedHaveHelpers

(* No conversation has, or gets back at a restart, a message of another    *)
(* one, be it of another user with the same session id.                    *)
NoCrossTalk ==
    \A k \in Keys : \A i \in 1..Len(messages[k]) : messages[k][i].key = k

(* A conversation that has rows is on its user's list, unless one of its   *)
(* chats failed midway or was cut off, its rows were not there at the      *)
(* restart, or it had none because its first chat threw before anything    *)
(* was said (ChatSendHandler then continues it without listing it).        *)
StoredIsListed ==
    \A m \in stored :
       Serving /\ m.key \notin cut \union disturbed \union missing \union unsaid =>
          m.key[2] \in Listed(m.key[1])

(* The place of s[i] among those that are no prompts, and: what is  *)
(* left of s without its prompts is t.                                     *)
Place(s, i) == Cardinality({j \in 1..i : s[j].role # "prompt"})

IsTalk(s, t) ==
    /\ Len(t) = Place(s, Len(s))
    /\ \A i \in 1..Len(s) : s[i].role # "prompt" => t[Place(s, i)] = s[i]

(* Over any restarts a conversation is what was said in it, in that order: *)
(* memory is rebuilt from the rows, and a row that comes too late for one  *)
(* restart is there for the next.                                          *)
RestoreFaithful ==
    Serving => \A k \in Keys \ (disturbed \union tied \union missing) :
                  IsTalk(messages[k], said[k])

(* ChatHistoryHandler says is_user of the even places: right as long as    *)
(* every chat of the conversation has run to its end.                      *)
ShownRoles ==
    \A k \in Keys \ (cut \union disturbed \union tied \union missing) :
       Serving /\ Chatting(k) = {} =>
          \A i \in 1..Len(messages[k]) : messages[k][i].role = "user" <=> i % 2 = 1
=============================================================================
