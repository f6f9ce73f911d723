------------------------------ MODULE AIHelper ------------------------------
(***************************************************************************)
(* The conversation of one user in one session: AIHelper's messages and    *)
(* strategy (AIApps/ChatServer/src/AIUtil/AIHelper.cpp), and the requests  *)
(* that run chat() on it.  ChatSendHandler looks the helper up under       *)
(* mutexForChatInformation and calls chat() after the unlock, on one of    *)
(* four I/O threads, so two tabs of a user run chat() on the same vector   *)
(* and the same strategy pointer with no lock (ChatSendHandler.cpp:44-60). *)
(*                                                                         *)
(* Every access to the shared messages or strategy is a step of its own.   *)
(* Texts are abstracted to a role and the request they belong to.  A race  *)
(* on the vector may lose one of the two writes; the builds in which it    *)
(* crashes instead have no further states.                                 *)
(***************************************************************************)
EXTENDS Naturals, Sequences, FiniteSets, SequencesExt

CONSTANTS Requests,        \* calls of chat(), each made once
          Models,          \* names registered with StrategyFactory
          McpModels,       \* those whose strategy has isMCPModel
          DefaultModel,    \* the strategy of the constructor
          UnknownModel,    \* a modelType no strategy is registered for
          MaxOverlaps      \* bound: starts of a chat() while another one runs

ASSUME ModelAssumption ==
    /\ McpModels \subseteq Models
    /\ DefaultModel \in Models
    /\ UnknownModel \notin Models
    /\ MaxOverlaps \in Nat

VARIABLES
    messages,      \* AIHelper::messages
    strategy,      \* AIHelper::strategy
    published,     \* INSERT statements handed to MQManager::publish, in order
    pc,            \* where each request is in chat()
    model,         \* modelType of each request
    round,         \* "plain", or which of the two calls of an MCP request
    payload,       \* what buildRequest made of messages, per request
    sentTo,        \* the strategy whose URL and key it went out with; both are
                   \* locals, cleared once the answer is there
    overlaps,      \* chat() calls that began while another one ran (history)
    failed,        \* some chat() has thrown after its first write (history)
    unpublished    \* some publish() has thrown (history)

data    == <<payload, sentTo>>
history == <<overlaps, failed, unpublished>>
vars == <<messages, strategy, published, pc, model, round, data, history>>

Msg(role, r) == [role |-> role, req |-> r]
NoPayload == [by |-> UnknownModel, last |-> <<>>, asUser |-> FALSE]

WritePCs == {"pushQuestion", "pushPrompt", "popPrompt", "pushAnswer"}
PCs == WritePCs \union {"idle", "create", "branch", "publishQuestion", "build",
                        "call", "reply", "publishAnswer", "done", "failed"}

InFlight == {r \in Requests : pc[r] \notin {"idle", "done", "failed"}}

(* The call's locals go out of use. *)
ClearData(r) ==
    /\ payload' = [payload EXCEPT ![r] = NoPayload]
    /\ sentTo' = [sentTo EXCEPT ![r] = UnknownModel]

Goto(r, p) == pc' = [pc EXCEPT ![r] = p]

(* messages becomes m; when another request's write overlaps this one, the *)
(* write may be lost.                                                      *)
Write(r, m) ==
    \/ messages' = m
    \/ (\E s \in Requests \ {r} : pc[s] \in WritePCs) /\ messages' = messages

-----------------------------------------------------------------------------
Init ==
    /\ messages = <<>>
    /\ strategy = DefaultModel
    /\ published = <<>>
    /\ pc = [r \in Requests |-> "idle"]
    /\ model \in [Requests -> Models \union {UnknownModel}]
    /\ round = [r \in Requests |-> "plain"]
    /\ payload = [r \in Requests |-> NoPayload]
    /\ sentTo = [r \in Requests |-> UnknownModel]
    /\ overlaps = 0
    /\ failed = FALSE
    /\ unpublished = FALSE

(* The handler has the helper and calls chat(). *)
Chat(r) ==
    /\ pc[r] = "idle"
    /\ InFlight # {} => overlaps < MaxOverlaps
    /\ Goto(r, "create")
    /\ overlaps' = IF InFlight = {} THEN overlaps ELSE overlaps + 1
    /\ UNCHANGED <<messages, strategy, published, model, round, data, failed, unpublished>>

(* create() throws for a name it does not know: nothing has been touched.  *)
CreateThrows(r) ==
    /\ pc[r] = "create"
    /\ model[r] \notin Models
    /\ Goto(r, "failed")
    /\ UNCHANGED <<messages, strategy, published, model, round, data, history>>

(* Fault: create() returns an empty pointer for an unknown name. *)
SetStrategyUnchecked(r) ==
    /\ pc[r] = "create"
    /\ strategy' = model[r]
    /\ Goto(r, "branch")
    /\ UNCHANGED <<messages, published, model, round, data, history>>

(* Fault: the strategy of a conversation is chosen once. *)
SetStrategyOnce(r) ==
    /\ pc[r] = "create"
    /\ model[r] \in Models
    /\ strategy' = IF messages = <<>> THEN model[r] ELSE strategy
    /\ Goto(r, "branch")
    /\ UNCHANGED <<messages, published, model, round, data, history>>

SetStrategy(r) ==
    /\ pc[r] = "create"
    /\ model[r] \in Models
    /\ strategy' = model[r]
    /\ Goto(r, "branch")
    /\ UNCHANGED <<messages, published, model, round, data, history>>

(* `if (false == strategy->isMCPModel)` reads the shared pointer again.    *)
Branch(r) ==
    /\ pc[r] = "branch"
    /\ \/ /\ strategy \notin McpModels
          /\ round' = [round EXCEPT ![r] = "plain"]
          /\ Goto(r, "pushQuestion")
       \/ /\ strategy \in McpModels
          /\ round' = [round EXCEPT ![r] = "first"]
          /\ Goto(r, "pushPrompt")
    /\ UNCHANGED <<messages, strategy, published, model, data, history>>

(* Fault: the prompt is added with addMessage. *)
PushPromptPublished(r) ==
    /\ pc[r] = "pushPrompt"
    /\ Write(r, Append(messages, Msg("prompt", r)))
    /\ published' = Append(published, Msg("prompt", r))
    /\ Goto(r, "build")
    /\ UNCHANGED <<strategy, model, round, data, history>>

(* messages.push_back of the prompt: the template first, the tool's result *)
(* in the second round.                                                    *)
PushPrompt(r) ==
    /\ pc[r] = "pushPrompt"
    /\ Write(r, Append(messages, Msg("prompt", r)))
    /\ Goto(r, "build")
    /\ UNCHANGED <<strategy, published, model, round, data, history>>

(* strategy->buildRequest(messages): the roles are the parities of the     *)
(* indices, whatever the messages are.                                     *)
BuildRequest(r) ==
    /\ pc[r] = "build"
    /\ payload' = [payload EXCEPT ![r] =
           [by |-> strategy,
            last |-> IF messages = <<>> THEN <<>> ELSE <<Last(messages)>>,
            asUser |-> Len(messages) % 2 = 1]]
    /\ Goto(r, "call")
    /\ UNCHANGED <<messages, strategy, published, model, round, sentTo, history>>

(* executeCurl takes URL and key from the pointer as it is now.            *)
ExecuteCurl(r) ==
    /\ pc[r] = "call"
    /\ sentTo' = [sentTo EXCEPT ![r] = strategy]
    /\ Goto(r, "reply")
    /\ UNCHANGED <<messages, strategy, published, model, round, payload, history>>

(* The answer has come and has been parsed. *)
ParseResponse(r) ==
    /\ pc[r] = "reply"
    /\ Goto(r, IF round[r] = "plain" THEN "pushAnswer" ELSE "popPrompt")
    /\ ClearData(r)
    /\ UNCHANGED <<messages, strategy, published, model, round, history>>

(* curl, json::parse or parseResponse throws out of chat(): no catch there *)
(* undoes what has been pushed.                                            *)
CallThrows(r) ==
    /\ pc[r] = "reply"
    /\ Goto(r, "failed")
    /\ failed' = TRUE
    /\ ClearData(r)
    /\ UNCHANGED <<messages, strategy, published, model, round, overlaps, unpublished>>

(* messages.pop_back(), then: after the first call, no tool is asked for   *)
(* or the tool fails (the question is next), or the tool answers (a second *)
(* prompt is next); after the second call, the question is next.           *)
PopPrompt(r) ==
    /\ pc[r] = "popPrompt"
    /\ Write(r, IF messages = <<>> THEN <<>> ELSE Front(messages))
    /\ \/ /\ Goto(r, "pushQuestion")
          /\ round' = round
       \/ /\ round[r] = "first"
          /\ Goto(r, "pushPrompt")
          /\ round' = [round EXCEPT ![r] = "second"]
    /\ UNCHANGED <<strategy, published, model, data, history>>

-----------------------------------------------------------------------------
(* addMessage: push_back, then publish, which may throw. *)

PushQuestion(r) ==
    /\ pc[r] = "pushQuestion"
    /\ Write(r, Append(messages, Msg("user", r)))
    /\ Goto(r, "publishQuestion")
    /\ UNCHANGED <<strategy, published, model, round, data, history>>

(* A plain request goes on to the model, an MCP one already has its answer.*)
PublishQuestion(r) ==
    /\ pc[r] = "publishQuestion"
    /\ published' = Append(published, Msg("user", r))
    /\ Goto(r, IF round[r] = "plain" THEN "build" ELSE "pushAnswer")
    /\ UNCHANGED <<messages, strategy, model, round, data, history>>

PushAnswer(r) ==
    /\ pc[r] = "pushAnswer"
    /\ Write(r, Append(messages, Msg("ai", r)))
    /\ Goto(r, "publishAnswer")
    /\ UNCHANGED <<strategy, published, model, round, data, history>>

(* Fault: answers are kept in memory only. *)
PublishAnswerSkipped(r) ==
    /\ pc[r] = "publishAnswer"
    /\ Goto(r, "done")
    /\ UNCHANGED <<messages, strategy, published, model, round, data, history>>

PublishAnswer(r) ==
    /\ pc[r] = "publishAnswer"
    /\ published' = Append(published, Msg("ai", r))
    /\ Goto(r, "done")
    /\ UNCHANGED <<messages, strategy, model, round, data, history>>

(* BasicPublish throws (the channel is gone): chat() ends.                 *)
PublishThrows(r) ==
    /\ pc[r] \in {"publishQuestion", "publishAnswer"}
    /\ Goto(r, "failed")
    /\ failed' = TRUE
    /\ unpublished' = TRUE
    /\ UNCHANGED <<messages, strategy, published, model, round, data, overlaps>>

-----------------------------------------------------------------------------
Step(r) ==
    \/ Chat(r)
    \/ CreateThrows(r)
    \/ SetStrategy(r)
    \/ Branch(r)
    \/ PushPrompt(r)
    \/ BuildRequest(r)
    \/ ExecuteCurl(r)
    \/ ParseResponse(r)
    \/ CallThrows(r)
    \/ PopPrompt(r)
    \/ PushQuestion(r)
    \/ PublishQuestion(r)
    \/ PushAnswer(r)
    \/ PublishAnswer(r)
    \/ PublishThrows(r)

Next == \E r \in Requests : Step(r)

Spec == Init /\ [][Next]_vars

-----------------------------------------------------------------------------
Messages == [role : {"user", "ai", "prompt"}, req : Requests]

TypeOK ==
    /\ messages \in Seq(Messages)
    /\ strategy \in Models
    /\ published \in Seq(Messages)
    /\ pc \in [Requests -> PCs]
    /\ model \in [Requests -> Models \union {UnknownModel}]
    /\ round \in [Requests -> {"plain", "first", "second"}]
    /\ sentTo \in [Requests -> Models \union {UnknownModel}]
    /\ overlaps \in Nat
    /\ failed \in BOOLEAN
    /\ unpublished \in BOOLEAN

(* However requests interleave and fail, the database is sent of each of   *)
(* them nothing, its question, or its question and then its answer, and no *)
(* prompt.                                                                 *)
PublishedOnceInOrder ==
    \A i \in 1..Len(published) :
       /\ published[i].role # "prompt"
       /\ \A j \in 1..(i - 1) : published[j] # published[i]
       /\ published[i].role = "ai" =>
             \E j \in 1..(i - 1) : published[j] = Msg("user", published[i].req)

(* AIHelper.h:64: even indices are the user's, odd ones the model's answer *)
(* to the one before; a prompt is there only while its chat runs, at the   *)
(* end.  True of requests that never overlap and never fail; buildRequest  *)
(* and ChatHistoryHandler rely on it.                                      *)
SerialHistory ==
    overlaps = 0 /\ ~failed =>
       \A i \in 1..Len(messages) :
          \/ /\ messages[i].role = "prompt"
             /\ i = Len(messages) /\ InFlight # {}
          \/ messages[i].role = "user" /\ i % 2 = 1
          \/ /\ messages[i].role = "ai" /\ i % 2 = 0
             /\ messages[i - 1] = Msg("user", messages[i].req)

(* How many of the first i messages are what user and model said. *)
Said(i) == Cardinality({j \in 1..i : messages[j].role # "prompt"})

(* Memory and log agree while requests do not overlap: what a restart can  *)
(* read back is what the user saw, up to the message being added.          *)
SerialLog ==
    overlaps = 0 /\ ~unpublished =>
       /\ Len(published) \in {Said(Len(messages)) - 1, Said(Len(messages))}
       /\ \A i \in 1..Len(messages) :
             messages[i].role # "prompt" /\ Said(i) <= Len(published) =>
                published[Said(i)] = messages[i]

(* Of chats that follow each other, memory is the alternation the readers  *)
(* rely on, and the log can rebuild it.                                    *)
SerialChats == SerialHistory /\ SerialLog

(* Without overlap a request goes to the provider its user chose, in that  *)
(* provider's format, ends with the user's own text and, if nothing failed *)
(* before, shows it as said by the user.                                   *)
RequestIntegrity ==
    \A r \in Requests :
       overlaps = 0 /\ pc[r] = "reply" =>
          /\ sentTo[r] = model[r]
          /\ payload[r].by = model[r]
          /\ payload[r].last =
                <<Msg(IF model[r] \in McpModels THEN "prompt" ELSE "user", r)>>
          /\ ~failed => payload[r].asUser
=============================================================================
