----------------------------- MODULE Chat_proof -----------------------------
(***************************************************************************)
(* Proofs about the two ends of a chat.                                    *)
(*                                                                         *)
(* AIHelper, for any number of requests and models: types, that a chat     *)
(* which no other one overlaps asks the model its user chose with the      *)
(* user's own text, what is published of each request, and what memory and *)
(* the log hold of chats that follow each other.                           *)
(*                                                                         *)
(* ChatPage, for any number of sessions, questions, clicks and lost        *)
(* messages: types, that who waits for each answer sees and keeps the      *)
(* chats as the server holds them, and that a new chat starts empty.       *)
(***************************************************************************)
EXTENDS AIHelper, ChatPage, SequenceTheorems, FiniteSetTheorems, TLAPS

(* TypeOK and the payloads it leaves out, whose fields hold truth values.  *)
TypeInv ==
    /\ TypeOK
    /\ payload = [r \in Requests |-> payload[r]]

(* A write of messages, raced or not. *)
LEMMA WriteType ==
  ASSUME NEW r, NEW m \in Seq(Messages), messages \in Seq(Messages), Write(r, m)
  PROVE  messages' \in Seq(Messages)
  BY DEF Write

(* pop_back of a vector that is not empty. *)
LEMMA FrontType ==
  ASSUME NEW s \in Seq(Messages), s # <<>>
  PROVE  Front(s) \in Seq(Messages) /\ Len(Front(s)) = Len(s) - 1
  <1>1. PICK n \in Nat : n = Len(s) /\ n # 0
    BY EmptySeq
  <1>2. /\ \A i \in 1..(n - 1) : s[i] \in Messages
        /\ 1 \in Int /\ n - 1 \in Int
        /\ 1 <= n - 1 \/ n - 1 = 0
        /\ n - 1 - 1 + 1 = n - 1
    BY <1>1, ElementOfSeq
  <1>3. /\ SubSeq(s, 1, n - 1) \in Seq(Messages)
        /\ Len(SubSeq(s, 1, n - 1)) = IF 1 <= n - 1 THEN n - 1 - 1 + 1 ELSE 0
    BY <1>2, SubSeqProperties
  <1>4. Len(SubSeq(s, 1, n - 1)) = n - 1
    BY <1>2, <1>3
  <1> QED
    BY <1>1, <1>3, <1>4 DEF Front

(* Every step of chat() keeps the types. *)
LEMMA TypeInvNext == TypeInv /\ [Next]_vars => TypeInv'
  <1> SUFFICES ASSUME TypeInv, [Next]_vars PROVE TypeInv'
    OBVIOUS
  <1> USE ModelAssumption DEF TypeInv, TypeOK, Goto, data, history, PCs, WritePCs
  <1>0. \A r \in Requests, x \in {"user", "ai", "prompt"} : Msg(x, r) \in Messages
    BY DEF Msg, Messages
  <1>1. ASSUME NEW r \in Requests, Chat(r) \/ CreateThrows(r) \/ SetStrategy(r) \/ Branch(r)
        PROVE  TypeInv'
    BY <1>1 DEF Chat, CreateThrows, SetStrategy, Branch
  <1>2. ASSUME NEW r \in Requests, PushPrompt(r) \/ PushQuestion(r) \/ PushAnswer(r)
        PROVE  TypeInv'
    <2>1. PICK x \in {"user", "ai", "prompt"} : Write(r, Append(messages, Msg(x, r)))
      BY <1>2 DEF PushPrompt, PushQuestion, PushAnswer
    <2>2. messages' \in Seq(Messages)
      BY <1>0, <2>1, AppendProperties, WriteType
    <2> QED
      BY <1>2, <2>2 DEF PushPrompt, PushQuestion, PushAnswer
  <1>3. ASSUME NEW r \in Requests, BuildRequest(r) PROVE TypeInv'
    BY <1>3 DEF BuildRequest
  <1>4. ASSUME NEW r \in Requests, ExecuteCurl(r) PROVE TypeInv'
    BY <1>4 DEF ExecuteCurl
  <1>5. ASSUME NEW r \in Requests, ParseResponse(r) PROVE TypeInv'
    BY <1>5 DEF ParseResponse, ClearData
  <1>6. ASSUME NEW r \in Requests, CallThrows(r) PROVE TypeInv'
    BY <1>6 DEF CallThrows, ClearData
  <1>7. ASSUME NEW r \in Requests, PopPrompt(r) PROVE TypeInv'
    <2>1. messages' \in Seq(Messages)
      BY <1>7, FrontType, WriteType DEF PopPrompt
    <2> QED
      BY <1>7, <2>1 DEF PopPrompt
  <1>8. ASSUME NEW r \in Requests, PublishQuestion(r) \/ PublishAnswer(r) PROVE TypeInv'
    <2>0. PICK x \in {"user", "ai"} : published' = Append(published, Msg(x, r))
      BY <1>8 DEF PublishQuestion, PublishAnswer
    <2>1. published' \in Seq(Messages)
      BY <1>0, <2>0, AppendProperties
    <2> QED
      BY <1>8, <2>1 DEF PublishQuestion, PublishAnswer
  <1>9. ASSUME NEW r \in Requests, PublishThrows(r) PROVE TypeInv'
    BY <1>9 DEF PublishThrows
  <1>10. CASE UNCHANGED vars
    BY <1>10 DEF vars
  <1> QED
    BY <1>1, <1>2, <1>3, <1>4, <1>5, <1>6, <1>7, <1>8, <1>9, <1>10 DEF Next, Step

(* A new conversation has the types. *)
LEMMA TypeInvInit == Init => TypeInv
  <1> SUFFICES ASSUME Init PROVE TypeInv
    OBVIOUS
  <1>1. /\ messages = <<>> /\ published = <<>> /\ strategy \in Models /\ overlaps \in Nat
        /\ pc = [r \in Requests |-> "idle"] /\ round = [r \in Requests |-> "plain"]
        /\ model \in [Requests -> Models \union {UnknownModel}]
        /\ sentTo = [r \in Requests |-> UnknownModel]
    BY ModelAssumption DEF Init
  <1>3. failed \in BOOLEAN /\ unpublished \in BOOLEAN
    BY Zenon DEF Init
  <1>4. TypeOK
    BY <1>1, <1>3, EmptySeq DEF TypeOK, PCs
  <1>2. payload = [r \in Requests |-> payload[r]]
    BY DEF Init
  <1> QED
    BY <1>2, <1>4 DEF TypeInv

(* Every variable keeps its type, and the strategy is always one there is. *)
THEOREM TypeCorrect == Spec => []TypeOK
  <1>1. TypeInv => TypeOK
    BY DEF TypeInv
  <1> QED
    BY TypeInvInit, TypeInvNext, <1>1, PTL DEF Spec

-----------------------------------------------------------------------------
(* A chat nothing overlaps: it is the only one that runs, the strategy is  *)
(* the one it asked for, the request ends with its text, and the number of *)
(* messages is odd exactly while its own last text waits for an answer.    *)
Running == WritePCs \union {"create", "branch", "publishQuestion", "build", "call", "reply",
                            "publishAnswer"}
Odd == {"build", "call", "reply", "popPrompt", "publishQuestion", "pushAnswer"}

OwnText(r) == Msg(IF model[r] \in McpModels THEN "prompt" ELSE "user", r)

Alone(r) == \A s \in Requests \ {r} : pc[s] \notin Running

Sane(r) ==
    /\ pc[r] \in Running \ {"create"} => strategy = model[r]
    /\ pc[r] \in Running \ {"create", "branch"} =>
          (round[r] = "plain" <=> model[r] \notin McpModels)
    /\ pc[r] \in {"pushPrompt", "popPrompt"} => model[r] \in McpModels
    /\ pc[r] \in {"build", "call", "reply"} => messages # <<>> /\ Last(messages) = OwnText(r)
    /\ pc[r] = "popPrompt" => messages # <<>> /\ Last(messages) = Msg("prompt", r)
    /\ pc[r] \in {"publishQuestion", "pushAnswer"} =>
          messages # <<>> /\ Last(messages) = Msg("user", r)
    /\ pc[r] = "publishAnswer" => messages # <<>> /\ Last(messages) = Msg("ai", r)
    /\ pc[r] \in {"call", "reply"} => payload[r].by = model[r] /\ payload[r].last = <<OwnText(r)>>
    /\ pc[r] \in {"call", "reply"} /\ ~failed => payload[r].asUser
    /\ pc[r] = "reply" => sentTo[r] = model[r]

Parity == ~failed => (Len(messages) % 2 = 1 <=> \E r \in Requests : pc[r] \in Odd)

SoleInv ==
    overlaps = 0 =>
       /\ \A r \in Requests : pc[r] \in Running => Alone(r)
       /\ \A r \in Requests : Sane(r)
       /\ Parity

(* With nobody else running no write is lost. *)
LEMMA WriteAlone ==
  ASSUME NEW r \in Requests, Alone(r), NEW m, Write(r, m)
  PROVE  messages' = m
  BY DEF Alone, Write, Running

(* Requests that do not run satisfy SoleInv by themselves: after a step of *)
(* r it is left to show it for r.                                          *)
LEMMA SoleStep ==
  ASSUME TypeInv, NEW r \in Requests, Alone(r), NEW p \in PCs, Goto(r, p), Sane(r)',
         ~failed' => (Len(messages') % 2 = 1 <=> p \in Odd)
  PROVE  SoleInv'
  <1>1. /\ \A s \in Requests \ {r} : pc'[s] = pc[s] /\ pc[s] \notin Running
        /\ pc'[r] = p
    BY DEF TypeInv, TypeOK, Goto, Alone
  <1>2. \A s \in Requests : pc'[s] \in Running => s = r /\ Alone(s)'
    BY <1>1 DEF Alone
  <1>3. \A s \in Requests \ {r} : Sane(s)'
    BY <1>1 DEF Sane, Running, WritePCs
  <1>4. (\E s \in Requests : pc'[s] \in Odd) <=> p \in Odd
    BY <1>1 DEF Odd, Running, WritePCs
  <1>5. Parity'
    BY <1>4 DEF Parity
  <1> QED
    BY <1>2, <1>3, <1>5 DEF SoleInv

(* One message more, and the roles by parity change sides. *)
LEMMA ParityFlips ==
  \A n \in Nat : (n + 1) % 2 = 1 <=> n % 2 # 1
  OBVIOUS

(* push_back: the text is the last one, and the parity flips. *)
LEMMA LastAppended ==
  ASSUME NEW e \in Messages, messages \in Seq(Messages)
  PROVE  LET m == Append(messages, e) IN
         m # <<>> /\ Last(m) = e /\ (Len(m) % 2 = 1 <=> Len(messages) % 2 # 1)
  <1>1. Len(messages) \in Nat
    BY LenProperties
  <1>2. /\ Append(messages, e) # <<>>
        /\ Len(Append(messages, e)) = Len(messages) + 1
        /\ Append(messages, e)[Len(messages) + 1] = e
    BY AppendProperties
  <1> QED
    BY <1>1, <1>2, ParityFlips DEF Last

(* A field of a record that is a truth value. *)
LEMMA AsUserField ==
  \A f, a, b, c : f = [by |-> a, last |-> b, asUser |-> c] => f.asUser = c
  OBVIOUS

(* Every step of chat() keeps SoleInv: one case per action. *)
LEMMA SoleInvNext == TypeInv /\ SoleInv /\ [Next]_vars => SoleInv'
  <1> SUFFICES ASSUME TypeInv, SoleInv, [Next]_vars, overlaps' = 0 PROVE SoleInv'
    BY DEF SoleInv
  <1>0. \A r \in Requests, x \in {"user", "ai", "prompt"} : Msg(x, r) \in Messages
    BY DEF Msg, Messages
  <1>a. overlaps = 0
    BY DEF TypeInv, TypeOK, Next, Step, Chat, CreateThrows, SetStrategy, Branch, PushPrompt,
           BuildRequest, ExecuteCurl, ParseResponse, CallThrows, PopPrompt, PushQuestion,
           PublishQuestion, PushAnswer, PublishAnswer, PublishThrows, history, vars
  <1>b. ASSUME NEW r \in Requests, pc[r] \in Running
        PROVE  /\ Alone(r)
               /\ Sane(r)
               /\ ~failed => (Len(messages) % 2 = 1 <=> pc[r] \in Odd)
    BY <1>a, <1>b DEF SoleInv, Parity, Alone, Odd, Running, WritePCs
  <1>1. ASSUME NEW r \in Requests, Chat(r) PROVE SoleInv'
    <2>1. /\ UNCHANGED <<messages, failed>> /\ Goto(r, "create") /\ pc'[r] = "create"
          /\ InFlight = {} /\ pc[r] = "idle"
      BY <1>1, <1>a DEF Chat, Goto, TypeInv, TypeOK
    <2>2. \A s \in Requests : pc[s] \notin Running
      BY <2>1 DEF InFlight, Running, WritePCs
    <2>3. Alone(r)
      BY <2>2 DEF Alone
    <2>4. ~failed => Len(messages) % 2 # 1
      BY <1>a, <2>2 DEF SoleInv, Parity, Odd, Running, WritePCs
    <2>5. Sane(r)'
      BY <2>1 DEF Sane, Running, WritePCs
    <2> QED
      BY <2>1, <2>3, <2>4, <2>5, SoleStep DEF PCs, Odd
  <1>2. ASSUME NEW r \in Requests, CreateThrows(r) \/ CallThrows(r) \/ PublishThrows(r)
        PROVE  SoleInv'
    <2>1. /\ pc[r] \in Running /\ UNCHANGED messages /\ Goto(r, "failed") /\ pc'[r] = "failed"
          /\ failed' \/ (UNCHANGED failed /\ pc[r] \notin Odd)
      BY <1>2 DEF CreateThrows, CallThrows, PublishThrows, Goto, TypeInv, TypeOK, Running, Odd,
                  WritePCs, history
    <2>2. Sane(r)'
      BY <2>1 DEF Sane, Running, WritePCs
    <2> QED
      BY <1>b, <2>1, <2>2, SoleStep DEF PCs, Odd
  <1>3. ASSUME NEW r \in Requests, SetStrategy(r) PROVE SoleInv'
    <2>1. /\ pc[r] = "create" /\ UNCHANGED <<messages, failed, model>> /\ Goto(r, "branch")
          /\ pc'[r] = "branch" /\ strategy' = model[r]
      BY <1>3 DEF SetStrategy, Goto, TypeInv, TypeOK, history
    <2>2. Sane(r)'
      BY <2>1 DEF Sane, Running, WritePCs
    <2> QED
      BY <1>b, <2>1, <2>2, SoleStep DEF PCs, Odd, Running
  <1>4. ASSUME NEW r \in Requests, Branch(r) PROVE SoleInv'
    <2>1. PICK p \in {"pushQuestion", "pushPrompt"} :
             /\ Goto(r, p) /\ pc'[r] = p
             /\ IF p = "pushQuestion"
                THEN strategy \notin McpModels /\ round'[r] = "plain"
                ELSE strategy \in McpModels /\ round'[r] = "first"
      BY <1>4 DEF Branch, Goto, TypeInv, TypeOK
    <2>2. pc[r] = "branch" /\ UNCHANGED <<messages, failed, model, strategy>>
      BY <1>4 DEF Branch, history
    <2>3. strategy = model[r]
      BY <1>b, <2>2 DEF Sane, Running
    <2>4. Sane(r)'
      BY <2>1, <2>2, <2>3 DEF Sane, Running, WritePCs
    <2> QED
      BY <1>b, <2>1, <2>2, <2>4, SoleStep DEF PCs, WritePCs, Odd, Running
  <1>5. ASSUME NEW r \in Requests, PushPrompt(r) PROVE SoleInv'
    <2>1. /\ pc[r] = "pushPrompt" /\ Goto(r, "build") /\ pc'[r] = "build"
          /\ UNCHANGED <<failed, model, strategy, round>>
          /\ Write(r, Append(messages, Msg("prompt", r)))
      BY <1>5 DEF PushPrompt, Goto, TypeInv, TypeOK, history
    <2>2. messages' = Append(messages, Msg("prompt", r))
      BY <1>b, <2>1, WriteAlone DEF Running, WritePCs
    <2>3. /\ messages' # <<>> /\ Last(messages') = Msg("prompt", r)
          /\ Len(messages') % 2 = 1 <=> Len(messages) % 2 # 1
      BY <1>0, <2>2, LastAppended DEF TypeInv, TypeOK
    <2>4. Sane(r)'
      BY <1>b, <2>1, <2>3 DEF Sane, OwnText, Running, WritePCs
    <2> QED
      BY <1>b, <2>1, <2>3, <2>4, SoleStep DEF PCs, WritePCs, Odd, Running
  <1>6. ASSUME NEW r \in Requests, BuildRequest(r) PROVE SoleInv'
    <2>1. /\ pc[r] = "build" /\ Goto(r, "call") /\ pc'[r] = "call"
          /\ UNCHANGED <<messages, failed, model, strategy, round>>
      BY <1>6 DEF BuildRequest, Goto, TypeInv, TypeOK, history
    <2>2. payload'[r] = [by |-> strategy,
                         last |-> IF messages = <<>> THEN <<>> ELSE <<Last(messages)>>,
                         asUser |-> Len(messages) % 2 = 1]
      BY <1>6 DEF BuildRequest, TypeInv
    <2>3. messages # <<>> /\ Last(messages) = OwnText(r) /\ strategy = model[r]
      BY <1>b, <2>1 DEF Sane, Running
    <2>4. payload'[r].by = model[r] /\ payload'[r].last = <<OwnText(r)>>
      BY <2>2, <2>3
    <2>5. ~failed => Len(messages) % 2 = 1
      BY <1>b, <2>1 DEF Odd, Running
    <2>6. payload'[r].asUser = (Len(messages) % 2 = 1)
      BY <2>2, AsUserField
    <2>7. ~failed => payload'[r].asUser
      BY <2>5, <2>6, Zenon
    <2>8. Sane(r)'
      BY <1>b, <2>1, <2>3, <2>4, <2>7 DEF Sane, OwnText, Running, WritePCs
    <2> QED
      BY <1>b, <2>1, <2>8, SoleStep DEF PCs, Odd, Running
  <1>7. ASSUME NEW r \in Requests, ExecuteCurl(r) PROVE SoleInv'
    <2>1. /\ pc[r] = "call" /\ Goto(r, "reply") /\ pc'[r] = "reply" /\ sentTo'[r] = strategy
          /\ UNCHANGED <<messages, failed, model, strategy, round, payload>>
      BY <1>7 DEF ExecuteCurl, Goto, TypeInv, TypeOK, history
    <2>2. Sane(r)'
      BY <1>b, <2>1 DEF Sane, OwnText, Running, WritePCs
    <2> QED
      BY <1>b, <2>1, <2>2, SoleStep DEF PCs, Odd, Running
  <1>8. ASSUME NEW r \in Requests, ParseResponse(r) PROVE SoleInv'
    <2>1. PICK p \in {"pushAnswer", "popPrompt"} :
             /\ Goto(r, p) /\ pc'[r] = p
             /\ p = "pushAnswer" <=> round[r] = "plain"
      BY <1>8 DEF ParseResponse, Goto, TypeInv, TypeOK
    <2>2. pc[r] = "reply" /\ UNCHANGED <<messages, failed, model, strategy, round>>
      BY <1>8 DEF ParseResponse, history
    <2>3. Sane(r)'
      BY <1>b, <2>1, <2>2 DEF Sane, OwnText, Running, WritePCs
    <2> QED
      BY <1>b, <2>1, <2>2, <2>3, SoleStep DEF PCs, WritePCs, Odd, Running
  <1>9. ASSUME NEW r \in Requests, PopPrompt(r) PROVE SoleInv'
    <2>1. PICK p \in {"pushQuestion", "pushPrompt"} :
             /\ Goto(r, p) /\ pc'[r] = p
             /\ round'[r] = "plain" <=> round[r] = "plain"
      BY <1>9 DEF PopPrompt, Goto, TypeInv, TypeOK
    <2>2. /\ pc[r] = "popPrompt" /\ UNCHANGED <<failed, model, strategy>>
          /\ Write(r, IF messages = <<>> THEN <<>> ELSE Front(messages))
      BY <1>9 DEF PopPrompt, history
    <2>3. messages' = IF messages = <<>> THEN <<>> ELSE Front(messages)
      BY <1>b, <2>2, WriteAlone DEF Running, WritePCs
    <2>4. ~failed => Len(messages) % 2 = 1
      BY <1>b, <2>2 DEF Odd, Running, WritePCs
    <2>5. ~failed => Len(messages') % 2 # 1
      <3> SUFFICES ASSUME ~failed PROVE Len(messages') % 2 # 1
        OBVIOUS
      <3>1. messages # <<>>
        BY <2>4, EmptySeq
      <3>2. messages \in Seq(Messages) /\ messages' = Front(messages)
        BY <2>3, <3>1 DEF TypeInv, TypeOK
      <3>3. Len(messages) \in Nat \ {0} /\ Len(messages') = Len(messages) - 1
        BY <3>1, <3>2, FrontType, EmptySeq
      <3>4. PICK n \in Nat : Len(messages) = n + 1 /\ Len(messages') = n
        BY <3>3
      <3> QED
        BY <2>4, <3>4, ParityFlips
    <2>6. Sane(r)'
      BY <1>b, <2>1, <2>2 DEF Sane, Running, WritePCs
    <2> QED
      BY <1>b, <2>1, <2>2, <2>5, <2>6, SoleStep DEF PCs, WritePCs, Odd, Running
  <1>10. ASSUME NEW r \in Requests, PushQuestion(r) \/ PushAnswer(r) PROVE SoleInv'
    <2>1. PICK p \in {"publishQuestion", "publishAnswer"}, x \in {"user", "ai"} :
             /\ Goto(r, p)
             /\ Write(r, Append(messages, Msg(x, r)))
             /\ p = "publishQuestion" <=> pc[r] = "pushQuestion"
             /\ p = "publishQuestion" <=> x = "user"
             /\ pc[r] \in {"pushQuestion", "pushAnswer"}
      <3>1. CASE PushQuestion(r)
        BY <3>1 DEF PushQuestion
      <3>2. CASE PushAnswer(r)
        BY <3>2 DEF PushAnswer
      <3> QED
        BY <1>10, <3>1, <3>2
    <2>1a. pc'[r] = p
      BY <2>1 DEF Goto, TypeInv, TypeOK
    <2>2. UNCHANGED <<failed, model, strategy, round>>
      BY <1>10 DEF PushQuestion, PushAnswer, history
    <2>3. messages' = Append(messages, Msg(x, r))
      BY <1>b, <2>1, WriteAlone DEF Running, WritePCs
    <2>4. /\ messages' # <<>> /\ Last(messages') = Msg(x, r)
          /\ Len(messages') % 2 = 1 <=> Len(messages) % 2 # 1
      BY <1>0, <2>3, LastAppended DEF TypeInv, TypeOK
    <2>5. Sane(r)'
      BY <1>b, <2>1, <2>1a, <2>2, <2>4 DEF Sane, Running, WritePCs
    <2> QED
      BY <1>b, <2>1, <2>1a, <2>2, <2>4, <2>5, SoleStep DEF PCs, WritePCs, Odd, Running
  <1>11. ASSUME NEW r \in Requests, PublishQuestion(r) PROVE SoleInv'
    <2>1. PICK p \in {"build", "pushAnswer"} :
             /\ Goto(r, p) /\ pc'[r] = p
             /\ p = "build" <=> round[r] = "plain"
      BY <1>11 DEF PublishQuestion, Goto, TypeInv, TypeOK
    <2>2. pc[r] = "publishQuestion" /\ UNCHANGED <<messages, failed, model, strategy, round>>
      BY <1>11 DEF PublishQuestion, history
    <2>3. Sane(r)'
      BY <1>b, <2>1, <2>2 DEF Sane, OwnText, Running, WritePCs
    <2> QED
      BY <1>b, <2>1, <2>2, <2>3, SoleStep DEF PCs, WritePCs, Odd, Running
  <1>12. ASSUME NEW r \in Requests, PublishAnswer(r) PROVE SoleInv'
    <2>1. /\ Goto(r, "done") /\ pc'[r] = "done" /\ pc[r] = "publishAnswer"
          /\ UNCHANGED <<messages, failed>>
      BY <1>12 DEF PublishAnswer, Goto, TypeInv, TypeOK, history
    <2>2. Sane(r)'
      BY <2>1 DEF Sane, Running, WritePCs
    <2> QED
      BY <1>b, <2>1, <2>2, SoleStep DEF PCs, Odd, Running
  <1>13. CASE UNCHANGED vars
    BY <1>13 DEF vars, data, history, SoleInv, Alone, Sane, OwnText, Parity
  <1> QED
    BY <1>1, <1>2, <1>3, <1>4, <1>5, <1>6, <1>7, <1>8, <1>9, <1>10, <1>11, <1>12, <1>13
       DEF Next, Step

(* A new conversation satisfies it. *)
LEMMA SoleInvInit == Init => SoleInv
  <1> SUFFICES ASSUME Init PROVE SoleInv
    OBVIOUS
  <1>1. messages = <<>> /\ \A r \in Requests : pc[r] = "idle"
    BY DEF Init
  <1>2. Len(messages) % 2 # 1
    BY <1>1
  <1> QED
    BY <1>1, <1>2 DEF SoleInv, Sane, Parity, Running, Odd, WritePCs

(* Without overlap, a request that goes out is for the provider its user   *)
(* chose, in that provider's format, ends with the user's own text, and    *)
(* shows it as said by the user if no chat has failed before: for any      *)
(* number of requests and models.                                          *)
THEOREM RequestIntegrityTheorem == Spec => []RequestIntegrity
  <1>1. SoleInv => RequestIntegrity
    BY DEF SoleInv, Sane, OwnText, RequestIntegrity, Running
  <1> QED
    BY TypeInvInit, TypeInvNext, SoleInvInit, SoleInvNext, <1>1, PTL DEF Spec

-----------------------------------------------------------------------------
(* Whose question the database has been sent: a request that is past its   *)
(* publish, which a plain one is before it asks the model and an MCP one   *)
(* after.                                                                  *)
Asked(r) ==
    \/ pc[r] \in {"pushAnswer", "publishAnswer", "done", "failed"}
    \/ pc[r] \in {"build", "call", "reply"} /\ round[r] = "plain"

PublishInv ==
    /\ \A r \in Requests : pc[r] \in {"pushPrompt", "popPrompt"} => round[r] # "plain"
    /\ \A i \in 1..Len(published) :
          /\ Asked(published[i].req)
          /\ published[i].role = "ai" => pc[published[i].req] = "done"
    /\ \A r \in Requests : pc[r] \in {"pushAnswer", "publishAnswer"} =>
          \E i \in 1..Len(published) : published[i] = Msg("user", r)
    /\ \A r \in Requests : pc[r] \in {"build", "call", "reply"} /\ round[r] = "plain" =>
          \E i \in 1..Len(published) : published[i] = Msg("user", r)
    /\ PublishedOnceInOrder

(* A step of r that publishes nothing keeps PublishInv if it does not take *)
(* back that r has published, and asks for no answer before the question.  *)
LEMMA PublishNothing ==
  ASSUME TypeInv, PublishInv, NEW r \in Requests, NEW p \in PCs, Goto(r, p),
         UNCHANGED published, \A s \in Requests \ {r} : round'[s] = round[s],
         pc[r] \notin {"done", "failed"}, Asked(r) => Asked(r)',
         p \in {"pushPrompt", "popPrompt"} => round'[r] # "plain",
         Asked(r)' => Asked(r) \/ p = "failed"
  PROVE  PublishInv'
  <1>1. /\ pc'[r] = p /\ \A s \in Requests \ {r} : pc'[s] = pc[s]
        /\ \A i \in 1..Len(published) : published[i].req \in Requests
    <2>1. /\ pc'[r] = p /\ \A s \in Requests \ {r} : pc'[s] = pc[s]
          /\ published \in Seq(Messages)
      BY DEF TypeInv, TypeOK, Goto
    <2>2. \A i \in 1..Len(published) : published[i] \in Messages
      BY <2>1, ElementOfSeq
    <2> QED
      BY <2>1, <2>2 DEF Messages
  <1>2. \A s \in Requests \ {r} : Asked(s)' <=> Asked(s)
    BY <1>1 DEF Asked
  <1>3. \A i \in 1..Len(published) :
           /\ Asked(published[i].req)'
           /\ published[i].role = "ai" => pc'[published[i].req] = "done"
    BY <1>1, <1>2 DEF PublishInv
  <1>4. Asked(r)' /\ p # "failed" => \E i \in 1..Len(published) : published[i] = Msg("user", r)
    BY <1>1 DEF PublishInv, Asked
  <1>5. PublishedOnceInOrder'
    BY DEF PublishInv, PublishedOnceInOrder
  <1> QED
    BY <1>1, <1>3, <1>4, <1>5 DEF PublishInv, Asked

(* A publish appends to the log: the entry is new, no prompt, and an       *)
(* answer only after its question.                                         *)
LEMMA PublishOne ==
  ASSUME NEW m \in Messages, published \in Seq(Messages), PublishedOnceInOrder,
         published' = Append(published, m), m.role # "prompt",
         \A i \in 1..Len(published) : published[i] # m,
         m.role = "ai" => \E i \in 1..Len(published) : published[i] = Msg("user", m.req)
  PROVE  /\ PublishedOnceInOrder'
         /\ Len(published') = Len(published) + 1
         /\ published'[Len(published) + 1] = m
         /\ \A i \in 1..Len(published) : published'[i] = published[i]
  <1>1. /\ Len(published) \in Nat
        /\ Len(published') = Len(published) + 1
        /\ published'[Len(published) + 1] = m
        /\ \A i \in 1..Len(published) : published'[i] = published[i]
    BY AppendProperties, LenProperties
  <1>2. ASSUME NEW i \in 1..Len(published')
        PROVE  /\ published'[i].role # "prompt"
               /\ \A j \in 1..(i - 1) : published'[j] # published'[i]
               /\ published'[i].role = "ai" =>
                     \E j \in 1..(i - 1) : published'[j] = Msg("user", published'[i].req)
    <2>1. CASE i = Len(published) + 1
      BY <1>1, <2>1
    <2>2. CASE i \in 1..Len(published)
      <3>1. \A j \in 1..(i - 1) : j \in 1..Len(published) /\ published'[j] = published[j]
        BY <1>1, <2>2
      <3> QED
        BY <1>1, <2>2, <3>1 DEF PublishedOnceInOrder
    <2> QED
      BY <1>1, <2>1, <2>2
  <1> QED
    BY <1>1, <1>2 DEF PublishedOnceInOrder

(* Every step of chat() keeps PublishInv, overlapped or not. *)
LEMMA PublishInvNext == TypeInv /\ PublishInv /\ [Next]_vars => PublishInv'
  <1> SUFFICES ASSUME TypeInv, PublishInv, [Next]_vars PROVE PublishInv'
    OBVIOUS
  <1>0. /\ published \in Seq(Messages)
        /\ \A i \in 1..Len(published) : published[i] \in Messages
        /\ \A r \in Requests, x \in {"user", "ai"} : Msg(x, r) \in Messages
        /\ \A r \in Requests, x \in {"user", "ai"} : Msg(x, r).role = x /\ Msg(x, r).req = r
    <2>1. published \in Seq(Messages)
      BY DEF TypeInv, TypeOK
    <2>2. \A i \in 1..Len(published) : published[i] \in Messages
      BY <2>1, ElementOfSeq
    <2> QED
      BY <2>1, <2>2 DEF Msg, Messages
  <1>1. ASSUME NEW r \in Requests,
               Chat(r) \/ CreateThrows(r) \/ SetStrategy(r) \/ BuildRequest(r)
                 \/ ExecuteCurl(r) \/ CallThrows(r) \/ PushQuestion(r) \/ PushAnswer(r)
                 \/ PublishThrows(r)
        PROVE  PublishInv'
    <2>1. PICK p \in {"create", "failed", "branch", "call", "reply", "publishQuestion",
                      "publishAnswer"} : Goto(r, p)
      BY <1>1 DEF Chat, CreateThrows, SetStrategy, BuildRequest, ExecuteCurl, CallThrows,
                  PushQuestion, PushAnswer, PublishThrows
    <2>2. UNCHANGED <<published, round>> /\ pc'[r] = p /\ pc[r] \notin {"done", "failed"}
      BY <1>1, <2>1 DEF Chat, CreateThrows, SetStrategy, BuildRequest, ExecuteCurl, CallThrows,
                  PushQuestion, PushAnswer, PublishThrows, Goto, TypeInv, TypeOK
    <2>3. (Asked(r) => Asked(r)') /\ (Asked(r)' => Asked(r) \/ p = "failed")
      <3>1. CASE p \in {"create", "branch", "publishQuestion"}
        <4>1. pc[r] \in {"idle", "create", "pushQuestion"}
          BY <1>1, <2>1, <2>2, <3>1 DEF Chat, CreateThrows, SetStrategy, BuildRequest, ExecuteCurl,
               CallThrows, PushQuestion, PushAnswer, PublishThrows, Goto, TypeInv, TypeOK
        <4> QED
          BY <2>2, <3>1, <4>1 DEF Asked
      <3>2. CASE p \in {"call", "reply", "publishAnswer"}
        <4>1. \/ p = "call" /\ pc[r] = "build"
              \/ p = "reply" /\ pc[r] = "call"
              \/ p = "publishAnswer" /\ pc[r] = "pushAnswer"
          BY <1>1, <2>1, <2>2, <3>2 DEF Chat, CreateThrows, SetStrategy, BuildRequest, ExecuteCurl,
               CallThrows, PushQuestion, PushAnswer, PublishThrows, Goto, TypeInv, TypeOK
        <4> QED
          BY <2>2, <3>2, <4>1 DEF Asked
      <3>3. CASE p = "failed"
        BY <2>2, <3>3 DEF Asked
      <3> QED
        BY <2>1, <3>1, <3>2, <3>3
    <2> QED
      BY <2>1, <2>2, <2>3, PublishNothing DEF PCs, WritePCs
  <1>2. ASSUME NEW r \in Requests, Branch(r) \/ PushPrompt(r) PROVE PublishInv'
    <2>1. PICK p \in {"pushQuestion", "pushPrompt", "build"} :
             /\ Goto(r, p) /\ pc'[r] = p
             /\ p = "pushPrompt" => round'[r] # "plain"
             /\ p = "build" => pc[r] = "pushPrompt" /\ UNCHANGED round
      BY <1>2 DEF Branch, PushPrompt, Goto, TypeInv, TypeOK
    <2>2. /\ UNCHANGED published /\ pc[r] \in {"branch", "pushPrompt"}
          /\ \A s \in Requests \ {r} : round'[s] = round[s]
      BY <1>2 DEF Branch, PushPrompt, TypeInv, TypeOK
    <2>3. p = "build" => round'[r] # "plain"
      BY <2>1 DEF PublishInv
    <2>4. ~Asked(r) /\ ~Asked(r)'
      BY <2>1, <2>2, <2>3 DEF Asked
    <2> QED
      BY <2>1, <2>2, <2>4, PublishNothing DEF PCs, WritePCs
  <1>3. ASSUME NEW r \in Requests, ParseResponse(r) PROVE PublishInv'
    <2>1. /\ UNCHANGED <<published, round>> /\ pc[r] = "reply"
          /\ Goto(r, IF round[r] = "plain" THEN "pushAnswer" ELSE "popPrompt")
      BY <1>3 DEF ParseResponse
    <2>2. CASE round[r] = "plain"
      <3>1. Goto(r, "pushAnswer") /\ pc'[r] = "pushAnswer"
        BY <2>1, <2>2 DEF Goto, TypeInv, TypeOK
      <3>2. Asked(r) /\ Asked(r)'
        BY <2>1, <2>2, <3>1 DEF Asked
      <3> QED
        BY <2>1, <3>1, <3>2, PublishNothing DEF PCs, WritePCs
    <2>3. CASE round[r] # "plain"
      <3>1. Goto(r, "popPrompt") /\ pc'[r] = "popPrompt"
        BY <2>1, <2>3 DEF Goto, TypeInv, TypeOK
      <3>2. ~Asked(r) /\ ~Asked(r)'
        BY <2>1, <2>3, <3>1 DEF Asked
      <3> QED
        BY <2>1, <2>3, <3>1, <3>2, PublishNothing DEF PCs, WritePCs
    <2> QED
      BY <2>2, <2>3
  <1>4. ASSUME NEW r \in Requests, PopPrompt(r) PROVE PublishInv'
    <2>1. PICK p \in {"pushQuestion", "pushPrompt"} :
             /\ Goto(r, p) /\ pc'[r] = p
             /\ p = "pushPrompt" => round'[r] # "plain"
      BY <1>4 DEF PopPrompt, Goto, TypeInv, TypeOK
    <2>2. /\ UNCHANGED published /\ pc[r] = "popPrompt"
          /\ \A s \in Requests \ {r} : round'[s] = round[s]
      BY <1>4 DEF PopPrompt, TypeInv, TypeOK
    <2>3. ~Asked(r) /\ ~Asked(r)'
      BY <2>1, <2>2 DEF Asked
    <2> QED
      BY <2>1, <2>2, <2>3, PublishNothing DEF PCs, WritePCs
  <1>5. ASSUME NEW r \in Requests, PublishQuestion(r) PROVE PublishInv'
    <2>1. PICK p \in {"build", "pushAnswer"} :
             /\ Goto(r, p) /\ pc'[r] = p
             /\ p = "build" <=> round[r] = "plain"
             /\ \A s \in Requests \ {r} : pc'[s] = pc[s]
      BY <1>5 DEF PublishQuestion, Goto, TypeInv, TypeOK
    <2>2. /\ pc[r] = "publishQuestion" /\ published' = Append(published, Msg("user", r))
          /\ UNCHANGED round
      BY <1>5 DEF PublishQuestion
    <2>3. \A i \in 1..Len(published) : published[i].req \in Requests \ {r}
      <3>1. ~Asked(r)
        BY <2>2 DEF Asked
      <3> QED
        BY <1>0, <3>1 DEF PublishInv, Messages
    <2>4. /\ PublishedOnceInOrder'
          /\ Len(published') = Len(published) + 1
          /\ published'[Len(published) + 1] = Msg("user", r)
          /\ \A i \in 1..Len(published) : published'[i] = published[i]
      <3>1. \A i \in 1..Len(published) : published[i] # Msg("user", r)
        BY <1>0, <2>3
      <3>2. PublishedOnceInOrder
        BY DEF PublishInv
      <3> QED
        BY <1>0, <2>2, <3>1, <3>2, PublishOne
    <2>5. Asked(r)' /\ \A s \in Requests \ {r} : Asked(s)' <=> Asked(s)
      BY <2>1, <2>2 DEF Asked
    <2>6. Len(published) \in Nat
      BY <1>0, LenProperties
    <2>7. ASSUME NEW i \in 1..Len(published')
          PROVE  /\ Asked(published[i].req)'
                 /\ published'[i].role = "ai" => pc'[published'[i].req] = "done"
      <3>1. CASE i \in 1..Len(published)
        BY <2>1, <2>3, <2>4, <2>5, <3>1 DEF PublishInv
      <3>2. CASE i = Len(published) + 1
        BY <1>0, <2>4, <2>5, <3>2
      <3> QED
        BY <2>4, <2>6, <3>1, <3>2
    <2>8. /\ \E i \in 1..Len(published') : published'[i] = Msg("user", r)
          /\ \A s \in Requests : (\E i \in 1..Len(published) : published[i] = Msg("user", s)) =>
                \E i \in 1..Len(published') : published'[i] = Msg("user", s)
      BY <2>4, <2>6
    <2>9. \A s \in Requests : pc'[s] \in {"pushPrompt", "popPrompt"} => round'[s] # "plain"
      BY <2>1, <2>2 DEF PublishInv
    <2>10. \A s \in Requests :
             \/ pc'[s] \in {"pushAnswer", "publishAnswer"}
             \/ pc'[s] \in {"build", "call", "reply"} /\ round'[s] = "plain"
             => \E i \in 1..Len(published') : published'[i] = Msg("user", s)
      BY <2>1, <2>2, <2>8 DEF PublishInv
    <2> QED
      BY <2>4, <2>7, <2>9, <2>10 DEF PublishInv
  <1>6. ASSUME NEW r \in Requests, PublishAnswer(r) PROVE PublishInv'
    <2>1. /\ Goto(r, "done") /\ pc'[r] = "done" /\ pc[r] = "publishAnswer" /\ UNCHANGED round
          /\ \A s \in Requests \ {r} : pc'[s] = pc[s]
          /\ published' = Append(published, Msg("ai", r))
      BY <1>6 DEF PublishAnswer, Goto, TypeInv, TypeOK
    <2>2. \E i \in 1..Len(published) : published[i] = Msg("user", r)
      BY <2>1 DEF PublishInv
    <2>3. \A i \in 1..Len(published) : published[i] # Msg("ai", r)
      BY <1>0, <2>1 DEF PublishInv
    <2>4. /\ PublishedOnceInOrder'
          /\ Len(published') = Len(published) + 1
          /\ published'[Len(published) + 1] = Msg("ai", r)
          /\ \A i \in 1..Len(published) : published'[i] = published[i]
      <3>1. PublishedOnceInOrder
        BY DEF PublishInv
      <3> QED
        BY <1>0, <2>1, <2>2, <2>3, <3>1, PublishOne
    <2>5. Asked(r)' /\ \A s \in Requests \ {r} : Asked(s)' <=> Asked(s)
      BY <2>1 DEF Asked
    <2>6. Len(published) \in Nat
      BY <1>0, LenProperties
    <2>7. ASSUME NEW i \in 1..Len(published')
          PROVE  /\ Asked(published[i].req)'
                 /\ published'[i].role = "ai" => pc'[published'[i].req] = "done"
      <3>1. CASE i \in 1..Len(published)
        <4>1. published[i].req \in Requests
          BY <1>0, <3>1 DEF Messages
        <4> QED
          BY <2>1, <2>4, <2>5, <3>1, <4>1 DEF PublishInv
      <3>2. CASE i = Len(published) + 1
        BY <1>0, <2>1, <2>4, <2>5, <3>2
      <3> QED
        BY <2>4, <2>6, <3>1, <3>2
    <2>8. \A s \in Requests : (\E i \in 1..Len(published) : published[i] = Msg("user", s)) =>
             \E i \in 1..Len(published') : published'[i] = Msg("user", s)
      BY <2>4, <2>6
    <2>9. \A s \in Requests : pc'[s] \in {"pushPrompt", "popPrompt"} => round'[s] # "plain"
      BY <2>1 DEF PublishInv
    <2>10. \A s \in Requests :
             \/ pc'[s] \in {"pushAnswer", "publishAnswer"}
             \/ pc'[s] \in {"build", "call", "reply"} /\ round'[s] = "plain"
             => \E i \in 1..Len(published') : published'[i] = Msg("user", s)
      BY <2>1, <2>8 DEF PublishInv
    <2> QED
      BY <2>4, <2>7, <2>9, <2>10 DEF PublishInv
  <1>7. CASE UNCHANGED vars
    BY <1>7 DEF vars, PublishInv, PublishedOnceInOrder, Asked
  <1> QED
    BY <1>1, <1>2, <1>3, <1>4, <1>5, <1>6, <1>7 DEF Next, Step

(* However requests interleave and fail, and whatever write a race on the  *)
(* vector loses, the queue is handed of each of them nothing, its question *)
(* or its question and then its answer, each once, and never a prompt.     *)
THEOREM PublishedOnceInOrderTheorem == Spec => []PublishedOnceInOrder
  <1>1. Init => PublishInv
    <2> SUFFICES ASSUME Init PROVE PublishInv
      OBVIOUS
    <2>1. published = <<>> /\ Len(published) = 0 /\ \A r \in Requests : pc[r] = "idle"
      BY DEF Init
    <2> QED
      BY <2>1 DEF PublishInv, PublishedOnceInOrder
  <1>2. PublishInv => PublishedOnceInOrder
    BY DEF PublishInv
  <1> QED
    BY TypeInvInit, TypeInvNext, PublishInvNext, <1>1, <1>2, PTL DEF Spec

-----------------------------------------------------------------------------
(* What SoleInv says of the last message, said of all of them: while chats *)
(* follow each other, memory alternates, and the log is as long as what    *)
(* was said less the text that is about to be published.                   *)
Publishing == \E r \in Requests : pc[r] \in {"publishQuestion", "publishAnswer"}

Placed(i) ==
    \/ /\ messages[i].role = "prompt"
       /\ i = Len(messages)
       /\ \E r \in Requests : pc[r] \in {"build", "call", "reply", "popPrompt"}
    \/ messages[i].role = "user" /\ i % 2 = 1
    \/ messages[i].role = "ai" /\ i % 2 = 0 /\ messages[i - 1] = Msg("user", messages[i].req)

HistoryInv ==
    overlaps = 0 /\ ~failed => \A i \in 1..Len(messages) : Placed(i)

LogInv ==
    overlaps = 0 /\ ~unpublished =>
       /\ Len(published) = Said(Len(messages)) - (IF Publishing THEN 1 ELSE 0)
       /\ \A i \in 1..Len(messages) :
             messages[i].role # "prompt" /\ Said(i) <= Len(published) =>
                published[Said(i)] = messages[i]

(* Said, by its recursion. *)
LEMMA SaidStep ==
  /\ Said(0) = 0
  /\ \A n \in Nat : /\ Said(n) \in Nat
                    /\ Said(n + 1) = Said(n) + IF messages[n + 1].role # "prompt" THEN 1 ELSE 0
  <1> DEFINE S(n) == {j \in 1..n : messages[j].role # "prompt"}
  <1>1. \A n \in Nat : IsFiniteSet(S(n)) /\ Cardinality(S(n)) \in Nat
    <2> TAKE n \in Nat
    <2>1. IsFiniteSet(1..n)
      BY FS_Interval
    <2> QED
      BY <2>1, FS_Subset, FS_CardinalityType
  <1>2. Cardinality(S(0)) = 0
    BY FS_EmptySet
  <1>3. ASSUME NEW n \in Nat
        PROVE  Cardinality(S(n + 1)) =
                  Cardinality(S(n)) + IF messages[n + 1].role # "prompt" THEN 1 ELSE 0
    <2>1. CASE messages[n + 1].role # "prompt"
      <3>1. S(n + 1) = S(n) \union {n + 1} /\ n + 1 \notin S(n)
        BY <2>1
      <3>2. Cardinality(S(n) \union {n + 1}) = Cardinality(S(n)) + 1
        BY <1>1, <3>1, FS_AddElement
      <3> QED
        BY <2>1, <3>1, <3>2
    <2>2. CASE messages[n + 1].role = "prompt"
      <3>1. S(n + 1) = S(n)
        BY <2>2
      <3> HIDE DEF S
      <3>2. Cardinality(S(n + 1)) = Cardinality(S(n)) /\ Cardinality(S(n)) \in Nat
        BY <1>1, <3>1
      <3> QED
        BY <2>2, <3>2
    <2> QED
      BY <2>1, <2>2
  <1> QED
    BY <1>1, <1>2, <1>3 DEF Said

(* The more messages, the more was said. *)
LEMMA SaidMonotone ==
  ASSUME NEW i \in Nat, NEW k \in Nat, i <= k
  PROVE  Said(i) <= Said(k)
  <1>1. IsFiniteSet(1..k)
    BY FS_Interval
  <1>2. IsFiniteSet({j \in 1..k : messages[j].role # "prompt"})
    BY <1>1, FS_Subset
  <1>3. {j \in 1..i : messages[j].role # "prompt"} \subseteq {j \in 1..k : messages[j].role # "prompt"}
    OBVIOUS
  <1> QED
    BY <1>2, <1>3, FS_Subset DEF Said

(* A step that leaves the first messages alone leaves their count alone. *)
LEMMA SaidSame ==
  ASSUME NEW n \in Nat, \A j \in 1..n : messages'[j] = messages[j]
  PROVE  \A i \in 0..n : Said(i)' = Said(i)
  <1> TAKE i \in 0..n
  <1>1. {j \in 1..i : messages'[j].role # "prompt"} = {j \in 1..i : messages[j].role # "prompt"}
    OBVIOUS
  <1> QED
    BY <1>1 DEF Said

(* What push_back and pop_back do to the messages before the last one. *)
LEMMA PushShape ==
  ASSUME NEW e \in Messages, messages \in Seq(Messages), messages' = Append(messages, e)
  PROVE  /\ Len(messages) \in Nat
         /\ Len(messages') = Len(messages) + 1
         /\ messages'[Len(messages) + 1] = e
         /\ \A i \in 1..Len(messages) : messages'[i] = messages[i]
  BY AppendProperties, LenProperties

LEMMA PopShape ==
  ASSUME messages \in Seq(Messages), messages # <<>>, messages' = Front(messages)
  PROVE  /\ Len(messages) \in Nat \ {0}
         /\ Len(messages') = Len(messages) - 1
         /\ \A i \in 1..(Len(messages) - 1) : messages'[i] = messages[i]
         /\ Last(messages) = messages[Len(messages)]
  <1>1. PICK n \in Nat : n = Len(messages) /\ n # 0
    BY EmptySeq, LenProperties
  <1>2. Len(messages') = n - 1
    BY <1>1, FrontType
  <1>3. messages' = SubSeq(messages, 1, n - 1)
    BY <1>1 DEF Front
  <1>4. \A i \in 1..(n - 1) : messages'[i] = messages[i]
    BY <1>1, <1>3, SubSeqProperties
  <1> QED
    BY <1>1, <1>2, <1>4 DEF Last

(* A chat that runs without overlap is alone and sane, and the length of   *)
(* memory tells whose turn it is.                                          *)
LEMMA Solo ==
  ASSUME TypeInv, SoleInv, overlaps = 0, NEW r \in Requests, pc[r] \in Running
  PROVE  /\ Alone(r)
         /\ Sane(r)
         /\ ~failed => (Len(messages) % 2 = 1 <=> pc[r] \in Odd)
         /\ Publishing <=> pc[r] \in {"publishQuestion", "publishAnswer"}
  BY DEF SoleInv, Parity, Alone, Odd, Running, WritePCs, Publishing

(* What the overlap counter says now it said before. *)
LEMMA OverlapsGrow == TypeInv /\ [Next]_vars /\ overlaps' = 0 => overlaps = 0
  BY DEF TypeInv, TypeOK, Next, Step, Chat, CreateThrows, SetStrategy, Branch, PushPrompt,
         BuildRequest, ExecuteCurl, ParseResponse, CallThrows, PopPrompt, PushQuestion,
         PublishQuestion, PushAnswer, PublishAnswer, PublishThrows, history, vars

(* Every step of chat() keeps HistoryInv. *)
LEMMA HistoryInvNext == TypeInv /\ SoleInv /\ HistoryInv /\ [Next]_vars => HistoryInv'
  <1> SUFFICES ASSUME TypeInv, SoleInv, HistoryInv, [Next]_vars, overlaps' = 0, ~failed'
               PROVE  \A i \in 1..Len(messages') : Placed(i)'
    BY DEF HistoryInv
  <1>a. overlaps = 0
    BY OverlapsGrow
  <1>b. ~failed
    BY DEF Next, Step, Chat, CreateThrows, SetStrategy, Branch, PushPrompt, BuildRequest,
           ExecuteCurl, ParseResponse, CallThrows, PopPrompt, PushQuestion, PublishQuestion,
           PushAnswer, PublishAnswer, PublishThrows, history, vars
  <1>c. \A i \in 1..Len(messages) : Placed(i)
    BY <1>a, <1>b DEF HistoryInv
  <1>d. /\ messages \in Seq(Messages)
        /\ \A r \in Requests, x \in {"user", "ai", "prompt"} :
              Msg(x, r) \in Messages /\ Msg(x, r).role = x /\ Msg(x, r).req = r
    BY DEF TypeInv, TypeOK, Msg, Messages
  <1>1. ASSUME NEW r \in Requests, UNCHANGED messages, NEW p \in PCs, Goto(r, p),
               pc[r] \in {"build", "call", "reply", "popPrompt"} =>
                  \/ p \in {"build", "call", "reply", "popPrompt"}
                  \/ Last(messages).role # "prompt"
        PROVE  \A i \in 1..Len(messages') : Placed(i)'
    <2>1. pc'[r] = p /\ \A s \in Requests \ {r} : pc'[s] = pc[s]
      BY <1>1 DEF Goto, TypeInv, TypeOK
    <2> SUFFICES ASSUME NEW i \in 1..Len(messages) PROVE Placed(i)'
      BY <1>1
    <2>2. CASE messages[i].role = "prompt"
      <3>1. /\ i = Len(messages)
            /\ \E s \in Requests : pc[s] \in {"build", "call", "reply", "popPrompt"}
        BY <1>c, <2>2 DEF Placed
      <3>2. Last(messages).role = "prompt"
        BY <2>2, <3>1 DEF Last
      <3>3. \E s \in Requests : pc'[s] \in {"build", "call", "reply", "popPrompt"}
        BY <1>1, <2>1, <3>1, <3>2
      <3> QED
        BY <1>1, <2>2, <3>1, <3>3 DEF Placed
    <2>3. CASE messages[i].role # "prompt"
      BY <1>1, <1>c, <2>3 DEF Placed
    <2> QED
      BY <2>2, <2>3
  <1>2. ASSUME NEW r \in Requests,
               Chat(r) \/ CreateThrows(r) \/ SetStrategy(r) \/ Branch(r) \/ BuildRequest(r)
                 \/ ExecuteCurl(r) \/ PublishQuestion(r) \/ PublishAnswer(r)
        PROVE  \A i \in 1..Len(messages') : Placed(i)'
    <2>1. PICK p \in PCs : Goto(r, p)
      BY <1>2 DEF Chat, CreateThrows, SetStrategy, Branch, BuildRequest, ExecuteCurl,
                  PublishQuestion, PublishAnswer, PCs, WritePCs
    <2>2. UNCHANGED messages
      BY <1>2 DEF Chat, CreateThrows, SetStrategy, Branch, BuildRequest, ExecuteCurl,
                  PublishQuestion, PublishAnswer
    <2>3. pc[r] \in {"build", "call", "reply", "popPrompt"} => p \in {"call", "reply"}
      BY <1>2, <2>1 DEF Chat, CreateThrows, SetStrategy, Branch, BuildRequest, ExecuteCurl,
                  PublishQuestion, PublishAnswer, Goto, TypeInv, TypeOK
    <2> QED
      BY <1>1, <2>1, <2>2, <2>3
  <1>3. ASSUME NEW r \in Requests, ParseResponse(r)
        PROVE  \A i \in 1..Len(messages') : Placed(i)'
    <2>1. PICK p \in {"pushAnswer", "popPrompt"} :
             /\ Goto(r, p)
             /\ p = "pushAnswer" <=> round[r] = "plain"
      BY <1>3 DEF ParseResponse
    <2>2. UNCHANGED messages /\ pc[r] = "reply"
      BY <1>3 DEF ParseResponse
    <2>3. p = "pushAnswer" => Last(messages) = Msg("user", r)
      BY <1>a, <2>1, <2>2, Solo DEF Sane, OwnText, Running
    <2> QED
      BY <1>1, <1>d, <2>1, <2>2, <2>3 DEF PCs, WritePCs
  <1>e. ASSUME NEW r \in Requests, pc[r] \in {"pushPrompt", "pushQuestion", "pushAnswer"}
        PROVE  \A i \in 1..Len(messages) : messages[i].role # "prompt"
    <2>1. Alone(r)
      BY <1>a, <1>e, Solo DEF Running, WritePCs
    <2>2. ~ \E s \in Requests : pc[s] \in {"build", "call", "reply", "popPrompt"}
      BY <1>e, <2>1 DEF Alone, Running, WritePCs
    <2> QED
      BY <1>c, <2>2 DEF Placed
  <1>4. ASSUME NEW r \in Requests, PushPrompt(r) \/ PushQuestion(r) \/ PushAnswer(r)
        PROVE  \A i \in 1..Len(messages') : Placed(i)'
    <2>1. PICK p \in {"build", "publishQuestion", "publishAnswer"}, x \in {"user", "ai", "prompt"} :
             /\ Goto(r, p)
             /\ Write(r, Append(messages, Msg(x, r)))
             /\ \/ p = "build" /\ pc[r] = "pushPrompt" /\ x = "prompt"
                \/ p = "publishQuestion" /\ pc[r] = "pushQuestion" /\ x = "user"
                \/ p = "publishAnswer" /\ pc[r] = "pushAnswer" /\ x = "ai"
      <3>1. CASE PushPrompt(r)
        BY <3>1 DEF PushPrompt
      <3>2. CASE PushQuestion(r)
        BY <3>2 DEF PushQuestion
      <3>3. CASE PushAnswer(r)
        BY <3>3 DEF PushAnswer
      <3> QED
        BY <1>4, <3>1, <3>2, <3>3
    <2>2. /\ Alone(r) /\ Sane(r)
          /\ Len(messages) % 2 = 1 <=> pc[r] \in Odd
      BY <1>a, <1>b, <2>1, Solo DEF Running, WritePCs
    <2>3. messages' = Append(messages, Msg(x, r))
      BY <2>1, <2>2, WriteAlone
    <2>4. /\ Len(messages) \in Nat
          /\ Len(messages') = Len(messages) + 1
          /\ messages'[Len(messages) + 1] = Msg(x, r)
          /\ \A i \in 1..Len(messages) : messages'[i] = messages[i]
      BY <1>d, <2>3, PushShape
    <2>5. Last(messages) = messages[Len(messages)]
      BY DEF Last
    <2>6. pc'[r] = p
      BY <2>1 DEF Goto, TypeInv, TypeOK
    <2> SUFFICES ASSUME NEW i \in 1..(Len(messages) + 1) PROVE Placed(i)'
      BY <2>4
    <2>7. CASE i \in 1..Len(messages)
      <3>1. messages[i].role # "prompt" /\ Placed(i)
        BY <1>c, <1>e, <2>1, <2>7
      <3>2. messages'[i] = messages[i] /\ (i # 1 => messages'[i - 1] = messages[i - 1])
        BY <2>4, <2>7
      <3> QED
        BY <3>1, <3>2 DEF Placed
    <2>8. CASE i = Len(messages) + 1
      <3>1. messages'[i] = Msg(x, r) /\ i = Len(messages')
        BY <2>4, <2>8
      <3>2. CASE x = "prompt"
        BY <1>d, <2>1, <2>6, <3>1, <3>2 DEF Placed
      <3>3. CASE x = "user"
        <4>1. i % 2 = 1
          BY <2>1, <2>2, <2>4, <2>8, <3>3, ParityFlips DEF Odd
        <4> QED
          BY <1>d, <3>1, <3>3, <4>1 DEF Placed
      <3>4. CASE x = "ai"
        <4>1. Len(messages) % 2 = 1 /\ Last(messages) = Msg("user", r)
          BY <2>1, <2>2, <3>4 DEF Odd, Sane
        <4>2. i % 2 = 0 /\ i - 1 = Len(messages) /\ Len(messages) \in 1..Len(messages)
          BY <2>4, <2>8, <4>1
        <4>3. messages'[i - 1] = Msg("user", r)
          BY <2>4, <2>5, <4>1, <4>2
        <4> QED
          BY <1>d, <3>1, <3>4, <4>2, <4>3 DEF Placed
      <3> QED
        BY <3>2, <3>3, <3>4
    <2> QED
      BY <2>4, <2>7, <2>8
  <1>5. ASSUME NEW r \in Requests, PopPrompt(r)
        PROVE  \A i \in 1..Len(messages') : Placed(i)'
    <2>1. pc[r] = "popPrompt" /\ Write(r, IF messages = <<>> THEN <<>> ELSE Front(messages))
      BY <1>5 DEF PopPrompt
    <2>2. Alone(r) /\ messages # <<>>
      BY <1>a, <2>1, Solo DEF Sane, Running, WritePCs
    <2>3. messages' = Front(messages)
      BY <2>1, <2>2, WriteAlone
    <2>4. /\ Len(messages) \in Nat \ {0}
          /\ Len(messages') = Len(messages) - 1
          /\ \A i \in 1..(Len(messages) - 1) : messages'[i] = messages[i]
      BY <1>d, <2>2, <2>3, PopShape
    <2> SUFFICES ASSUME NEW i \in 1..(Len(messages) - 1) PROVE Placed(i)'
      BY <2>4
    <2>5. Placed(i) /\ messages[i].role # "prompt"
      BY <1>c, <2>4 DEF Placed
    <2>6. messages'[i] = messages[i] /\ (i # 1 => messages'[i - 1] = messages[i - 1])
      BY <2>4
    <2> QED
      BY <2>5, <2>6 DEF Placed
  <1>6. ASSUME NEW r \in Requests, CallThrows(r) \/ PublishThrows(r)
        PROVE  \A i \in 1..Len(messages') : Placed(i)'
    BY <1>6 DEF CallThrows, PublishThrows
  <1>7. CASE UNCHANGED vars
    BY <1>7, <1>c DEF vars, Placed
  <1> QED
    BY <1>2, <1>3, <1>4, <1>5, <1>6, <1>7 DEF Next, Step

(* Every step of chat() keeps LogInv. *)
LEMMA LogInvNext == TypeInv /\ SoleInv /\ LogInv /\ [Next]_vars => LogInv'
  <1> DEFINE Matches(rows) == \A i \in 1..Len(messages) :
                                messages[i].role # "prompt" /\ Said(i) <= Len(rows) =>
                                   rows[Said(i)] = messages[i]
  <1> SUFFICES ASSUME TypeInv, SoleInv, LogInv, [Next]_vars, overlaps' = 0, ~unpublished'
               PROVE  /\ Len(published') = Said(Len(messages))' - (IF Publishing' THEN 1 ELSE 0)
                      /\ Matches(published)'
    BY DEF LogInv
  <1>a. overlaps = 0
    BY OverlapsGrow
  <1>b. ~unpublished
    BY DEF Next, Step, Chat, CreateThrows, SetStrategy, Branch, PushPrompt, BuildRequest,
           ExecuteCurl, ParseResponse, CallThrows, PopPrompt, PushQuestion, PublishQuestion,
           PushAnswer, PublishAnswer, PublishThrows, history, vars
  <1>c. /\ Len(published) = Said(Len(messages)) - (IF Publishing THEN 1 ELSE 0)
        /\ Matches(published)
    BY <1>a, <1>b DEF LogInv
  <1>d. /\ messages \in Seq(Messages) /\ published \in Seq(Messages)
        /\ Len(messages) \in Nat /\ Len(published) \in Nat
        /\ \A r \in Requests, x \in {"user", "ai", "prompt"} :
              Msg(x, r) \in Messages /\ Msg(x, r).role = x
    BY LenProperties DEF TypeInv, TypeOK, Msg, Messages
  <1>1. ASSUME UNCHANGED <<messages, published>>, Publishing' <=> Publishing
        PROVE  /\ Len(published') = Said(Len(messages))' - (IF Publishing' THEN 1 ELSE 0)
               /\ Matches(published)'
    BY <1>1, <1>c DEF Said
  <1>2. ASSUME NEW r \in Requests,
               Chat(r) \/ CreateThrows(r) \/ SetStrategy(r) \/ Branch(r) \/ BuildRequest(r)
                 \/ ExecuteCurl(r) \/ ParseResponse(r) \/ CallThrows(r)
        PROVE  /\ Len(published') = Said(Len(messages))' - (IF Publishing' THEN 1 ELSE 0)
               /\ Matches(published)'
    <2>1. /\ UNCHANGED <<messages, published>>
          /\ pc[r] \notin {"publishQuestion", "publishAnswer"}
          /\ \E p \in PCs \ {"publishQuestion", "publishAnswer"} : Goto(r, p)
      BY <1>2 DEF Chat, CreateThrows, SetStrategy, Branch, BuildRequest, ExecuteCurl,
                  ParseResponse, CallThrows, PCs, WritePCs
    <2>2. Publishing' <=> Publishing
      BY <2>1 DEF Publishing, Goto, TypeInv, TypeOK
    <2> QED
      BY <1>1, <2>1, <2>2
  <1>3. ASSUME NEW r \in Requests, PushPrompt(r) \/ PushQuestion(r) \/ PushAnswer(r)
        PROVE  /\ Len(published') = Said(Len(messages))' - (IF Publishing' THEN 1 ELSE 0)
               /\ Matches(published)'
    <2>1. PICK p \in {"build", "publishQuestion", "publishAnswer"}, x \in {"user", "ai", "prompt"} :
             /\ Goto(r, p)
             /\ Write(r, Append(messages, Msg(x, r)))
             /\ p = "build" <=> x = "prompt"
      <3>1. CASE PushPrompt(r)
        BY <3>1 DEF PushPrompt
      <3>2. CASE PushQuestion(r)
        BY <3>2 DEF PushQuestion
      <3>3. CASE PushAnswer(r)
        BY <3>3 DEF PushAnswer
      <3> QED
        BY <1>3, <3>1, <3>2, <3>3
    <2>2. pc[r] \in {"pushPrompt", "pushQuestion", "pushAnswer"} /\ UNCHANGED published
      BY <1>3 DEF PushPrompt, PushQuestion, PushAnswer
    <2>3. Alone(r) /\ ~Publishing
      BY <1>a, <2>2, Solo DEF Running, WritePCs
    <2>4. messages' = Append(messages, Msg(x, r))
      BY <2>1, <2>3, WriteAlone
    <2>5. /\ Len(messages') = Len(messages) + 1
          /\ messages'[Len(messages) + 1] = Msg(x, r)
          /\ \A i \in 1..Len(messages) : messages'[i] = messages[i]
      BY <1>d, <2>4, PushShape
    <2>6. Publishing' <=> x # "prompt"
      <3>1. pc'[r] = p /\ \A s \in Requests \ {r} : pc'[s] = pc[s]
        BY <2>1 DEF Goto, TypeInv, TypeOK
      <3> QED
        BY <2>1, <2>3, <3>1 DEF Publishing
    <2>0. (\A n \in Nat : /\ Said(n) \in Nat
                          /\ Said(n + 1) = Said(n) +
                                IF messages[n + 1].role # "prompt" THEN 1 ELSE 0)'
      BY SaidStep, PTL
    <2>7. PICK n \in Nat : n = Len(messages)
      BY <1>d
    <2>8. \A i \in 0..n : Said(i)' = Said(i) /\ Said(i) \in Nat
      <3>1. \A i \in 0..n : Said(i)' = Said(i)
        BY <2>5, <2>7, SaidSame
      <3>2. \A i \in 0..n : Said(i) \in Nat
        BY SaidStep
      <3> QED
        BY <3>1, <3>2
    <2>9. Said(n + 1)' = Said(n) + IF x # "prompt" THEN 1 ELSE 0
      <3>2. Said(n + 1)' = Said(n)' + IF messages'[n + 1].role # "prompt" THEN 1 ELSE 0
        BY <2>0
      <3>3. messages'[n + 1].role = x /\ Said(n)' = Said(n)
        BY <1>d, <2>5, <2>7, <2>8
      <3> QED
        BY <3>2, <3>3
    <2>10. Said(Len(messages))' = Said(n + 1)'
      BY <2>5, <2>7
    <2>11. Len(published) = Said(n)
      BY <1>c, <2>3, <2>7, <2>8
    <2>12. Len(published') = Said(Len(messages))' - (IF Publishing' THEN 1 ELSE 0)
      BY <2>2, <2>6, <2>8, <2>9, <2>10, <2>11
    <2>13. ASSUME NEW i \in 1..(n + 1), messages'[i].role # "prompt", Said(i)' <= Len(published)
           PROVE  published[Said(i)'] = messages'[i]
      <3>1. CASE i = n + 1
        <4>1. messages'[n + 1].role = x
          BY <1>d, <2>5, <2>7
        <4>2. Said(n + 1)' = Said(n) + 1 /\ Said(n) \in Nat
          BY <2>8, <2>9, <2>13, <3>1, <4>1
        <4> QED
          BY <2>11, <2>13, <3>1, <4>2
      <3>2. CASE i \in 1..n
        BY <1>c, <2>5, <2>7, <2>8, <2>13, <3>2
      <3> QED
        BY <3>1, <3>2
    <2> QED
      BY <2>2, <2>5, <2>7, <2>12, <2>13
  <1>4. ASSUME NEW r \in Requests, PopPrompt(r)
        PROVE  /\ Len(published') = Said(Len(messages))' - (IF Publishing' THEN 1 ELSE 0)
               /\ Matches(published)'
    <2>1. /\ pc[r] = "popPrompt" /\ UNCHANGED published
          /\ Write(r, IF messages = <<>> THEN <<>> ELSE Front(messages))
          /\ \E p \in {"pushQuestion", "pushPrompt"} : Goto(r, p)
      BY <1>4 DEF PopPrompt
    <2>2. Alone(r) /\ messages # <<>> /\ Last(messages) = Msg("prompt", r) /\ ~Publishing
      BY <1>a, <2>1, Solo DEF Sane, Running, WritePCs
    <2>3. messages' = Front(messages)
      BY <2>1, <2>2, WriteAlone
    <2>4. PICK n \in Nat : Len(messages) = n + 1
      BY <1>d, <2>2, <2>3, PopShape
    <2>5. /\ Len(messages') = n
          /\ \A i \in 1..n : messages'[i] = messages[i]
          /\ messages[n + 1] = Msg("prompt", r)
      BY <1>d, <2>2, <2>3, <2>4, PopShape
    <2>6. ~Publishing'
      BY <2>1, <2>2 DEF Publishing, Goto, TypeInv, TypeOK
    <2>7. \A i \in 0..n : Said(i)' = Said(i)
      BY <2>5, SaidSame
    <2>8. Said(n + 1) = Said(n) /\ Said(n) \in Nat
      <3>1. Said(n + 1) = Said(n) + IF messages[n + 1].role # "prompt" THEN 1 ELSE 0
        BY SaidStep
      <3>2. Said(n) \in Nat /\ messages[n + 1].role = "prompt"
        BY <1>d, <2>5, SaidStep
      <3> QED
        BY <3>1, <3>2
    <2>9. Said(Len(messages))' = Said(n)
      BY <2>5, <2>7
    <2>10. Len(published') = Said(Len(messages))' - (IF Publishing' THEN 1 ELSE 0)
      BY <1>c, <2>1, <2>2, <2>4, <2>6, <2>8, <2>9
    <2>11. ASSUME NEW i \in 1..n, messages'[i].role # "prompt", Said(i)' <= Len(published)
           PROVE  published[Said(i)'] = messages'[i]
      BY <1>c, <2>4, <2>5, <2>7, <2>11
    <2> QED
      BY <2>1, <2>5, <2>10, <2>11
  <1>5. ASSUME NEW r \in Requests, PublishQuestion(r) \/ PublishAnswer(r)
        PROVE  /\ Len(published') = Said(Len(messages))' - (IF Publishing' THEN 1 ELSE 0)
               /\ Matches(published)'
    <2>1. PICK x \in {"user", "ai"} :
             /\ x = "user" <=> pc[r] = "publishQuestion"
             /\ published' = Append(published, Msg(x, r))
             /\ pc[r] \in {"publishQuestion", "publishAnswer"} /\ UNCHANGED messages
             /\ \E p \in {"build", "pushAnswer", "done"} : Goto(r, p)
      <3>1. CASE PublishQuestion(r)
        BY <3>1 DEF PublishQuestion
      <3>2. CASE PublishAnswer(r)
        BY <3>2 DEF PublishAnswer
      <3> QED
        BY <1>5, <3>1, <3>2
    <2>2. Alone(r) /\ messages # <<>> /\ Last(messages) = Msg(x, r) /\ Publishing
      BY <1>a, <2>1, Solo DEF Sane, Running, WritePCs
    <2>3. ~Publishing'
      BY <2>1, <2>2 DEF Publishing, Alone, Running, WritePCs, Goto, TypeInv, TypeOK
    <2>4. PICK n \in Nat : Len(messages) = n + 1
      BY <1>d, <2>2, EmptySeq
    <2>5. messages[n + 1] = Msg(x, r)
      BY <2>2, <2>4 DEF Last
    <2>6. \A i \in Nat : Said(i)' = Said(i) /\ Said(i) \in Nat
      BY <2>1, SaidStep DEF Said
    <2>7. Said(n + 1) = Said(n) + 1
      <3>1. Said(n + 1) = Said(n) + IF messages[n + 1].role # "prompt" THEN 1 ELSE 0
        BY SaidStep
      <3> QED
        BY <1>d, <2>5, <3>1
    <2>8. Len(published) = Said(n)
      BY <1>c, <2>2, <2>4, <2>6, <2>7
    <2>9. /\ Len(published') = Said(n) + 1
          /\ published'[Said(n) + 1] = Msg(x, r)
          /\ \A i \in 1..Said(n) : published'[i] = published[i]
      BY <1>d, <2>1, <2>8, AppendProperties
    <2>10. Len(published') = Said(Len(messages))' - (IF Publishing' THEN 1 ELSE 0)
      BY <2>1, <2>3, <2>4, <2>6, <2>7, <2>9
    <2>11. ASSUME NEW i \in 1..(n + 1), messages[i].role # "prompt"
           PROVE  published'[Said(i)] = messages[i]
      <3>1. CASE i = n + 1
        BY <2>5, <2>7, <2>9, <3>1
      <3>2. CASE i \in 1..n
        <4>1. Said(i) <= Said(n) /\ Said(i) \in Nat
          BY <3>2, <2>6, SaidMonotone
        <4>2. 1 <= Said(i)
          <5>1. PICK k \in Nat : i = k + 1
            BY <3>2
          <5>2. Said(k + 1) = Said(k) + IF messages[k + 1].role # "prompt" THEN 1 ELSE 0
            BY SaidStep
          <5> QED
            BY <2>6, <2>11, <5>1, <5>2
        <4>3. published[Said(i)] = messages[i]
          BY <1>c, <2>4, <2>8, <2>11, <3>2, <4>1
        <4>4. Said(i) \in 1..Said(n)
          <5>1. Said(n) \in Nat
            BY <2>6
          <5> QED
            BY <4>1, <4>2, <5>1
        <4> QED
          BY <2>9, <4>3, <4>4
      <3> QED
        BY <3>1, <3>2
    <2>12. \A i \in 1..(n + 1) : Said(i)' = Said(i)
      BY <2>6
    <2> QED
      BY <2>1, <2>4, <2>10, <2>11, <2>12
  <1>6. ASSUME NEW r \in Requests, PublishThrows(r)
        PROVE  /\ Len(published') = Said(Len(messages))' - (IF Publishing' THEN 1 ELSE 0)
               /\ Matches(published)'
    BY <1>6 DEF PublishThrows
  <1>7. CASE UNCHANGED vars
    BY <1>1, <1>7 DEF vars, Publishing
  <1> QED
    BY <1>2, <1>3, <1>4, <1>5, <1>6, <1>7 DEF Next, Step

(* Of chats that follow each other, memory alternates between user and     *)
(* model with no prompt left over, and the log holds what memory holds, up *)
(* to the text that is being added: for any number of requests and models. *)
THEOREM SerialChatsTheorem == Spec => []SerialChats
  <1>1. Init => HistoryInv /\ LogInv
    <2> SUFFICES ASSUME Init PROVE HistoryInv /\ LogInv
      OBVIOUS
    <2>1. messages = <<>> /\ published = <<>> /\ Len(messages) = 0 /\ Len(published) = 0
      BY DEF Init
    <2>2. ~Publishing
      BY DEF Init, Publishing
    <2> QED
      BY <2>1, <2>2, SaidStep DEF HistoryInv, LogInv
  <1>2. HistoryInv => SerialHistory
    BY DEF HistoryInv, SerialHistory, Placed, InFlight
  <1>3. TypeInv /\ LogInv => SerialLog
    <2> SUFFICES ASSUME TypeInv, LogInv PROVE SerialLog
      OBVIOUS
    <2>1. Said(Len(messages)) \in Nat
      BY SaidStep, LenProperties DEF TypeInv, TypeOK
    <2> QED
      BY <2>1 DEF LogInv, SerialLog
  <1> QED
    BY TypeInvInit, TypeInvNext, SoleInvInit, SoleInvNext, HistoryInvNext, LogInvNext,
       <1>1, <1>2, <1>3, PTL DEF Spec, SerialChats

-----------------------------------------------------------------------------
(* Ranks, by their recursion; they never fall, and what counts has a rank  *)
(* of its own.                                                             *)
LEMMA RankStep ==
  ASSUME NEW s, NEW but
  PROVE  /\ Rank(s, 0, but) = 0
         /\ \A n \in Nat :
               /\ Rank(s, n, but) \in Nat
               /\ s[n + 1].text[2] \notin but => Rank(s, n + 1, but) = Rank(s, n, but) + 1
               /\ s[n + 1].text[2] \in but => Rank(s, n + 1, but) = Rank(s, n, but)
  <1> DEFINE S(n) == {j \in 1..n : s[j].text[2] \notin but}
  <1>1. \A n \in Nat : IsFiniteSet(S(n)) /\ Cardinality(S(n)) \in Nat
    <2> TAKE n \in Nat
    <2>1. IsFiniteSet(1..n)
      BY FS_Interval
    <2> QED
      BY <2>1, FS_Subset, FS_CardinalityType
  <1>2. Cardinality(S(0)) = 0
    BY FS_EmptySet
  <1>3. ASSUME NEW n \in Nat, s[n + 1].text[2] \notin but
        PROVE  Cardinality(S(n + 1)) = Cardinality(S(n)) + 1
    <2>1. S(n + 1) = S(n) \union {n + 1} /\ n + 1 \notin S(n)
      BY <1>3
    <2>2. Cardinality(S(n) \union {n + 1}) = Cardinality(S(n)) + 1
      BY <1>1, <2>1, FS_AddElement
    <2> QED
      BY <2>1, <2>2
  <1>4. ASSUME NEW n \in Nat, s[n + 1].text[2] \in but
        PROVE  S(n + 1) = S(n)
    BY <1>4
  <1> QED
    BY <1>1, <1>2, <1>3, <1>4 DEF Rank

LEMMA RankMonotone ==
  ASSUME NEW s, NEW but, NEW i \in Nat, NEW n \in Nat, i <= n
  PROVE  Rank(s, i, but) <= Rank(s, n, but)
  <1>1. IsFiniteSet(1..n)
    BY FS_Interval
  <1>2. IsFiniteSet({j \in 1..n : s[j].text[2] \notin but})
    BY <1>1, FS_Subset
  <1>3. {j \in 1..i : s[j].text[2] \notin but} \subseteq {j \in 1..n : s[j].text[2] \notin but}
    OBVIOUS
  <1> QED
    BY <1>2, <1>3, FS_Subset DEF Rank

LEMMA RankStrict ==
  ASSUME NEW s, NEW but, NEW i \in Nat, NEW n \in Nat, i < n, s[n].text[2] \notin but
  PROVE  Rank(s, i, but) < Rank(s, n, but)
  <1> DEFINE k == n - 1
  <1>1. k \in Nat /\ k + 1 = n /\ i <= k
    OBVIOUS
  <1> HIDE DEF k
  <1>2. Rank(s, i, but) <= Rank(s, k, but)
    BY <1>1, RankMonotone
  <1>3. Rank(s, k + 1, but) = Rank(s, k, but) + 1
    BY <1>1, RankStep
  <1>4. Rank(s, i, but) \in Nat /\ Rank(s, k, but) \in Nat
    BY <1>1, RankStep
  <1> QED
    BY <1>1, <1>2, <1>3, <1>4

-----------------------------------------------------------------------------
(* Rows that agree: a row with itself, in either order, and a row of       *)
(* exceptions with the empty row.                                          *)
LEMMA AgreeSame ==
  ASSUME NEW A, NEW s \in Seq(A), NEW sure, NEW but
  PROVE  Agree(s, s, but, sure)
  <1>1. Len(s) \in Nat
    OBVIOUS
  <1>2. ASSUME NEW i \in 1..Len(s), NEW j \in 1..Len(s),
               s[i].text[2] \notin but, s[j].text[2] \notin but,
               Rank(s, i, but) = Rank(s, j, but)
        PROVE  i = j
    <2>1. i \in Nat /\ j \in Nat
      BY <1>1
    <2>2. i < j => Rank(s, i, but) < Rank(s, j, but)
      BY <1>2, <2>1, RankStrict
    <2>3. j < i => Rank(s, j, but) < Rank(s, i, but)
      BY <1>2, <2>1, RankStrict
    <2>4. Rank(s, i, but) \in Nat
      BY <2>1, RankStep
    <2> QED
      BY <1>2, <2>1, <2>2, <2>3, <2>4
  <1> QED
    BY <1>2 DEF Agree, Same

(* Where roles are sure they agree; where they are not that is less. *)
LEMMA AgreeLess ==
  ASSUME NEW s, NEW t, NEW but, NEW sure, Agree(s, t, but, sure), NEW less, less => sure
  PROVE  Agree(s, t, but, less)
  BY DEF Agree, Same

LEMMA AgreeTurned ==
  ASSUME NEW s, NEW t, NEW sure, NEW but, Agree(s, t, but, sure)
  PROVE  Agree(t, s, but, sure)
  BY DEF Agree, Same

LEMMA AgreeNothing ==
  ASSUME NEW A, NEW s \in Seq(A), NEW sure, NEW but, \A i \in 1..Len(s) : s[i].text[2] \in but
  PROVE  Agree(s, <<>>, but, sure)
  <1>1. {j \in 1..Len(s) : s[j].text[2] \notin but} = {}
    OBVIOUS
  <1>2. Rank(s, Len(s), but) = 0
    BY <1>1, FS_EmptySet DEF Rank
  <1>3. Rank(<<>>, 0, but) = 0 /\ Len(<<>>) = 0
    BY RankStep
  <1> QED
    BY <1>2, <1>3 DEF Agree

(* What the exceptions are matters only for the questions that are there. *)
LEMMA RankExcept ==
  ASSUME NEW s, NEW but, NEW d, NEW k \in Nat,
         \A i \in 1..k : s[i].text[2] \in d <=> s[i].text[2] \in but
  PROVE  \A i \in 0..k : Rank(s, i, d) = Rank(s, i, but)
  <1> TAKE i \in 0..k
  <1>1. {j \in 1..i : s[j].text[2] \notin d} = {j \in 1..i : s[j].text[2] \notin but}
    OBVIOUS
  <1> QED
    BY <1>1 DEF Rank

LEMMA AgreeOther ==
  ASSUME NEW A, NEW s \in Seq(A), NEW t \in Seq(A), NEW sure, NEW but, NEW d, Agree(s, t, but, sure),
         \A i \in 1..Len(s) : s[i].text[2] \in d <=> s[i].text[2] \in but,
         \A i \in 1..Len(t) : t[i].text[2] \in d <=> t[i].text[2] \in but
  PROVE  Agree(s, t, d, sure)
  <1>1. Len(s) \in Nat /\ Len(t) \in Nat
    OBVIOUS
  <1>2. \A i \in 0..Len(s) : Rank(s, i, d) = Rank(s, i, but)
    BY <1>1, RankExcept
  <1>3. \A i \in 0..Len(t) : Rank(t, i, d) = Rank(t, i, but)
    BY <1>1, RankExcept
  <1>4. Rank(s, Len(s), d) = Rank(t, Len(t), d)
    BY <1>1, <1>2, <1>3 DEF Agree
  <1>5. ASSUME NEW i \in 1..Len(s), NEW j \in 1..Len(t), s[i].text[2] \notin d, t[j].text[2] \notin d,
               Rank(s, i, d) = Rank(t, j, d)
        PROVE  Same(s[i], t[j], sure)
    <2>1. Rank(s, i, but) = Rank(t, j, but)
      BY <1>1, <1>2, <1>3, <1>5
    <2>2. s[i].text[2] \notin but /\ t[j].text[2] \notin but
      BY <1>5
    <2> QED
      BY <2>1, <2>2 DEF Agree
  <1> QED
    BY <1>4, <1>5 DEF Agree

LEMMA AgreeExcept ==
  ASSUME NEW A, NEW s \in Seq(A), NEW t \in Seq(A), NEW sure, NEW but, NEW n, Agree(s, t, but, sure),
         \A i \in 1..Len(s) : s[i].text[2] # n,
         \A i \in 1..Len(t) : t[i].text[2] # n
  PROVE  Agree(s, t, but \union {n}, sure)
  <1>1. /\ \A i \in 1..Len(s) : s[i].text[2] \in but \union {n} <=> s[i].text[2] \in but
        /\ \A i \in 1..Len(t) : t[i].text[2] \in but \union {n} <=> t[i].text[2] \in but
    OBVIOUS
  <1> QED
    BY <1>1, AgreeOther

(* Appending an exception to one row, or the same to both.                 *)
LEMMA RankAppend ==
  ASSUME NEW A, NEW s \in Seq(A), NEW m \in A, NEW but
  PROVE  LET u == Append(s, m) IN
         /\ Len(s) \in Nat /\ Len(u) = Len(s) + 1 /\ u[Len(s) + 1] = m
         /\ \A i \in 1..Len(s) : u[i] = s[i] /\ Rank(u, i, but) = Rank(s, i, but)
         /\ Rank(s, Len(s), but) \in Nat
         /\ m.text[2] \in but => Rank(u, Len(u), but) = Rank(s, Len(s), but)
         /\ m.text[2] \notin but => Rank(u, Len(u), but) = Rank(s, Len(s), but) + 1
  <1> DEFINE u == Append(s, m)
             n == Len(s)
  <1>1. /\ n \in Nat /\ Len(u) = n + 1 /\ u[n + 1] = m /\ \A j \in 1..n : u[j] = s[j]
    BY AppendProperties
  <1> HIDE DEF u, n
  <1>2. \A i \in 0..n : Rank(u, i, but) = Rank(s, i, but)
    <2> TAKE i \in 0..n
    <2>1. {j \in 1..i : u[j].text[2] \notin but} = {j \in 1..i : s[j].text[2] \notin but}
      BY <1>1
    <2> QED
      BY <2>1 DEF Rank
  <1>3. /\ Rank(u, n, but) \in Nat
        /\ u[n + 1].text[2] \notin but => Rank(u, n + 1, but) = Rank(u, n, but) + 1
        /\ u[n + 1].text[2] \in but => Rank(u, n + 1, but) = Rank(u, n, but)
    BY <1>1, RankStep
  <1>4. Rank(u, n, but) = Rank(s, n, but)
    BY <1>1, <1>2
  <1>5. \A i \in 1..n : Rank(u, i, but) = Rank(s, i, but)
    BY <1>1, <1>2
  <1>6. /\ n \in Nat /\ Len(u) = n + 1 /\ u[n + 1] = m
        /\ \A i \in 1..n : u[i] = s[i] /\ Rank(u, i, but) = Rank(s, i, but)
        /\ Rank(s, n, but) \in Nat
        /\ m.text[2] \in but => Rank(u, Len(u), but) = Rank(s, n, but)
        /\ m.text[2] \notin but => Rank(u, Len(u), but) = Rank(s, n, but) + 1
    BY <1>1, <1>3, <1>4, <1>5
  <1> QED
    BY <1>6 DEF u, n

LEMMA AgreeMore ==
  ASSUME NEW A, NEW s \in Seq(A), NEW t, NEW m \in A, NEW sure, NEW but, Agree(s, t, but, sure), m.text[2] \in but
  PROVE  Agree(Append(s, m), t, but, sure)
  <1> DEFINE u == Append(s, m)
             n == Len(s)
  <1>1. /\ n \in Nat /\ Len(u) = n + 1 /\ u[n + 1] = m
        /\ \A i \in 1..n : u[i] = s[i] /\ Rank(u, i, but) = Rank(s, i, but)
        /\ Rank(u, Len(u), but) = Rank(s, n, but)
    BY RankAppend
  <1>2. /\ Rank(s, n, but) = Rank(t, Len(t), but)
        /\ \A i \in 1..n, j \in 1..Len(t) :
              s[i].text[2] \notin but /\ t[j].text[2] \notin but =>
                 (Rank(s, i, but) = Rank(t, j, but) => Same(s[i], t[j], sure))
    BY DEF Agree
  <1> HIDE DEF u, n
  <1>3. ASSUME NEW i \in 1..n + 1, NEW j \in 1..Len(t),
               u[i].text[2] \notin but, t[j].text[2] \notin but,
               Rank(u, i, but) = Rank(t, j, but)
        PROVE  Same(u[i], t[j], sure)
    <2>1. i \in 1..n
      BY <1>1, <1>3
    <2> QED
      BY <1>1, <1>2, <1>3, <2>1
  <1>4. Agree(u, t, but, sure)
    BY <1>1, <1>2, <1>3 DEF Agree
  <1> QED
    BY <1>4 DEF u

LEMMA AgreeBoth ==
  ASSUME NEW A, NEW s \in Seq(A), NEW t \in Seq(A), NEW m \in A, NEW p \in A,
         NEW sure, NEW but, Agree(s, t, but, sure), Same(m, p, sure)
  PROVE  Agree(Append(s, m), Append(t, p), but, sure)
  <1>0. m.text = p.text
    BY DEF Same
  <1>1. CASE m.text[2] \in but
    <2>1. Agree(Append(s, m), t, but, sure)
      BY <1>1, AgreeMore
    <2>2. Agree(t, Append(s, m), but, sure)
      BY <2>1, AgreeTurned
    <2>3. Agree(Append(t, p), Append(s, m), but, sure)
      BY <1>0, <1>1, <2>2, AgreeMore
    <2> QED
      BY <2>3, AgreeTurned
  <1>2. CASE m.text[2] \notin but
    <2> DEFINE u == Append(s, m)
               v == Append(t, p)
               n == Len(s)
               k == Len(t)
    <2>1. /\ n \in Nat /\ Len(u) = n + 1 /\ u[n + 1] = m
          /\ \A i \in 1..n : u[i] = s[i] /\ Rank(u, i, but) = Rank(s, i, but)
          /\ Rank(s, n, but) \in Nat
          /\ Rank(u, n + 1, but) = Rank(s, n, but) + 1
      BY <1>2, RankAppend
    <2>2. /\ k \in Nat /\ Len(v) = k + 1 /\ v[k + 1] = p
          /\ \A i \in 1..k : v[i] = t[i] /\ Rank(v, i, but) = Rank(t, i, but)
          /\ Rank(v, k + 1, but) = Rank(t, k, but) + 1
      BY <1>0, <1>2, RankAppend
    <2>3. /\ Rank(s, n, but) = Rank(t, k, but)
          /\ \A i \in 1..n, j \in 1..k :
                s[i].text[2] \notin but /\ t[j].text[2] \notin but =>
                   (Rank(s, i, but) = Rank(t, j, but) => Same(s[i], t[j], sure))
      BY DEF Agree
    <2> HIDE DEF u, v, n, k
    <2>4. /\ \A i \in 1..n : Rank(u, i, but) \in Nat /\ Rank(u, i, but) <= Rank(s, n, but)
          /\ \A j \in 1..k : Rank(v, j, but) \in Nat /\ Rank(v, j, but) <= Rank(s, n, but)
      <3>1. \A i \in 1..n : Rank(s, i, but) \in Nat /\ Rank(s, i, but) <= Rank(s, n, but)
        <4> TAKE i \in 1..n
        <4>1. i \in Nat /\ i <= n
          BY <2>1
        <4> QED
          BY <2>1, <4>1, RankStep, RankMonotone
      <3>2. \A j \in 1..k : Rank(t, j, but) \in Nat /\ Rank(t, j, but) <= Rank(t, k, but)
        <4> TAKE j \in 1..k
        <4>1. j \in Nat /\ j <= k
          BY <2>2
        <4> QED
          BY <2>2, <4>1, RankStep, RankMonotone
      <3> QED
        BY <2>1, <2>2, <2>3, <3>1, <3>2
    <2>5. ASSUME NEW i \in 1..n + 1, NEW j \in 1..k + 1,
                 u[i].text[2] \notin but, v[j].text[2] \notin but,
                 Rank(u, i, but) = Rank(v, j, but)
          PROVE  Same(u[i], v[j], sure)
      <3>1. CASE i = n + 1 /\ j = k + 1
        BY <2>1, <2>2, <3>1
      <3>2. CASE i \in 1..n /\ j \in 1..k
        BY <2>1, <2>2, <2>3, <2>5, <3>2
      <3>3. CASE i = n + 1 /\ j \in 1..k
        BY <2>1, <2>4, <2>5, <3>3
      <3>4. CASE i \in 1..n /\ j = k + 1
        BY <2>1, <2>2, <2>3, <2>4, <2>5, <3>4
      <3> QED
        BY <2>1, <2>2, <3>1, <3>2, <3>3, <3>4
    <2>6. Agree(u, v, but, sure)
      BY <2>1, <2>2, <2>3, <2>5 DEF Agree
    <2> QED
      BY <2>6 DEF u, v
  <1> QED
    BY <1>1, <1>2


-----------------------------------------------------------------------------
(* All of a row is of questions below n; a log of such, and where roles    *)
(* are sure of whole exchanges.                                            *)
Below(bubbles, n) == \A i \in 1..Len(bubbles) : bubbles[i].text[2] < n

Complete(texts, n, sure) ==
    /\ sure => Len(texts) % 2 = 0
    /\ Below(History(texts), n)

(* Bubbles and their texts. *)
LEMMA Bubble ==
  ASSUME NEW n \in 0..MaxQuestions
  PROVE  /\ Question(n) \in Texts /\ Question(n)[2] = n
         /\ Reply(n) \in Texts /\ Reply(n)[2] = n
         /\ Excuse(n) \in Texts /\ Excuse(n)[2] = n
         /\ \A text \in Texts : /\ User(text) \in Bubbles /\ User(text).text = text
                                /\ Assistant(text) \in Bubbles /\ Assistant(text).text = text
  BY DEF Question, Reply, Excuse, User, Assistant, Texts, Bubbles

LEMMA BubbleNumber ==
  ASSUME NEW s \in Seq(Bubbles)
  PROVE  \A i \in 1..Len(s) : s[i].text[2] \in Nat
  <1> TAKE i \in 1..Len(s)
  <1>1. s[i] \in Bubbles
    OBVIOUS
  <1> QED
    BY <1>1 DEF Bubbles, Texts

LEMMA BelowMore ==
  ASSUME NEW s \in Seq(Bubbles), NEW n \in Int, NEW k \in Int, Below(s, n), n <= k
  PROVE  Below(s, k)
  BY BubbleNumber DEF Below

LEMMA BelowAppend ==
  ASSUME NEW s \in Seq(Bubbles), NEW m \in Bubbles, NEW n \in Int, NEW k \in Int,
         Below(s, n), n <= k, m.text[2] < k
  PROVE  Below(Append(s, m), k)
  <1>1. Below(s, k)
    BY BelowMore
  <1>2. /\ Len(s) \in Nat /\ Len(Append(s, m)) = Len(s) + 1 /\ Append(s, m)[Len(s) + 1] = m
        /\ \A j \in 1..Len(s) : Append(s, m)[j] = s[j]
    BY AppendProperties
  <1>3. ASSUME NEW i \in 1..Len(s) + 1
        PROVE  Append(s, m)[i].text[2] < k
    <2>1. i \in 1..Len(s) \/ i = Len(s) + 1
      BY <1>2
    <2>2. CASE i \in 1..Len(s)
      BY <1>1, <1>2, <2>2 DEF Below
    <2>3. CASE i = Len(s) + 1
      BY <1>2, <2>3
    <2> QED
      BY <2>1, <2>2, <2>3
  <1> QED
    BY <1>2, <1>3 DEF Below

LEMMA BelowAgain ==
  ASSUME NEW s \in Seq(Bubbles), NEW m \in Bubbles, NEW k \in Int, Below(s, k), m.text[2] < k
  PROVE  Below(Append(s, m), k)
  <1>1. k <= k
    OBVIOUS
  <1> QED
    BY <1>1, BelowAppend

(* The history shown for a log. *)
LEMMA HistoryFacts ==
  ASSUME NEW l \in Seq(Texts)
  PROVE  /\ History(l) \in Seq(Bubbles)
         /\ Len(l) \in Nat /\ Len(History(l)) = Len(l)
         /\ \A i \in 1..Len(l) :
               /\ History(l)[i] = IF i % 2 = 1 THEN User(l[i]) ELSE Assistant(l[i])
               /\ History(l)[i].text = l[i]
  <1>1. Len(l) \in Nat /\ DOMAIN l = 1..Len(l) /\ \A i \in 1..Len(l) : l[i] \in Texts
    OBVIOUS
  <1>2. \A i \in 1..Len(l) : /\ User(l[i]) \in Bubbles /\ User(l[i]).text = l[i]
                             /\ Assistant(l[i]) \in Bubbles /\ Assistant(l[i]).text = l[i]
    BY <1>1 DEF User, Assistant, Bubbles
  <1>3. History(l) = [i \in 1..Len(l) |-> IF i % 2 = 1 THEN User(l[i]) ELSE Assistant(l[i])]
    BY <1>1 DEF History
  <1>4. History(l) \in [1..Len(l) -> Bubbles]
    BY <1>2, <1>3
  <1>5. History(l) \in Seq(Bubbles) /\ Len(History(l)) = Len(l)
    BY <1>1, <1>4
  <1> QED
    BY <1>1, <1>2, <1>3, <1>5

LEMMA HistoryAppend ==
  ASSUME NEW l \in Seq(Texts), NEW text \in Texts
  PROVE  /\ Len(l) % 2 = 0 => History(Append(l, text)) = Append(History(l), User(text))
         /\ Len(l) % 2 = 1 => History(Append(l, text)) = Append(History(l), Assistant(text))
         /\ \E b \in Bubbles : b.text = text /\ History(Append(l, text)) = Append(History(l), b)
  <1> DEFINE n == Len(l)
             k == Append(l, text)
             h == History(l)
             b == IF n % 2 = 0 THEN User(text) ELSE Assistant(text)
  <1>1. /\ n \in Nat /\ k \in Seq(Texts) /\ Len(k) = n + 1 /\ k[n + 1] = text
        /\ \A i \in 1..n : k[i] = l[i]
    BY AppendProperties
  <1>2. /\ h \in Seq(Bubbles) /\ Len(h) = n
        /\ \A i \in 1..n : h[i] = IF i % 2 = 1 THEN User(l[i]) ELSE Assistant(l[i])
    BY HistoryFacts
  <1>3. /\ History(k) \in Seq(Bubbles) /\ Len(History(k)) = n + 1
        /\ \A i \in 1..n + 1 : History(k)[i] = IF i % 2 = 1 THEN User(k[i]) ELSE Assistant(k[i])
    BY <1>1, HistoryFacts
  <1>4. b \in Bubbles
    BY DEF User, Assistant, Bubbles
  <1>5. (n % 2 = 0 <=> (n + 1) % 2 = 1) /\ (n % 2 = 1 => n % 2 # 0)
    BY <1>1
  <1>6. b = IF (n + 1) % 2 = 1 THEN User(text) ELSE Assistant(text)
    BY <1>5
  <1>7. /\ Append(h, b) \in Seq(Bubbles) /\ Len(Append(h, b)) = n + 1 /\ Append(h, b)[n + 1] = b
        /\ \A i \in 1..n : Append(h, b)[i] = h[i]
    BY <1>2, <1>4, AppendProperties
  <1>8. (n % 2 = 0 => b = User(text)) /\ (n % 2 = 1 => b = Assistant(text)) /\ b.text = text
    BY <1>5 DEF User, Assistant
  <1> HIDE DEF n, k, h, b
  <1>9. ASSUME NEW i \in 1..n + 1 PROVE History(k)[i] = Append(h, b)[i]
    <2>1. i \in 1..n \/ i = n + 1
      BY <1>1
    <2>2. CASE i \in 1..n
      BY <1>1, <1>2, <1>3, <1>7, <2>2
    <2>3. CASE i = n + 1
      BY <1>1, <1>3, <1>6, <1>7, <2>3
    <2> QED
      BY <2>1, <2>2, <2>3
  <1>10. History(k) = Append(h, b)
    <2>1. \A i \in 1..Len(History(k)) : History(k)[i] = Append(h, b)[i]
      BY <1>3, <1>9
    <2>2. Len(History(k)) = Len(Append(h, b))
      BY <1>3, <1>7
    <2> QED
      BY <1>3, <1>7, <2>1, <2>2, SeqEqual
  <1> QED
    BY <1>4, <1>8, <1>10 DEF n, k, h

(* What a row and a log are after an exchange, answered or failed.         *)
LEMMA Exchange ==
  ASSUME NEW l \in Seq(Texts), NEW n \in 0..MaxQuestions
  PROVE  LET a == Append(l, Question(n))
             b == Append(a, Reply(n))
         IN  /\ a \in Seq(Texts) /\ b \in Seq(Texts) /\ (Len(l) % 2 = 0 => Len(b) % 2 = 0)
             /\ \E x, y \in Bubbles :
                   /\ x.text = Question(n) /\ y.text = Reply(n)
                   /\ History(a) = Append(History(l), x)
                   /\ History(b) = Append(Append(History(l), x), y)
                   /\ Len(l) % 2 = 0 => x = User(Question(n)) /\ y = Assistant(Reply(n))
  <1> DEFINE a == Append(l, Question(n))
             b == Append(a, Reply(n))
  <1>1. a \in Seq(Texts) /\ Len(l) \in Nat /\ Len(a) = Len(l) + 1
    <2>1. Question(n) \in Texts
      BY Bubble
    <2> QED
      BY <2>1, AppendProperties
  <1>2. Len(l) % 2 = 0 => Len(a) % 2 = 1
    BY <1>1
  <1>3. b \in Seq(Texts) /\ (Len(l) % 2 = 0 => Len(b) % 2 = 0)
    <2>1. b \in Seq(Texts) /\ Len(b) = Len(a) + 1
      BY <1>1, Bubble, AppendProperties
    <2> QED
      BY <1>1, <2>1
  <1>4. CASE Len(l) % 2 = 0
    <2>1. History(a) = Append(History(l), User(Question(n)))
      BY <1>4, Bubble, HistoryAppend
    <2>2. History(b) = Append(History(a), Assistant(Reply(n)))
      BY <1>1, <1>2, <1>4, Bubble, HistoryAppend
    <2>3. /\ User(Question(n)) \in Bubbles /\ User(Question(n)).text = Question(n)
          /\ Assistant(Reply(n)) \in Bubbles /\ Assistant(Reply(n)).text = Reply(n)
      BY Bubble
    <2> QED
      BY <1>1, <1>3, <2>1, <2>2, <2>3
  <1>5. CASE Len(l) % 2 # 0
    <2>1. Question(n) \in Texts /\ Reply(n) \in Texts
      BY Bubble
    <2>2. PICK x \in Bubbles : x.text = Question(n) /\ History(a) = Append(History(l), x)
      BY <2>1, HistoryAppend
    <2>3. PICK y \in Bubbles : y.text = Reply(n) /\ History(b) = Append(History(a), y)
      BY <1>1, <2>1, HistoryAppend
    <2> QED
      BY <1>1, <1>3, <1>5, <2>2, <2>3
  <1> QED
    BY <1>4, <1>5

LEMMA ExchangeComplete ==
  ASSUME NEW l \in Seq(Texts), NEW n \in 0..MaxQuestions, NEW sure, Complete(l, n, sure)
  PROVE  /\ Complete(Append(Append(l, Question(n)), Reply(n)), n + 1, sure)
         /\ ~sure => Complete(Append(l, Question(n)), n + 1, sure)
  <1> DEFINE a == Append(l, Question(n))
             b == Append(a, Reply(n))
             h == History(l)
  <1>1. h \in Seq(Bubbles) /\ n \in Nat /\ n + 1 \in Int /\ n <= n + 1 /\ n < n + 1
    BY HistoryFacts, PageAssumption
  <1>2. PICK x \in Bubbles, y \in Bubbles :
           /\ x.text = Question(n) /\ y.text = Reply(n)
           /\ History(a) = Append(h, x) /\ History(b) = Append(Append(h, x), y)
    BY Exchange
  <1>3. x.text[2] = n /\ y.text[2] = n /\ Below(h, n)
    BY <1>2, Bubble DEF Complete
  <1>4. sure => Len(b) % 2 = 0
    BY Exchange DEF Complete
  <1> HIDE DEF a, b, h
  <1>5. Append(h, x) \in Seq(Bubbles) /\ Below(Append(h, x), n + 1)
    BY <1>1, <1>2, <1>3, BelowAppend, AppendProperties
  <1>6. Below(Append(Append(h, x), y), n + 1)
    BY <1>1, <1>2, <1>3, <1>5, BelowAgain
  <1> QED
    BY <1>2, <1>4, <1>5, <1>6 DEF Complete, a, b

LEMMA ExchangeAgree ==
  ASSUME NEW l \in Seq(Texts), NEW v \in Seq(Bubbles), NEW n \in 0..MaxQuestions, NEW but, NEW sure,
         sure => Len(l) % 2 = 0, Agree(v, History(l), but, sure)
  PROVE  Agree(Append(Append(v, User(Question(n))), Assistant(Reply(n))),
               History(Append(Append(l, Question(n)), Reply(n))), but, sure)
  <1> DEFINE q == User(Question(n))
             r == Assistant(Reply(n))
             h == History(l)
             k == Append(Append(l, Question(n)), Reply(n))
  <1>1. /\ q \in Bubbles /\ q.text = Question(n) /\ r \in Bubbles /\ r.text = Reply(n)
        /\ h \in Seq(Bubbles)
    BY Bubble, HistoryFacts
  <1>2. PICK x \in Bubbles, y \in Bubbles :
           /\ x.text = Question(n) /\ y.text = Reply(n)
           /\ History(k) = Append(Append(h, x), y)
           /\ Len(l) % 2 = 0 => x = q /\ y = r
    BY Exchange
  <1>3. Agree(v, h, but, sure) /\ Same(q, x, sure) /\ Same(r, y, sure)
    BY <1>1, <1>2 DEF Same
  <1> HIDE DEF q, r, h, k
  <1>4. /\ Agree(Append(v, q), Append(h, x), but, sure)
        /\ Append(v, q) \in Seq(Bubbles) /\ Append(h, x) \in Seq(Bubbles)
    BY <1>1, <1>2, <1>3, AgreeBoth, AppendProperties
  <1>5. Agree(Append(Append(v, q), r), Append(Append(h, x), y), but, sure)
    BY <1>1, <1>2, <1>3, <1>4, AgreeBoth
  <1> QED
    BY <1>2, <1>5 DEF q, r, k

LEMMA FailureAgree ==
  ASSUME NEW l \in Seq(Texts), NEW v \in Seq(Bubbles), NEW n \in 0..MaxQuestions, NEW but, NEW sure,
         Complete(l, n, sure), Below(v, n), Agree(v, History(l), but, sure),
         NEW w, w = Append(v, User(Question(n))) \/ w = Append(Append(v, User(Question(n))), Assistant(Excuse(n))),
         NEW k, k \in {l, Append(l, Question(n)), Append(Append(l, Question(n)), Reply(n))}
  PROVE  Agree(w, History(k), but \union {n}, sure)
  <1> DEFINE q == User(Question(n))
             e == Assistant(Excuse(n))
             h == History(l)
             d == but \union {n}
  <1>1. /\ q \in Bubbles /\ e \in Bubbles /\ h \in Seq(Bubbles)
        /\ q.text[2] = n /\ e.text[2] = n /\ n \in d
    BY Bubble, HistoryFacts
  <1>2. PICK x \in Bubbles, y \in Bubbles :
           /\ x.text = Question(n) /\ y.text = Reply(n)
           /\ History(k) \in {h, Append(h, x), Append(Append(h, x), y)}
    <2> DEFINE a == Append(l, Question(n))
               b == Append(a, Reply(n))
    <2>1. PICK x \in Bubbles, y \in Bubbles :
             /\ x.text = Question(n) /\ y.text = Reply(n)
             /\ History(a) = Append(h, x) /\ History(b) = Append(Append(h, x), y)
      BY Exchange
    <2>2. k = l \/ k = a \/ k = b
      OBVIOUS
    <2> HIDE DEF a, b
    <2> QED
      BY <2>1, <2>2
  <1>3. x.text[2] = n /\ y.text[2] = n
    BY <1>2, Bubble
  <1>4. Agree(v, h, d, sure)
    <2>1. Below(h, n)
      BY DEF Complete
    <2>2. /\ \A i \in 1..Len(v) : v[i].text[2] # n
          /\ \A i \in 1..Len(h) : h[i].text[2] # n
      <3>1. n \in Nat
        BY PageAssumption
      <3> HIDE DEF h
      <3>2. /\ \A i \in 1..Len(v) : v[i].text[2] \in Nat
            /\ \A i \in 1..Len(h) : h[i].text[2] \in Nat
        BY <1>1, BubbleNumber
      <3> QED
        BY <2>1, <3>1, <3>2 DEF Below
    <2> QED
      BY <1>1, <2>2, AgreeExcept
  <1>5. w = Append(v, q) \/ w = Append(Append(v, q), e)
    OBVIOUS
  <1> HIDE DEF q, e, h, d
  <1>6. Agree(w, h, d, sure) /\ w \in Seq(Bubbles)
    <2>1. Agree(Append(v, q), h, d, sure) /\ Append(v, q) \in Seq(Bubbles)
      BY <1>1, <1>4, AgreeMore, AppendProperties
    <2>2. Agree(Append(Append(v, q), e), h, d, sure) /\ Append(Append(v, q), e) \in Seq(Bubbles)
      BY <1>1, <2>1, AgreeMore, AppendProperties
    <2> QED
      BY <1>5, <2>1, <2>2
  <1>7. Agree(h, w, d, sure)
    BY <1>6, AgreeTurned
  <1>8. Agree(Append(h, x), w, d, sure) /\ Append(h, x) \in Seq(Bubbles)
    BY <1>1, <1>3, <1>7, AgreeMore, AppendProperties
  <1>9. Agree(Append(Append(h, x), y), w, d, sure)
    BY <1>1, <1>3, <1>8, AgreeMore
  <1>10. Agree(History(k), w, d, sure)
    BY <1>2, <1>7, <1>8, <1>9
  <1> QED
    BY <1>10, AgreeTurned DEF d


-----------------------------------------------------------------------------
(* Types, with those of the fetches: what each brings back, and that the   *)
(* session it is for is there.                                             *)
Calls == [kind : {"load", "switch", "sync", "send", "new"},
          id   : Sessions \union {Null, Temp},
          n    : Nat,
          at   : {"out", "asked", "back", "lost"},
          got  : Seq(Bubbles) \union {<<ids>> : ids \in SUBSET Sessions}]

CallInv(c) ==
    /\ c.kind \in {"send", "new"} => c.n \in 1..asked
    /\ c.at = "asked" => c.kind \in {"send", "new"}
    /\ c.kind \in {"switch", "sync", "send"} => c.id \in DOMAIN sessions
    /\ c.kind = "new" /\ c.at \in {"asked", "back"} => c.id \in DOMAIN log
    /\ c.kind \in {"switch", "sync"} /\ c.at = "back" => c.got \in Seq(Bubbles)
    /\ c.kind = "load" /\ c.at = "back" => c.got[1] \subseteq DOMAIN log

PageInv ==
    /\ PageTypeOK
    /\ tempSession <=> currentSessionId = Temp
    /\ currentSessionId \in Sessions => currentSessionId \in DOMAIN sessions
    /\ DOMAIN log \subseteq Sessions
    /\ asked \in 0..MaxQuestions
    /\ visits \in Nat
    /\ calls \subseteq Calls
    /\ \A c \in calls : CallInv(c)

(* Fetches stay well-formed while sessions, log and questions grow.        *)
LEMMA CallsGrow ==
  ASSUME PageInv, NEW d,
         d \in Calls /\ CallInv(d)', calls' \subseteq calls \union {d},
         DOMAIN sessions \subseteq DOMAIN sessions', DOMAIN log \subseteq DOMAIN log',
         asked' \in Nat, asked <= asked'
  PROVE  calls' \subseteq Calls /\ \A c \in calls' : CallInv(c)'
  <1>1. ASSUME NEW c \in calls PROVE CallInv(c)'
    <2>1. CallInv(c) /\ asked \in Nat
      BY PageAssumption DEF PageInv
    <2> QED
      BY <2>1 DEF CallInv
  <1> QED
    BY <1>1 DEF PageInv

LEMMA CallsRest ==
  ASSUME PageInv, calls' \subseteq calls,
         DOMAIN sessions \subseteq DOMAIN sessions', DOMAIN log \subseteq DOMAIN log',
         asked' \in Nat, asked <= asked'
  PROVE  calls' \subseteq Calls /\ \A c \in calls' : CallInv(c)'
  <1>1. ASSUME NEW c \in calls PROVE CallInv(c)'
    <2>1. CallInv(c) /\ asked \in Nat
      BY PageAssumption DEF PageInv
    <2> QED
      BY <2>1 DEF CallInv
  <1> QED
    BY <1>1 DEF PageInv

(* The fields of a fetch that has moved on. *)
LEMMA Moved ==
  ASSUME NEW c \in Calls, NEW id, NEW at, NEW got
  PROVE  /\ [c EXCEPT !.at = at] =
               [kind |-> c.kind, id |-> c.id, n |-> c.n, at |-> at, got |-> c.got]
         /\ [c EXCEPT !.id = id, !.at = at] =
               [kind |-> c.kind, id |-> id, n |-> c.n, at |-> at, got |-> c.got]
         /\ [c EXCEPT !.at = at, !.got = got] =
               [kind |-> c.kind, id |-> c.id, n |-> c.n, at |-> at, got |-> got]
  <1>1. PICK k, i, n, a, g : c = [kind |-> k, id |-> i, n |-> n, at |-> a, got |-> g]
    BY DEF Calls
  <1>2. c.kind = k /\ c.id = i /\ c.n = n /\ c.at = a /\ c.got = g
    BY <1>1
  <1>3. PICK d : d = [c EXCEPT !.id = id]
    OBVIOUS
  <1>4. PICK e : e = [c EXCEPT !.at = at]
    OBVIOUS
  <1>5. d = [kind |-> k, id |-> id, n |-> n, at |-> a, got |-> g]
    BY <1>1, <1>3
  <1>6. e = [kind |-> k, id |-> i, n |-> n, at |-> at, got |-> g]
    BY <1>1, <1>4
  <1>7. [d EXCEPT !.at = at] = [kind |-> k, id |-> id, n |-> n, at |-> at, got |-> g]
    BY <1>5
  <1>8. [e EXCEPT !.got = got] = [kind |-> k, id |-> i, n |-> n, at |-> at, got |-> got]
    BY <1>6
  <1>9. /\ [c EXCEPT !.id = id, !.at = at] = [d EXCEPT !.at = at]
        /\ [c EXCEPT !.at = at, !.got = got] = [e EXCEPT !.got = got]
    BY <1>3, <1>4
  <1> QED
    BY <1>2, <1>4, <1>6, <1>7, <1>8, <1>9

LEMMA EmptyRow == \A S : <<>> \in Seq(S) /\ Len(<<>>) = 0
  OBVIOUS

LEMMA PageInvInit == PageInit => PageInv
  <1> SUFFICES ASSUME PageInit PROVE PageInv
    OBVIOUS
  <1> USE DEF PageInit
  <1>1. DOMAIN log = Listed /\ DOMAIN sessions = {}
    OBVIOUS
  <1>2. \A s \in DOMAIN log : log[s] \in Seq(Texts)
    <2>1. Question(0) \in Texts /\ Reply(0) \in Texts
      BY Bubble, PageAssumption
    <2>2. <<Question(0), Reply(0)>> \in Seq(Texts)
      <3> HIDE DEF Texts
      <3> QED
        BY <2>1
    <2> QED
      BY <2>2
  <1>3. PageTypeOK
    BY <1>1, <1>2, PageAssumption, EmptyRow DEF PageTypeOK, Null
  <1>4. \A c \in calls : c \in Calls /\ CallInv(c)
    <2> SUFFICES ASSUME NEW c, c = [kind |-> "load", id |-> Null, n |-> 0, at |-> "out", got |-> <<>>]
                 PROVE  c \in Calls /\ CallInv(c)
      OBVIOUS
    <2>1. <<>> \in Seq(Bubbles)
      OBVIOUS
    <2> QED
      BY <2>1 DEF Calls, CallInv
  <1>5. Null # Temp /\ Null \notin Sessions
    BY PageAssumption DEF Null, Temp
  <1> QED
    BY <1>1, <1>3, <1>4, <1>5, PageAssumption DEF PageInv


-----------------------------------------------------------------------------
LEMMA Rows ==
  /\ \A s \in Seq(Bubbles), m \in Bubbles : Append(s, m) \in Seq(Bubbles)
  /\ \A s \in Seq(Texts), m \in Texts : Append(s, m) \in Seq(Texts)
  /\ <<>> \in Seq(Bubbles) /\ <<>> \in Seq(Texts)
  BY AppendProperties

(* The parts of PageInv that a step has to keep; what it leaves alone it   *)
(* keeps.                                                                  *)
LEMMA PageInvUnchanged == PageInv /\ UNCHANGED pageVars => PageInv'
  <1> SUFFICES ASSUME PageInv, UNCHANGED pageVars PROVE PageInv'
    OBVIOUS
  <1> USE DEF pageVars, page, counters
  <1>1. PageTypeOK'
    BY DEF PageInv, PageTypeOK
  <1>2. \A c \in calls : CallInv(c)'
    BY DEF PageInv, CallInv
  <1> QED
    BY <1>1, <1>2 DEF PageInv

LEMMA SwitchTyped ==
  ASSUME PageInv, NEW id \in Sessions, SwitchSession(id)
  PROVE  PageInv'
  <1> USE DEF SwitchSession, Click, Starts, Fetch
  <1>1. sessions[id] \in Seq(Bubbles) /\ asked \in Nat /\ visits' \in Nat /\ visits \in Nat
    BY PageAssumption DEF PageInv, PageTypeOK
  <1>2. PageTypeOK'
    BY <1>1, Rows DEF PageInv, PageTypeOK
  <1>3. PICK d : d = [kind |-> "switch", id |-> id, n |-> visits, at |-> "out", got |-> <<>>]
    OBVIOUS
  <1>4. d \in Calls /\ CallInv(d)'
    BY <1>1, <1>3, Rows DEF Calls, CallInv
  <1>5. calls' \subseteq calls \union {d} /\ asked' = asked /\ log' = log /\ sessions' = sessions
    BY <1>3
  <1>6. calls' \subseteq Calls /\ \A c \in calls' : CallInv(c)'
    BY <1>1, <1>4, <1>5, CallsGrow
  <1>7. tempSession' <=> currentSessionId' = Temp
    BY PageAssumption DEF PageInv, Temp
  <1> QED
    BY <1>1, <1>2, <1>6, <1>7 DEF PageInv

LEMMA NewChatTyped ==
  ASSUME PageInv, NewChat
  PROVE  PageInv'
  <1> USE DEF NewChat, Click, Starts
  <1>1. asked \in Nat /\ visits' \in Nat
    BY PageAssumption DEF PageInv
  <1>2. PageTypeOK'
    BY Rows DEF PageInv, PageTypeOK, Null, Temp
  <1>3. calls' \subseteq Calls /\ \A c \in calls' : CallInv(c)'
    BY <1>1, CallsRest
  <1>4. currentSessionId' \notin Sessions
    BY PageAssumption
  <1> QED
    BY <1>1, <1>2, <1>3, <1>4 DEF PageInv

LEMMA SyncTyped ==
  ASSUME PageInv, Sync
  PROVE  PageInv'
  <1> USE DEF Sync, Click, Starts, Fetch, page
  <1>1. asked \in Nat /\ visits' \in Nat /\ visits \in Nat
    BY PageAssumption DEF PageInv
  <1>2. currentSessionId \in Sessions /\ currentSessionId \in DOMAIN sessions
    BY DEF PageInv, PageTypeOK
  <1>3. PageTypeOK'
    BY DEF PageInv, PageTypeOK
  <1>4. PICK d : d = [kind |-> "sync", id |-> currentSessionId, n |-> visits, at |-> "out", got |-> <<>>]
    OBVIOUS
  <1>5. d \in Calls /\ CallInv(d)'
    BY <1>1, <1>2, <1>4, Rows DEF Calls, CallInv
  <1>6. calls' \subseteq Calls /\ \A c \in calls' : CallInv(c)'
    BY <1>1, <1>4, <1>5, CallsGrow
  <1> QED
    BY <1>1, <1>3, <1>6 DEF PageInv

LEMMA SubmitTyped ==
  ASSUME PageInv, Submit \/ SubmitNowhere
  PROVE  PageInv'
  <1>1. /\ asked \in Nat /\ asked' = asked + 1 /\ asked' \in 0..MaxQuestions
        /\ view' = Append(view, User(Question(asked')))
        /\ UNCHANGED <<currentSessionId, tempSession, log, halved, visits>>
        /\ undisturbed' = (undisturbed /\ calls = {})
    BY PageAssumption DEF PageInv, Submit, SubmitNowhere, Starts
  <1>2. User(Question(asked')) \in Bubbles
    <2>1. PICK n : n = asked'
      OBVIOUS
    <2>2. User(Question(n)) \in Bubbles
      BY <1>1, <2>1, Bubble
    <2> QED
      BY <2>1, <2>2
  <1>3. view' \in Seq(Bubbles)
    BY <1>1, <1>2, Rows DEF PageInv, PageTypeOK
  <1>4. /\ DOMAIN sessions' = DOMAIN sessions
        /\ \A s \in DOMAIN sessions' : sessions'[s] \in Seq(Bubbles)
    BY <1>1, <1>2, Rows DEF PageInv, PageTypeOK, Submit, SubmitNowhere
  <1>5. undisturbed' \in BOOLEAN
    BY <1>1
  <1>6. PageTypeOK'
    BY <1>1, <1>3, <1>4, <1>5 DEF PageInv, PageTypeOK
  <1>7. PICK d : d = [kind |-> IF tempSession THEN "new" ELSE "send", id |-> currentSessionId,
                      n |-> asked', at |-> "out", got |-> <<>>]
    OBVIOUS
  <1>8. calls' \subseteq Calls /\ \A c \in calls' : CallInv(c)'
    <2>1. CASE SubmitNowhere
      BY <1>1, <1>4, <2>1, CallsRest DEF SubmitNowhere
    <2>2. CASE Submit
      <3>1. ~tempSession => currentSessionId \in DOMAIN sessions
        BY <2>2 DEF Submit
      <3>2. /\ d.kind = "send" => ~tempSession
            /\ d.kind \in {"send", "new"} /\ d.id = currentSessionId /\ d.n = asked' /\ d.at = "out"
        BY <1>7
      <3>3. d \in Calls
        BY <1>1, <1>7, Rows DEF Calls, PageInv, PageTypeOK
      <3>4. CallInv(d)'
        BY <1>1, <1>4, <3>1, <3>2 DEF CallInv
      <3>5. calls' = calls \union {d}
        BY <1>7, <2>2 DEF Submit, Fetch, PageInv
      <3> QED
        BY <1>1, <1>4, <3>3, <3>4, <3>5, CallsGrow
    <2> QED
      BY <2>1, <2>2
  <1> QED
    BY <1>1, <1>4, <1>6, <1>8 DEF PageInv


LEMMA AsksTyped ==
  ASSUME PageInv, NEW c \in calls, ServerAsks(c)
  PROVE  PageInv'
  <1> USE DEF page, counters
  <1>1. PICK id \in Sessions :
           /\ IF c.kind = "send" THEN id = c.id ELSE id \notin DOMAIN log
           /\ log' = [s \in DOMAIN log \union {id} |->
                         IF s # id THEN log[s]
                         ELSE Append(IF s \in DOMAIN log THEN log[s] ELSE <<>>, Question(c.n))]
           /\ Advance(c, [c EXCEPT !.id = id, !.at = "asked"])
    BY DEF ServerAsks
  <1>2. /\ c \in Calls /\ CallInv(c) /\ c.kind \in {"send", "new"}
        /\ UNCHANGED <<page, counters, unanswered, halved, undisturbed>>
    BY DEF PageInv, ServerAsks
  <1>3. Question(c.n) \in Texts
    <2>1. c.n \in 0..MaxQuestions
      BY <1>2, PageAssumption DEF CallInv, PageInv
    <2> QED
      BY <2>1, Bubble
  <1>4. /\ DOMAIN log \subseteq DOMAIN log' /\ DOMAIN log' \subseteq Sessions /\ id \in DOMAIN log'
        /\ \A s \in DOMAIN log' : log'[s] \in Seq(Texts)
    BY <1>1, <1>3, Rows DEF PageInv, PageTypeOK
  <1>5. PageTypeOK'
    BY <1>2, <1>4 DEF PageInv, PageTypeOK
  <1>6. PICK d : d = [kind |-> c.kind, id |-> id, n |-> c.n, at |-> "asked", got |-> c.got]
    OBVIOUS
  <1>7. d = [c EXCEPT !.id = id, !.at = "asked"]
    <2>1. c \in Calls
      BY <1>2
    <2>2. [c EXCEPT !.id = id, !.at = "asked"] =
             [kind |-> c.kind, id |-> id, n |-> c.n, at |-> "asked", got |-> c.got]
      BY <2>1, Moved
    <2> QED
      BY <1>6, <2>2
  <1>8. d \in Calls /\ CallInv(d)'
    BY <1>1, <1>2, <1>4, <1>6 DEF Calls, CallInv
  <1>9. calls' \subseteq calls \union {d}
    BY <1>1, <1>7 DEF Advance
  <1>10. calls' \subseteq Calls /\ \A e \in calls' : CallInv(e)'
    BY <1>2, <1>4, <1>8, <1>9, CallsGrow, PageAssumption DEF PageInv
  <1> QED
    BY <1>2, <1>4, <1>5, <1>10 DEF PageInv

LEMMA AnswersTyped ==
  ASSUME PageInv, NEW c \in calls, ServerAnswers(c)
  PROVE  PageInv'
  <1> USE DEF page, counters
  <1>1. /\ c \in Calls /\ CallInv(c) /\ c.at = "asked"
        /\ log' = [log EXCEPT ![c.id] = Append(@, Reply(c.n))]
        /\ Advance(c, [c EXCEPT !.at = "back"])
        /\ UNCHANGED <<page, counters, unanswered, halved, undisturbed>>
    BY DEF PageInv, ServerAnswers
  <1>2. c.kind \in {"send", "new"} /\ c.id \in DOMAIN log
    BY <1>1 DEF CallInv, PageInv, PageTypeOK
  <1>3. Reply(c.n) \in Texts
    <2>1. c.n \in 0..MaxQuestions
      BY <1>1, <1>2, PageAssumption DEF CallInv, PageInv
    <2> QED
      BY <2>1, Bubble
  <1>4. DOMAIN log' = DOMAIN log /\ \A s \in DOMAIN log' : log'[s] \in Seq(Texts)
    BY <1>1, <1>3, Rows DEF PageInv, PageTypeOK
  <1>5. PageTypeOK'
    BY <1>1, <1>4 DEF PageInv, PageTypeOK
  <1>6. PICK d : d = [kind |-> c.kind, id |-> c.id, n |-> c.n, at |-> "back", got |-> c.got]
    OBVIOUS
  <1>7. d = [c EXCEPT !.at = "back"]
    BY <1>1, <1>6, Moved
  <1>8. d \in Calls /\ CallInv(d)'
    BY <1>1, <1>2, <1>4, <1>6 DEF Calls, CallInv
  <1>9. calls' \subseteq calls \union {d}
    BY <1>1, <1>7 DEF Advance
  <1>10. calls' \subseteq Calls /\ \A e \in calls' : CallInv(e)'
    BY <1>1, <1>4, <1>8, <1>9, CallsGrow, PageAssumption DEF PageInv
  <1> QED
    BY <1>1, <1>4, <1>5, <1>10 DEF PageInv

LEMMA FailsTyped ==
  ASSUME PageInv, NEW c \in calls, ServerFails(c)
  PROVE  PageInv'
  <1> USE DEF page
  <1>1. /\ c \in Calls /\ CallInv(c) /\ c.at = "asked"
        /\ halved' = halved \union {c.id}
        /\ Advance(c, [c EXCEPT !.at = "lost"])
        /\ UNCHANGED <<page, log, asked, visits, unanswered, undisturbed>>
    BY DEF PageInv, ServerFails
  <1>2. c.id \in DOMAIN log
    BY <1>1 DEF CallInv, PageInv, PageTypeOK
  <1>3. PageTypeOK'
    BY <1>1, <1>2 DEF PageInv, PageTypeOK
  <1>4. PICK d : d = [kind |-> c.kind, id |-> c.id, n |-> c.n, at |-> "lost", got |-> c.got]
    OBVIOUS
  <1>5. d = [c EXCEPT !.at = "lost"]
    BY <1>1, <1>4, Moved
  <1>6. d \in Calls /\ CallInv(d)'
    BY <1>1, <1>4 DEF Calls, CallInv
  <1>7. calls' \subseteq calls \union {d}
    BY <1>1, <1>5 DEF Advance
  <1>8. calls' \subseteq Calls /\ \A e \in calls' : CallInv(e)'
    BY <1>1, <1>6, <1>7, CallsGrow, PageAssumption DEF PageInv
  <1> QED
    BY <1>1, <1>3, <1>8 DEF PageInv

LEMMA ReadsTyped ==
  ASSUME PageInv, NEW c \in calls, ServerReads(c)
  PROVE  PageInv'
  <1> USE DEF page, counters
  <1>1. /\ c \in Calls /\ CallInv(c) /\ c.at = "out"
        /\ UNCHANGED <<page, log, counters, unanswered, halved, undisturbed>>
    BY DEF PageInv, ServerReads
  <1>2. PageTypeOK'
    BY <1>1 DEF PageInv, PageTypeOK
  <1>3. PICK got : /\ Advance(c, [c EXCEPT !.at = "back", !.got = got])
                   /\ \/ c.kind \in {"switch", "sync"} /\ got = History(log[c.id])
                      \/ c.kind = "load" /\ got = <<DOMAIN log>>
    BY DEF ServerReads
  <1>4. PICK d : d = [kind |-> c.kind, id |-> c.id, n |-> c.n, at |-> "back", got |-> got]
    OBVIOUS
  <1>5. d = [c EXCEPT !.at = "back", !.got = got]
    BY <1>1, <1>4, Moved
  <1>6. d \in Calls /\ CallInv(d)'
    <2>1. CASE c.kind \in {"switch", "sync"} /\ got = History(log[c.id])
      <3>1. log[c.id] \in Seq(Texts)
        BY <1>1, <2>1 DEF CallInv, PageInv, PageTypeOK
      <3>2. got \in Seq(Bubbles)
        BY <2>1, <3>1, HistoryFacts
      <3> QED
        BY <1>1, <1>4, <2>1, <3>2 DEF Calls, CallInv
    <2>2. CASE c.kind = "load" /\ got = <<DOMAIN log>>
      <3>1. got \in {<<ids>> : ids \in SUBSET Sessions} /\ got[1] = DOMAIN log
        BY <2>2 DEF PageInv
      <3> QED
        BY <1>1, <1>4, <2>2, <3>1 DEF Calls, CallInv
    <2> QED
      BY <1>3, <2>1, <2>2
  <1>7. calls' \subseteq calls \union {d}
    BY <1>3, <1>5 DEF Advance
  <1>8. calls' \subseteq Calls /\ \A e \in calls' : CallInv(e)'
    BY <1>1, <1>6, <1>7, CallsGrow, PageAssumption DEF PageInv
  <1> QED
    BY <1>1, <1>2, <1>8 DEF PageInv

LEMMA LosesTyped ==
  ASSUME PageInv, NEW c \in calls, Loses(c)
  PROVE  PageInv'
  <1> USE DEF page
  <1>1. /\ c \in Calls /\ CallInv(c)
        /\ Advance(c, [c EXCEPT !.at = "lost"])
        /\ UNCHANGED <<page, log, asked, visits, unanswered, halved, undisturbed>>
    BY DEF PageInv, Loses
  <1>2. PageTypeOK'
    BY <1>1 DEF PageInv, PageTypeOK
  <1>3. PICK d : d = [kind |-> c.kind, id |-> c.id, n |-> c.n, at |-> "lost", got |-> c.got]
    OBVIOUS
  <1>4. d = [c EXCEPT !.at = "lost"]
    BY <1>1, <1>3, Moved
  <1>5. d \in Calls /\ CallInv(d)'
    BY <1>1, <1>3 DEF Calls, CallInv
  <1>6. calls' \subseteq calls \union {d}
    BY <1>1, <1>4 DEF Advance
  <1>7. calls' \subseteq Calls /\ \A e \in calls' : CallInv(e)'
    BY <1>1, <1>5, <1>6, CallsGrow, PageAssumption DEF PageInv
  <1> QED
    BY <1>1, <1>2, <1>7 DEF PageInv

(* A handler that continues ends its fetch. *)
LEMMA ContinueTyped ==
  ASSUME PageInv, NEW c \in calls, NEW at, Continue(c, at),
         DOMAIN sessions \subseteq DOMAIN sessions', DOMAIN sessions' \subseteq DOMAIN log,
         \A s \in DOMAIN sessions' : sessions'[s] \in Seq(Bubbles),
         view' \in Seq(Bubbles), undisturbed' \in BOOLEAN,
         \/ UNCHANGED <<currentSessionId, tempSession>>
         \/ currentSessionId' \in DOMAIN sessions' /\ tempSession' = FALSE
  PROVE  PageInv'
  <1>1. UNCHANGED <<log, halved, asked, visits>> /\ calls' \subseteq calls
    BY DEF Continue, counters
  <1>2. calls' \subseteq Calls /\ \A e \in calls' : CallInv(e)'
    BY <1>1, CallsRest, PageAssumption DEF PageInv
  <1>3. /\ currentSessionId' \in Sessions \union {Null, Temp} /\ tempSession' \in BOOLEAN
        /\ tempSession' => currentSessionId' # Null
        /\ tempSession' <=> currentSessionId' = Temp
        /\ currentSessionId' \in Sessions => currentSessionId' \in DOMAIN sessions'
    <2>1. CASE UNCHANGED <<currentSessionId, tempSession>>
      BY <2>1 DEF PageInv, PageTypeOK
    <2>2. CASE currentSessionId' \in DOMAIN sessions' /\ tempSession' = FALSE
      <3>1. currentSessionId' \in Sessions
        BY <2>2 DEF PageInv
      <3>2. currentSessionId' # Temp
        BY <3>1, PageAssumption
      <3> QED
        BY <2>2, <3>1, <3>2
    <2> QED
      BY <2>1, <2>2
  <1> QED
    BY <1>1, <1>2, <1>3 DEF PageInv, PageTypeOK


LEMMA SwitchedTyped ==
  ASSUME PageInv, NEW c \in calls, Switched(c)
  PROVE  PageInv'
  <1>1. /\ c \in Calls /\ CallInv(c) /\ c.kind = "switch"
        /\ UNCHANGED <<currentSessionId, tempSession, unanswered>>
        /\ view' = view \o sessions'[c.id]
    BY DEF PageInv, Switched
  <1>2. PICK at \in {"back", "lost"} :
           /\ Continue(c, at)
           /\ at = "back" => sessions' = [sessions EXCEPT ![c.id] = c.got] /\ UNCHANGED undisturbed
           /\ at = "lost" => undisturbed' = FALSE /\ UNCHANGED sessions
    BY DEF Switched
  <1>3. c.id \in DOMAIN sessions /\ (at = "back" => c.got \in Seq(Bubbles))
    BY <1>1, <1>2 DEF CallInv, Continue
  <1>4. DOMAIN sessions' = DOMAIN sessions /\ \A s \in DOMAIN sessions' : sessions'[s] \in Seq(Bubbles)
    BY <1>2, <1>3 DEF PageInv, PageTypeOK
  <1>5. view' \in Seq(Bubbles)
    <2>1. view \in Seq(Bubbles) /\ sessions'[c.id] \in Seq(Bubbles)
      BY <1>3, <1>4 DEF PageInv, PageTypeOK
    <2> QED
      BY <1>1, <2>1, ConcatProperties
  <1>6. undisturbed' \in BOOLEAN
    BY <1>2 DEF PageInv, PageTypeOK
  <1> QED
    BY <1>1, <1>2, <1>4, <1>5, <1>6, ContinueTyped DEF PageInv, PageTypeOK

LEMMA SyncedTyped ==
  ASSUME PageInv, NEW c \in calls, Synced(c)
  PROVE  PageInv'
  <1>1. /\ c \in Calls /\ CallInv(c) /\ c.kind = "sync"
        /\ UNCHANGED <<currentSessionId, tempSession, unanswered>>
    BY DEF PageInv, Synced
  <1>2. CASE /\ Continue(c, "back")
             /\ IF currentSessionId \in DOMAIN sessions
                THEN /\ view' = c.got
                     /\ sessions' = [sessions EXCEPT ![currentSessionId] = c.got]
                ELSE UNCHANGED <<sessions, view>>
             /\ UNCHANGED undisturbed
    <2>1. c.got \in Seq(Bubbles)
      BY <1>1, <1>2 DEF CallInv, Continue
    <2>2. /\ DOMAIN sessions' = DOMAIN sessions /\ view' \in Seq(Bubbles)
          /\ \A s \in DOMAIN sessions' : sessions'[s] \in Seq(Bubbles)
      BY <1>2, <2>1 DEF PageInv, PageTypeOK
    <2> QED
      BY <1>1, <1>2, <2>2, ContinueTyped DEF PageInv, PageTypeOK
  <1>3. CASE Continue(c, "lost") /\ undisturbed' = FALSE /\ UNCHANGED <<sessions, view>>
    BY <1>1, <1>3, ContinueTyped DEF PageInv, PageTypeOK
  <1> QED
    BY <1>2, <1>3 DEF Synced

LEMMA AnsweredTyped ==
  ASSUME PageInv, NEW c \in calls, Answered(c)
  PROVE  PageInv'
  <1>1. /\ c \in Calls /\ CallInv(c) /\ c.kind = "send" /\ Continue(c, "back")
        /\ UNCHANGED <<currentSessionId, tempSession, unanswered, undisturbed>>
    BY DEF PageInv, Answered
  <1>2. Assistant(Reply(c.n)) \in Bubbles /\ Assistant(Excuse(c.n)) \in Bubbles
    <2>1. c.n \in 0..MaxQuestions
      BY <1>1, PageAssumption DEF CallInv, PageInv
    <2> QED
      BY <2>1, Bubble
  <1>3. CASE /\ currentSessionId \in DOMAIN sessions
             /\ view' = Append(view, Assistant(Reply(c.n)))
             /\ sessions' = [sessions EXCEPT ![currentSessionId] = Append(@, Assistant(Reply(c.n)))]
    <2>1. /\ DOMAIN sessions' = DOMAIN sessions /\ view' \in Seq(Bubbles)
          /\ \A s \in DOMAIN sessions' : sessions'[s] \in Seq(Bubbles)
      BY <1>2, <1>3, Rows DEF PageInv, PageTypeOK
    <2> QED
      BY <1>1, <2>1, ContinueTyped DEF PageInv, PageTypeOK
  <1>4. CASE /\ view' = view \o <<Assistant(Reply(c.n)), Assistant(Excuse(c.n))>>
             /\ UNCHANGED sessions
    <2>1. <<Assistant(Reply(c.n)), Assistant(Excuse(c.n))>> \in Seq(Bubbles)
      <3> HIDE DEF Bubbles
      <3> QED
        BY <1>2
    <2>2. view' \in Seq(Bubbles)
      BY <1>4, <2>1, ConcatProperties DEF PageInv, PageTypeOK
    <2> QED
      BY <1>1, <1>4, <2>2, ContinueTyped DEF PageInv, PageTypeOK
  <1> QED
    BY <1>3, <1>4 DEF Answered

LEMMA AnsweredNewTyped ==
  ASSUME PageInv, NEW c \in calls, AnsweredNew(c)
  PROVE  PageInv'
  <1>1. /\ c \in Calls /\ CallInv(c) /\ c.kind = "new" /\ Continue(c, "back")
        /\ sessions' = [s \in DOMAIN sessions \union {c.id} |->
                           IF s = c.id THEN <<User(Question(c.n)), Assistant(Reply(c.n))>>
                                       ELSE sessions[s]]
        /\ currentSessionId' = c.id /\ tempSession' = FALSE
        /\ view' = Append(view, Assistant(Reply(c.n)))
        /\ UNCHANGED <<unanswered, undisturbed>>
    BY DEF PageInv, AnsweredNew
  <1>2. User(Question(c.n)) \in Bubbles /\ Assistant(Reply(c.n)) \in Bubbles
    <2>1. c.n \in 0..MaxQuestions
      BY <1>1, PageAssumption DEF CallInv, PageInv
    <2> QED
      BY <2>1, Bubble
  <1>3. <<User(Question(c.n)), Assistant(Reply(c.n))>> \in Seq(Bubbles)
    <2> HIDE DEF Bubbles
    <2> QED
      BY <1>2
  <1>4. c.id \in DOMAIN log
    BY <1>1 DEF CallInv, Continue
  <1>5. /\ DOMAIN sessions \subseteq DOMAIN sessions' /\ DOMAIN sessions' \subseteq DOMAIN log
        /\ \A s \in DOMAIN sessions' : sessions'[s] \in Seq(Bubbles)
        /\ c.id \in DOMAIN sessions'
    BY <1>1, <1>3, <1>4 DEF PageInv, PageTypeOK
  <1>6. view' \in Seq(Bubbles) /\ undisturbed' \in BOOLEAN
    BY <1>1, <1>2, Rows DEF PageInv, PageTypeOK
  <1> QED
    BY <1>1, <1>5, <1>6, ContinueTyped

LEMMA UnansweredTyped ==
  ASSUME PageInv, NEW c \in calls, Unanswered(c)
  PROVE  PageInv'
  <1>1. /\ c \in Calls /\ CallInv(c) /\ c.kind \in {"send", "new"} /\ Continue(c, "lost")
        /\ view' = Append(view, Assistant(Excuse(c.n)))
        /\ UNCHANGED <<currentSessionId, tempSession, sessions, undisturbed>>
    BY DEF PageInv, Unanswered
  <1>2. Assistant(Excuse(c.n)) \in Bubbles
    <2>1. c.n \in 0..MaxQuestions
      BY <1>1, PageAssumption DEF CallInv, PageInv
    <2> QED
      BY <2>1, Bubble
  <1>3. view' \in Seq(Bubbles)
    BY <1>1, <1>2, Rows DEF PageInv, PageTypeOK
  <1> QED
    BY <1>1, <1>3, ContinueTyped DEF PageInv, PageTypeOK

LEMMA LoadedTyped ==
  ASSUME PageInv, NEW c \in calls, Loaded(c)
  PROVE  PageInv'
  <1>1. /\ c \in Calls /\ CallInv(c) /\ c.kind = "load"
        /\ UNCHANGED <<currentSessionId, tempSession, view, unanswered>>
    BY DEF PageInv, Loaded
  <1>2. CASE /\ Continue(c, "back")
             /\ sessions' = [s \in DOMAIN sessions \union c.got[1] |->
                                IF s \in c.got[1] THEN <<>> ELSE sessions[s]]
             /\ UNCHANGED undisturbed
    <2>1. c.got[1] \subseteq DOMAIN log
      BY <1>1, <1>2 DEF CallInv, Continue
    <2>2. /\ DOMAIN sessions \subseteq DOMAIN sessions' /\ DOMAIN sessions' \subseteq DOMAIN log
          /\ \A s \in DOMAIN sessions' : sessions'[s] \in Seq(Bubbles)
      BY <1>2, <2>1, Rows DEF PageInv, PageTypeOK
    <2> QED
      BY <1>1, <1>2, <2>2, ContinueTyped DEF PageInv, PageTypeOK
  <1>3. CASE Continue(c, "lost") /\ undisturbed' = FALSE /\ UNCHANGED sessions
    BY <1>1, <1>3, ContinueTyped DEF PageInv, PageTypeOK
  <1> QED
    BY <1>2, <1>3 DEF Loaded

LEMMA PageInvNext == PageInv /\ [PageNext]_pageVars => PageInv'
  <1> SUFFICES ASSUME PageInv, [PageNext]_pageVars PROVE PageInv'
    OBVIOUS
  <1>1. CASE UserStep
    BY <1>1, SwitchTyped, NewChatTyped, SyncTyped, SubmitTyped DEF UserStep
  <1>2. CASE ServerStep
    BY <1>2, AsksTyped, AnswersTyped, FailsTyped, ReadsTyped, LosesTyped DEF ServerStep
  <1>3. CASE PageStep
    BY <1>3, SwitchedTyped, SyncedTyped, AnsweredTyped, AnsweredNewTyped, UnansweredTyped,
       LoadedTyped DEF PageStep
  <1>4. CASE UNCHANGED pageVars
    BY <1>4, PageInvUnchanged
  <1> QED
    BY <1>1, <1>2, <1>3, <1>4 DEF PageNext

(* The page's variables keep their types, and a session on the page is one *)
(* of the server's (AI.html:285-456): for any sessions and any number of   *)
(* questions, clicks, lost requests and failed chats.                      *)
THEOREM PageTypeTheorem == PageSpec => []PageTypeOK
  <1>1. PageInv => PageTypeOK
    BY DEF PageInv
  <1> QED
    BY <1>1, PageInvInit, PageInvNext, PTL DEF PageSpec


-----------------------------------------------------------------------------
(* A session is kept when its log is of questions below n, in whole        *)
(* exchanges unless it is halved, and the page, if it has loaded the       *)
(* session, agrees with the log.                                           *)
KeptAt(s, n) ==
    /\ Complete(log[s], n, s \notin halved)
    /\ s \in DOMAIN sessions =>
          /\ Below(sessions[s], n)
          /\ sessions[s] # <<>> =>
                Agree(sessions[s], History(log[s]), unanswered, s \notin halved)

Kept(X, n) == \A s \in DOMAIN log \ X : KeptAt(s, n)

(* What is in sight agrees with the log of the current session; a new chat *)
(* shows only what was not answered.                                       *)
Shown(n) ==
    /\ Below(view, n)
    /\ InSession =>
          /\ Agree(view, History(log[currentSessionId]), unanswered, currentSessionId \notin halved)
          /\ Agree(sessions[currentSessionId], History(log[currentSessionId]), unanswered,
                   currentSessionId \notin halved)
    /\ tempSession => \A i \in 1..Len(view) : view[i].text[2] \in unanswered

(* The one fetch under way while nothing is disturbed, by its kind.        *)
LoadingOf(c) ==
    /\ currentSessionId = Null
    /\ Kept({}, asked + 1)
    /\ Below(view, asked + 1)

Got(c) == c.at = "back" => c.got = History(log[c.id])

SwitchingOf(c) ==
    /\ c.id = currentSessionId
    /\ view = <<>>
    /\ Kept({}, asked + 1)
    /\ Got(c)

SyncingOf(c) ==
    /\ c.id = currentSessionId
    /\ Kept({}, asked + 1)
    /\ Shown(asked + 1)
    /\ Got(c)

(* How much of the exchange about question c.n is in a log that was l.     *)
Whole(l, n) == Append(Append(l, Question(n)), Reply(n))

Logged(c, l) ==
    /\ c.at = "out" => log[c.id] = l
    /\ c.at = "asked" => log[c.id] = Append(l, Question(c.n))
    /\ c.at = "back" => log[c.id] = Whole(l, c.n)
    /\ c.at = "lost" => \/ log[c.id] \in {l, Whole(l, c.n)}
                        \/ log[c.id] = Append(l, Question(c.n)) /\ c.id \in halved

SendingOf(c) ==
    /\ c.n = asked
    /\ c.id = currentSessionId
    /\ Kept({c.id}, asked)
    /\ \E v, w \in Seq(Bubbles), l \in Seq(Texts) :
          /\ Below(v, asked) /\ Agree(v, History(l), unanswered, c.id \notin halved)
          /\ Below(w, asked) /\ Agree(w, History(l), unanswered, c.id \notin halved)
          /\ Complete(l, asked, c.id \notin halved)
          /\ view = Append(v, User(Question(asked)))
          /\ sessions[c.id] = Append(w, User(Question(asked)))
          /\ Logged(c, l)

Created(c) ==
    /\ c.id \in DOMAIN log \ DOMAIN sessions
    /\ Kept({c.id}, asked)
    /\ Logged(c, <<>>)

OpeningOf(c) ==
    /\ c.n = asked
    /\ tempSession
    /\ \E v \in Seq(Bubbles) :
          /\ Below(v, asked)
          /\ view = Append(v, User(Question(asked)))
          /\ \A i \in 1..Len(v) : v[i].text[2] \in unanswered
    /\ c.at = "out" => Kept({}, asked)
    /\ c.at \in {"asked", "back"} => Created(c)
    /\ c.at = "lost" => Kept({}, asked) \/ Created(c)

FetchInv(c) ==
    /\ c.kind = "load" => LoadingOf(c)
    /\ c.kind = "switch" => SwitchingOf(c)
    /\ c.kind = "sync" => SyncingOf(c)
    /\ c.kind = "send" => SendingOf(c)
    /\ c.kind = "new" => OpeningOf(c)

PatientInv ==
    undisturbed =>
       /\ \A c, d \in calls : c = d
       /\ calls = {} => Kept({}, asked + 1) /\ Shown(asked + 1)
       /\ \A c \in calls : FetchInv(c)

(* What a session on the page or in the log is. *)
LEMMA KeptRows ==
  ASSUME PageInv, NEW s \in DOMAIN log
  PROVE  /\ log[s] \in Seq(Texts) /\ History(log[s]) \in Seq(Bubbles)
         /\ s \in DOMAIN sessions => sessions[s] \in Seq(Bubbles)
         /\ \A but, sure : Agree(History(log[s]), History(log[s]), but, sure)
         /\ \A n : KeptAt(s, n) => Below(History(log[s]), n)
  <1>1. log[s] \in Seq(Texts)
    BY DEF PageInv, PageTypeOK
  <1>2. History(log[s]) \in Seq(Bubbles)
    BY <1>1, HistoryFacts
  <1>3. \A but, sure : Agree(History(log[s]), History(log[s]), but, sure)
    BY <1>2, AgreeSame
  <1> QED
    BY <1>1, <1>2, <1>3 DEF PageInv, PageTypeOK, KeptAt, Complete

(* What is kept stays so, for later questions and for other exceptions.    *)
LEMMA KeptStays ==
  ASSUME PageInv, NEW s \in DOMAIN log, NEW n \in Nat, NEW k \in Nat, n <= k, KeptAt(s, n),
         log'[s] = log[s], halved \subseteq halved',
         s \in DOMAIN sessions' => s \in DOMAIN sessions /\ sessions'[s] = sessions[s],
         \/ unanswered' = unanswered
         \/ \E m \in Nat : n <= m /\ unanswered' = unanswered \union {m}
  PROVE  KeptAt(s, k)'
  <1>1. /\ log[s] \in Seq(Texts) /\ History(log[s]) \in Seq(Bubbles)
        /\ s \in DOMAIN sessions => sessions[s] \in Seq(Bubbles)
        /\ Below(History(log[s]), n)
    BY KeptRows
  <1>2. Complete(log'[s], k, s \notin halved')
    BY <1>1, BelowMore DEF Complete, KeptAt
  <1>3. ASSUME s \in DOMAIN sessions'
        PROVE  /\ Below(sessions'[s], k)
               /\ sessions'[s] # <<>> => Agree(sessions'[s], History(log'[s]), unanswered', s \notin halved')
    <2>1. /\ s \in DOMAIN sessions /\ sessions'[s] = sessions[s]
          /\ sessions[s] \in Seq(Bubbles) /\ Below(sessions[s], n)
          /\ sessions[s] # <<>> => Agree(sessions[s], History(log[s]), unanswered, s \notin halved')
      BY <1>1, <1>3, AgreeLess DEF KeptAt
    <2>2. Below(sessions'[s], k)
      BY <2>1, BelowMore
    <2>3. ASSUME NEW m \in Nat, n <= m, unanswered' = unanswered \union {m}, sessions[s] # <<>>
          PROVE  Agree(sessions[s], History(log[s]), unanswered \union {m}, s \notin halved')
      <3>1. /\ \A i \in 1..Len(sessions[s]) : sessions[s][i].text[2] # m
            /\ \A i \in 1..Len(History(log[s])) : History(log[s])[i].text[2] # m
        <4>1. PICK a, b : a = sessions[s] /\ b = History(log[s])
          OBVIOUS
        <4>2. a \in Seq(Bubbles) /\ b \in Seq(Bubbles) /\ Below(a, n) /\ Below(b, n)
          BY <1>1, <2>1, <4>1
        <4>3. /\ \A i \in 1..Len(a) : a[i].text[2] \in Nat
              /\ \A i \in 1..Len(b) : b[i].text[2] \in Nat
          BY <4>2, BubbleNumber
        <4>4. \A x \in Nat : x < n => x # m
          BY <2>3
        <4>5. /\ \A i \in 1..Len(a) : a[i].text[2] # m
              /\ \A i \in 1..Len(b) : b[i].text[2] # m
          BY <4>2, <4>3, <4>4 DEF Below
        <4> QED
          BY <4>1, <4>5
      <3> QED
        BY <1>1, <2>1, <2>3, <3>1, AgreeExcept
    <2> QED
      BY <2>1, <2>2, <2>3
  <1> QED
    BY <1>2, <1>3 DEF KeptAt

LEMMA KeptOn ==
  ASSUME PageInv, NEW X, NEW Y, NEW n \in Nat, NEW k \in Nat, n <= k, Kept(X, n),
         DOMAIN log' \ Y \subseteq DOMAIN log \ X, halved \subseteq halved',
         \A s \in DOMAIN log \ X : s \notin Y =>
            /\ log'[s] = log[s]
            /\ s \in DOMAIN sessions' => s \in DOMAIN sessions /\ sessions'[s] = sessions[s],
         \/ unanswered' = unanswered
         \/ \E m \in Nat : n <= m /\ unanswered' = unanswered \union {m}
  PROVE  Kept(Y, k)'
  <1> SUFFICES ASSUME NEW s \in DOMAIN log' \ Y PROVE KeptAt(s, k)'
    BY DEF Kept
  <1>1. s \in DOMAIN log /\ KeptAt(s, n)
    BY DEF Kept
  <1> QED
    BY <1>1, KeptStays

LEMMA KeptSame ==
  ASSUME PageInv, NEW n \in Nat, NEW k \in Nat, n <= k, NEW X, Kept(X, n),
         UNCHANGED <<log, halved, sessions, unanswered>>
  PROVE  Kept(X, k)'
  BY KeptOn

(* What a step of a patient user leaves: nothing, or one fetch.            *)
LEMMA LeavesNone ==
  ASSUME calls' = {}, Kept({}, asked + 1)', Shown(asked + 1)'
  PROVE  PatientInv'
  BY DEF PatientInv

LEMMA LeavesOne ==
  ASSUME NEW d, calls' = {d}, FetchInv(d)'
  PROVE  PatientInv'
  BY DEF PatientInv

LEMMA Started ==
  ASSUME Starts, undisturbed'
  PROVE  undisturbed /\ calls = {}
  BY DEF Starts

LEMMA PatientSwitch ==
  ASSUME PageInv, PatientInv, NEW id \in Sessions, SwitchSession(id), undisturbed'
  PROVE  PatientInv'
  <1>1. /\ undisturbed /\ calls = {} /\ asked \in Nat
        /\ id \in DOMAIN sessions /\ id \in DOMAIN log
        /\ currentSessionId' = id /\ tempSession' = FALSE
        /\ UNCHANGED <<sessions, log, halved, asked, unanswered>>
    <2>1. undisturbed /\ calls = {}
      BY Started DEF SwitchSession, Click
    <2>2. asked \in Nat /\ DOMAIN sessions \subseteq DOMAIN log
      BY PageAssumption DEF PageInv, PageTypeOK
    <2> QED
      BY <2>1, <2>2 DEF SwitchSession, Click
  <1>2. Kept({}, asked + 1)
    BY <1>1 DEF PatientInv
  <1>3. Kept({}, asked + 1)'
    BY <1>1, <1>2, KeptSame
  <1>4. CASE sessions[id] = <<>>
    <2>1. PICK d : d = [kind |-> "switch", id |-> id, n |-> visits, at |-> "out", got |-> <<>>]
      OBVIOUS
    <2>2. calls' = {d} /\ view' = <<>>
      BY <1>1, <1>4, <2>1 DEF SwitchSession, Fetch
    <2>3. FetchInv(d)'
      BY <1>1, <1>3, <2>1, <2>2 DEF FetchInv, SwitchingOf, Got
    <2> QED
      BY <2>2, <2>3, LeavesOne
  <1>5. CASE sessions[id] # <<>>
    <2>1. calls' = {} /\ view' = sessions[id]
      BY <1>1, <1>5 DEF SwitchSession
    <2>2. KeptAt(id, asked + 1)
      BY <1>1, <1>2 DEF Kept
    <2>3. Shown(asked + 1)'
      BY <1>1, <1>5, <2>1, <2>2 DEF Shown, InSession, KeptAt
    <2> QED
      BY <1>3, <2>1, <2>3, LeavesNone
  <1> QED
    BY <1>4, <1>5

LEMMA PatientNewChat ==
  ASSUME PageInv, PatientInv, NewChat, undisturbed'
  PROVE  PatientInv'
  <1>1. /\ undisturbed /\ calls' = {} /\ calls = {} /\ asked \in Nat
        /\ tempSession' /\ view' = <<>>
        /\ UNCHANGED <<sessions, log, halved, asked, unanswered>>
    <2>1. undisturbed /\ calls = {}
      BY Started DEF NewChat, Click
    <2>2. asked \in Nat
      BY PageAssumption DEF PageInv
    <2> QED
      BY <2>1, <2>2 DEF NewChat, Click
  <1>2. Kept({}, asked + 1)'
    <2>1. Kept({}, asked + 1)
      BY <1>1 DEF PatientInv
    <2> QED
      BY <1>1, <2>1, KeptSame
  <1>3. Shown(asked + 1)'
    BY <1>1 DEF Shown, InSession, Below
  <1> QED
    BY <1>1, <1>2, <1>3, LeavesNone

LEMMA PatientSync ==
  ASSUME PageInv, PatientInv, Sync, undisturbed'
  PROVE  PatientInv'
  <1>1. /\ undisturbed /\ calls = {} /\ asked \in Nat
        /\ UNCHANGED <<currentSessionId, tempSession, view, sessions, log, halved, asked, unanswered>>
    BY PageAssumption DEF Sync, Click, Starts, PageInv, PageTypeOK, page
  <1>2. Kept({}, asked + 1) /\ Shown(asked + 1)
    BY <1>1 DEF PatientInv
  <1>3. Kept({}, asked + 1)' /\ Shown(asked + 1)'
    <2>1. Kept({}, asked + 1)'
      BY <1>1, <1>2, KeptSame
    <2>2. Shown(asked + 1)'
      BY <1>1, <1>2 DEF Shown, InSession, Below
    <2> QED
      BY <2>1, <2>2
  <1>4. PICK d : d = [kind |-> "sync", id |-> currentSessionId, n |-> visits, at |-> "out", got |-> <<>>]
    OBVIOUS
  <1>5. calls' = {d}
    BY <1>1, <1>4 DEF Sync, Fetch
  <1>6. FetchInv(d)'
    BY <1>1, <1>3, <1>4 DEF FetchInv, SyncingOf, Got
  <1> QED
    BY <1>5, <1>6, LeavesOne


LEMMA PatientSubmit ==
  ASSUME PageInv, PatientInv, Submit, undisturbed'
  PROVE  PatientInv'
  <1>1. PICK n : n = asked'
    OBVIOUS
  <1>2. /\ undisturbed /\ calls = {} /\ n = asked + 1 /\ n \in 0..MaxQuestions /\ n \in Nat
        /\ view' = Append(view, User(Question(n)))
        /\ UNCHANGED <<currentSessionId, tempSession, log, halved, unanswered>>
    <2>1. undisturbed /\ calls = {}
      BY Started DEF Submit
    <2> QED
      BY <1>1, <2>1, PageAssumption DEF Submit, PageInv
  <1>3. Kept({}, n) /\ Shown(n) /\ view \in Seq(Bubbles)
    BY <1>2 DEF PatientInv, PageInv, PageTypeOK
  <1>4. CASE tempSession
    <2>1. PICK d : d = [kind |-> "new", id |-> Temp, n |-> n, at |-> "out", got |-> <<>>]
      OBVIOUS
    <2>2. calls' = {d} /\ UNCHANGED sessions
      BY <1>1, <1>2, <1>4, <2>1 DEF Submit, Fetch
    <2>3. Kept({}, n)'
      BY <1>2, <1>3, <2>2, KeptSame
    <2>4. Kept({}, asked)'
      BY <1>1, <2>3
    <2>5. \E v \in Seq(Bubbles) :
             /\ Below(v, n)
             /\ view' = Append(v, User(Question(n)))
             /\ \A i \in 1..Len(v) : v[i].text[2] \in unanswered'
      BY <1>2, <1>3, <1>4 DEF Shown
    <2>6. OpeningOf(d)'
      BY <1>1, <1>2, <1>4, <2>1, <2>4, <2>5 DEF OpeningOf
    <2>7. FetchInv(d)'
      BY <2>1, <2>6 DEF FetchInv
    <2> QED
      BY <2>2, <2>7, LeavesOne
  <1>5. CASE ~tempSession
    <2>1. PICK id, v, w, l : /\ id = currentSessionId
                             /\ v = view /\ w = sessions[id] /\ l = log[id]
      OBVIOUS
    <2>2. PICK d : d = [kind |-> "send", id |-> id, n |-> n, at |-> "out", got |-> <<>>]
      OBVIOUS
    <2>3. /\ calls' = {d} /\ id \in DOMAIN sessions /\ id \in DOMAIN log
          /\ sessions' = [sessions EXCEPT ![id] = Append(@, User(Question(n)))]
      BY <1>1, <1>2, <1>5, <2>1, <2>2 DEF Submit, Fetch, PageInv, PageTypeOK
    <2>4. Kept({id}, n)'
      <3>1. /\ DOMAIN log' \ {id} \subseteq DOMAIN log \ {}
            /\ \A s \in DOMAIN log \ {} : s \notin {id} =>
                  /\ log'[s] = log[s]
                  /\ s \in DOMAIN sessions' => s \in DOMAIN sessions /\ sessions'[s] = sessions[s]
        BY <1>2, <2>3
      <3> QED
        BY <1>2, <1>3, <3>1, KeptOn
    <2>5. /\ Complete(l, n, id \notin halved) /\ Below(w, n) /\ Below(v, n)
          /\ Agree(v, History(l), unanswered, id \notin halved)
          /\ Agree(w, History(l), unanswered, id \notin halved)
          /\ v \in Seq(Bubbles) /\ w \in Seq(Bubbles) /\ l \in Seq(Texts)
      BY <1>3, <1>5, <2>1, <2>3 DEF Kept, KeptAt, Shown, InSession, PageInv, PageTypeOK
    <2>6. /\ view' = Append(v, User(Question(n)))
          /\ sessions'[id] = Append(w, User(Question(n)))
          /\ Logged(d, l)'
      BY <1>2, <2>1, <2>2, <2>3 DEF Logged
    <2>7. \E x, y \in Seq(Bubbles), z \in Seq(Texts) :
             /\ Below(x, n) /\ Agree(x, History(z), unanswered', id \notin halved')
             /\ Below(y, n) /\ Agree(y, History(z), unanswered', id \notin halved')
             /\ Complete(z, n, id \notin halved')
             /\ view' = Append(x, User(Question(n)))
             /\ sessions'[id] = Append(y, User(Question(n)))
             /\ Logged(d, z)'
      BY <1>2, <2>5, <2>6
    <2>8. SendingOf(d)'
      <3>1. d.n = n /\ d.id = id /\ n = asked' /\ id = currentSessionId'
        BY <1>1, <1>2, <2>1, <2>2
      <3> QED
        BY <2>4, <2>7, <3>1 DEF SendingOf
    <2>9. FetchInv(d)'
      BY <2>2, <2>8 DEF FetchInv
    <2> QED
      BY <2>3, <2>9, LeavesOne
  <1> QED
    BY <1>4, <1>5

LEMMA PatientSubmitNowhere ==
  ASSUME PageInv, PatientInv, SubmitNowhere, undisturbed'
  PROVE  PatientInv'
  <1>1. PICK n : n = asked'
    OBVIOUS
  <1>2. /\ undisturbed /\ calls = {} /\ n = asked + 1 /\ n \in 0..MaxQuestions /\ n \in Nat
        /\ view' = Append(view, User(Question(n)))
        /\ unanswered' = unanswered \union {n}
        /\ ~tempSession /\ currentSessionId \notin DOMAIN sessions
        /\ UNCHANGED <<currentSessionId, tempSession, sessions, calls, log, halved>>
    <2>1. undisturbed /\ calls = {}
      BY Started DEF SubmitNowhere
    <2> QED
      BY <1>1, <2>1, PageAssumption DEF SubmitNowhere, PageInv
  <1>3. Kept({}, n) /\ Shown(n) /\ view \in Seq(Bubbles)
    BY <1>2 DEF PatientInv, PageInv, PageTypeOK
  <1>4. Kept({}, n + 1)'
    <2>1. PICK k \in Nat : k = n + 1 /\ n <= k
      BY <1>2
    <2>2. /\ DOMAIN log' \ {} \subseteq DOMAIN log \ {}
          /\ \A s \in DOMAIN log \ {} : s \notin {} =>
                /\ log'[s] = log[s]
                /\ s \in DOMAIN sessions' => s \in DOMAIN sessions /\ sessions'[s] = sessions[s]
          /\ \E m \in Nat : n <= m /\ unanswered' = unanswered \union {m}
      BY <1>2
    <2>3. Kept({}, k)'
      BY <1>2, <1>3, <2>1, <2>2, KeptOn
    <2> QED
      BY <2>1, <2>3
  <1>5. Below(view', n + 1)
    <2>1. User(Question(n)) \in Bubbles /\ User(Question(n)).text[2] = n
      BY <1>2, Bubble
    <2> QED
      BY <1>2, <1>3, <2>1, BelowAppend DEF Shown
  <1>6. Kept({}, asked + 1)'
    BY <1>1, <1>4
  <1>7. Shown(asked + 1)'
    BY <1>1, <1>2, <1>5 DEF Shown, InSession
  <1> QED
    BY <1>2, <1>6, <1>7, LeavesNone


(* While nothing is disturbed a fetch is the only one. *)
LEMMA TheOne ==
  ASSUME PageInv, PatientInv, undisturbed, NEW c \in calls
  PROVE  /\ calls = {c} /\ FetchInv(c)
         /\ c \in Calls /\ CallInv(c)
         /\ asked \in Nat /\ asked \in 0..MaxQuestions
         /\ DOMAIN sessions \subseteq DOMAIN log /\ DOMAIN log \subseteq Sessions
  BY PageAssumption DEF PatientInv, PageInv, PageTypeOK

LEMMA EmptyLog ==
  ASSUME NEW n \in Nat
  PROVE  <<>> \in Seq(Texts) /\ (\A sure : Complete(<<>>, n, sure)) /\ Len(<<>>) % 2 = 0
  <1>1. <<>> \in Seq(Texts) /\ Len(<<>>) = 0
    OBVIOUS
  <1>2. Len(History(<<>>)) = 0
    BY <1>1, HistoryFacts
  <1>3. 0 % 2 = 0
    OBVIOUS
  <1> QED
    BY <1>1, <1>2, <1>3 DEF Complete, Below

(* A step of the server's in the course of an exchange. *)
LEMMA SendingStep ==
  ASSUME PageInv, NEW c, NEW d, SendingOf(c), asked \in Nat, d.n = c.n, d.id = c.id, c.id \in DOMAIN log,
         UNCHANGED <<currentSessionId, view, sessions, asked, unanswered>>,
         halved \subseteq halved', DOMAIN log' = DOMAIN log, \A s \in DOMAIN log \ {c.id} : log'[s] = log[s],
         \A l \in Seq(Texts) : Logged(c, l) => Logged(d, l)'
  PROVE  SendingOf(d)'
  <1>1. PICK n, id : n = asked /\ id = c.id
    OBVIOUS
  <1>2. Kept({id}, n) /\ c.n = n /\ id = currentSessionId
    BY <1>1 DEF SendingOf
  <1>3. PICK v \in Seq(Bubbles), w \in Seq(Bubbles), l \in Seq(Texts) :
           /\ Below(v, n) /\ Agree(v, History(l), unanswered, id \notin halved)
           /\ Below(w, n) /\ Agree(w, History(l), unanswered, id \notin halved)
           /\ Complete(l, n, id \notin halved)
           /\ view = Append(v, User(Question(n)))
           /\ sessions[id] = Append(w, User(Question(n)))
           /\ Logged(c, l)
    BY <1>1 DEF SendingOf
  <1>4. Kept({id}, n)'
    <2>1. /\ DOMAIN log' \ {id} \subseteq DOMAIN log \ {id}
          /\ \A s \in DOMAIN log \ {id} : s \notin {id} =>
                /\ log'[s] = log[s]
                /\ s \in DOMAIN sessions' => s \in DOMAIN sessions /\ sessions'[s] = sessions[s]
      BY <1>1
    <2> QED
      BY <1>1, <1>2, <2>1, KeptOn
  <1>5. \E x, y \in Seq(Bubbles), z \in Seq(Texts) :
           /\ Below(x, n) /\ Agree(x, History(z), unanswered', id \notin halved')
           /\ Below(y, n) /\ Agree(y, History(z), unanswered', id \notin halved')
           /\ Complete(z, n, id \notin halved')
           /\ view' = Append(x, User(Question(n)))
           /\ sessions'[id] = Append(y, User(Question(n)))
           /\ Logged(d, z)'
    <2>1. /\ Agree(v, History(l), unanswered, id \notin halved')
          /\ Agree(w, History(l), unanswered, id \notin halved')
      BY <1>3, AgreeLess
    <2>2. Complete(l, n, id \notin halved')
      BY <1>3 DEF Complete
    <2> QED
      BY <1>3, <2>1, <2>2
  <1>6. d.n = n /\ d.id = id /\ n = asked' /\ id = currentSessionId'
    BY <1>1, <1>2
  <1> QED
    BY <1>4, <1>5, <1>6 DEF SendingOf

LEMMA PatientAsks ==
  ASSUME PageInv, PatientInv, NEW c \in calls, ServerAsks(c), undisturbed'
  PROVE  PatientInv'
  <1>1. PICK id \in Sessions :
           /\ IF c.kind = "send" THEN id = c.id ELSE id \notin DOMAIN log
           /\ log' = [s \in DOMAIN log \union {id} |->
                         IF s # id THEN log[s]
                         ELSE Append(IF s \in DOMAIN log THEN log[s] ELSE <<>>, Question(c.n))]
           /\ Advance(c, [c EXCEPT !.id = id, !.at = "asked"])
    BY DEF ServerAsks
  <1>2. /\ undisturbed /\ c.at = "out" /\ c.kind \in {"send", "new"}
        /\ UNCHANGED <<currentSessionId, tempSession, view, sessions, asked, unanswered, halved>>
    BY DEF ServerAsks, page, counters
  <1>3. /\ calls = {c} /\ FetchInv(c) /\ c \in Calls /\ CallInv(c)
        /\ asked \in Nat /\ DOMAIN sessions \subseteq DOMAIN log
    BY <1>2, TheOne
  <1>4. PICK d : d = [kind |-> c.kind, id |-> id, n |-> c.n, at |-> "asked", got |-> c.got]
    OBVIOUS
  <1>5. [c EXCEPT !.id = id, !.at = "asked"] =
           [kind |-> c.kind, id |-> id, n |-> c.n, at |-> "asked", got |-> c.got]
    BY <1>3, Moved
  <1>6. calls' = {d}
    BY <1>1, <1>3, <1>4, <1>5 DEF Advance
  <1>7. CASE c.kind = "send"
    <2>1. id = c.id /\ id \in DOMAIN log /\ SendingOf(c)
      BY <1>1, <1>3, <1>7 DEF FetchInv, CallInv
    <2>2. /\ DOMAIN log' = DOMAIN log /\ \A s \in DOMAIN log \ {id} : log'[s] = log[s]
          /\ log'[id] = Append(log[id], Question(c.n))
      BY <1>1, <2>1
    <2>3. \A l \in Seq(Texts) : Logged(c, l) => Logged(d, l)'
      BY <1>2, <1>4, <2>1, <2>2 DEF Logged
    <2>4. SendingOf(d)'
      <3>1. d.n = c.n /\ d.id = c.id
        BY <1>4, <2>1
      <3> QED
        BY <1>2, <1>3, <2>1, <2>2, <2>3, <3>1, SendingStep
    <2>5. FetchInv(d)'
      BY <1>4, <1>7, <2>4 DEF FetchInv
    <2> QED
      BY <1>6, <2>5, LeavesOne
  <1>8. CASE c.kind = "new"
    <2>1. id \notin DOMAIN log /\ OpeningOf(c) /\ Kept({}, asked)
      BY <1>1, <1>2, <1>3, <1>8 DEF FetchInv, OpeningOf
    <2>2. /\ DOMAIN log' = DOMAIN log \union {id} /\ \A s \in DOMAIN log : log'[s] = log[s]
          /\ log'[id] = Append(<<>>, Question(c.n))
      BY <1>1, <2>1
    <2>3. Kept({id}, asked)'
      <3>1. /\ DOMAIN log' \ {id} \subseteq DOMAIN log \ {}
            /\ \A s \in DOMAIN log \ {} : s \notin {id} =>
                  /\ log'[s] = log[s]
                  /\ s \in DOMAIN sessions' => s \in DOMAIN sessions /\ sessions'[s] = sessions[s]
        BY <1>2, <2>2
      <3> QED
        BY <1>2, <1>3, <2>1, <3>1, KeptOn
    <2>4. Logged(d, <<>>)'
      BY <1>4, <2>2 DEF Logged
    <2>5. id \in DOMAIN log' \ DOMAIN sessions'
      BY <1>2, <1>3, <2>1, <2>2
    <2>6. OpeningOf(d)'
      <3>1. d.n = c.n /\ d.id = id /\ d.at = "asked"
        BY <1>4
      <3> QED
        BY <1>2, <2>1, <2>3, <2>4, <2>5, <3>1 DEF OpeningOf, Created
    <2>7. FetchInv(d)'
      BY <1>4, <1>8, <2>6 DEF FetchInv
    <2> QED
      BY <1>6, <2>7, LeavesOne
  <1> QED
    BY <1>2, <1>7, <1>8

LEMMA PatientAnswers ==
  ASSUME PageInv, PatientInv, NEW c \in calls, ServerAnswers(c), undisturbed'
  PROVE  PatientInv'
  <1>1. /\ undisturbed /\ c.at = "asked"
        /\ log' = [log EXCEPT ![c.id] = Append(@, Reply(c.n))]
        /\ Advance(c, [c EXCEPT !.at = "back"])
        /\ UNCHANGED <<currentSessionId, tempSession, view, sessions, asked, unanswered, halved>>
    BY DEF ServerAnswers, page, counters
  <1>2. /\ calls = {c} /\ FetchInv(c) /\ c \in Calls /\ CallInv(c)
        /\ asked \in Nat /\ DOMAIN sessions \subseteq DOMAIN log
    BY <1>1, TheOne
  <1>3. PICK d : d = [kind |-> c.kind, id |-> c.id, n |-> c.n, at |-> "back", got |-> c.got]
    OBVIOUS
  <1>4. [c EXCEPT !.at = "back"] = d
    BY <1>2, <1>3, Moved
  <1>5. calls' = {d}
    BY <1>1, <1>2, <1>4 DEF Advance
  <1>6. c.kind \in {"send", "new"} /\ c.id \in DOMAIN log
    BY <1>1, <1>2 DEF CallInv
  <1>7. /\ DOMAIN log' = DOMAIN log /\ \A s \in DOMAIN log \ {c.id} : log'[s] = log[s]
        /\ log'[c.id] = Append(log[c.id], Reply(c.n))
    BY <1>1, <1>6
  <1>8. \A l : Logged(c, l) => Logged(d, l)'
    BY <1>1, <1>3, <1>7 DEF Logged, Whole
  <1>9. CASE c.kind = "send"
    <2>1. SendingOf(c) /\ d.n = c.n /\ d.id = c.id
      BY <1>2, <1>3, <1>9 DEF FetchInv
    <2>2. SendingOf(d)'
      BY <1>1, <1>2, <1>6, <1>7, <1>8, <2>1, SendingStep
    <2>3. FetchInv(d)'
      BY <1>3, <1>9, <2>2 DEF FetchInv
    <2> QED
      BY <1>5, <2>3, LeavesOne
  <1>10. CASE c.kind = "new"
    <2>1. /\ OpeningOf(c) /\ d.n = c.n /\ d.id = c.id /\ d.at = "back"
          /\ c.id \in DOMAIN log \ DOMAIN sessions /\ Kept({c.id}, asked) /\ Logged(c, <<>>)
      BY <1>1, <1>2, <1>3, <1>10 DEF FetchInv, OpeningOf, Created
    <2>2. Kept({c.id}, asked)'
      <3>1. /\ DOMAIN log' \ {c.id} \subseteq DOMAIN log \ {c.id}
            /\ \A s \in DOMAIN log \ {c.id} : s \notin {c.id} =>
                  /\ log'[s] = log[s]
                  /\ s \in DOMAIN sessions' => s \in DOMAIN sessions /\ sessions'[s] = sessions[s]
        BY <1>1, <1>7
      <3> QED
        BY <1>1, <1>2, <2>1, <3>1, KeptOn
    <2>3. OpeningOf(d)'
      BY <1>1, <1>7, <1>8, <2>1, <2>2 DEF OpeningOf, Created
    <2>4. FetchInv(d)'
      BY <1>3, <1>10, <2>3 DEF FetchInv
    <2> QED
      BY <1>5, <2>4, LeavesOne
  <1> QED
    BY <1>6, <1>9, <1>10

LEMMA PatientFails ==
  ASSUME PageInv, PatientInv, NEW c \in calls, ServerFails(c), undisturbed'
  PROVE  PatientInv'
  <1>1. /\ undisturbed /\ c.at = "asked"
        /\ halved' = halved \union {c.id}
        /\ Advance(c, [c EXCEPT !.at = "lost"])
        /\ UNCHANGED <<currentSessionId, tempSession, view, sessions, log, asked, unanswered>>
    BY DEF ServerFails, page
  <1>2. /\ calls = {c} /\ FetchInv(c) /\ c \in Calls /\ CallInv(c)
        /\ asked \in Nat /\ DOMAIN sessions \subseteq DOMAIN log
    BY <1>1, TheOne
  <1>3. PICK d : d = [kind |-> c.kind, id |-> c.id, n |-> c.n, at |-> "lost", got |-> c.got]
    OBVIOUS
  <1>4. [c EXCEPT !.at = "lost"] = d
    BY <1>2, <1>3, Moved
  <1>5. calls' = {d} /\ d.kind = c.kind /\ d.id = c.id /\ d.n = c.n /\ d.at = "lost"
    BY <1>1, <1>2, <1>3, <1>4 DEF Advance
  <1>6. c.kind \in {"send", "new"} /\ c.id \in DOMAIN log
    BY <1>1, <1>2 DEF CallInv
  <1>7. \A l : Logged(c, l) => Logged(d, l)'
    BY <1>1, <1>5 DEF Logged
  <1>8. CASE c.kind = "send"
    <2>1. SendingOf(c) /\ halved \subseteq halved'
      BY <1>1, <1>2, <1>8 DEF FetchInv
    <2>2. SendingOf(d)'
      BY <1>1, <1>2, <1>5, <1>6, <1>7, <2>1, SendingStep
    <2>3. FetchInv(d)'
      BY <1>5, <1>8, <2>2 DEF FetchInv
    <2> QED
      BY <1>5, <2>3, LeavesOne
  <1>9. CASE c.kind = "new"
    <2>1. /\ OpeningOf(c)
          /\ c.id \in DOMAIN log \ DOMAIN sessions /\ Kept({c.id}, asked) /\ Logged(c, <<>>)
      BY <1>1, <1>2, <1>9 DEF FetchInv, OpeningOf, Created
    <2>2. Kept({c.id}, asked)'
      <3>1. /\ DOMAIN log' \ {c.id} \subseteq DOMAIN log \ {c.id}
            /\ \A s \in DOMAIN log \ {c.id} : s \notin {c.id} =>
                  /\ log'[s] = log[s]
                  /\ s \in DOMAIN sessions' => s \in DOMAIN sessions /\ sessions'[s] = sessions[s]
            /\ halved \subseteq halved'
        BY <1>1
      <3> QED
        BY <1>1, <1>2, <2>1, <3>1, KeptOn
    <2>3. Created(d)'
      BY <1>1, <1>5, <1>7, <2>1, <2>2 DEF Created
    <2>4. OpeningOf(d)'
      BY <1>1, <1>5, <2>1, <2>3 DEF OpeningOf
    <2>5. FetchInv(d)'
      BY <1>5, <1>9, <2>4 DEF FetchInv
    <2> QED
      BY <1>5, <2>5, LeavesOne
  <1> QED
    BY <1>6, <1>8, <1>9

LEMMA PatientReads ==
  ASSUME PageInv, PatientInv, NEW c \in calls, ServerReads(c), undisturbed'
  PROVE  PatientInv'
  <1>1. /\ undisturbed /\ c.at = "out"
        /\ UNCHANGED <<currentSessionId, tempSession, view, sessions, log, halved, asked, unanswered>>
    BY DEF ServerReads, page, counters
  <1>2. /\ calls = {c} /\ FetchInv(c) /\ c \in Calls /\ CallInv(c) /\ asked \in Nat
    BY <1>1, TheOne
  <1>3. PICK got : /\ Advance(c, [c EXCEPT !.at = "back", !.got = got])
                   /\ \/ c.kind \in {"switch", "sync"} /\ got = History(log[c.id])
                      \/ c.kind = "load"
    BY DEF ServerReads
  <1>4. PICK d : d = [kind |-> c.kind, id |-> c.id, n |-> c.n, at |-> "back", got |-> got]
    OBVIOUS
  <1>5. [c EXCEPT !.at = "back", !.got = got] = d
    BY <1>2, <1>4, Moved
  <1>6. calls' = {d} /\ d.kind = c.kind /\ d.id = c.id /\ d.got = got
    BY <1>2, <1>3, <1>4, <1>5 DEF Advance
  <1>7. Kept({}, asked + 1)'
    <2>1. Kept({}, asked + 1)
      BY <1>2, <1>3 DEF FetchInv, LoadingOf, SwitchingOf, SyncingOf
    <2> QED
      BY <1>1, <1>2, <2>1, KeptSame
  <1>8. c.kind \in {"switch", "sync"} => Got(d)'
    BY <1>1, <1>3, <1>6 DEF Got
  <1>9. c.kind = "sync" => Shown(asked + 1)'
    <2>1. c.kind = "sync" => Shown(asked + 1)
      BY <1>2 DEF FetchInv, SyncingOf
    <2> QED
      BY <1>1, <2>1 DEF Shown, InSession, Below
  <1>10. c.kind = "load" => LoadingOf(d)'
    BY <1>1, <1>2, <1>7 DEF FetchInv, LoadingOf, Below
  <1>11. c.kind = "switch" => SwitchingOf(d)'
    BY <1>1, <1>2, <1>6, <1>7, <1>8 DEF FetchInv, SwitchingOf
  <1>12. c.kind = "sync" => SyncingOf(d)'
    BY <1>1, <1>2, <1>6, <1>7, <1>8, <1>9 DEF FetchInv, SyncingOf
  <1>13. FetchInv(d)'
    BY <1>3, <1>6, <1>10, <1>11, <1>12 DEF FetchInv
  <1> QED
    BY <1>6, <1>13, LeavesOne


LEMMA PatientLoses ==
  ASSUME PageInv, PatientInv, NEW c \in calls, Loses(c), undisturbed'
  PROVE  PatientInv'
  <1>1. /\ undisturbed /\ c.at \in {"out", "back"}
        /\ Advance(c, [c EXCEPT !.at = "lost"])
        /\ UNCHANGED <<currentSessionId, tempSession, view, sessions, log, halved, asked, unanswered>>
    BY DEF Loses, page
  <1>2. /\ calls = {c} /\ FetchInv(c) /\ c \in Calls /\ CallInv(c) /\ asked \in Nat
        /\ DOMAIN sessions \subseteq DOMAIN log
    BY <1>1, TheOne
  <1>3. PICK d : d = [kind |-> c.kind, id |-> c.id, n |-> c.n, at |-> "lost", got |-> c.got]
    OBVIOUS
  <1>4. [c EXCEPT !.at = "lost"] = d
    BY <1>2, <1>3, Moved
  <1>5. calls' = {d} /\ d.kind = c.kind /\ d.id = c.id /\ d.n = c.n /\ d.at = "lost"
    BY <1>1, <1>2, <1>3, <1>4 DEF Advance
  <1>6. \A X, n : n \in Nat /\ Kept(X, n) => Kept(X, n)'
    BY <1>1, KeptSame
  <1>7. \A l : Logged(c, l) => Logged(d, l)'
    BY <1>1, <1>5 DEF Logged
  <1>8. CASE c.kind \in {"load", "switch", "sync"}
    <2>1. Kept({}, asked + 1)
      BY <1>2, <1>8 DEF FetchInv, LoadingOf, SwitchingOf, SyncingOf
    <2>2. Kept({}, asked + 1)'
      <3>1. PICK n \in Nat : n = asked + 1
        BY <1>2
      <3>2. Kept({}, n)'
        BY <1>1, <2>1, <3>1, KeptSame
      <3> QED
        BY <1>1, <3>1, <3>2
    <2>3. c.kind = "sync" => Shown(asked + 1)'
      <3>1. c.kind = "sync" => Shown(asked + 1)
        BY <1>2 DEF FetchInv, SyncingOf
      <3> QED
        BY <1>1, <3>1 DEF Shown, InSession, Below
    <2>4. Got(d)'
      BY <1>5 DEF Got
    <2>5. FetchInv(d)'
      BY <1>1, <1>2, <1>5, <1>8, <2>2, <2>3, <2>4
         DEF FetchInv, LoadingOf, SwitchingOf, SyncingOf, Below
    <2> QED
      BY <1>5, <2>5, LeavesOne
  <1>9. CASE c.kind = "send"
    <2>1. SendingOf(c) /\ c.id \in DOMAIN log
      BY <1>2, <1>9 DEF FetchInv, CallInv
    <2>2. SendingOf(d)'
      BY <1>1, <1>2, <1>5, <1>7, <2>1, SendingStep
    <2>3. FetchInv(d)'
      BY <1>5, <1>9, <2>2 DEF FetchInv
    <2> QED
      BY <1>5, <2>3, LeavesOne
  <1>10. CASE c.kind = "new"
    <2>1. OpeningOf(c)
      BY <1>2, <1>10 DEF FetchInv
    <2>2. Kept({}, asked)' \/ Created(d)'
      <3>1. CASE c.at = "out"
        <4>1. Kept({}, asked)
          BY <2>1, <3>1 DEF OpeningOf
        <4> QED
          BY <1>1, <1>2, <4>1, KeptSame
      <3>2. CASE c.at = "back"
        <4>1. c.id \in DOMAIN log \ DOMAIN sessions /\ Kept({c.id}, asked) /\ Logged(c, <<>>)
          BY <2>1, <3>2 DEF OpeningOf, Created
        <4>2. Kept({c.id}, asked)'
          BY <1>1, <1>2, <4>1, KeptSame
        <4> QED
          BY <1>1, <1>5, <1>7, <4>1, <4>2 DEF Created
      <3> QED
        BY <1>1, <3>1, <3>2
    <2>3. OpeningOf(d)'
      BY <1>1, <1>5, <2>1, <2>2 DEF OpeningOf
    <2>4. FetchInv(d)'
      BY <1>5, <1>10, <2>3 DEF FetchInv
    <2> QED
      BY <1>5, <2>4, LeavesOne
  <1> QED
    BY <1>2, <1>8, <1>9, <1>10 DEF Calls

-----------------------------------------------------------------------------
(* A session taken over from the log; the others stay. *)
LEMMA KeptRefreshed ==
  ASSUME PageInv, NEW n \in Nat, Kept({}, n), NEW id \in DOMAIN sessions,
         sessions' = [sessions EXCEPT ![id] = History(log[id])],
         UNCHANGED <<log, halved, unanswered>>
  PROVE  Kept({}, n)'
  <1> SUFFICES ASSUME NEW s \in DOMAIN log PROVE KeptAt(s, n)'
    BY DEF Kept
  <1>1. KeptAt(s, n)
    BY DEF Kept
  <1>2. CASE s = id
    <2>1. sessions'[s] = History(log[s])
      BY <1>2
    <2>2. /\ Below(History(log[s]), n)
          /\ Agree(History(log[s]), History(log[s]), unanswered, s \notin halved)
      BY <1>1, KeptRows
    <2> QED
      BY <1>1, <2>1, <2>2 DEF KeptAt
  <1>3. CASE s # id
    <2>1. s \in DOMAIN sessions' => s \in DOMAIN sessions /\ sessions'[s] = sessions[s]
      BY <1>3
    <2> QED
      BY <1>1, <2>1, KeptStays
  <1> QED
    BY <1>2, <1>3

(* A session that is whole again joins the others. *)
LEMMA KeptJoined ==
  ASSUME PageInv, NEW id, NEW n \in Nat, NEW k \in Nat, n <= k, Kept({id}, n),
         id \in DOMAIN log => KeptAt(id, k)',
         UNCHANGED <<log, halved>>,
         \A s \in DOMAIN log \ {id} :
            s \in DOMAIN sessions' => s \in DOMAIN sessions /\ sessions'[s] = sessions[s],
         \/ unanswered' = unanswered
         \/ \E m \in Nat : n <= m /\ unanswered' = unanswered \union {m}
  PROVE  Kept({}, k)'
  <1> SUFFICES ASSUME NEW s \in DOMAIN log PROVE KeptAt(s, k)'
    BY DEF Kept
  <1>1. CASE s = id
    BY <1>1
  <1>2. CASE s # id
    <2>1. KeptAt(s, n)
      BY <1>2 DEF Kept
    <2>2. s \in DOMAIN sessions' => s \in DOMAIN sessions /\ sessions'[s] = sessions[s]
      BY <1>2
    <2> QED
      BY <2>1, <2>2, KeptStays
  <1> QED
    BY <1>1, <1>2

(* A handler that continues was the only one. *)
LEMMA Ends ==
  ASSUME PageInv, PatientInv, undisturbed, NEW c \in calls, NEW at, Continue(c, at)
  PROVE  /\ calls' = {} /\ FetchInv(c) /\ CallInv(c) /\ c.at = at
         /\ asked \in 0..MaxQuestions /\ asked \in Nat
         /\ UNCHANGED <<log, halved, asked>>
         /\ DOMAIN sessions \subseteq DOMAIN log /\ DOMAIN log \subseteq Sessions
         /\ currentSessionId \in Sessions => ~tempSession
  <1>1. /\ calls = {c} /\ FetchInv(c) /\ CallInv(c) /\ asked \in 0..MaxQuestions /\ asked \in Nat
        /\ DOMAIN sessions \subseteq DOMAIN log /\ DOMAIN log \subseteq Sessions
    BY TheOne
  <1>2. currentSessionId \in Sessions => ~tempSession
    BY PageAssumption DEF PageInv
  <1> QED
    BY <1>1, <1>2 DEF Continue, counters

LEMMA PatientSwitched ==
  ASSUME PageInv, PatientInv, undisturbed, NEW c \in calls, Switched(c), undisturbed'
  PROVE  PatientInv'
  <1>1. /\ c.kind = "switch" /\ Continue(c, "back")
        /\ sessions' = [sessions EXCEPT ![c.id] = c.got]
        /\ view' = view \o sessions'[c.id]
        /\ UNCHANGED <<currentSessionId, tempSession, unanswered>>
    BY DEF Switched
  <1>2. /\ calls' = {} /\ FetchInv(c) /\ CallInv(c) /\ c.at = "back" /\ asked \in Nat
        /\ UNCHANGED <<log, halved, asked>>
        /\ DOMAIN sessions \subseteq DOMAIN log /\ DOMAIN log \subseteq Sessions
        /\ currentSessionId \in Sessions => ~tempSession
    BY <1>1, Ends
  <1>3. /\ c.id = currentSessionId /\ view = <<>> /\ Kept({}, asked + 1)
        /\ c.got = History(log[c.id])
    BY <1>1, <1>2 DEF FetchInv, SwitchingOf, Got
  <1>4. c.id \in DOMAIN sessions /\ c.id \in DOMAIN log /\ ~tempSession
    BY <1>1, <1>2, <1>3 DEF CallInv
  <1>5. sessions'[c.id] = History(log[c.id])
    BY <1>1, <1>3, <1>4
  <1>6. /\ History(log[c.id]) \in Seq(Bubbles) /\ Below(History(log[c.id]), asked + 1)
        /\ Agree(History(log[c.id]), History(log[c.id]), unanswered, c.id \notin halved)
    BY <1>3, <1>4, KeptRows DEF Kept
  <1>7. view' = History(log[c.id])
    <2>1. <<>> \o History(log[c.id]) = History(log[c.id])
      BY <1>6, ConcatEmptySeq
    <2> QED
      BY <1>1, <1>3, <1>5, <2>1
  <1>8. Kept({}, asked + 1)'
    <2>1. PICK n \in Nat : n = asked + 1
      BY <1>2
    <2>2. Kept({}, n)'
      BY <1>1, <1>2, <1>3, <1>4, <2>1, KeptRefreshed
    <2> QED
      BY <1>2, <2>1, <2>2
  <1>9. Shown(asked + 1)'
    BY <1>1, <1>2, <1>3, <1>4, <1>5, <1>6, <1>7 DEF Shown, InSession
  <1> QED
    BY <1>2, <1>8, <1>9, LeavesNone

LEMMA PatientSynced ==
  ASSUME PageInv, PatientInv, undisturbed, NEW c \in calls, Synced(c), undisturbed'
  PROVE  PatientInv'
  <1>1. /\ c.kind = "sync" /\ Continue(c, "back")
        /\ IF currentSessionId \in DOMAIN sessions
           THEN /\ view' = c.got
                /\ sessions' = [sessions EXCEPT ![currentSessionId] = c.got]
           ELSE UNCHANGED <<sessions, view>>
        /\ UNCHANGED <<currentSessionId, tempSession, unanswered>>
    BY DEF Synced
  <1>2. /\ calls' = {} /\ FetchInv(c) /\ CallInv(c) /\ c.at = "back" /\ asked \in Nat
        /\ UNCHANGED <<log, halved, asked>>
        /\ DOMAIN sessions \subseteq DOMAIN log /\ DOMAIN log \subseteq Sessions
        /\ currentSessionId \in Sessions => ~tempSession
    BY <1>1, Ends
  <1>3. /\ c.id = currentSessionId /\ Kept({}, asked + 1) /\ c.got = History(log[c.id])
    BY <1>1, <1>2 DEF FetchInv, SyncingOf, Got
  <1>4. c.id \in DOMAIN sessions /\ c.id \in DOMAIN log /\ ~tempSession
    BY <1>1, <1>2, <1>3 DEF CallInv
  <1>5. /\ sessions' = [sessions EXCEPT ![c.id] = History(log[c.id])]
        /\ sessions'[c.id] = History(log[c.id]) /\ view' = History(log[c.id])
    BY <1>1, <1>3, <1>4
  <1>6. /\ Below(History(log[c.id]), asked + 1)
        /\ Agree(History(log[c.id]), History(log[c.id]), unanswered, c.id \notin halved)
    BY <1>3, <1>4, KeptRows DEF Kept
  <1>7. Kept({}, asked + 1)'
    <2>1. PICK n \in Nat : n = asked + 1
      BY <1>2
    <2>2. Kept({}, n)'
      BY <1>1, <1>2, <1>3, <1>4, <1>5, <2>1, KeptRefreshed
    <2> QED
      BY <1>2, <2>1, <2>2
  <1>8. Shown(asked + 1)'
    BY <1>1, <1>2, <1>3, <1>4, <1>5, <1>6 DEF Shown, InSession
  <1> QED
    BY <1>2, <1>7, <1>8, LeavesNone

LEMMA PatientLoaded ==
  ASSUME PageInv, PatientInv, undisturbed, NEW c \in calls, Loaded(c), undisturbed'
  PROVE  PatientInv'
  <1>1. /\ c.kind = "load" /\ Continue(c, "back")
        /\ sessions' = [s \in DOMAIN sessions \union c.got[1] |->
                           IF s \in c.got[1] THEN <<>> ELSE sessions[s]]
        /\ UNCHANGED <<currentSessionId, tempSession, view, unanswered>>
    BY DEF Loaded
  <1>2. /\ calls' = {} /\ FetchInv(c) /\ CallInv(c) /\ c.at = "back" /\ asked \in Nat
        /\ UNCHANGED <<log, halved, asked>>
        /\ DOMAIN sessions \subseteq DOMAIN log /\ DOMAIN log \subseteq Sessions
    BY <1>1, Ends
  <1>3. currentSessionId = Null /\ Kept({}, asked + 1) /\ Below(view, asked + 1)
    BY <1>1, <1>2 DEF FetchInv, LoadingOf
  <1>4. c.got[1] \subseteq DOMAIN log
    BY <1>1, <1>2 DEF CallInv
  <1>5. Kept({}, asked + 1)'
    <2>1. PICK n \in Nat : n = asked + 1 /\ n = asked' + 1
      BY <1>2
    <2> SUFFICES ASSUME NEW s \in DOMAIN log PROVE KeptAt(s, n)'
      BY <1>2, <2>1 DEF Kept
    <2>2. KeptAt(s, n)
      BY <1>3, <2>1 DEF Kept
    <2>3. CASE s \in c.got[1]
      <3>1. sessions'[s] = <<>>
        BY <1>1, <2>3
      <3>2. Below(<<>>, n)
        BY DEF Below
      <3> QED
        BY <1>2, <2>2, <3>1, <3>2 DEF KeptAt
    <2>4. CASE s \notin c.got[1]
      <3>1. s \in DOMAIN sessions' => s \in DOMAIN sessions /\ sessions'[s] = sessions[s]
        BY <1>1, <2>4
      <3>2. log'[s] = log[s] /\ unanswered' = unanswered /\ halved \subseteq halved'
        BY <1>1, <1>2
      <3> QED
        BY <2>1, <2>2, <3>1, <3>2, KeptStays
    <2> QED
      BY <2>3, <2>4
  <1>6. currentSessionId' \notin DOMAIN sessions' /\ ~tempSession'
    BY <1>1, <1>2, <1>3, <1>4, PageAssumption DEF PageInv, Null, Temp
  <1>7. Shown(asked + 1)'
    BY <1>1, <1>2, <1>3, <1>6 DEF Shown, InSession
  <1> QED
    BY <1>2, <1>5, <1>7, LeavesNone


(* What the answer about question n makes of a row that showed the         *)
(* question, and what a failure makes of it.                               *)
LEMMA RowAnswered ==
  ASSUME NEW n \in 0..MaxQuestions, NEW v \in Seq(Bubbles), NEW l \in Seq(Texts), NEW but, NEW sure,
         Below(v, n), Complete(l, n, sure), Agree(v, History(l), but, sure),
         NEW w, w = Append(v, User(Question(n)))
  PROVE  /\ Agree(Append(w, Assistant(Reply(n))), History(Whole(l, n)), but, sure)
         /\ Below(Append(w, Assistant(Reply(n))), n + 1)
         /\ Complete(Whole(l, n), n + 1, sure)
  <1>1. n \in Nat
    BY PageAssumption
  <1>2. /\ User(Question(n)) \in Bubbles /\ User(Question(n)).text[2] = n
        /\ Assistant(Reply(n)) \in Bubbles /\ Assistant(Reply(n)).text[2] = n
    BY Bubble
  <1>3. sure => Len(l) % 2 = 0
    BY DEF Complete
  <1>4. Agree(Append(w, Assistant(Reply(n))), History(Whole(l, n)), but, sure)
    BY <1>3, ExchangeAgree DEF Whole
  <1>5. w \in Seq(Bubbles) /\ Below(w, n + 1)
    BY <1>1, <1>2, Rows, BelowAppend
  <1>6. Below(Append(w, Assistant(Reply(n))), n + 1)
    <2>1. n + 1 \in Int /\ n < n + 1
      BY <1>1
    <2> QED
      BY <1>2, <1>5, <2>1, BelowAgain
  <1>7. Complete(Whole(l, n), n + 1, sure)
    BY ExchangeComplete DEF Whole
  <1> QED
    BY <1>4, <1>6, <1>7

LEMMA RowFailed ==
  ASSUME NEW n \in 0..MaxQuestions, NEW v \in Seq(Bubbles), Below(v, n),
         NEW w, w = Append(v, User(Question(n)))
  PROVE  /\ Below(w, n + 1)
         /\ Below(Append(w, Assistant(Excuse(n))), n + 1)
         /\ \A but : (\A i \in 1..Len(v) : v[i].text[2] \in but) =>
               LET u == Append(w, Assistant(Excuse(n)))
               IN  \A i \in 1..Len(u) : u[i].text[2] \in but \union {n}
  <1> DEFINE e == Assistant(Excuse(n))
             u == Append(w, e)
             q == User(Question(n))
             m == Len(v)
  <1>1. n \in Nat
    BY PageAssumption
  <1>2. q \in Bubbles /\ q.text[2] = n /\ e \in Bubbles /\ e.text[2] = n
    BY Bubble
  <1> HIDE DEF e, q
  <1>3. w = Append(v, q)
    BY DEF q
  <1>4. w \in Seq(Bubbles) /\ Below(w, n + 1)
    BY <1>1, <1>2, <1>3, Rows, BelowAppend
  <1>5. Below(u, n + 1)
    <2>1. n + 1 \in Int /\ n < n + 1
      BY <1>1
    <2> QED
      BY <1>2, <1>4, <2>1, BelowAgain
  <1>6. /\ m \in Nat /\ Len(w) = m + 1 /\ w[m + 1] = q
        /\ \A i \in 1..m : w[i] = v[i]
    BY <1>2, <1>3, AppendProperties
  <1>7. /\ Len(u) = Len(w) + 1 /\ u[Len(w) + 1] = e
        /\ \A i \in 1..Len(w) : u[i] = w[i]
    BY <1>2, <1>4, AppendProperties
  <1> HIDE DEF u, m
  <1>8. ASSUME NEW but, \A i \in 1..m : v[i].text[2] \in but, NEW i \in 1..Len(u)
        PROVE  u[i].text[2] \in but \union {n}
    <2>1. i \in 1..m \/ i = m + 1 \/ i = m + 2
      BY <1>6, <1>7
    <2>2. CASE i \in 1..m
      <3>1. u[i] = v[i]
        BY <1>6, <1>7, <2>2
      <3> QED
        BY <1>8, <2>2, <3>1
    <2>3. CASE i = m + 1
      <3>1. u[i] = q
        BY <1>6, <1>7, <2>3
      <3> QED
        BY <1>2, <3>1
    <2>4. CASE i = m + 2
      <3>1. u[i] = e
        BY <1>6, <1>7, <2>4
      <3> QED
        BY <1>2, <3>1
    <2> QED
      BY <2>1, <2>2, <2>3, <2>4
  <1> QED
    BY <1>4, <1>5, <1>8 DEF u, e, m

LEMMA PatientAnswered ==
  ASSUME PageInv, PatientInv, undisturbed, NEW c \in calls, Answered(c), undisturbed'
  PROVE  PatientInv'
  <1>1. /\ c.kind = "send" /\ Continue(c, "back")
        /\ UNCHANGED <<currentSessionId, tempSession, unanswered>>
    BY DEF Answered
  <1>2. /\ calls' = {} /\ FetchInv(c) /\ CallInv(c) /\ c.at = "back"
        /\ asked \in 0..MaxQuestions /\ asked \in Nat
        /\ UNCHANGED <<log, halved, asked>>
        /\ DOMAIN sessions \subseteq DOMAIN log /\ DOMAIN log \subseteq Sessions
        /\ currentSessionId \in Sessions => ~tempSession
    BY <1>1, Ends
  <1>3. PICK n, id : n = asked /\ id = c.id
    OBVIOUS
  <1>4. SendingOf(c) /\ id \in DOMAIN sessions /\ id \in DOMAIN log /\ id = currentSessionId
    BY <1>1, <1>2, <1>3 DEF FetchInv, CallInv, SendingOf
  <1>5. c.n = n /\ Kept({id}, n) /\ n \in 0..MaxQuestions /\ n \in Nat /\ ~tempSession
    BY <1>2, <1>3, <1>4 DEF SendingOf
  <1>6. PICK v \in Seq(Bubbles), w \in Seq(Bubbles), l \in Seq(Texts) :
           /\ Below(v, n) /\ Agree(v, History(l), unanswered, id \notin halved)
           /\ Below(w, n) /\ Agree(w, History(l), unanswered, id \notin halved)
           /\ Complete(l, n, id \notin halved)
           /\ view = Append(v, User(Question(n)))
           /\ sessions[id] = Append(w, User(Question(n)))
           /\ Logged(c, l)
    BY <1>3, <1>4 DEF SendingOf
  <1>7. log[id] = Whole(l, n)
    BY <1>2, <1>3, <1>5, <1>6 DEF Logged
  <1>8. /\ view' = Append(view, Assistant(Reply(n)))
        /\ sessions' = [sessions EXCEPT ![id] = Append(@, Assistant(Reply(n)))]
        /\ sessions'[id] = Append(sessions[id], Assistant(Reply(n)))
    BY <1>4, <1>5 DEF Answered
  <1>9. /\ Agree(view', History(log[id]), unanswered, id \notin halved) /\ Below(view', n + 1)
        /\ Complete(log[id], n + 1, id \notin halved)
    BY <1>5, <1>6, <1>7, <1>8, RowAnswered
  <1>10. Agree(sessions'[id], History(log[id]), unanswered, id \notin halved) /\ Below(sessions'[id], n + 1)
    BY <1>5, <1>6, <1>7, <1>8, RowAnswered
  <1>11. Kept({}, n + 1)'
    <2>1. KeptAt(id, n + 1)'
      BY <1>1, <1>2, <1>9, <1>10 DEF KeptAt
    <2>2. PICK k \in Nat : k = n + 1 /\ n <= k
      BY <1>5
    <2>3. KeptAt(id, k)'
      BY <2>1, <2>2
    <2>4. \A s \in DOMAIN log \ {id} :
             s \in DOMAIN sessions' => s \in DOMAIN sessions /\ sessions'[s] = sessions[s]
      BY <1>8
    <2>5. Kept({}, k)'
      BY <1>1, <1>2, <1>5, <2>2, <2>3, <2>4, KeptJoined
    <2> QED
      BY <2>2, <2>5
  <1>12. Kept({}, asked + 1)'
    BY <1>2, <1>3, <1>11
  <1>13. Shown(asked + 1)'
    BY <1>1, <1>2, <1>3, <1>4, <1>5, <1>9, <1>10 DEF Shown, InSession
  <1> QED
    BY <1>2, <1>12, <1>13, LeavesNone

LEMMA PatientAnsweredNew ==
  ASSUME PageInv, PatientInv, undisturbed, NEW c \in calls, AnsweredNew(c), undisturbed'
  PROVE  PatientInv'
  <1>1. /\ c.kind = "new" /\ Continue(c, "back")
        /\ sessions' = [s \in DOMAIN sessions \union {c.id} |->
                           IF s = c.id THEN <<User(Question(c.n)), Assistant(Reply(c.n))>>
                                       ELSE sessions[s]]
        /\ currentSessionId' = c.id /\ tempSession' = FALSE
        /\ view' = Append(view, Assistant(Reply(c.n)))
        /\ UNCHANGED <<unanswered>>
    BY DEF AnsweredNew
  <1>2. /\ calls' = {} /\ FetchInv(c) /\ CallInv(c) /\ c.at = "back"
        /\ asked \in 0..MaxQuestions /\ asked \in Nat
        /\ UNCHANGED <<log, halved, asked>>
    BY <1>1, Ends
  <1>3. PICK n, id : n = asked /\ id = c.id
    OBVIOUS
  <1>4. /\ OpeningOf(c) /\ c.n = n /\ n \in 0..MaxQuestions /\ n \in Nat
        /\ id \in DOMAIN log \ DOMAIN sessions /\ Kept({id}, n) /\ log[id] = Whole(<<>>, n)
    BY <1>1, <1>2, <1>3 DEF FetchInv, OpeningOf, Created, Logged
  <1>5. PICK v \in Seq(Bubbles) :
           /\ Below(v, n)
           /\ view = Append(v, User(Question(n)))
           /\ \A i \in 1..Len(v) : v[i].text[2] \in unanswered
    BY <1>3, <1>4 DEF OpeningOf
  <1>6. sessions'[id] = Append(Append(<<>>, User(Question(n))), Assistant(Reply(n)))
    <2>1. sessions'[id] = <<User(Question(n)), Assistant(Reply(n))>>
      BY <1>1, <1>3, <1>4
    <2>2. \A a, b : <<a, b>> = Append(Append(<<>>, a), b)
      OBVIOUS
    <2> QED
      BY <2>1, <2>2
  <1>7. /\ <<>> \in Seq(Texts) /\ Complete(<<>>, n, id \notin halved) /\ <<>> \in Seq(Bubbles) /\ Below(<<>>, n)
        /\ Agree(v, History(<<>>), unanswered, id \notin halved) /\ Agree(<<>>, History(<<>>), unanswered, id \notin halved)
    <2>1. <<>> \in Seq(Texts) /\ Complete(<<>>, n, id \notin halved) /\ <<>> \in Seq(Bubbles) /\ Len(<<>>) = 0
      BY <1>4, EmptyLog
    <2>2. History(<<>>) = <<>>
      <3>1. History(<<>>) \in Seq(Bubbles) /\ Len(History(<<>>)) = 0
        BY <2>1, HistoryFacts
      <3> QED
        BY <3>1, EmptySeq
    <2>3. Agree(v, <<>>, unanswered, id \notin halved)
      BY <1>5, AgreeNothing
    <2>4. Agree(<<>>, <<>>, unanswered, id \notin halved)
      BY <2>1, AgreeSame
    <2> QED
      BY <2>1, <2>2, <2>3, <2>4 DEF Below
  <1>8. /\ Agree(view', History(log[id]), unanswered, id \notin halved) /\ Below(view', n + 1)
        /\ Complete(log[id], n + 1, id \notin halved)
    <2>1. view' = Append(view, Assistant(Reply(n)))
      BY <1>1, <1>4
    <2> QED
      BY <1>4, <1>5, <1>7, <2>1, RowAnswered
  <1>9. Agree(sessions'[id], History(log[id]), unanswered, id \notin halved) /\ Below(sessions'[id], n + 1)
    BY <1>4, <1>6, <1>7, RowAnswered
  <1>10. Kept({}, n + 1)'
    <2>1. KeptAt(id, n + 1)'
      BY <1>1, <1>2, <1>8, <1>9 DEF KeptAt
    <2>2. PICK k \in Nat : k = n + 1 /\ n <= k
      BY <1>4
    <2>3. KeptAt(id, k)'
      BY <2>1, <2>2
    <2>4. \A s \in DOMAIN log \ {id} :
             s \in DOMAIN sessions' => s \in DOMAIN sessions /\ sessions'[s] = sessions[s]
      BY <1>1, <1>3
    <2>5. Kept({}, k)'
      BY <1>1, <1>2, <1>4, <2>2, <2>3, <2>4, KeptJoined
    <2> QED
      BY <2>2, <2>5
  <1>11. Kept({}, asked + 1)'
    BY <1>2, <1>3, <1>10
  <1>12. Shown(asked + 1)'
    BY <1>1, <1>2, <1>3, <1>8, <1>9 DEF Shown, InSession
  <1> QED
    BY <1>2, <1>11, <1>12, LeavesNone

LEMMA PatientUnanswered ==
  ASSUME PageInv, PatientInv, undisturbed, NEW c \in calls, Unanswered(c), undisturbed'
  PROVE  PatientInv'
  <1>1. /\ c.kind \in {"send", "new"} /\ Continue(c, "lost")
        /\ view' = Append(view, Assistant(Excuse(c.n)))
        /\ unanswered' = unanswered \union {c.n}
        /\ UNCHANGED <<currentSessionId, tempSession, sessions>>
    BY DEF Unanswered
  <1>2. /\ calls' = {} /\ FetchInv(c) /\ CallInv(c) /\ c.at = "lost"
        /\ asked \in 0..MaxQuestions /\ asked \in Nat
        /\ UNCHANGED <<log, halved, asked>>
        /\ DOMAIN sessions \subseteq DOMAIN log /\ DOMAIN log \subseteq Sessions
        /\ currentSessionId \in Sessions => ~tempSession
    BY <1>1, Ends
  <1>3. PICK n, id, k, N : /\ n = asked /\ id = c.id /\ k = n + 1
                           /\ N = unanswered \union {n}
    OBVIOUS
  <1>4. c.n = n /\ n \in 0..MaxQuestions /\ n \in Nat /\ k \in Nat /\ n <= k
    BY <1>1, <1>2, <1>3 DEF FetchInv, SendingOf, OpeningOf
  <1>5. /\ view' = Append(view, Assistant(Excuse(n)))
        /\ unanswered' = unanswered \union {n} /\ unanswered' = N
        /\ k = asked' + 1
    BY <1>1, <1>2, <1>3, <1>4
  <1>6. \A s \in DOMAIN log \ {id} :
           s \in DOMAIN sessions' => s \in DOMAIN sessions /\ sessions'[s] = sessions[s]
    BY <1>1
  <1>7. CASE c.kind = "send"
    <2>1. /\ SendingOf(c) /\ id \in DOMAIN sessions /\ id \in DOMAIN log /\ id = currentSessionId
          /\ Kept({id}, n) /\ ~tempSession
      BY <1>2, <1>3, <1>7 DEF FetchInv, CallInv, SendingOf
    <2>2. PICK v \in Seq(Bubbles), w \in Seq(Bubbles), l \in Seq(Texts) :
             /\ Below(v, n) /\ Agree(v, History(l), unanswered, id \notin halved)
             /\ Below(w, n) /\ Agree(w, History(l), unanswered, id \notin halved)
             /\ Complete(l, n, id \notin halved)
             /\ view = Append(v, User(Question(n)))
             /\ sessions[id] = Append(w, User(Question(n)))
             /\ Logged(c, l)
      BY <1>3, <2>1 DEF SendingOf
    <2>3. \/ log[id] = l \/ log[id] = Append(Append(l, Question(n)), Reply(n))
          \/ log[id] = Append(l, Question(n)) /\ id \in halved
      BY <1>2, <1>3, <1>4, <2>2 DEF Logged, Whole
    <2>4. Agree(view', History(log[id]), N, id \notin halved)
      <3>1. view' = Append(Append(v, User(Question(n))), Assistant(Excuse(n)))
        BY <1>5, <2>2
      <3> QED
        BY <1>3, <1>4, <2>2, <2>3, <3>1, FailureAgree
    <2>5. Agree(sessions[id], History(log[id]), N, id \notin halved)
      BY <1>3, <1>4, <2>2, <2>3, FailureAgree
    <2>6. Below(view', k) /\ Below(sessions[id], k)
      BY <1>3, <1>4, <1>5, <2>2, RowFailed
    <2>7. Complete(log[id], k, id \notin halved)
      <3>1. Complete(l, k, id \notin halved)
        <4>1. History(l) \in Seq(Bubbles)
          BY HistoryFacts
        <4> QED
          BY <1>4, <2>2, <4>1, BelowMore DEF Complete
      <3>2. /\ Complete(Append(Append(l, Question(n)), Reply(n)), k, id \notin halved)
            /\ id \in halved => Complete(Append(l, Question(n)), k, id \notin halved)
        BY <1>3, <1>4, <2>2, ExchangeComplete
      <3> QED
        BY <2>3, <3>1, <3>2
    <2>8. KeptAt(id, k)'
      BY <1>1, <1>2, <1>5, <2>5, <2>6, <2>7 DEF KeptAt
    <2>9. Kept({}, k)'
      BY <1>2, <1>4, <1>5, <1>6, <2>1, <2>8, KeptJoined
    <2>10. Kept({}, asked + 1)'
      BY <1>5, <2>9
    <2>11. Shown(asked + 1)'
      BY <1>1, <1>2, <1>5, <2>1, <2>4, <2>5, <2>6 DEF Shown, InSession
    <2> QED
      BY <1>2, <2>10, <2>11, LeavesNone
  <1>8. CASE c.kind = "new"
    <2>1. OpeningOf(c) /\ tempSession /\ (Kept({}, n) \/ Created(c))
      BY <1>2, <1>3, <1>8 DEF FetchInv, OpeningOf
    <2>2. PICK v \in Seq(Bubbles) :
             /\ Below(v, n)
             /\ view = Append(v, User(Question(n)))
             /\ \A i \in 1..Len(v) : v[i].text[2] \in unanswered
      BY <1>3, <2>1 DEF OpeningOf
    <2>3. Below(view', k) /\ \A i \in 1..Len(view') : view'[i].text[2] \in N
      BY <1>3, <1>4, <1>5, <2>2, RowFailed
    <2>4. Kept({}, k)'
      <3>1. CASE Kept({}, n)
        <4>1. /\ DOMAIN log' \ {} \subseteq DOMAIN log \ {}
              /\ \A s \in DOMAIN log \ {} : s \notin {} =>
                    /\ log'[s] = log[s]
                    /\ s \in DOMAIN sessions' => s \in DOMAIN sessions /\ sessions'[s] = sessions[s]
              /\ halved \subseteq halved'
          BY <1>1, <1>2
        <4> QED
          BY <1>4, <1>5, <3>1, <4>1, KeptOn
      <3>2. CASE Created(c)
        <4>1. /\ id \in DOMAIN log \ DOMAIN sessions /\ Kept({id}, n)
              /\ \/ log[id] = <<>> \/ log[id] = Whole(<<>>, n)
                 \/ log[id] = Append(<<>>, Question(n)) /\ id \in halved
          BY <1>2, <1>3, <1>4, <3>2 DEF Created, Logged
        <4>2. Complete(log[id], k, id \notin halved)
          <5>1. /\ <<>> \in Seq(Texts)
                /\ Complete(<<>>, n, id \notin halved) /\ Complete(<<>>, k, id \notin halved)
            BY <1>4, EmptyLog
          <5>2. /\ Complete(Whole(<<>>, n), k, id \notin halved)
                /\ id \in halved => Complete(Append(<<>>, Question(n)), k, id \notin halved)
            BY <1>3, <1>4, <5>1, ExchangeComplete DEF Whole
          <5> QED
            BY <4>1, <5>1, <5>2
        <4>3. KeptAt(id, k)'
          BY <1>1, <1>2, <4>1, <4>2 DEF KeptAt
        <4> QED
          BY <1>2, <1>4, <1>5, <1>6, <4>1, <4>3, KeptJoined
      <3> QED
        BY <2>1, <3>1, <3>2
    <2>5. Kept({}, asked + 1)'
      BY <1>5, <2>4
    <2>6. Shown(asked + 1)'
      BY <1>1, <1>5, <2>1, <2>3 DEF Shown, InSession
    <2> QED
      BY <1>2, <2>5, <2>6, LeavesNone
  <1> QED
    BY <1>1, <1>7, <1>8


-----------------------------------------------------------------------------
(* What is undisturbed after a step was so before. *)
LEMMA Undisturbed ==
  ASSUME PageInv, PageNext, undisturbed'
  PROVE  undisturbed
  BY DEF PageNext, UserStep, ServerStep, PageStep, SwitchSession, NewChat, Sync, Submit,
         SubmitNowhere, Click, Starts, ServerAsks, ServerAnswers, ServerFails, ServerReads, Loses,
         Switched, Synced, Answered, AnsweredNew, Unanswered, Loaded

LEMMA PatientInvInit == PageInit => PatientInv
  <1> SUFFICES ASSUME PageInit PROVE PatientInv
    OBVIOUS
  <1>1. PICK c : c = [kind |-> "load", id |-> Null, n |-> 0, at |-> "out", got |-> <<>>]
    OBVIOUS
  <1>2. /\ calls = {c} /\ c.kind = "load" /\ currentSessionId = Null /\ view = <<>> /\ asked = 0
        /\ sessions = <<>> /\ log = [s \in Listed |-> <<Question(0), Reply(0)>>]
    BY <1>1 DEF PageInit
  <1>3. DOMAIN sessions = {} /\ Len(<<>>) = 0
    BY <1>2
  <1>4. \A sure : Complete(<<Question(0), Reply(0)>>, 1, sure)
    <2>1. 0 \in 0..MaxQuestions /\ 0 \in Nat /\ 0 + 1 = 1
      BY PageAssumption
    <2>2. <<>> \in Seq(Texts) /\ \A sure : Complete(<<>>, 0, sure)
      BY EmptyLog
    <2>3. \A a, b : <<a, b>> = Append(Append(<<>>, a), b)
      OBVIOUS
    <2>4. \A sure : Complete(Append(Append(<<>>, Question(0)), Reply(0)), 0 + 1, sure)
      BY <2>1, <2>2, ExchangeComplete
    <2> QED
      BY <2>1, <2>3, <2>4
  <1>5. Kept({}, 1)
    BY <1>2, <1>3, <1>4 DEF Kept, KeptAt
  <1>6. Below(view, 1)
    BY <1>2, <1>3 DEF Below
  <1>7. LoadingOf(c)
    BY <1>2, <1>5, <1>6 DEF LoadingOf
  <1>8. FetchInv(c)
    BY <1>2, <1>7 DEF FetchInv
  <1> QED
    BY <1>2, <1>8 DEF PatientInv

LEMMA PatientInvNext == PageInv /\ PatientInv /\ [PageNext]_pageVars => PatientInv'
  <1> SUFFICES ASSUME PageInv, PatientInv, [PageNext]_pageVars, undisturbed' PROVE PatientInv'
    BY DEF PatientInv
  <1>1. CASE UNCHANGED pageVars
    <2>1. UNCHANGED <<currentSessionId, tempSession, sessions, view, calls, log, asked, unanswered,
                      halved, undisturbed>>
      BY <1>1 DEF pageVars, page, counters
    <2>2. \A X, n : Kept(X, n) => Kept(X, n)'
      BY <2>1 DEF Kept, KeptAt
    <2>3. \A n : Shown(n) => Shown(n)'
      BY <2>1 DEF Shown, InSession
    <2>4. \A c, l : Logged(c, l) => Logged(c, l)'
      BY <2>1 DEF Logged
    <2>5. ASSUME NEW c, FetchInv(c) PROVE FetchInv(c)'
      <3>1. SendingOf(c) => SendingOf(c)'
        BY <2>1, <2>2, <2>4 DEF SendingOf
      <3>2. OpeningOf(c) => OpeningOf(c)'
        <4>1. Created(c) => Created(c)'
          BY <2>1, <2>2, <2>4 DEF Created
        <4> QED
          BY <2>1, <2>2, <4>1 DEF OpeningOf
      <3>3. /\ LoadingOf(c) => LoadingOf(c)'
            /\ SwitchingOf(c) => SwitchingOf(c)'
            /\ SyncingOf(c) => SyncingOf(c)'
        BY <2>1, <2>2, <2>3 DEF LoadingOf, SwitchingOf, SyncingOf, Got
      <3> QED
        BY <2>5, <3>1, <3>2, <3>3 DEF FetchInv
    <2> QED
      BY <2>1, <2>2, <2>3, <2>5 DEF PatientInv
  <1>2. CASE PageNext
    <2>1. undisturbed
      BY <1>2, Undisturbed
    <2>2. CASE UserStep
      BY <2>2, PatientSwitch, PatientNewChat, PatientSync, PatientSubmit, PatientSubmitNowhere
         DEF UserStep
    <2>3. CASE ServerStep
      BY <2>3, PatientAsks, PatientAnswers, PatientFails, PatientReads, PatientLoses DEF ServerStep
    <2>4. CASE PageStep
      BY <2>1, <2>4, PatientSwitched, PatientSynced, PatientAnswered, PatientAnsweredNew,
         PatientUnanswered, PatientLoaded DEF PageStep
    <2> QED
      BY <1>2, <2>2, <2>3, <2>4 DEF PageNext
  <1> QED
    BY <1>1, <1>2

(* A user who waits for each answer sees, and will see in every session    *)
(* the page keeps, the chat as the server holds it, failed questions aside *)
(* (AI.html:330-453), with its roles as long as the server has kept no     *)
(* question without an answer: for any number of sessions and questions,   *)
(* whatever was clicked, whichever questions were lost and chats failed.   *)
THEOREM PatientUserTheorem == PageSpec => []PatientUser
  <1>1. PageInv /\ PatientInv => PatientUser
    <2> SUFFICES ASSUME PageInv, PatientInv, undisturbed, calls = {} PROVE PatientUser
      BY DEF PatientUser, PatientUserSeesTheChat, PatientUserKeepsTheChats
    <2>1. Kept({}, asked + 1) /\ Shown(asked + 1) /\ DOMAIN sessions \subseteq DOMAIN log
      BY DEF PatientInv, PageInv, PageTypeOK
    <2>2. PatientUserSeesTheChat
      BY <2>1 DEF PatientUserSeesTheChat, Shown
    <2>3. PatientUserKeepsTheChats
      BY <2>1 DEF PatientUserKeepsTheChats, Kept, KeptAt
    <2> QED
      BY <2>2, <2>3 DEF PatientUser
  <1> QED
    BY <1>1, PageInvInit, PageInvNext, PatientInvInit, PatientInvNext, PTL DEF PageSpec

(* A patient user's new chat starts empty and holds only questions that    *)
(* were not answered (AI.html:346-405).                                    *)
THEOREM NewChatTheorem == PageSpec => []NewChatStartsEmpty
  <1>1. PageInv /\ PatientInv => NewChatStartsEmpty
    BY DEF PatientInv, NewChatStartsEmpty, Shown
  <1> QED
    BY <1>1, PageInvInit, PageInvNext, PatientInvInit, PatientInvNext, PTL DEF PageSpec

=============================================================================
