------------------------------ MODULE IoThreads -----------------------------
(***************************************************************************)
(* The I/O threads of ChatServer and the handlers that keep one busy.      *)
(* HttpServer gives every connection to one event loop, and a loop runs    *)
(* the handlers of its connections to their end, one after the other       *)
(* (HttpServer.h:40, HttpServer.cpp onMessage).  Three handlers wait for   *)
(* somebody else inside the loop: the chat handlers for their AI provider  *)
(* (AIHelper::executeCurl), speech synthesis for the speech provider,      *)
(* which it polls (AISpeechProcessor.cpp), and image recognition for the   *)
(* mutex of the recognisers, under which the first request of a user loads *)
(* the model (AIUploadSendHandler.cpp).  No call to a provider has a       *)
(* timeout.                                                                *)
(***************************************************************************)
EXTENDS Naturals, FiniteSets

CONSTANTS Threads, Conns,
          LoopOf,         \* the thread of each connection
          UserOf,         \* the user logged in on each connection
          MaxLoops,       \* synthesize's max_loops (60 in the code)
          Nobody          \* no connection, no thread

ASSUME ThreadsAssumption ==
    /\ LoopOf \in [Conns -> Threads]
    /\ Nobody \notin Threads \union Conns
    /\ MaxLoops \in Nat

Users == {UserOf[c] : c \in Conns}

VARIABLES
    pending,      \* the request each connection waits with, or "none"
    active,       \* connections the last poll of each loop found readable
    at,           \* what each thread is doing
    conn,         \* for which connection
    loops,        \* synthesize's counter
    mutex,        \* holder of mutexForImageRecognizerMap
    recognizers,  \* users in ImageRecognizerMap
    loaded        \* how often a model was loaded for each user (capped at 2)

threadVars == <<active, at, conn, loops>>
images == <<mutex, recognizers, loaded>>
ioVars == <<pending, threadVars, images>>

RequestKinds == {"page", "chat", "speech", "image"}

(* Inside a call to a provider. *)
Calls == {"chatCall", "token", "create", "query"}

ThreadsInit ==
    /\ pending = [c \in Conns |-> "none"]
    /\ active = [t \in Threads |-> {}]
    /\ at = [t \in Threads |-> "loop"]
    /\ conn = [t \in Threads |-> Nobody]
    /\ loops = [t \in Threads |-> 0]
    /\ mutex = Nobody
    /\ recognizers = {}
    /\ loaded = [u \in Users |-> 0]

Goto(t, p) == at' = [at EXCEPT ![t] = p]

(* A client sends its next request once it has the answer of the last. *)
ClientAsks(c, kind) ==
    /\ pending[c] = "none"
    /\ pending' = [pending EXCEPT ![c] = kind]
    /\ UNCHANGED <<threadVars, images>>

-----------------------------------------------------------------------------
(* The event loop of muduo, external: a poll returns all the connections   *)
(* that are readable, and the loop handles each once before it polls again.*)
Readable(t) == {c \in Conns : LoopOf[c] = t /\ pending[c] # "none"}

(* Fault: one connection per poll, the same one as long as it has requests.*)
PollOne(t) ==
    /\ at[t] = "loop"
    /\ active[t] = {}
    /\ Readable(t) # {}
    /\ active' = [active EXCEPT ![t] = {CHOOSE c \in Readable(t) : TRUE}]
    /\ UNCHANGED <<pending, at, conn, loops, images>>

Poll(t) ==
    /\ at[t] = "loop"
    /\ active[t] = {}
    /\ Readable(t) # {}
    /\ active' = [active EXCEPT ![t] = Readable(t)]
    /\ UNCHANGED <<pending, at, conn, loops, images>>

FirstStep(kind) ==
    CASE kind = "page"   -> "answer"
      [] kind = "chat"   -> "chatCall"
      [] kind = "speech" -> "token"
      [] kind = "image"  -> "lock"

Dispatch(t) ==
    /\ at[t] = "loop"
    /\ \E c \in active[t] :
          /\ active' = [active EXCEPT ![t] = @ \ {c}]
          /\ conn' = [conn EXCEPT ![t] = c]
          /\ Goto(t, FirstStep(pending[c]))
    /\ loops' = [loops EXCEPT ![t] = 0]
    /\ UNCHANGED <<pending, images>>

(* conn->send; the loop goes on. *)
Answer(t) ==
    /\ at[t] = "answer"
    /\ pending' = [pending EXCEPT ![conn[t]] = "none"]
    /\ Goto(t, "loop")
    /\ conn' = [conn EXCEPT ![t] = Nobody]
    /\ UNCHANGED <<active, loops, images>>

-----------------------------------------------------------------------------
(* Fault: the answer to a tool's result may call a tool again. *)
ChatReturnsTools(t) ==
    /\ at[t] = "chatCall"
    /\ loops' = [loops EXCEPT ![t] = @ + 1]
    /\ Goto(t, "answer") \/ Goto(t, "chatCall")
    /\ UNCHANGED <<pending, active, conn, images>>

(* curl_easy_perform returns: of the AI provider, with the answer, with a  *)
(* tool call, which takes a second request, or with an error.              *)
ChatReturns(t) ==
    /\ at[t] = "chatCall"
    /\ loops' = [loops EXCEPT ![t] = @ + 1]
    /\ Goto(t, "answer") \/ (loops[t] = 0 /\ Goto(t, "chatCall"))
    /\ UNCHANGED <<pending, active, conn, images>>

(* Of the speech provider: the token, which synthesize uses even if it is  *)
(* empty, and the task it creates, without which it gives up.              *)
TokenReturns(t) ==
    /\ at[t] = "token"
    /\ Goto(t, "create")
    /\ UNCHANGED <<pending, active, conn, loops, images>>

CreateReturns(t) ==
    /\ at[t] = "create"
    /\ Goto(t, "answer") \/ Goto(t, "poll")
    /\ UNCHANGED <<pending, active, conn, loops, images>>

(* Fault: the counter is not advanced. *)
PollForever(t) ==
    /\ at[t] = "poll"
    /\ IF loops[t] < MaxLoops THEN Goto(t, "query") ELSE Goto(t, "answer")
    /\ UNCHANGED <<pending, active, conn, loops, images>>

(* while (loops++ < max_loops) and the second it sleeps. *)
PollTask(t) ==
    /\ at[t] = "poll"
    /\ IF loops[t] < MaxLoops
       THEN loops' = [loops EXCEPT ![t] = @ + 1] /\ Goto(t, "query")
       ELSE Goto(t, "answer") /\ UNCHANGED loops
    /\ UNCHANGED <<pending, active, conn, images>>

(* Success, an error and an answer that does not parse end the loop; a     *)
(* task that runs and one that failed do not.                              *)
QueryReturns(t) ==
    /\ at[t] = "query"
    /\ Goto(t, "answer") \/ Goto(t, "poll")
    /\ UNCHANGED <<pending, active, conn, loops, images>>

ProviderAnswers(t) ==
    \/ ChatReturns(t)
    \/ TokenReturns(t)
    \/ CreateReturns(t)
    \/ QueryReturns(t)

-----------------------------------------------------------------------------
User(t) == UserOf[conn[t]]

(* Fault: the map is looked at without the lock. *)
FindUnlocked(t) ==
    /\ at[t] = "lock"
    /\ Goto(t, IF User(t) \in recognizers THEN "predict" ELSE "load")
    /\ UNCHANGED <<pending, active, conn, loops, images>>

(* lock_guard, and find. *)
Find(t) ==
    /\ at[t] = "lock"
    /\ mutex = Nobody
    /\ IF User(t) \in recognizers
       THEN Goto(t, "predict") /\ UNCHANGED mutex
       ELSE Goto(t, "load") /\ mutex' = t
    /\ UNCHANGED <<pending, active, conn, loops, recognizers, loaded>>

(* make_shared<ImageRecognizer>: the model and the labels are loaded and   *)
(* entered, or the constructor throws; either way the guard unlocks.       *)
Load(t) ==
    /\ at[t] = "load"
    /\ \/ /\ recognizers' = recognizers \union {User(t)}
          /\ loaded' = [loaded EXCEPT ![User(t)] = IF @ < 2 THEN @ + 1 ELSE @]
          /\ Goto(t, "predict")
       \/ /\ Goto(t, "answer")
          /\ UNCHANGED <<recognizers, loaded>>
    /\ mutex' = Nobody
    /\ UNCHANGED <<pending, active, conn, loops>>

(* base64_decode, PredictFromBuffer: a class name, or an exception that    *)
(* the handler answers 400.                                                *)
Predict(t) ==
    /\ at[t] = "predict"
    /\ Goto(t, "answer")
    /\ UNCHANGED <<pending, active, conn, loops, images>>

ThreadStep(t) ==
    \/ Poll(t) \/ Dispatch(t) \/ Answer(t)
    \/ PollTask(t)
    \/ Find(t) \/ Load(t) \/ Predict(t)

ThreadsNext ==
    \/ \E c \in Conns, kind \in RequestKinds : ClientAsks(c, kind)
    \/ \E t \in Threads : ThreadStep(t) \/ ProviderAnswers(t)

(* The loops run, and the lock goes to everyone who waits for it in turn;  *)
(* providers need not answer.                                              *)
ThreadsSpec ==
    /\ ThreadsInit /\ [][ThreadsNext]_ioVars
    /\ \A t \in Threads : SF_ioVars(ThreadStep(t))

-----------------------------------------------------------------------------
(* Types of the variables; a thread that serves nobody is in its loop. *)
ThreadsTypeOK ==
    /\ pending \in [Conns -> RequestKinds \union {"none"}]
    /\ active \in [Threads -> SUBSET Conns]
    /\ at \in [Threads -> Calls \union {"loop", "poll", "lock", "load", "predict", "answer"}]
    /\ conn \in [Threads -> Conns \union {Nobody}]
    /\ \A t \in Threads : conn[t] = Nobody <=> at[t] = "loop"
    /\ loops \in [Threads -> Nat]
    /\ \A t \in Threads : loops[t] <= IF at[t] \in {"poll", "query"} THEN MaxLoops
                                        ELSE MaxLoops + 2
    /\ mutex \in Threads \union {Nobody}
    /\ recognizers \subseteq Users
    /\ loaded \in [Users -> 0..2]

(* The model of a user is loaded once, however many of the user's tabs     *)
(* send their first image at the same time, and however many loads failed  *)
(* before; a failed load leaves no entry behind.                           *)
OneModelPerUser ==
    /\ \A u \in Users : loaded[u] <= 1
    /\ recognizers = {u \in Users : loaded[u] = 1}

(* Every request is answered if the providers answer: no poll goes on for  *)
(* ever, no connection is passed over by its loop, nobody keeps the lock.  *)
EveryoneAnswered ==
    (\A t \in Threads : WF_ioVars(ProviderAnswers(t))) =>
       \A c \in Conns : pending[c] # "none" ~> pending[c] = "none"

(* Providers that fall silent hold up nobody but the connections of the    *)
(* threads that wait for them.                                             *)
OtherLoopsGoOn ==
    \A c \in Conns : pending[c] # "none" ~> (pending[c] = "none" \/ at[LoopOf[c]] \in Calls)

=============================================================================
