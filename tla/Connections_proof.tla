-------------------------- MODULE Connections_proof --------------------------
(***************************************************************************)
(* Proofs about the connections of a server and the threads that serve     *)
(* them.                                                                   *)
(*                                                                         *)
(* IoThreads, for any threads, connections and bound of synthesize: types, *)
(* that a loop serves its own connections only, and that the model of a    *)
(* user is loaded once.                                                    *)
(*                                                                         *)
(* HttpConnection, for any number of pipelined requests of any kinds and   *)
(* any cuts of the stream: types, that requests are framed as they were    *)
(* sent, and that answers keep in step with them.  What has not been       *)
(* consumed is followed atom by atom (Labels): each atom has its place in  *)
(* a request, and the place of the next one decides what state the parser  *)
(* is in (Phase).                                                          *)
(***************************************************************************)
EXTENDS HttpConnection, IoThreads, SequenceTheorems, WellFoundedInduction, TLAPS

-----------------------------------------------------------------------------
(* IoThreads. *)

(* A loop holds readable connections of its own, and the one it serves is  *)
(* no longer among those it has yet to serve.                              *)
LoopInv(t) ==
    /\ active[t] \subseteq Readable(t)
    /\ at[t] # "loop" => conn[t] \in Readable(t) \ active[t]

(* How far each handler's counter can be. *)
LoopsInv(t) ==
    /\ at[t] = "chatCall" => loops[t] <= 1
    /\ at[t] \in {"token", "create", "lock", "load", "predict"} => loops[t] = 0

ThreadsInv ==
    /\ ThreadsTypeOK
    /\ \A t \in Threads : LoopInv(t) /\ LoopsInv(t)

(* The first request of a user holds the mutex while it loads the model,   *)
(* and finds none loaded.                                                  *)
LoadInv == \A t \in Threads : at[t] = "load" => mutex = t /\ User(t) \notin recognizers

LEMMA ThreadsInvInit == ThreadsInit => ThreadsInv /\ LoadInv
  <1> SUFFICES ASSUME ThreadsInit PROVE ThreadsInv /\ LoadInv
    OBVIOUS
  <1>1. ThreadsTypeOK
    BY ThreadsAssumption DEF ThreadsInit, ThreadsTypeOK, Calls, RequestKinds
  <1>2. \A t \in Threads : LoopInv(t) /\ LoopsInv(t)
    BY DEF ThreadsInit, LoopInv, LoopsInv
  <1>3. LoadInv
    BY DEF ThreadsInit, LoadInv
  <1> QED
    BY <1>1, <1>2, <1>3 DEF ThreadsInv

(* A step of one thread that leaves the requests alone: what there is to   *)
(* show of it.                                                             *)
LEMMA ThreadKept ==
  ASSUME ThreadsInv, NEW t \in Threads, UNCHANGED <<pending, images>>,
         NEW p \in Calls \union {"loop", "poll", "lock", "load", "predict", "answer"},
         at' = [at EXCEPT ![t] = p],
         NEW a \in SUBSET Conns, active' = [active EXCEPT ![t] = a],
         NEW c \in Conns \union {Nobody}, conn' = [conn EXCEPT ![t] = c],
         NEW n \in Nat, loops' = [loops EXCEPT ![t] = n],
         c = Nobody <=> p = "loop",
         n <= IF p \in {"poll", "query"} THEN MaxLoops ELSE MaxLoops + 2,
         a \subseteq Readable(t),
         p # "loop" => c \in Readable(t) \ a,
         p = "chatCall" => n <= 1,
         p \in {"token", "create", "lock", "load", "predict"} => n = 0
  PROVE  ThreadsInv'
  <1>1. ThreadsTypeOK'
    BY DEF ThreadsInv, ThreadsTypeOK, images
  <1>2. \A u \in Threads : Readable(u)' = Readable(u)
    BY DEF Readable
  <1>3. ASSUME NEW u \in Threads PROVE LoopInv(u)' /\ LoopsInv(u)'
    BY <1>2 DEF ThreadsInv, ThreadsTypeOK, LoopInv, LoopsInv
  <1> QED
    BY <1>1, <1>3 DEF ThreadsInv

(* The same for the steps of image recognition, where the mutex, the map   *)
(* and the count change too.                                               *)
LEMMA ImageKept ==
  ASSUME ThreadsInv, NEW t \in Threads, UNCHANGED <<pending, active, conn, loops>>,
         at[t] \in {"lock", "load", "predict"},
         NEW p \in {"load", "predict", "answer"}, at' = [at EXCEPT ![t] = p],
         mutex' \in Threads \union {Nobody}, recognizers' \subseteq Users,
         loaded' \in [Users -> 0..2]
  PROVE  ThreadsInv'
  <1>1. ThreadsTypeOK'
    BY ThreadsAssumption DEF ThreadsInv, ThreadsTypeOK, LoopsInv, Calls
  <1>2. ASSUME NEW u \in Threads PROVE LoopInv(u)' /\ LoopsInv(u)'
    BY DEF ThreadsInv, ThreadsTypeOK, LoopInv, LoopsInv, Readable
  <1> QED
    BY <1>1, <1>2 DEF ThreadsInv

LEMMA ServedUser ==
  ASSUME ThreadsInv, NEW t \in Threads, at[t] # "loop"
  PROVE  User(t) \in Users
  BY DEF ThreadsInv, ThreadsTypeOK, User, Users

LEMMA ThreadsInvNext == ThreadsInv /\ [ThreadsNext]_ioVars => ThreadsInv'
  <1> SUFFICES ASSUME ThreadsInv, [ThreadsNext]_ioVars PROVE ThreadsInv'
    OBVIOUS
  <1> USE ThreadsAssumption DEF Goto
  <1>0. /\ ThreadsTypeOK
        /\ \A t \in Threads : LoopInv(t) /\ LoopsInv(t)
    BY DEF ThreadsInv
  <1>1. ASSUME NEW c \in Conns, NEW kind \in RequestKinds, ClientAsks(c, kind) PROVE ThreadsInv'
    <2>1. \A t \in Threads : Readable(t) \subseteq Readable(t)'
      BY <1>0, <1>1 DEF ClientAsks, Readable, ThreadsTypeOK, RequestKinds
    <2>2. ThreadsTypeOK'
      BY <1>0, <1>1 DEF ClientAsks, ThreadsTypeOK, threadVars, images
    <2>3. \A t \in Threads : LoopInv(t)' /\ LoopsInv(t)'
      BY <1>0, <1>1, <2>1 DEF ClientAsks, LoopInv, LoopsInv, threadVars
    <2> QED
      BY <2>2, <2>3 DEF ThreadsInv
  <1>2. ASSUME NEW t \in Threads, Poll(t) PROVE ThreadsInv'
    <2>1. Readable(t) \in SUBSET Conns
      BY DEF Readable
    <2>2. at' = [at EXCEPT ![t] = "loop"] /\ conn' = [conn EXCEPT ![t] = Nobody]
          /\ loops' = [loops EXCEPT ![t] = loops[t]] /\ UNCHANGED <<pending, images>>
          /\ active' = [active EXCEPT ![t] = Readable(t)]
      BY <1>0, <1>2 DEF Poll, ThreadsTypeOK
    <2>3. loops[t] \in Nat /\ loops[t] <= MaxLoops + 2
      BY <1>0, <1>2 DEF Poll, ThreadsTypeOK
    <2> QED
      BY <2>1, <2>2, <2>3, ThreadKept
  <1>3. ASSUME NEW t \in Threads, Dispatch(t) PROVE ThreadsInv'
    <2>1. PICK c \in active[t] :
             /\ active' = [active EXCEPT ![t] = @ \ {c}]
             /\ conn' = [conn EXCEPT ![t] = c]
             /\ at' = [at EXCEPT ![t] = FirstStep(pending[c])]
      BY <1>3 DEF Dispatch
    <2>2. c \in Conns /\ pending[c] \in RequestKinds /\ c \in Readable(t)
      BY <1>0 DEF LoopInv, Readable, ThreadsTypeOK
    <2>3. FirstStep(pending[c]) \in {"answer", "chatCall", "token", "lock"}
      BY <2>2 DEF FirstStep, RequestKinds
    <2>4. active[t] \ {c} \in SUBSET Conns /\ active[t] \ {c} \subseteq Readable(t)
      BY <1>0 DEF ThreadsTypeOK, LoopInv
    <2>5. loops' = [loops EXCEPT ![t] = 0] /\ UNCHANGED <<pending, images>>
      BY <1>3 DEF Dispatch
    <2>6. c # Nobody /\ active' = [active EXCEPT ![t] = active[t] \ {c}]
      BY <1>0, <2>1, <2>2 DEF ThreadsTypeOK
    <2> DEFINE p == FirstStep(pending[c])
               a == active[t] \ {c}
    <2>7. p \in Calls \union {"loop", "poll", "lock", "load", "predict", "answer"}
          /\ p # "loop" /\ at' = [at EXCEPT ![t] = p] /\ c \in Readable(t) \ a
          /\ a \in SUBSET Conns /\ active' = [active EXCEPT ![t] = a] /\ a \subseteq Readable(t)
      BY <2>1, <2>2, <2>3, <2>4, <2>6 DEF Calls
    <2>8. p \notin {"poll", "query", "loop"} /\ (p = "chatCall" => 0 <= 1)
          /\ 0 <= MaxLoops + 2 /\ 0 \in Nat
      BY <2>3
    <2> HIDE DEF p, a
    <2> QED
      BY <2>1, <2>2, <2>5, <2>6, <2>7, <2>8, ThreadKept
  <1>4. ASSUME NEW t \in Threads, Answer(t) PROVE ThreadsInv'
    <2>1. conn[t] \in Readable(t) \ active[t] /\ conn[t] \in Conns
      BY <1>0, <1>4 DEF Answer, LoopInv, ThreadsTypeOK
    <2>2. ThreadsTypeOK'
      BY <1>0, <1>4, <2>1 DEF Answer, ThreadsTypeOK, images
    <2>3. ASSUME NEW u \in Threads PROVE LoopInv(u)' /\ LoopsInv(u)'
      <3>1. Readable(u)' = Readable(u) \ {conn[t]}
        BY <1>0, <1>4, <2>1 DEF Answer, Readable, ThreadsTypeOK, RequestKinds
      <3>2. u # t => conn[t] \notin Readable(u)
        BY <2>1 DEF Readable
      <3>3. u # t => at'[u] = at[u] /\ conn'[u] = conn[u]
        BY <1>0, <1>4 DEF Answer, ThreadsTypeOK
      <3>4. at'[t] = "loop" /\ active' = active /\ loops' = loops
        BY <1>0, <1>4 DEF Answer, ThreadsTypeOK
      <3>5. CASE u = t
        BY <1>0, <2>1, <3>1, <3>4, <3>5 DEF LoopInv, LoopsInv
      <3>6. CASE u # t
        BY <1>0, <3>1, <3>2, <3>3, <3>4, <3>6 DEF LoopInv, LoopsInv
      <3> QED
        BY <3>5, <3>6
    <2> QED
      BY <2>2, <2>3 DEF ThreadsInv
  <1>5. ASSUME NEW t \in Threads, ChatReturns(t) \/ PollTask(t) PROVE ThreadsInv'
    <2>1. conn[t] \in Readable(t) \ active[t] /\ loops[t] \in Nat /\ active[t] \in SUBSET Conns
          /\ conn[t] # Nobody /\ conn[t] \in Conns /\ active[t] \subseteq Readable(t)
          /\ at[t] \in {"chatCall", "poll"}
      BY <1>0, <1>5 DEF ChatReturns, PollTask, LoopInv, ThreadsTypeOK
    <2>2. active' = [active EXCEPT ![t] = active[t]] /\ conn' = [conn EXCEPT ![t] = conn[t]]
          /\ UNCHANGED <<pending, images>>
      BY <1>0, <1>5 DEF ChatReturns, PollTask, ThreadsTypeOK
    <2>3. \E p \in {"answer", "chatCall", "query"}, n \in Nat :
             /\ at' = [at EXCEPT ![t] = p] /\ loops' = [loops EXCEPT ![t] = n]
             /\ n <= IF p \in {"poll", "query"} THEN MaxLoops ELSE MaxLoops + 2
             /\ p = "chatCall" => n <= 1
      <3>1. CASE ChatReturns(t)
        <4>1. loops[t] + 1 \in Nat /\ loops[t] + 1 <= MaxLoops + 2
          BY <1>0, <2>1, <3>1 DEF ChatReturns, LoopsInv
        <4>2. loops[t] = 0 => loops[t] + 1 <= 1
          BY <2>1
        <4>3. loops' = [loops EXCEPT ![t] = loops[t] + 1]
              /\ (at' = [at EXCEPT ![t] = "answer"]
                    \/ (loops[t] = 0 /\ at' = [at EXCEPT ![t] = "chatCall"]))
          BY <3>1 DEF ChatReturns
        <4> QED
          BY <4>1, <4>2, <4>3
      <3>2. CASE PollTask(t) /\ loops[t] < MaxLoops
        <4>1. loops[t] + 1 \in Nat /\ loops[t] + 1 <= MaxLoops
          BY <2>1, <3>2
        <4> QED
          BY <4>1, <3>2 DEF PollTask
      <3>3. CASE PollTask(t) /\ ~(loops[t] < MaxLoops)
        <4>1. loops' = [loops EXCEPT ![t] = loops[t]] /\ at' = [at EXCEPT ![t] = "answer"]
          BY <1>0, <3>3 DEF PollTask, ThreadsTypeOK
        <4>2. loops[t] <= MaxLoops + 2
          BY <1>0, <2>1, <3>3 DEF PollTask, ThreadsTypeOK
        <4> QED
          BY <2>1, <4>1, <4>2
      <3> QED
        BY <1>5, <3>1, <3>2, <3>3
    <2>4. PICK p \in {"answer", "chatCall", "query"}, n \in Nat :
             /\ at' = [at EXCEPT ![t] = p] /\ loops' = [loops EXCEPT ![t] = n]
             /\ n <= IF p \in {"poll", "query"} THEN MaxLoops ELSE MaxLoops + 2
             /\ p = "chatCall" => n <= 1
      BY <2>3
    <2>5. p \in Calls \union {"answer"}
      BY DEF Calls
    <2> QED
      BY <2>1, <2>2, <2>4, <2>5, ThreadKept
  <1>6. ASSUME NEW t \in Threads, TokenReturns(t) \/ CreateReturns(t) \/ QueryReturns(t)
        PROVE  ThreadsInv'
    <2>1. conn[t] \in Readable(t) \ active[t] /\ loops[t] \in Nat /\ active[t] \in SUBSET Conns
          /\ conn[t] # Nobody /\ conn[t] \in Conns /\ active[t] \subseteq Readable(t)
      BY <1>0, <1>6 DEF TokenReturns, CreateReturns, QueryReturns, LoopInv, ThreadsTypeOK
    <2>2. active' = [active EXCEPT ![t] = active[t]] /\ conn' = [conn EXCEPT ![t] = conn[t]]
          /\ loops' = [loops EXCEPT ![t] = loops[t]] /\ UNCHANGED <<pending, images>>
      BY <1>0, <1>6 DEF TokenReturns, CreateReturns, QueryReturns, ThreadsTypeOK
    <2>3. \E p \in {"create", "answer", "poll"} :
             at' = [at EXCEPT ![t] = p] /\ (p = "create" => loops[t] = 0)
      BY <1>0, <1>6 DEF TokenReturns, CreateReturns, QueryReturns, LoopsInv
    <2>4. loops[t] <= MaxLoops
      BY <1>0, <1>6 DEF TokenReturns, CreateReturns, QueryReturns, LoopsInv, ThreadsTypeOK
    <2>5. PICK p \in {"create", "answer", "poll"} :
             at' = [at EXCEPT ![t] = p] /\ (p = "create" => loops[t] = 0)
      BY <2>3
    <2>6. p \in Calls \union {"answer", "poll"}
      BY DEF Calls
    <2>7. loops[t] <= IF p \in {"poll", "query"} THEN MaxLoops ELSE MaxLoops + 2
      BY <2>1, <2>4
    <2> QED
      BY <2>1, <2>2, <2>5, <2>6, <2>7, ThreadKept
  <1>7. ASSUME NEW t \in Threads, Find(t) PROVE ThreadsInv'
    BY <1>0, <1>7, ImageKept DEF Find, ThreadsTypeOK
  <1>8. ASSUME NEW t \in Threads, Load(t) PROVE ThreadsInv'
    <2>1. User(t) \in Users
      BY <1>8, ServedUser DEF Load
    <2>2. recognizers' \subseteq Users
      BY <1>0, <1>8, <2>1 DEF Load, ThreadsTypeOK
    <2>3. loaded' \in [Users -> 0..2]
      BY <1>0, <1>8, <2>1 DEF Load, ThreadsTypeOK
    <2> QED
      BY <1>8, <2>2, <2>3, ImageKept DEF Load
  <1>9. ASSUME NEW t \in Threads, Predict(t) PROVE ThreadsInv'
    BY <1>0, <1>9, ImageKept DEF Predict, ThreadsTypeOK, images
  <1>10. CASE UNCHANGED ioVars
    BY <1>0, <1>10 DEF ioVars, threadVars, images, ThreadsInv, ThreadsTypeOK, LoopInv, LoopsInv,
                       Readable
  <1> QED
    BY <1>1, <1>2, <1>3, <1>4, <1>5, <1>6, <1>7, <1>8, <1>9, <1>10
       DEF ThreadsNext, ThreadStep, ProviderAnswers

(* Types of the loops' variables, and the bounds of their counters: two    *)
(* calls for a chat, MaxLoops questions for a speech task.                 *)
THEOREM ThreadsTypeCorrect == ThreadsSpec => []ThreadsTypeOK
  <1>1. ThreadsInit => ThreadsInv
    BY ThreadsInvInit
  <1>2. ThreadsInv => ThreadsTypeOK
    BY DEF ThreadsInv
  <1> QED
    BY <1>1, <1>2, ThreadsInvNext, PTL DEF ThreadsSpec

-----------------------------------------------------------------------------
(* A load: the mutex is held from the look-up to the entry in the map.     *)
LEMMA LoadInvNext ==
  ThreadsInv /\ LoadInv /\ OneModelPerUser /\ [ThreadsNext]_ioVars
     => LoadInv' /\ OneModelPerUser'
  <1> SUFFICES ASSUME ThreadsInv, LoadInv, OneModelPerUser, [ThreadsNext]_ioVars
               PROVE  LoadInv' /\ OneModelPerUser'
    OBVIOUS
  <1> USE ThreadsAssumption DEF Goto
  <1>0. ThreadsTypeOK
    BY DEF ThreadsInv
  <1>a. ASSUME UNCHANGED images,
               \A u \in Threads : at'[u] = "load" => at[u] = "load" /\ conn'[u] = conn[u]
        PROVE  LoadInv' /\ OneModelPerUser'
    BY <1>a DEF LoadInv, OneModelPerUser, User, images
  <1>1. ASSUME NEW c \in Conns, NEW kind \in RequestKinds, ClientAsks(c, kind)
        PROVE  LoadInv' /\ OneModelPerUser'
    BY <1>1, <1>a DEF ClientAsks, threadVars
  <1>2. ASSUME NEW t \in Threads, Poll(t) \/ Dispatch(t) \/ Answer(t)
        PROVE  LoadInv' /\ OneModelPerUser'
    <2>1. CASE Poll(t)
      BY <1>a, <2>1 DEF Poll
    <2>2. CASE Dispatch(t)
      <3>1. PICK c \in active[t] :
               at' = [at EXCEPT ![t] = FirstStep(pending[c])]
               /\ conn' = [conn EXCEPT ![t] = c] /\ UNCHANGED images
        BY <2>2 DEF Dispatch
      <3>2. FirstStep(pending[c]) # "load"
        BY <1>0 DEF FirstStep, ThreadsTypeOK, ThreadsInv, LoopInv, Readable, RequestKinds
      <3> QED
        BY <1>0, <1>a, <3>1, <3>2 DEF ThreadsTypeOK
    <2>3. CASE Answer(t)
      BY <1>0, <1>a, <2>3 DEF Answer, ThreadsTypeOK
    <2> QED
      BY <1>2, <2>1, <2>2, <2>3
  <1>3. ASSUME NEW t \in Threads,
               ChatReturns(t) \/ TokenReturns(t) \/ CreateReturns(t) \/ PollTask(t)
                  \/ QueryReturns(t) \/ Predict(t)
        PROVE  LoadInv' /\ OneModelPerUser'
    BY <1>0, <1>3, <1>a
       DEF ChatReturns, TokenReturns, CreateReturns, PollTask, QueryReturns, Predict, ThreadsTypeOK
  <1>4. ASSUME NEW t \in Threads, Find(t) PROVE LoadInv' /\ OneModelPerUser'
    <2>1. UNCHANGED <<conn, recognizers, loaded>> /\ mutex = Nobody
      BY <1>4 DEF Find
    <2>2. \A u \in Threads : at[u] # "load"
      BY <2>1 DEF LoadInv
    <2>3. \A u \in Threads : at'[u] = "load" => u = t /\ mutex' = t /\ User(t) \notin recognizers
      BY <1>0, <1>4, <2>2 DEF Find, ThreadsTypeOK
    <2> QED
      BY <2>1, <2>3 DEF LoadInv, OneModelPerUser, User
  <1>5. ASSUME NEW t \in Threads, Load(t) PROVE LoadInv' /\ OneModelPerUser'
    <2>1. at[t] = "load" /\ mutex = t /\ User(t) \notin recognizers /\ UNCHANGED conn
      BY <1>5 DEF Load, LoadInv
    <2>2. \A u \in Threads : at'[u] # "load"
      BY <1>0, <1>5, <2>1 DEF Load, LoadInv, ThreadsTypeOK
    <2>3. User(t) \in Users
      BY <2>1, ServedUser
    <2>4. loaded[User(t)] = 0
      BY <1>0, <2>1, <2>3 DEF OneModelPerUser, ThreadsTypeOK
    <2>5. OneModelPerUser'
      <3>1. CASE UNCHANGED <<recognizers, loaded>>
        BY <3>1 DEF OneModelPerUser
      <3>2. CASE /\ recognizers' = recognizers \union {User(t)}
                 /\ loaded' = [loaded EXCEPT ![User(t)] = IF @ < 2 THEN @ + 1 ELSE @]
        <4>1. loaded' = [loaded EXCEPT ![User(t)] = 1]
          BY <1>0, <2>3, <2>4, <3>2 DEF ThreadsTypeOK
        <4> QED
          BY <1>0, <2>3, <3>2, <4>1 DEF OneModelPerUser, ThreadsTypeOK
      <3> QED
        BY <1>5, <3>1, <3>2 DEF Load
    <2> QED
      BY <2>2, <2>5 DEF LoadInv
  <1>6. CASE UNCHANGED ioVars
    BY <1>6, <1>a DEF ioVars, threadVars, images
  <1> QED
    BY <1>1, <1>2, <1>3, <1>4, <1>5, <1>6 DEF ThreadsNext, ThreadStep, ProviderAnswers

(* The model of a user is loaded once, however many of the user's tabs     *)
(* send their first image at the same time and however many loads fail.    *)
THEOREM OneModelTheorem == ThreadsSpec => []OneModelPerUser
  <1>1. ThreadsInit => OneModelPerUser
    BY DEF ThreadsInit, OneModelPerUser
  <1> QED
    BY <1>1, ThreadsInvInit, ThreadsInvNext, LoadInvNext, PTL DEF ThreadsSpec

-----------------------------------------------------------------------------
(* HttpConnection: the requests as sequences of atoms. *)

LEMMA Concat22 ==
  ASSUME NEW a, NEW b, NEW c, NEW d
  PROVE  <<a, b>> \o <<c, d>> = <<a, b, c, d>>
  <1> DEFINE S == {a, b, c, d}
  <1>1. <<a, b>> \in Seq(S) /\ <<c, d>> \in Seq(S) /\ <<a, b, c, d>> \in Seq(S)
    OBVIOUS
  <1> HIDE DEF S
  <1>2. /\ <<a, b>> \o <<c, d>> \in Seq(S)
        /\ Len(<<a, b>> \o <<c, d>>) = Len(<<a, b>>) + Len(<<c, d>>)
        /\ \A j \in 1..Len(<<a, b>>) + Len(<<c, d>>) : (<<a, b>> \o <<c, d>>)[j] =
              IF j <= Len(<<a, b>>) THEN <<a, b>>[j] ELSE <<c, d>>[j - Len(<<a, b>>)]
    BY <1>1, ConcatProperties, Zenon
  <1>3. Len(<<a, b>> \o <<c, d>>) = 4
    BY <1>2
  <1>4. \A j \in 1..4 : (<<a, b>> \o <<c, d>>)[j] = <<a, b, c, d>>[j]
    BY <1>2
  <1> QED
    BY <1>1, <1>2, <1>3, <1>4, SeqEqual

LEMMA Concat21 ==
  ASSUME NEW a, NEW b, NEW c
  PROVE  <<a, b>> \o <<c>> = <<a, b, c>>
  <1> DEFINE S == {a, b, c}
  <1>1. <<a, b>> \in Seq(S) /\ <<c>> \in Seq(S) /\ <<a, b, c>> \in Seq(S)
    OBVIOUS
  <1> HIDE DEF S
  <1>2. /\ <<a, b>> \o <<c>> \in Seq(S)
        /\ Len(<<a, b>> \o <<c>>) = Len(<<a, b>>) + Len(<<c>>)
        /\ \A j \in 1..Len(<<a, b>>) + Len(<<c>>) : (<<a, b>> \o <<c>>)[j] =
              IF j <= Len(<<a, b>>) THEN <<a, b>>[j] ELSE <<c>>[j - Len(<<a, b>>)]
    BY <1>1, ConcatProperties, Zenon
  <1>3. Len(<<a, b>> \o <<c>>) = 3
    BY <1>2
  <1>4. \A j \in 1..3 : (<<a, b>> \o <<c>>)[j] = <<a, b, c>>[j]
    BY <1>2
  <1> QED
    BY <1>1, <1>2, <1>3, <1>4, SeqEqual

LEMMA Concat41 ==
  ASSUME NEW a, NEW b, NEW c, NEW d, NEW e
  PROVE  <<a, b, c, d>> \o <<e>> = <<a, b, c, d, e>>
  <1> DEFINE S == {a, b, c, d, e}
             s == <<a, b, c, d>>
  <1>1. s \in Seq(S) /\ <<e>> \in Seq(S) /\ <<a, b, c, d, e>> \in Seq(S)
    OBVIOUS
  <1> HIDE DEF S
  <1>2. /\ s \o <<e>> \in Seq(S)
        /\ Len(s \o <<e>>) = Len(s) + Len(<<e>>)
        /\ \A j \in 1..Len(s) + Len(<<e>>) : (s \o <<e>>)[j] =
              IF j <= Len(s) THEN s[j] ELSE <<e>>[j - Len(s)]
    BY <1>1, ConcatProperties, Zenon
  <1>3. Len(s \o <<e>>) = 5
    BY <1>2
  <1>4. \A j \in 1..5 : (s \o <<e>>)[j] = <<a, b, c, d, e>>[j]
    BY <1>2
  <1> QED
    BY <1>1, <1>2, <1>3, <1>4, SeqEqual

LEMMA Concat52 ==
  ASSUME NEW a, NEW b, NEW c, NEW d, NEW e, NEW f
  PROVE  <<a, b, c, d, e>> \o <<f, f>> = <<a, b, c, d, e, f, f>>
  <1> DEFINE S == {a, b, c, d, e, f}
             s == <<a, b, c, d, e>>
             r == <<f, f>>
  <1>1. s \in Seq(S) /\ r \in Seq(S) /\ <<a, b, c, d, e, f, f>> \in Seq(S)
    OBVIOUS
  <1> HIDE DEF S
  <1>2. /\ s \o r \in Seq(S)
        /\ Len(s \o r) = Len(s) + Len(r)
        /\ \A j \in 1..Len(s) + Len(r) : (s \o r)[j] =
              IF j <= Len(s) THEN s[j] ELSE r[j - Len(s)]
    BY <1>1, ConcatProperties, Zenon
  <1>3. Len(s \o r) = 7
    BY <1>2
  <1>4. \A j \in 1..7 : (s \o r)[j] = <<a, b, c, d, e, f, f>>[j]
    BY <1>2
  <1> QED
    BY <1>1, <1>2, <1>3, <1>4, SeqEqual

(* Request number i of the client, as the network carries it. *)
Whole(k, i) == Head_(k, i) \o Body(k, i)
Atom(t, i) == [t |-> t, id |-> i]

(* What stands between the request line and the end, by kind. *)
FirstHeader(k) ==
    IF k \in {"get", "badLine"} THEN "Host:"
    ELSE IF k \in {"getBody", "post"} THEN "Content-Length:2"
    ELSE IF k = "postEmpty" THEN "Content-Length:0"
    ELSE IF k = "postNegative" THEN "Content-Length:-1"
    ELSE "no colon"

RequestLine(k) ==
    IF k \in {"get", "getBody", "badHeader"} THEN "GET"
    ELSE IF k = "badLine" THEN "GET HTTP/9"
    ELSE "POST"

AnyKind == {"get", "getBody", "post", "postEmpty", "postNegative", "postNoLength",
            "badLine", "badHeader"}

LEMMA HeadShape ==
  ASSUME NEW k \in AnyKind, NEW i
  PROVE  Head_(k, i) =
            IF k = "postNoLength" THEN <<Atom("POST", i), CRLF, CRLF>>
            ELSE <<Atom(RequestLine(k), i), CRLF, Atom(FirstHeader(k), i), CRLF, CRLF>>
  <1>1. ASSUME NEW t, NEW u
        PROVE  Line(t, i) \o Line(u, i) \o <<CRLF>>
                  = <<Atom(t, i), CRLF, Atom(u, i), CRLF, CRLF>>
    <2>1. Line(t, i) = <<Atom(t, i), CRLF>> /\ Line(u, i) = <<Atom(u, i), CRLF>>
      BY DEF Line, Atom
    <2>2. Line(t, i) \o Line(u, i) = <<Atom(t, i), CRLF, Atom(u, i), CRLF>>
      BY <2>1, Concat22
    <2> QED
      BY <2>2, Concat41
  <1>2. Line("POST", i) \o <<CRLF>> = <<Atom("POST", i), CRLF, CRLF>>
    BY Concat21 DEF Line, Atom
  <1>3. CASE k = "get"
    <2>1. Head_(k, i) = Line("GET", i) \o Line("Host:", i) \o <<CRLF>>
      BY <1>3 DEF Head_
    <2> QED
      BY <1>1, <1>3, <2>1 DEF RequestLine, FirstHeader
  <1>4. CASE k = "getBody"
    <2>1. Head_(k, i) = Line("GET", i) \o Line("Content-Length:2", i) \o <<CRLF>>
      BY <1>4 DEF Head_
    <2> QED
      BY <1>1, <1>4, <2>1 DEF RequestLine, FirstHeader
  <1>5. CASE k = "post"
    <2>1. Head_(k, i) = Line("POST", i) \o Line("Content-Length:2", i) \o <<CRLF>>
      BY <1>5 DEF Head_
    <2> QED
      BY <1>1, <1>5, <2>1 DEF RequestLine, FirstHeader
  <1>6. CASE k = "postEmpty"
    <2>1. Head_(k, i) = Line("POST", i) \o Line("Content-Length:0", i) \o <<CRLF>>
      BY <1>6 DEF Head_
    <2> QED
      BY <1>1, <1>6, <2>1 DEF RequestLine, FirstHeader
  <1>n. CASE k = "postNegative"
    <2>1. Head_(k, i) = Line("POST", i) \o Line("Content-Length:-1", i) \o <<CRLF>>
      BY <1>n DEF Head_
    <2> QED
      BY <1>1, <1>n, <2>1 DEF RequestLine, FirstHeader
  <1>7. CASE k = "postNoLength"
    BY <1>2, <1>7 DEF Head_
  <1>8. CASE k = "badLine"
    <2>1. Head_(k, i) = Line("GET HTTP/9", i) \o Line("Host:", i) \o <<CRLF>>
      BY <1>8 DEF Head_
    <2> QED
      BY <1>1, <1>8, <2>1 DEF RequestLine, FirstHeader
  <1>9. CASE k = "badHeader"
    <2>1. Head_(k, i) = Line("GET", i) \o Line("no colon", i) \o <<CRLF>>
      BY <1>9 DEF Head_
    <2> QED
      BY <1>1, <1>9, <2>1 DEF RequestLine, FirstHeader
  <1> QED
    BY <1>3, <1>4, <1>5, <1>6, <1>n, <1>7, <1>8, <1>9 DEF AnyKind

(* A request as the list of its atoms. *)
LEMMA WholeShape ==
  ASSUME NEW k \in AnyKind, NEW i
  PROVE  Whole(k, i) =
            IF k = "postNoLength" THEN <<Atom("POST", i), CRLF, CRLF>>
            ELSE IF k \in {"getBody", "post"}
            THEN <<Atom(RequestLine(k), i), CRLF, Atom(FirstHeader(k), i), CRLF, CRLF,
                   Atom("byte", i), Atom("byte", i)>>
            ELSE <<Atom(RequestLine(k), i), CRLF, Atom(FirstHeader(k), i), CRLF, CRLF>>
  <1>1. CASE k \in {"getBody", "post"}
    <2>1. Body(k, i) = <<Atom("byte", i), Atom("byte", i)>>
      BY <1>1 DEF Body, Bytes, Atom
    <2> QED
      BY <1>1, <2>1, HeadShape, Concat52 DEF Whole
  <1>2. CASE k \notin {"getBody", "post"}
    <2>1. Body(k, i) = <<>>
      BY <1>2 DEF Body
    <2>2. \A S : \A s \in Seq(S) : s \o <<>> = s
      BY ConcatEmptySeq
    <2> DEFINE S == {Atom("POST", i), CRLF, Atom(RequestLine(k), i), Atom(FirstHeader(k), i)}
    <2>3. /\ <<Atom("POST", i), CRLF, CRLF>> \in Seq(S)
          /\ <<Atom(RequestLine(k), i), CRLF, Atom(FirstHeader(k), i), CRLF, CRLF>> \in Seq(S)
      OBVIOUS
    <2> HIDE DEF S
    <2>4. Head_(k, i) \in Seq(S)
      BY <2>3, HeadShape
    <2> QED
      BY <1>2, <2>1, <2>2, <2>4, HeadShape DEF Whole
  <1> QED
    BY <1>1, <1>2

(* The atoms one by one. *)
LEMMA WholeAtoms ==
  ASSUME NEW k \in AnyKind, NEW i
  PROVE  /\ Len(Whole(k, i)) = IF k = "postNoLength" THEN 3
                               ELSE IF k \in {"getBody", "post"} THEN 7 ELSE 5
         /\ Whole(k, i)[1] = Atom(RequestLine(k), i)
         /\ Whole(k, i)[2] = CRLF
         /\ k = "postNoLength" => Whole(k, i)[3] = CRLF
         /\ k # "postNoLength" => /\ Whole(k, i)[3] = Atom(FirstHeader(k), i)
                                  /\ Whole(k, i)[4] = CRLF
                                  /\ Whole(k, i)[5] = CRLF
         /\ k \in {"getBody", "post"} => /\ Whole(k, i)[6] = Atom("byte", i)
                                         /\ Whole(k, i)[7] = Atom("byte", i)
  <1>1. CASE k = "postNoLength"
    <2> DEFINE w == <<Atom("POST", i), CRLF, CRLF>>
    <2>1. Len(w) = 3 /\ w[1] = Atom("POST", i) /\ w[2] = CRLF /\ w[3] = CRLF
      OBVIOUS
    <2>2. Whole(k, i) = w
      BY <1>1, WholeShape
    <2>3. RequestLine(k) = "POST"
      BY <1>1 DEF RequestLine
    <2> HIDE DEF w
    <2> QED
      BY <1>1, <2>1, <2>2, <2>3
  <1>2. CASE k \in {"getBody", "post"}
    BY <1>2, WholeShape
  <1>3. CASE k \notin {"postNoLength", "getBody", "post"}
    BY <1>3, WholeShape
  <1> QED
    BY <1>1, <1>2, <1>3

LEMMA WholeTyped ==
  ASSUME NEW k \in AnyKind, NEW i \in 0..MaxRequests
  PROVE  Whole(k, i) \in Seq(Atoms)
  <1>1. CRLF \in Atoms /\ Atom(RequestLine(k), i) \in Atoms /\ Atom(FirstHeader(k), i) \in Atoms
        /\ Atom("POST", i) \in Atoms /\ Atom("byte", i) \in Atoms
    BY HttpAssumption DEF CRLF, Atom, Atoms, LengthHeaders, RequestLine, FirstHeader
  <1> HIDE DEF Atoms
  <1>2. /\ <<Atom("POST", i), CRLF, CRLF>> \in Seq(Atoms)
        /\ <<Atom(RequestLine(k), i), CRLF, Atom(FirstHeader(k), i), CRLF, CRLF>> \in Seq(Atoms)
        /\ <<Atom(RequestLine(k), i), CRLF, Atom(FirstHeader(k), i), CRLF, CRLF,
             Atom("byte", i), Atom("byte", i)>> \in Seq(Atoms)
    BY <1>1
  <1> QED
    BY <1>2, WholeShape, Zenon

-----------------------------------------------------------------------------
(* A stretch S of the stream of requests of kinds ks, up to its end: atom  *)
(* number p of S is atom tag[p][2] of request tag[p][1], and the place     *)
(* after the last one is the beginning of the next request.  Places come   *)
(* one after the other, and never backwards.                               *)
Places == (Nat \ {0}) \X (Nat \ {0})

NextPlace(ks, place) ==
    IF place[2] < Len(Whole(ks[place[1]], place[1]))
    THEN <<place[1], place[2] + 1>>
    ELSE <<place[1] + 1, 1>>

NotAfter(p, q) == p[1] < q[1] \/ (p[1] = q[1] /\ p[2] <= q[2])

Labels(S, ks, tag) ==
    /\ tag \in [1..Len(S) + 1 -> Places]
    /\ tag[Len(S) + 1] = <<Len(ks) + 1, 1>>
    /\ \A p \in 1..Len(S) :
          /\ tag[p][1] <= Len(ks)
          /\ tag[p][2] <= Len(Whole(ks[tag[p][1]], tag[p][1]))
          /\ S[p] = Whole(ks[tag[p][1]], tag[p][1])[tag[p][2]]
          /\ tag[p + 1] = NextPlace(ks, tag[p])
    /\ \A p, q \in 1..Len(S) + 1 : p <= q => NotAfter(tag[p], tag[q])

(* What follows the first m elements of a sequence. *)
LEMMA RestAfter ==
  ASSUME NEW A, NEW s \in Seq(A), NEW m \in 0..Len(s)
  PROVE  /\ SubSeq(s, m + 1, Len(s)) \in Seq(A)
         /\ Len(SubSeq(s, m + 1, Len(s))) = Len(s) - m
         /\ \A j \in 1..Len(s) - m : SubSeq(s, m + 1, Len(s))[j] = s[m + j]
  <1> DEFINE n == Len(s)
  <1>1. n \in Nat /\ m \in 0..n /\ \A j \in 1..n : s[j] \in A
    BY LenProperties, ElementOfSeq
  <1> HIDE DEF n
  <1>2. m + 1 \in Int /\ n \in Int /\ \A j \in m + 1..n : s[j] \in A
    BY <1>1
  <1>3. /\ SubSeq(s, m + 1, n) \in Seq(A)
        /\ Len(SubSeq(s, m + 1, n)) = IF m + 1 <= n THEN n - (m + 1) + 1 ELSE 0
        /\ \A j \in 1..n - (m + 1) + 1 : SubSeq(s, m + 1, n)[j] = s[(m + 1) + j - 1]
    BY <1>2, SubSeqProperties
  <1>4. n - (m + 1) + 1 = n - m /\ \A j \in 1..n - m : (m + 1) + j - 1 = m + j
    BY <1>1
  <1>5. /\ SubSeq(s, m + 1, n) \in Seq(A)
        /\ Len(SubSeq(s, m + 1, n)) = n - m
        /\ \A j \in 1..n - m : SubSeq(s, m + 1, n)[j] = s[m + j]
    BY <1>1, <1>3, <1>4
  <1> QED
    BY <1>5 DEF n

(* What is left of a stretch after its first m atoms is a stretch.         *)
LEMMA Dropped ==
  ASSUME NEW A, NEW S \in Seq(A), NEW ks, NEW tag, Labels(S, ks, tag), NEW m \in 0..Len(S)
  PROVE  \E rest : /\ Labels(SubSeq(S, m + 1, Len(S)), ks, rest)
                   /\ rest[1] = tag[m + 1]
  <1> DEFINE R == SubSeq(S, m + 1, Len(S))
             rest == [p \in 1..Len(S) - m + 1 |-> tag[p + m]]
  <1>1. Len(S) \in Nat /\ \A p \in 1..Len(S) : S[p] \in A
    BY ElementOfSeq, LenProperties
  <1>2. /\ Len(R) = Len(S) - m
        /\ \A p \in 1..Len(S) - m : R[p] = S[p + m]
    <2>1. Len(R) = Len(S) - m /\ \A p \in 1..Len(S) - m : R[p] = S[m + p]
      BY RestAfter, Zenon
    <2>2. \A p \in 1..Len(S) - m : m + p = p + m
      BY <1>1
    <2> QED
      BY <2>1, <2>2
  <1> HIDE DEF R
  <1>3. \A p \in 1..Len(S) - m + 1 : p + m \in 1..Len(S) + 1
    BY <1>1
  <1>4. rest \in [1..Len(R) + 1 -> Places]
    BY <1>1, <1>2, <1>3 DEF Labels
  <1>5. rest[Len(R) + 1] = <<Len(ks) + 1, 1>>
    <2>1. Len(R) + 1 \in 1..Len(S) - m + 1 /\ (Len(R) + 1) + m = Len(S) + 1
      BY <1>1, <1>2
    <2> QED
      BY <2>1 DEF Labels
  <1>6. ASSUME NEW p \in 1..Len(S) - m
        PROVE  /\ rest[p][1] <= Len(ks)
               /\ rest[p][2] <= Len(Whole(ks[rest[p][1]], rest[p][1]))
               /\ R[p] = Whole(ks[rest[p][1]], rest[p][1])[rest[p][2]]
               /\ rest[p + 1] = NextPlace(ks, rest[p])
    <2> DEFINE n == Len(S)
    <2>n. n \in Nat /\ m \in 0..n /\ p \in 1..n - m
      BY <1>1
    <2> HIDE DEF n
    <2>1. /\ p + m \in 1..n /\ (p + 1) + m = (p + m) + 1
          /\ p \in 1..n - m + 1 /\ p + 1 \in 1..n - m + 1
      BY <2>n
    <2>2. rest[p] = tag[p + m] /\ rest[p + 1] = tag[(p + m) + 1] /\ R[p] = S[p + m]
      <3>1. \A j \in 1..Len(S) - m + 1 : rest[j] = tag[j + m]
        OBVIOUS
      <3> HIDE DEF rest
      <3>2. rest[p] = tag[p + m]
        BY <2>1, <3>1 DEF n
      <3>3. rest[p + 1] = tag[(p + 1) + m]
        BY <2>1, <3>1 DEF n
      <3> QED
        BY <1>2, <2>1, <3>2, <3>3
    <2>3. p + m \in 1..Len(S)
      BY <2>1 DEF n
    <2> HIDE DEF rest
    <2> QED
      BY <2>2, <2>3 DEF Labels
  <1>7. ASSUME NEW p \in 1..Len(R) + 1, NEW q \in 1..Len(R) + 1, p <= q
        PROVE  NotAfter(rest[p], rest[q])
    <2>1. /\ p \in 1..Len(S) - m + 1 /\ q \in 1..Len(S) - m + 1 /\ p + m <= q + m
          /\ p + m \in 1..Len(S) + 1 /\ q + m \in 1..Len(S) + 1
      BY <1>1, <1>2, <1>7
    <2>2. rest[p] = tag[p + m] /\ rest[q] = tag[q + m]
      BY <2>1
    <2> QED
      BY <2>1, <2>2 DEF Labels
  <1>8. Labels(R, ks, rest)
    <2> HIDE DEF rest
    <2> QED
      BY <1>2, <1>4, <1>5, <1>6, <1>7 DEF Labels
  <1>9. rest[1] = tag[m + 1]
    BY <1>1
  <1> HIDE DEF rest
  <1> QED
    BY <1>8, <1>9 DEF R

(* One more request at the end. *)
LEMMA Grown ==
  ASSUME NEW A, NEW S \in Seq(A), NEW ks \in Seq(AnyKind), NEW tag, Labels(S, ks, tag),
         NEW k \in AnyKind, Whole(k, Len(ks) + 1) \in Seq(A)
  PROVE  \E more : /\ Labels(S \o Whole(k, Len(ks) + 1), Append(ks, k), more)
                   /\ more[1] = tag[1]
  <1> DEFINE W == Whole(k, Len(ks) + 1)
             T == S \o W
             all == Append(ks, k)
             last == Len(ks) + 1
             more == [p \in 1..Len(S) + Len(W) + 1 |->
                         IF p <= Len(S) THEN tag[p]
                         ELSE IF p <= Len(S) + Len(W) THEN <<last, p - Len(S)>>
                         ELSE <<last + 1, 1>>]
  <1>1. /\ Len(S) \in Nat /\ Len(ks) \in Nat /\ Len(W) \in Nat /\ Len(W) > 0
        /\ last \in Nat \ {0}
    BY LenProperties, WholeAtoms
  <1>2. /\ Len(T) = Len(S) + Len(W)
        /\ \A p \in 1..Len(S) + Len(W) : T[p] = IF p <= Len(S) THEN S[p] ELSE W[p - Len(S)]
    BY ConcatProperties
  <1>3. /\ Len(all) = last /\ all[last] = k
        /\ \A i \in 1..Len(ks) : all[i] = ks[i]
    BY AppendProperties
  <1>w. W = Whole(all[last], last)
    BY <1>3
  <1> HIDE DEF W, T, all, last
  <1>4. ASSUME NEW p \in 1..Len(S)
        PROVE  /\ more[p] = tag[p] /\ tag[p] \in Places
               /\ tag[p][1] <= Len(ks) /\ tag[p][1] \in 1..Len(ks) /\ all[tag[p][1]] = ks[tag[p][1]]
               /\ tag[p][2] <= Len(Whole(ks[tag[p][1]], tag[p][1]))
               /\ S[p] = Whole(ks[tag[p][1]], tag[p][1])[tag[p][2]]
               /\ tag[p + 1] = NextPlace(ks, tag[p])
    <2>1. p \in 1..Len(S) + Len(W) + 1 /\ p \in 1..Len(S) + 1 /\ p <= Len(S)
      BY <1>1
    <2>2. more[p] = tag[p] /\ tag[p] \in Places
      BY <2>1 DEF Labels
    <2>3. tag[p][1] \in 1..Len(ks)
      BY <1>1, <2>2 DEF Labels, Places
    <2> QED
      BY <1>3, <2>2, <2>3 DEF Labels
  <1>5. tag[Len(S) + 1] = <<last, 1>>
    BY DEF Labels, last
  <1>6. ASSUME NEW p \in 1..Len(S) + Len(W) + 1, p > Len(S)
        PROVE  /\ p <= Len(S) + Len(W) => more[p] = <<last, p - Len(S)>>
               /\ p > Len(S) + Len(W) => more[p] = <<last + 1, 1>>
    BY <1>1, <1>6
  <1>7. \A p \in 1..Len(S) + 1 : more[p] = tag[p]
    <2>1. more[Len(S) + 1] = <<last, 1>>
      <3>1. /\ Len(S) + 1 \in 1..Len(S) + Len(W) + 1 /\ Len(S) + 1 > Len(S)
            /\ Len(S) + 1 <= Len(S) + Len(W) /\ (Len(S) + 1) - Len(S) = 1
        BY <1>1
      <3> QED
        BY <1>6, <3>1
    <2>2. \A p \in 1..Len(S) + 1 : p \in 1..Len(S) \/ p = Len(S) + 1
      BY <1>1
    <2> QED
      BY <1>4, <1>5, <2>1, <2>2
  <1>8. \A p \in 1..Len(T) + 1 : more[p] \in Places
    <2> SUFFICES ASSUME NEW p \in 1..Len(S) + Len(W) + 1 PROVE more[p] \in Places
      BY <1>2
    <2>1. CASE p <= Len(S)
      <3>1. p \in 1..Len(S)
        BY <1>1, <2>1
      <3> QED
        BY <1>4, <3>1
    <2>2. CASE p > Len(S)
      <3>1. p <= Len(S) + Len(W) => p - Len(S) \in Nat \ {0}
        BY <1>1, <2>2
      <3> QED
        BY <1>1, <1>6, <2>2, <3>1 DEF Places
    <2> QED
      BY <1>1, <2>1, <2>2
  <1>9. more \in [1..Len(T) + 1 -> Places]
    <2>1. more = [p \in 1..Len(T) + 1 |-> more[p]]
      BY <1>2
    <2> HIDE DEF more
    <2> QED
      BY <1>8, <2>1
  <1> HIDE DEF more
  <1>10. more[Len(T) + 1] = <<Len(all) + 1, 1>>
    <2>1. /\ Len(T) + 1 \in 1..Len(S) + Len(W) + 1
          /\ Len(T) + 1 > Len(S) /\ Len(T) + 1 > Len(S) + Len(W)
      BY <1>1, <1>2
    <2> QED
      BY <1>3, <1>6, <2>1
  <1>11. ASSUME NEW p \in 1..Len(T)
         PROVE  /\ more[p][1] <= Len(all)
                /\ more[p][2] <= Len(Whole(all[more[p][1]], more[p][1]))
                /\ T[p] = Whole(all[more[p][1]], more[p][1])[more[p][2]]
                /\ more[p + 1] = NextPlace(all, more[p])
    <2>1. CASE p <= Len(S)
      <3>1. p \in 1..Len(S) /\ p + 1 \in 1..Len(S) + 1 /\ T[p] = S[p]
        BY <1>1, <1>2, <2>1
      <3>2. NextPlace(all, tag[p]) = NextPlace(ks, tag[p])
        BY <1>4, <3>1 DEF NextPlace
      <3>3. more[p] = tag[p] /\ more[p + 1] = tag[p + 1]
        BY <1>7, <3>1, <1>4
      <3>4. tag[p][1] <= Len(all)
        BY <1>1, <1>3, <1>4, <3>1 DEF last
      <3> QED
        BY <1>4, <3>1, <3>2, <3>3, <3>4
    <2>2. CASE p > Len(S)
      <3>1. /\ p \in 1..Len(S) + Len(W) + 1 /\ p <= Len(S) + Len(W)
            /\ p + 1 \in 1..Len(S) + Len(W) + 1 /\ p + 1 > Len(S)
            /\ p - Len(S) <= Len(W) /\ (p + 1) - Len(S) = (p - Len(S)) + 1
            /\ p - Len(S) < Len(W) <=> p + 1 <= Len(S) + Len(W)
        BY <1>1, <1>2, <2>2
      <3>2. more[p] = <<last, p - Len(S)>> /\ T[p] = W[p - Len(S)]
        BY <1>1, <1>2, <1>6, <2>2, <3>1
      <3>3. more[p + 1] = NextPlace(all, more[p])
        <4>1. CASE p - Len(S) < Len(W)
          BY <1>6, <1>w, <3>1, <3>2, <4>1 DEF NextPlace
        <4>2. CASE ~(p - Len(S) < Len(W))
          <5>1. p + 1 > Len(S) + Len(W)
            BY <1>1, <3>1, <4>2
          <5> QED
            BY <1>6, <1>w, <3>1, <3>2, <4>2, <5>1 DEF NextPlace
        <4> QED
          BY <4>1, <4>2
      <3>4. last <= Len(all)
        BY <1>1, <1>3
      <3> QED
        BY <1>w, <3>1, <3>2, <3>3, <3>4
    <2> QED
      BY <1>1, <1>2, <2>1, <2>2
  <1>12. ASSUME NEW p \in 1..Len(T) + 1, NEW q \in 1..Len(T) + 1, p <= q
         PROVE  NotAfter(more[p], more[q])
    <2>1. CASE q <= Len(S) + 1
      <3>1. p \in 1..Len(S) + 1 /\ q \in 1..Len(S) + 1
        BY <1>1, <1>2, <1>12, <2>1
      <3> QED
        BY <1>7, <1>12, <3>1 DEF Labels
    <2>2. CASE q > Len(S) + 1 /\ p <= Len(S)
      <3>1. p \in 1..Len(S) /\ q \in 1..Len(S) + Len(W) + 1 /\ q > Len(S)
        BY <1>1, <1>2, <2>2
      <3>2. more[p][1] \in 1..Len(ks)
        BY <1>4, <3>1
      <3>3. more[q][1] \in {last, last + 1}
        BY <1>1, <1>6, <3>1
      <3>4. more[p][1] < more[q][1]
        BY <1>1, <3>2, <3>3 DEF last
      <3> QED
        BY <3>4 DEF NotAfter
    <2>3. CASE q > Len(S) + 1 /\ p > Len(S)
      <3>1. p \in 1..Len(S) + Len(W) + 1 /\ q \in 1..Len(S) + Len(W) + 1 /\ q > Len(S)
        BY <1>1, <1>2, <2>3
      <3>2. CASE q <= Len(S) + Len(W)
        <4>1. p <= Len(S) + Len(W) /\ p - Len(S) <= q - Len(S)
          BY <1>1, <1>12, <3>1, <3>2
        <4>2. more[p] = <<last, p - Len(S)>> /\ more[q] = <<last, q - Len(S)>>
          BY <1>6, <2>3, <3>1, <3>2, <4>1
        <4> QED
          BY <4>1, <4>2 DEF NotAfter
      <3>3. CASE q > Len(S) + Len(W)
        <4>1. more[q] = <<last + 1, 1>>
          BY <1>6, <3>1, <3>3
        <4>2. CASE p <= Len(S) + Len(W)
          <5>1. more[p] = <<last, p - Len(S)>>
            BY <1>6, <2>3, <3>1, <4>2
          <5> QED
            BY <1>1, <4>1, <5>1 DEF NotAfter
        <4>3. CASE p > Len(S) + Len(W)
          <5>1. more[p] = <<last + 1, 1>>
            BY <1>6, <2>3, <3>1, <4>3
          <5> QED
            BY <1>1, <4>1, <5>1 DEF NotAfter
        <4> QED
          BY <1>1, <3>1, <4>2, <4>3
      <3> QED
        BY <1>1, <3>1, <3>2, <3>3
    <2> QED
      BY <1>1, <1>2, <2>1, <2>2, <2>3
  <1>13. Labels(T, all, more)
    BY <1>9, <1>10, <1>11, <1>12 DEF Labels
  <1>14. more[1] = tag[1]
    BY <1>1, <1>7
  <1> QED
    BY <1>13, <1>14 DEF T, W, all

-----------------------------------------------------------------------------
(* The types.  TypeOK says nothing of the fields of a request that no      *)
(* property reads; the proofs need them.                                   *)
Requests == [id : 0..MaxRequests,
             method_ : {"Invalid", "GET", "POST"},
             headers_ : SUBSET (HeaderNames \X (0..MaxRequests)),
             contentLength_ : Lengths,
             content_ : Seq(Atoms)]

HttpInv ==
    /\ TypeOK
    /\ request_ \in Requests
    /\ dispatched \in Seq(Requests)
    /\ Len(sent) <= MaxRequests

(* What atoi makes of a length is a length. *)
LEMMA LengthTyped ==
  ASSUME NEW r, NEW cl \in ContentLengths(r)
  PROVE  LengthRead(cl) \in Lengths
  <1>1. cl \in {"Content-Length:2", "Content-Length:0", "Content-Length:-1"}
    BY DEF ContentLengths, LengthHeaders
  <1> QED
    BY <1>1 DEF LengthRead, Lengths, BodySize

(* A least natural: induction without a parameter that is an operator.     *)
LEMMA Least ==
  ASSUME NEW T \in SUBSET Nat, T # {}
  PROVE  \E x \in T : \A y \in T : x <= y
  <1> DEFINE R == OpToRel(<, Nat)
  <1>1. IsWellFoundedOn(R, Nat)
    BY NatLessThanWellFounded
  <1>2. PICK x \in T : \A y \in T : ~ (<<y, x>> \in R)
    <2> HIDE DEF R
    <2> QED
      BY <1>1, WFMin
  <1>3. \A y \in T : ~ (y < x)
    BY <1>2 DEF OpToRel
  <1> QED
    BY <1>3

(* What findCRLF finds. *)
LEMMA CrlfFound ==
  ASSUME buf \in Seq(Atoms)
  PROVE  \/ FindCRLF = 0 /\ \A j \in 1..Len(buf) : buf[j].t # "crlf"
         \/ /\ FindCRLF \in 1..Len(buf)
            /\ buf[FindCRLF].t = "crlf"
            /\ \A j \in 1..Len(buf) : buf[j].t = "crlf" => FindCRLF <= j
  <1> DEFINE I == {i \in 1..Len(buf) : buf[i].t = "crlf"}
  <1>1. FindCRLF = IF I # {} THEN CHOOSE x \in I : \A y \in I : x =< y ELSE 0
    BY DEF FindCRLF, SelectInSeq, Min
  <1>2. CASE I = {}
    BY <1>1, <1>2
  <1>3. CASE I # {}
    <2>1. I \in SUBSET Nat
      BY LenProperties
    <2>2. \E x \in I : \A y \in I : x <= y
      <3> HIDE DEF I
      <3> QED
        BY <1>3, <2>1, Least
    <2>3. FindCRLF \in I /\ \A y \in I : FindCRLF <= y
      <3> HIDE DEF I
      <3> QED
        BY <1>1, <1>3, <2>2
    <2> QED
      BY <2>3
  <1> QED
    BY <1>2, <1>3

(* The line before it and what follows it. *)
LEMMA LineFound ==
  ASSUME buf \in Seq(Atoms), FindCRLF # 0
  PROVE  /\ FindCRLF \in 1..Len(buf)
         /\ LineText \in Seq(Atoms)
         /\ Len(LineText) = FindCRLF - 1
         /\ \A j \in 1..FindCRLF - 1 : LineText[j] = buf[j] /\ buf[j] \in Atoms
         /\ RestOfBuffer \in Seq(Atoms)
  <1> DEFINE n == Len(buf)
             f == FindCRLF
  <1>1. f \in 1..n
    BY CrlfFound
  <1>2. n \in Nat /\ \A j \in 1..n : buf[j] \in Atoms
    BY LenProperties, ElementOfSeq
  <1> HIDE DEF n, f
  <1>3. \A j \in 1..f - 1 : j \in 1..n
    BY <1>1, <1>2
  <1>4. \A j \in f + 1..n : j \in 1..n
    BY <1>1, <1>2
  <1>5. /\ SubSeq(buf, 1, f - 1) \in Seq(Atoms)
        /\ Len(SubSeq(buf, 1, f - 1)) = IF 1 <= f - 1 THEN (f - 1) - 1 + 1 ELSE 0
        /\ \A j \in 1..(f - 1) - 1 + 1 : SubSeq(buf, 1, f - 1)[j] = buf[1 + j - 1]
    <2>1. 1 \in Int /\ f - 1 \in Int /\ \A j \in 1..f - 1 : buf[j] \in Atoms
      BY <1>1, <1>2, <1>3
    <2> QED
      BY <2>1, SubSeqProperties
  <1>6. SubSeq(buf, f + 1, n) \in Seq(Atoms)
    <2>1. f + 1 \in Int /\ n \in Int /\ \A j \in f + 1..n : buf[j] \in Atoms
      BY <1>1, <1>2, <1>4
    <2> QED
      BY <2>1, SubSeqProperties
  <1>7. Len(SubSeq(buf, 1, f - 1)) = f - 1
    BY <1>1, <1>2, <1>5
  <1>8. \A j \in 1..f - 1 : SubSeq(buf, 1, f - 1)[j] = buf[j]
    <2>1. \A j \in 1..f - 1 : j \in 1..(f - 1) - 1 + 1 /\ 1 + j - 1 = j
      BY <1>1, <1>2
    <2> QED
      BY <1>5, <2>1
  <1> QED
    BY <1>1, <1>2, <1>3, <1>5, <1>6, <1>7, <1>8 DEF LineText, RestOfBuffer, n, f

(* A request after one of its fields changed. *)
LEMMA RequestChanged ==
  ASSUME NEW r \in Requests
  PROVE  /\ \A i \in 0..MaxRequests, m \in {"Invalid", "GET", "POST"} :
               [r EXCEPT !.id = i, !.method_ = m] \in Requests
         /\ [r EXCEPT !.method_ = "Invalid"] \in Requests
         /\ \A h \in HeaderNames \X (0..MaxRequests) :
               [r EXCEPT !.headers_ = @ \union {h}] \in Requests
         /\ \A n \in Lengths : [r EXCEPT !.contentLength_ = n] \in Requests
         /\ \A c \in Seq(Atoms) : [r EXCEPT !.content_ = c] \in Requests
  <1> DEFINE H == HeaderNames \X (0..MaxRequests)
             M == {"Invalid", "GET", "POST"}
             C == Seq(Atoms)
             I == 0..MaxRequests
  <1>1. Requests = [id : I, method_ : M, headers_ : SUBSET H, contentLength_ : Lengths, content_ : C]
    BY DEF Requests
  <1>2. "Invalid" \in M
    OBVIOUS
  <1> HIDE DEF H, M, C, I
  <1>3. /\ \A i \in I, m \in M : [r EXCEPT !.id = i, !.method_ = m] \in Requests
        /\ [r EXCEPT !.method_ = "Invalid"] \in Requests
        /\ \A n \in Lengths : [r EXCEPT !.contentLength_ = n] \in Requests
        /\ \A c \in C : [r EXCEPT !.content_ = c] \in Requests
    BY <1>1, <1>2
  <1>4. ASSUME NEW h \in H PROVE [r EXCEPT !.headers_ = @ \union {h}] \in Requests
    BY <1>1
  <1> QED
    BY <1>3, <1>4 DEF H, M, C, I

LEMMA NewRequestTyped ==
  /\ NewRequest \in Requests
  /\ \A n \in Lengths, c \in Seq(Atoms) :
        [NewRequest EXCEPT !.contentLength_ = n, !.content_ = c] \in Requests
  <1> DEFINE C == Seq(Atoms)
  <1>1. <<>> \in C /\ 0 \in 0..MaxRequests /\ 0 \in Lengths
    BY HttpAssumption DEF Lengths
  <1> HIDE DEF C
  <1>2. Requests = [id : 0..MaxRequests, method_ : {"Invalid", "GET", "POST"},
                    headers_ : SUBSET (HeaderNames \X (0..MaxRequests)),
                    contentLength_ : Lengths, content_ : C]
    BY DEF Requests, C
  <1>3. NewRequest \in Requests
    BY <1>1, <1>2 DEF NewRequest
  <1>4. \A n \in Lengths, c \in C :
           [NewRequest EXCEPT !.contentLength_ = n, !.content_ = c] \in Requests
    BY <1>2, <1>3
  <1> QED
    BY <1>3, <1>4 DEF C

LEMMA HttpInvInit == Init => HttpInv
  <1> SUFFICES ASSUME Init PROVE HttpInv
    OBVIOUS
  <1>1. serial \in BOOLEAN /\ wholeHeads \in BOOLEAN /\ ok \in BOOLEAN /\ rejected \in BOOLEAN
    BY Zenon DEF Init
  <1>2. /\ sent \in Seq(Kinds) /\ net \in Seq(Atoms) /\ buf \in Seq(Atoms)
        /\ dispatched \in Seq(Requests) /\ wire \in Seq(0..MaxRequests)
        /\ Len(sent) <= MaxRequests
    <2>1. sent = <<>> /\ net = <<>> /\ buf = <<>> /\ dispatched = <<>> /\ wire = <<>>
      BY Zenon DEF Init
    <2>2. \A S : <<>> \in Seq(S)
      OBVIOUS
    <2> QED
      BY <2>1, <2>2, HttpAssumption
  <1>3. request_ \in Requests /\ request_.contentLength_ \in Lengths /\ request_.content_ \in Seq(Atoms)
    <2>1. request_ = NewRequest
      BY Zenon DEF Init
    <2>2. request_ \in Requests
      BY <2>1, NewRequestTyped
    <2> QED
      BY <2>2 DEF Requests
  <1>4. /\ pc \in {"poll", "parsing", "parsed"}
        /\ state_ \in {"ExpectRequestLine", "ExpectHeaders", "ExpectBody", "GotAll"}
        /\ tcp \in {"connected", "disconnecting"}
    BY Zenon DEF Init
  <1> QED
    BY <1>1, <1>2, <1>3, <1>4, Zenon DEF HttpInv, TypeOK

(* What the client sends. *)
LEMMA SendsTyped ==
  ASSUME HttpInv, NEW k \in Kinds, ClientSends(k)
  PROVE  /\ k \in AnyKind /\ sent \in Seq(AnyKind) /\ Len(sent) + 1 \in 1..MaxRequests
         /\ net' = net \o Whole(k, Len(sent) + 1)
         /\ Whole(k, Len(sent) + 1) \in Seq(Atoms)
         /\ sent' = Append(sent, k)
         /\ Len(sent') = Len(sent) + 1
         /\ sent' \in Seq(Kinds)
         /\ \A i \in 1..Len(sent) : sent'[i] = sent[i]
  <1>1. Kinds \subseteq AnyKind
    BY HttpAssumption DEF AnyKind
  <1> HIDE DEF AnyKind
  <1>2. Len(sent) + 1 \in 1..MaxRequests /\ Len(sent) + 1 \in 0..MaxRequests
    BY HttpAssumption, LenProperties DEF HttpInv, TypeOK, ClientSends
  <1>3. Whole(k, Len(sent) + 1) \in Seq(Atoms)
    BY <1>1, <1>2, WholeTyped
  <1>4. sent \in Seq(AnyKind)
    BY <1>1 DEF HttpInv, TypeOK
  <1>5. net' = net \o Whole(k, Len(sent) + 1)
    <2> DEFINE i == Len(sent) + 1
    <2>1. k \in AnyKind /\ i \in 0..MaxRequests
      BY <1>1, <1>2
    <2> HIDE DEF i
    <2> DEFINE S == Atoms \union {Head_(k, i)[j] : j \in 1..7}
    <2>2. Head_(k, i) \in Seq(Atoms) /\ Body(k, i) \in Seq(Atoms)
      <3>1. CRLF \in Atoms /\ Atom(RequestLine(k), i) \in Atoms /\ Atom(FirstHeader(k), i) \in Atoms
            /\ Atom("POST", i) \in Atoms /\ Atom("byte", i) \in Atoms
        BY <2>1, HttpAssumption DEF CRLF, Atom, Atoms, LengthHeaders, RequestLine, FirstHeader
      <3> HIDE DEF Atoms
      <3>2. /\ <<Atom("POST", i), CRLF, CRLF>> \in Seq(Atoms)
            /\ <<Atom(RequestLine(k), i), CRLF, Atom(FirstHeader(k), i), CRLF, CRLF>> \in Seq(Atoms)
            /\ <<Atom("byte", i), Atom("byte", i)>> \in Seq(Atoms)
            /\ <<>> \in Seq(Atoms)
        BY <3>1
      <3>3. Head_(k, i) \in Seq(Atoms)
        BY <2>1, <3>2, HeadShape, Zenon
      <3>4. Body(k, i) \in {<<>>, <<Atom("byte", i), Atom("byte", i)>>}
        BY DEF Body, Bytes, Atom
      <3> QED
        BY <3>2, <3>3, <3>4, Zenon
    <2>3. net \in Seq(Atoms)
      BY DEF HttpInv, TypeOK
    <2>4. (net \o Head_(k, i)) \o Body(k, i) = net \o (Head_(k, i) \o Body(k, i))
      BY <2>2, <2>3, ConcatAssociative
    <2>5. net' = net \o Head_(k, i) \o Body(k, i)
      BY DEF ClientSends, i
    <2> QED
      BY <2>4, <2>5 DEF Whole, i
  <1>6. sent' = Append(sent, k)
    BY DEF ClientSends
  <1>7. /\ Len(sent') = Len(sent) + 1 /\ sent' \in Seq(Kinds)
        /\ \A i \in 1..Len(sent) : sent'[i] = sent[i]
    BY <1>6, AppendProperties DEF HttpInv, TypeOK
  <1> QED
    BY <1>1, <1>2, <1>3, <1>4, <1>5, <1>6, <1>7

(* What the network delivers. *)
LEMMA Delivered ==
  ASSUME HttpInv, OnMessage
  PROVE  /\ buf' \in Seq(Atoms) /\ net' \in Seq(Atoms)
         /\ buf' \o net' = buf \o net
  <1>1. PICK n \in 1..Len(net) : /\ buf' = buf \o SubSeq(net, 1, n)
                                 /\ net' = SubSeq(net, n + 1, Len(net))
    BY DEF OnMessage
  <1>2. net \in Seq(Atoms) /\ buf \in Seq(Atoms)
    BY DEF HttpInv, TypeOK
  <1> DEFINE m == Len(net)
             first == SubSeq(net, 1, n)
             rest == SubSeq(net, n + 1, m)
  <1>3. m \in Nat /\ n \in 1..m /\ \A j \in 1..m : net[j] \in Atoms
    BY <1>2, LenProperties, ElementOfSeq
  <1>4. first \in Seq(Atoms)
    <2> HIDE DEF m
    <2>1. 1 \in Int /\ n \in Int /\ \A j \in 1..n : net[j] \in Atoms
      BY <1>3
    <2> QED
      BY <2>1, SubSeqProperties
  <1>5. rest \in Seq(Atoms)
    <2> HIDE DEF m
    <2>1. n + 1 \in Int /\ m \in Int /\ \A j \in n + 1..m : net[j] \in Atoms
      BY <1>3
    <2> QED
      BY <2>1, SubSeqProperties
  <1>6. first \o rest = net
    <2>1. first \o rest = SubSeq(net, 1, m)
      <3>1. 1 \in 1..Len(net) + 1 /\ n \in 1 - 1..Len(net) /\ m \in n..Len(net)
        BY <1>3
      <3> HIDE DEF m
      <3> QED
        BY <1>2, <3>1, ConcatAdjacentSubSeq, Zenon
    <2> QED
      BY <1>2, <2>1, SubSeqFull
  <1>7. (buf \o first) \o rest = buf \o (first \o rest)
    <2>1. buf \in Seq(Atoms) /\ first \in Seq(Atoms) /\ rest \in Seq(Atoms)
      BY <1>2, <1>4, <1>5
    <2> HIDE DEF first, rest
    <2>2. \A s, t, u \in Seq(Atoms) : (s \o t) \o u = s \o (t \o u)
      BY ConcatAssociative
    <2> QED
      BY <2>1, <2>2
  <1>8. buf \o first \in Seq(Atoms)
    BY <1>2, <1>4, ConcatProperties
  <1> QED
    BY <1>1, <1>5, <1>6, <1>7, <1>8

(* A step that keeps what the client sent, and types whatever it changes.  *)
LEMMA HttpInvKept ==
  ASSUME HttpInv, UNCHANGED <<environment, sent>>,
         net' \in Seq(Atoms), buf' \in Seq(Atoms),
         pc' \in {"poll", "parsing", "parsed"}, ok' \in BOOLEAN,
         state_' \in {"ExpectRequestLine", "ExpectHeaders", "ExpectBody", "GotAll"},
         request_' \in Requests, tcp' \in {"connected", "disconnecting"},
         dispatched' \in Seq(Requests), wire' \in Seq(0..MaxRequests), rejected' \in BOOLEAN
  PROVE  HttpInv'
  <1>1. request_'.contentLength_ \in Lengths /\ request_'.content_ \in Seq(Atoms)
    BY DEF Requests
  <1>2. serial' \in BOOLEAN /\ wholeHeads' \in BOOLEAN /\ sent' \in Seq(Kinds)
    BY Zenon DEF HttpInv, TypeOK, environment
  <1>3. Len(sent') <= MaxRequests
    BY Zenon DEF HttpInv
  <1> QED
    BY <1>1, <1>2, <1>3, Zenon DEF HttpInv, TypeOK

LEMMA HttpInvNext == HttpInv /\ [Next]_vars => HttpInv'
  <1> SUFFICES ASSUME HttpInv, [Next]_vars PROVE HttpInv'
    OBVIOUS
  <1> USE DEF HttpInv
  <1>1. CASE UNCHANGED vars
    BY <1>1, HttpInvKept, Zenon DEF TypeOK, vars
  <1>2. ASSUME NEW k \in Kinds, ClientSends(k) PROVE HttpInv'
    <2>1. net' \in Seq(Atoms) /\ sent' \in Seq(Kinds) /\ Len(sent') <= MaxRequests
      <3>1. /\ net' = net \o Whole(k, Len(sent) + 1)
            /\ Whole(k, Len(sent) + 1) \in Seq(Atoms)
            /\ sent' \in Seq(Kinds) /\ Len(sent') = Len(sent) + 1
            /\ Len(sent) + 1 \in 1..MaxRequests
        BY <1>2, SendsTyped
      <3>2. net \in Seq(Atoms)
        BY DEF TypeOK
      <3>3. net' \in Seq(Atoms)
        BY <3>1, <3>2, ConcatProperties
      <3> QED
        BY <3>1, <3>3, HttpAssumption
    <2>2. UNCHANGED <<environment, buf, pc, ok, state_, request_, tcp, dispatched, wire, rejected>>
      BY <1>2 DEF ClientSends
    <2> QED
      BY <2>1, <2>2, Zenon DEF TypeOK, environment
  <1>3. CASE OnMessage
    <2>1. buf' \in Seq(Atoms) /\ net' \in Seq(Atoms)
      BY <1>3, Delivered
    <2>2. ok' = TRUE /\ pc' = "parsing"
          /\ UNCHANGED <<environment, sent, state_, request_, tcp, dispatched, wire, rejected>>
      BY <1>3 DEF OnMessage
    <2> QED
      BY <2>1, <2>2, HttpInvKept, Zenon DEF TypeOK
  <1>4. CASE ParseRequestLine
    <2> DEFINE isLine == Len(LineText) = 1
               succeed == isLine /\ LineText[1].t \in {"GET", "POST"}
    <2>1. /\ FindCRLF # 0
          /\ ok' = succeed
          /\ pc' = IF succeed THEN "parsing" ELSE "parsed"
          /\ state_' = IF succeed THEN "ExpectHeaders" ELSE state_
          /\ buf' = IF succeed THEN RestOfBuffer ELSE buf
          /\ request_' =
                IF succeed
                THEN [request_ EXCEPT !.id = LineText[1].id, !.method_ = LineText[1].t]
                ELSE IF isLine /\ LineText[1].t = "GET HTTP/9"
                THEN [request_ EXCEPT !.id = LineText[1].id, !.method_ = "GET"]
                ELSE [request_ EXCEPT !.method_ = "Invalid"]
          /\ UNCHANGED <<environment, sent, net, tcp, dispatched, wire, rejected>>
      BY <1>4, Zenon DEF ParseRequestLine
    <2>2. /\ LineText \in Seq(Atoms) /\ RestOfBuffer \in Seq(Atoms) /\ buf \in Seq(Atoms)
          /\ request_ \in Requests
      BY <2>1, LineFound, Zenon DEF TypeOK
    <2>3. isLine => LineText[1].id \in 0..MaxRequests
      <3>1. isLine => LineText[1] \in Atoms
        <4>1. isLine => 1 \in 1..Len(LineText)
          OBVIOUS
        <4> HIDE DEF isLine
        <4> QED
          BY <2>2, <4>1, ElementOfSeq, Zenon
      <3> QED
        BY <3>1 DEF Atoms
    <2>4. succeed => LineText[1].t \in {"Invalid", "GET", "POST"}
      OBVIOUS
    <2>5. succeed => isLine
      OBVIOUS
    <2>6. succeed \in BOOLEAN
      OBVIOUS
    <2> HIDE DEF isLine, succeed
    <2>7. request_' \in Requests
      BY <2>1, <2>2, <2>3, <2>4, <2>5, RequestChanged
    <2>8. pc' \in {"poll", "parsing", "parsed"} /\ buf' \in Seq(Atoms) /\ ok' \in BOOLEAN
      BY <2>1, <2>2, <2>6, Zenon
    <2>9. state_' \in {"ExpectRequestLine", "ExpectHeaders", "ExpectBody", "GotAll"}
      BY <2>1 DEF TypeOK
    <2> QED
      BY <2>1, <2>7, <2>8, <2>9, HttpInvKept, Zenon DEF TypeOK
  <1>5. CASE ParseHeader
    <2> DEFINE hasColon == \E i \in 1..Len(LineText) :
                  LineText[i].t \in HeaderNames
    <2>1. /\ FindCRLF > 1
          /\ ok' = hasColon
          /\ pc' = IF hasColon THEN "parsing" ELSE "parsed"
          /\ request_' =
                IF hasColon /\ Len(LineText) = 1
                THEN [request_ EXCEPT !.headers_ = @ \union {<<LineText[1].t, LineText[1].id>>}]
                ELSE request_
          /\ buf' = RestOfBuffer
          /\ UNCHANGED <<environment, sent, net, state_, tcp, dispatched, wire, rejected>>
      BY <1>5, Zenon DEF ParseHeader
    <2>2. /\ LineText \in Seq(Atoms) /\ RestOfBuffer \in Seq(Atoms) /\ request_ \in Requests
      <3>1. FindCRLF # 0
        BY <2>1, CrlfFound DEF TypeOK
      <3> QED
        BY <3>1, LineFound DEF TypeOK
    <2>3. hasColon /\ Len(LineText) = 1 =>
             <<LineText[1].t, LineText[1].id>>
                \in HeaderNames \X (0..MaxRequests)
      <3> SUFFICES ASSUME hasColon, Len(LineText) = 1
                   PROVE  /\ LineText[1].t \in HeaderNames
                          /\ LineText[1].id \in 0..MaxRequests
        OBVIOUS
      <3>1. LineText[1] \in Atoms
        <4>1. 1 \in 1..Len(LineText)
          OBVIOUS
        <4> QED
          BY <2>2, <4>1, ElementOfSeq, Zenon
      <3>2. LineText[1].t \in HeaderNames
        <4>1. PICK i \in 1..Len(LineText) :
                 LineText[i].t \in HeaderNames
          OBVIOUS
        <4>2. i = 1
          OBVIOUS
        <4> QED
          BY <4>1, <4>2
      <3>3. LineText[1].id \in 0..MaxRequests
        BY <3>1 DEF Atoms
      <3> QED
        BY <3>2, <3>3
    <2>4. hasColon \in BOOLEAN
      OBVIOUS
    <2> HIDE DEF hasColon
    <2>5. request_' \in Requests
      BY <2>1, <2>2, <2>3, RequestChanged
    <2>6. pc' \in {"poll", "parsing", "parsed"} /\ buf' \in Seq(Atoms) /\ ok' \in BOOLEAN
      BY <2>1, <2>2, <2>4, Zenon
    <2> QED
      BY <2>1, <2>5, <2>6, HttpInvKept, Zenon DEF TypeOK
  <1>6. CASE ParseBlankLine
    <2>1. /\ FindCRLF = 1 /\ buf' = RestOfBuffer
          /\ UNCHANGED <<environment, sent, net, tcp, dispatched, wire, rejected>>
          /\ pc' \in {"parsing", "parsed"}
          /\ state_' \in {"ExpectHeaders", "ExpectBody", "GotAll"}
      BY <1>6 DEF ParseBlankLine
    <2>2. ok' \in BOOLEAN
      BY <1>6, Zenon DEF ParseBlankLine, TypeOK
    <2>3. request_' \in Requests
      <3>1. request_' = request_ \/ \E n \in Lengths : request_' = [request_ EXCEPT !.contentLength_ = n]
        BY <1>6, LengthTyped DEF ParseBlankLine
      <3> QED
        BY <3>1, RequestChanged
    <2>4. RestOfBuffer \in Seq(Atoms)
      BY <2>1, LineFound DEF TypeOK
    <2> QED
      BY <2>1, <2>2, <2>3, <2>4, HttpInvKept, Zenon DEF TypeOK
  <1>7. CASE ParseBody
    <2> DEFINE n == request_.contentLength_
    <2>1. /\ pc' = "parsed"
          /\ UNCHANGED <<environment, sent, net, tcp, dispatched, wire, rejected>>
      BY <1>7 DEF ParseBody
    <2>2. CASE BodyLacks
      <3>2. ok' = TRUE /\ UNCHANGED <<buf, state_, request_>>
        BY <1>7, <2>2, Zenon DEF ParseBody
      <3> QED
        BY <2>1, <3>2, HttpInvKept, Zenon DEF TypeOK
    <2>3. CASE ~ BodyLacks
      <3>1. buf \in Seq(Atoms) /\ n \in Nat /\ Len(buf) \in Nat /\ request_ \in Requests
            /\ Len(buf) >= n
        BY <2>3, LenProperties DEF TypeOK, BodyLacks, Lengths
      <3>3. /\ request_' = [request_ EXCEPT !.content_ = SubSeq(buf, 1, n)]
            /\ buf' = SubSeq(buf, n + 1, Len(buf))
            /\ state_' = "GotAll"
            /\ ok' = ok
        BY <1>7, <2>3, Zenon DEF ParseBody
      <3>4. \A j \in 1..Len(buf) : buf[j] \in Atoms
        BY <3>1, ElementOfSeq
      <3>5. SubSeq(buf, 1, n) \in Seq(Atoms)
        <4>1. 1 \in Int /\ n \in Int /\ \A j \in 1..n : buf[j] \in Atoms
          BY <3>1, <3>4
        <4> HIDE DEF n
        <4> QED
          BY <4>1, SubSeqProperties
      <3>6. SubSeq(buf, n + 1, Len(buf)) \in Seq(Atoms)
        <4>1. n + 1 \in Int /\ Len(buf) \in Int /\ \A j \in n + 1..Len(buf) : buf[j] \in Atoms
          BY <3>1, <3>4
        <4> HIDE DEF n
        <4> QED
          BY <4>1, SubSeqProperties
      <3>7. request_' \in Requests
        BY <3>1, <3>3, <3>5, RequestChanged
      <3> QED
        BY <2>1, <3>3, <3>6, <3>7, HttpInvKept, Zenon DEF TypeOK
    <2> QED
      BY <1>7, <2>2, <2>3, Zenon DEF ParseBody
  <1>8. CASE SpinWithoutCRLF
    BY <1>8, HttpInvKept, Zenon DEF SpinWithoutCRLF, TypeOK, vars
  <1>9. ASSUME NEW r \in 0..MaxRequests, Send(r) PROVE wire' \in Seq(0..MaxRequests)
    BY <1>9, AppendProperties DEF Send, TypeOK
  <1>10. CASE Reject
    <2>1. wire' \in Seq(0..MaxRequests)
      BY <1>9, <1>10, HttpAssumption DEF Reject
    <2>2. /\ pc' = "poll" /\ rejected' = TRUE /\ tcp' = "disconnecting"
          /\ UNCHANGED <<environment, sent, net, buf, ok, state_, request_, dispatched>>
      BY <1>10 DEF Reject
    <2> QED
      BY <2>1, <2>2, HttpInvKept, Zenon DEF TypeOK
  <1>11. CASE OnRequest
    <2>1. wire' \in Seq(0..MaxRequests)
      BY <1>9, <1>11 DEF OnRequest, Requests
    <2>2. dispatched' \in Seq(Requests)
      BY <1>11, AppendProperties DEF OnRequest
    <2>3. /\ pc' = "poll" /\ tcp' \in {"disconnecting", tcp}
          /\ UNCHANGED <<environment, sent, net, buf, ok, rejected>>
      BY <1>11 DEF OnRequest
    <2>4. state_' = "ExpectRequestLine" /\ request_' \in Requests
      <3>1. request_.contentLength_ \in Lengths /\ request_.content_ \in Seq(Atoms)
        BY DEF TypeOK
      <3>2. state_' = "ExpectRequestLine"
            /\ request_' = [NewRequest EXCEPT !.contentLength_ = request_.contentLength_,
                                              !.content_ = request_.content_]
        BY <1>11 DEF OnRequest, Reset
      <3> QED
        BY <3>1, <3>2, NewRequestTyped, Zenon
    <2> QED
      BY <2>1, <2>2, <2>3, <2>4, HttpInvKept, Zenon DEF TypeOK
  <1>12. CASE AwaitMore
    BY <1>12, HttpInvKept, Zenon DEF AwaitMore, TypeOK
  <1> QED
    BY <1>1, <1>2, <1>3, <1>4, <1>5, <1>6, <1>7, <1>8, <1>10, <1>11, <1>12, Zenon
       DEF Next, Server, ParseStep

(* Every variable of a connection has its type. *)
THEOREM HttpTypeCorrect == Spec => []TypeOK
  <1>1. HttpInv => TypeOK
    BY DEF HttpInv
  <1> QED
    BY <1>1, HttpInvInit, HttpInvNext, PTL DEF Spec

-----------------------------------------------------------------------------
(* Where the parser is in the stream.  Unread is what it has not consumed; *)
(* a place pos is the parser's when the next unread atom is number pos[2]  *)
(* of request pos[1].                                                      *)
Unread == buf \o net
Got == Len(dispatched)

AtRequestLine(pos) ==
    \/ pos = <<Got + 1, 1>>
    \/ /\ Got >= 1
       /\ Got <= Len(sent)
       /\ sent[Got] = "getBody"
       /\ pos = <<Got, 6>>

InRequest ==
    /\ Got + 1 <= Len(sent)
    /\ request_.id = Got + 1
    /\ request_.method_ = RequestLine(sent[Got + 1])
    /\ \A h \in request_.headers_ : h[2] = Got + 1

AtHeaders(pos) ==
    /\ InRequest
    /\ sent[Got + 1] # "badLine"
    /\ \/ pos = <<Got + 1, 3>> /\ request_.headers_ = {}
       \/ /\ pos = <<Got + 1, 5>>
          /\ sent[Got + 1] \notin {"badHeader", "postNoLength"}
          /\ request_.headers_ = {<<FirstHeader(sent[Got + 1]), Got + 1>>}

AtBody(pos) ==
    /\ InRequest
    /\ sent[Got + 1] = "post"
    /\ request_.contentLength_ = BodySize
    /\ pos = <<Got + 1, 6>>

(* A negative length: no body will do. *)
Stuck(pos) ==
    /\ InRequest
    /\ sent[Got + 1] = "postNegative"
    /\ request_.contentLength_ = Wrapped
    /\ pos = <<Got + 2, 1>>

AtEnd(pos) ==
    /\ InRequest
    /\ sent[Got + 1] = "post" => request_.content_ = Bytes(Got + 1)
    /\ \/ pos = <<Got + 2, 1>>
       \/ sent[Got + 1] = "getBody" /\ pos = <<Got + 1, 6>>

Phase(pos) ==
    /\ state_ = "ExpectRequestLine" => AtRequestLine(pos)
    /\ state_ = "ExpectHeaders"     => AtHeaders(pos)
    /\ state_ = "ExpectBody"        => AtBody(pos) \/ Stuck(pos)
    /\ state_ = "GotAll"            => AtEnd(pos)

(* Nothing has been rejected, or is about to be. *)
Healthy == ~rejected /\ (pc = "parsed" => ok)

(* The ids of requests increase along the stream, rejected or not. *)
Before(id, pos) == id < pos[1] \/ (id = pos[1] /\ pos[2] > 1)

Ordered(pos) ==
    /\ \A d \in 1..Got : Before(dispatched[d].id, pos)
    /\ \A d, e \in 1..Got : d < e => dispatched[d].id < dispatched[e].id
    /\ state_ # "ExpectRequestLine" =>
          /\ Before(request_.id, pos)
          /\ \A d \in 1..Got : dispatched[d].id < request_.id

StreamInv ==
    /\ \E tag : /\ Labels(Unread, sent, tag)
                /\ Healthy => Phase(tag[1])
                /\ Ordered(tag[1])
    /\ state_ = "ExpectRequestLine" => request_.headers_ = {}

LEMMA StreamInvInit == Init => StreamInv
  <1> SUFFICES ASSUME Init PROVE StreamInv
    OBVIOUS
  <1> DEFINE tag == [p \in 1..1 |-> <<1, 1>>]
  <1>1. /\ sent = <<>> /\ net = <<>> /\ buf = <<>> /\ dispatched = <<>>
        /\ state_ = "ExpectRequestLine" /\ request_ = NewRequest
    BY Zenon DEF Init
  <1>2. Unread = <<>> /\ Len(Unread) = 0 /\ Len(sent) = 0 /\ Got = 0
    BY <1>1 DEF Unread, Got
  <1>3. Labels(Unread, sent, tag)
    <2>1. tag \in [1..1 -> Places] /\ tag[1] = <<1, 1>>
      BY DEF Places
    <2>2. NotAfter(<<1, 1>>, <<1, 1>>)
      BY DEF NotAfter
    <2> HIDE DEF tag
    <2>3. \A p, q \in 1..1 : p <= q => NotAfter(tag[p], tag[q])
      <3>1. \A p \in 1..1 : p = 1
        OBVIOUS
      <3> QED
        BY <2>1, <2>2, <3>1
    <2>4. 1..Len(Unread) = {} /\ Len(Unread) + 1 = 1 /\ Len(sent) + 1 = 1
      BY <1>2
    <2> QED
      BY <2>1, <2>3, <2>4, Zenon DEF Labels
  <1>4. tag[1] = <<1, 1>>
    OBVIOUS
  <1> HIDE DEF tag
  <1>5. Phase(tag[1])
    BY <1>1, <1>2, <1>4 DEF Phase, AtRequestLine
  <1>6. Ordered(tag[1])
    BY <1>1, <1>2 DEF Ordered
  <1>7. request_.headers_ = {}
    BY <1>1 DEF NewRequest
  <1> QED
    BY <1>3, <1>5, <1>6, <1>7, Zenon DEF StreamInv

(* A parse step that takes the first m atoms of the buffer. *)
LEMMA Consumed ==
  ASSUME HttpInv, NEW tag, Labels(Unread, sent, tag), NEW m \in 0..Len(buf),
         buf' = SubSeq(buf, m + 1, Len(buf)), net' = net, sent' = sent
  PROVE  /\ \E rest : Labels(Unread', sent', rest) /\ rest[1] = tag[m + 1]
         /\ NotAfter(tag[1], tag[m + 1])
  <1> DEFINE n == Len(buf)
             k == Len(net)
             S == buf \o net
  <1>1. buf \in Seq(Atoms) /\ net \in Seq(Atoms)
    BY DEF HttpInv, TypeOK
  <1>2. n \in Nat /\ k \in Nat /\ \A j \in 1..n : buf[j] \in Atoms
    BY <1>1, LenProperties, ElementOfSeq
  <1>3. /\ S \in Seq(Atoms)
        /\ Len(S) = n + k
        /\ \A j \in 1..n + k : S[j] = IF j <= n THEN buf[j] ELSE net[j - n]
    BY <1>1, ConcatProperties, Zenon
  <1>4. m \in 0..Len(S) /\ \A j \in 1..n + k : S[j] \in Atoms
    BY <1>2, <1>3, ElementOfSeq
  <1>5. PICK rest : /\ Labels(SubSeq(S, m + 1, Len(S)), sent, rest)
                    /\ rest[1] = tag[m + 1]
    <2>1. S \in Seq(Atoms) /\ Labels(S, sent, tag) /\ m \in 0..Len(S)
      BY <1>3, <1>4 DEF Unread
    <2> HIDE DEF S
    <2> QED
      BY <2>1, Dropped
  <1>6. /\ buf' \in Seq(Atoms) /\ Len(buf') = n - m
        /\ \A j \in 1..n - m : buf'[j] = buf[m + j]
    BY <1>1, RestAfter, Zenon
  <1>7. /\ SubSeq(S, m + 1, Len(S)) \in Seq(Atoms)
        /\ Len(SubSeq(S, m + 1, Len(S))) = (n + k) - m
        /\ \A j \in 1..(n + k) - m : SubSeq(S, m + 1, Len(S))[j] = S[m + j]
    <2>1. S \in Seq(Atoms) /\ m \in 0..Len(S) /\ Len(S) = n + k
      BY <1>3, <1>4
    <2> HIDE DEF S, n, k
    <2>2. /\ SubSeq(S, m + 1, Len(S)) \in Seq(Atoms)
          /\ Len(SubSeq(S, m + 1, Len(S))) = Len(S) - m
          /\ \A j \in 1..Len(S) - m : SubSeq(S, m + 1, Len(S))[j] = S[m + j]
      BY <2>1, RestAfter, Zenon
    <2> QED
      BY <2>1, <2>2
  <1>8. SubSeq(S, m + 1, Len(S)) = buf' \o net
    <2> DEFINE T == SubSeq(S, m + 1, Len(S))
    <2>1. /\ buf' \o net \in Seq(Atoms)
          /\ Len(buf' \o net) = Len(buf') + Len(net)
          /\ \A j \in 1..Len(buf') + Len(net) : (buf' \o net)[j] =
                IF j <= Len(buf') THEN buf'[j] ELSE net[j - Len(buf')]
      BY <1>1, <1>6, ConcatProperties, Zenon
    <2>2. T \in Seq(Atoms) /\ Len(T) = (n + k) - m /\ \A j \in 1..(n + k) - m : T[j] = S[m + j]
      BY <1>7
    <2>3. m \in 0..n
      OBVIOUS
    <2>4. k = Len(net)
      OBVIOUS
    <2> HIDE DEF T, S, n, k
    <2>5. (n - m) + k = (n + k) - m
      BY <1>2, <2>3
    <2>6. Len(buf' \o net) = (n + k) - m
      BY <1>6, <2>1, <2>4, <2>5
    <2>7. ASSUME NEW j \in 1..(n + k) - m PROVE (buf' \o net)[j] = T[j]
      <3>1. m + j \in 1..n + k /\ (j <= n - m <=> m + j <= n) /\ j - (n - m) = (m + j) - n
        BY <1>2, <2>3
      <3>2. j <= n - m => j \in 1..n - m
        BY <1>2, <2>3
      <3>3. T[j] = IF m + j <= n THEN buf[m + j] ELSE net[(m + j) - n]
        BY <1>3, <2>2, <3>1
      <3>4. (buf' \o net)[j] = IF j <= n - m THEN buf'[j] ELSE net[j - (n - m)]
        BY <1>6, <2>1, <2>4, <2>5
      <3> QED
        BY <1>6, <3>1, <3>2, <3>3, <3>4
    <2>8. T = buf' \o net
      <3>1. Len(T) = Len(buf' \o net) /\ \A j \in 1..Len(T) : T[j] = (buf' \o net)[j]
        BY <2>2, <2>6, <2>7
      <3> QED
        BY <2>1, <2>2, <3>1, SeqEqual, Zenon
    <2> QED
      BY <2>8 DEF T
  <1>9. Unread' = buf' \o net
    BY DEF Unread
  <1>10. NotAfter(tag[1], tag[m + 1])
    <2>1. m + 1 \in 1..Len(Unread) + 1 /\ 1 \in 1..Len(Unread) + 1 /\ 1 <= m + 1
      <3> HIDE DEF n, k
      <3>1. Len(Unread) = n + k /\ m \in 0..n
        BY <1>3 DEF Unread, n
      <3> QED
        BY <1>2, <3>1
    <2> QED
      BY <2>1 DEF Labels
  <1> QED
    BY <1>5, <1>8, <1>9, <1>10

(* What the buffer's atoms are, and where the parser is after each. *)
LEMMA InBuffer ==
  ASSUME HttpInv, NEW tag, Labels(Unread, sent, tag), NEW j \in 1..Len(buf)
  PROVE  /\ tag[j] \in Places
         /\ tag[j][1] \in 1..Len(sent)
         /\ sent[tag[j][1]] \in AnyKind
         /\ tag[j][2] \in 1..Len(Whole(sent[tag[j][1]], tag[j][1]))
         /\ buf[j] = Whole(sent[tag[j][1]], tag[j][1])[tag[j][2]]
         /\ tag[j + 1] = NextPlace(sent, tag[j])
  <1>1. buf \in Seq(Atoms) /\ net \in Seq(Atoms) /\ sent \in Seq(Kinds)
    BY DEF HttpInv, TypeOK
  <1>2. Len(buf) \in Nat /\ Len(net) \in Nat /\ Len(sent) \in Nat
    BY <1>1, LenProperties
  <1>3. /\ Len(Unread) = Len(buf) + Len(net)
        /\ \A i \in 1..Len(buf) + Len(net) : Unread[i] =
              IF i <= Len(buf) THEN buf[i] ELSE net[i - Len(buf)]
    BY <1>1, ConcatProperties, Zenon DEF Unread
  <1>4. j \in 1..Len(Unread) /\ j \in 1..Len(Unread) + 1 /\ j \in 1..Len(buf) + Len(net) /\ j <= Len(buf)
    BY <1>2, <1>3
  <1>5. Unread[j] = buf[j]
    BY <1>3, <1>4
  <1>6. tag[j] \in Places
    BY <1>4 DEF Labels
  <1>7. tag[j][1] \in 1..Len(sent)
    BY <1>2, <1>4, <1>6 DEF Labels, Places
  <1>8. sent[tag[j][1]] \in AnyKind
    <2>1. sent[tag[j][1]] \in Kinds
      BY <1>1, <1>7, ElementOfSeq
    <2> QED
      BY <2>1, HttpAssumption DEF AnyKind
  <1>9. tag[j][2] \in 1..Len(Whole(sent[tag[j][1]], tag[j][1]))
    <2>1. Len(Whole(sent[tag[j][1]], tag[j][1])) \in Nat
      BY <1>8, WholeAtoms
    <2> QED
      BY <1>4, <1>6, <2>1 DEF Labels, Places
  <1> QED
    BY <1>4, <1>5, <1>6, <1>7, <1>8, <1>9 DEF Labels

LEMMA AtPlace ==
  ASSUME HttpInv, NEW tag, Labels(Unread, sent, tag), NEW j \in 1..Len(buf),
         NEW g, NEW o, tag[j] = <<g, o>>
  PROVE  /\ g \in 1..Len(sent)
         /\ sent[g] \in AnyKind
         /\ buf[j] = Whole(sent[g], g)[o]
         /\ o < Len(Whole(sent[g], g)) => tag[j + 1] = <<g, o + 1>>
         /\ ~ (o < Len(Whole(sent[g], g))) => tag[j + 1] = <<g + 1, 1>>
  <1>1. tag[j][1] = g /\ tag[j][2] = o
    OBVIOUS
  <1>2. /\ g \in 1..Len(sent)
        /\ sent[g] \in AnyKind
        /\ buf[j] = Whole(sent[g], g)[o]
        /\ tag[j + 1] = NextPlace(sent, tag[j])
    BY <1>1, InBuffer
  <1> QED
    BY <1>1, <1>2 DEF NextPlace

(* A request line's text stands at the beginning of its request only. *)
LEMMA LineStarts ==
  ASSUME NEW k \in AnyKind, NEW i, NEW o \in 1..Len(Whole(k, i)),
         Whole(k, i)[o].t \in {"GET", "POST"}
  PROVE  o = 1 /\ Whole(k, i)[o].id = i /\ Whole(k, i)[o].t = RequestLine(k) /\ k # "badLine"
  <1> DEFINE W == Whole(k, i)
  <1>1. /\ CRLF.t = "crlf"
        /\ \A t : Atom(t, i).t = t /\ Atom(t, i).id = i
    BY DEF CRLF, Atom
  <1>2. FirstHeader(k) \notin {"GET", "POST"}
    BY DEF FirstHeader
  <1>3. k = "badLine" => RequestLine(k) \notin {"GET", "POST"}
    BY DEF RequestLine
  <1>4. CASE k = "postNoLength"
    <2>1. Len(W) = 3 /\ W[1] = Atom(RequestLine(k), i) /\ W[2] = CRLF /\ W[3] = CRLF
      BY <1>4, WholeAtoms
    <2> HIDE DEF W
    <2>2. o \in 1..Len(W) /\ W[o].t \in {"GET", "POST"}
      BY DEF W
    <2>3. o = 1
      BY <1>1, <2>1, <2>2
    <2>4. W[o].id = i /\ W[o].t = RequestLine(k)
      BY <1>1, <2>1, <2>3
    <2> QED
      BY <1>4, <2>3, <2>4 DEF W
  <1>5. CASE k # "postNoLength"
    <2>1. /\ Len(W) \in {5, 7}
          /\ W[1] = Atom(RequestLine(k), i) /\ W[2] = CRLF /\ W[3] = Atom(FirstHeader(k), i)
          /\ W[4] = CRLF /\ W[5] = CRLF
          /\ Len(W) = 7 => W[6] = Atom("byte", i) /\ W[7] = Atom("byte", i)
      BY <1>5, WholeAtoms
    <2> HIDE DEF W
    <2>2. o \in 1..Len(W) /\ W[o].t \in {"GET", "POST"}
      BY DEF W
    <2>3. o \in 1..7 /\ (o > 5 => Len(W) = 7)
      BY <2>1, <2>2
    <2>4. \A j \in 2..7 : (j > 5 => Len(W) = 7) => W[j].t \notin {"GET", "POST"}
      BY <1>1, <1>2, <2>1
    <2>5. o = 1
      BY <2>2, <2>3, <2>4
    <2>6. W[o].id = i /\ W[o].t = RequestLine(k)
      BY <1>1, <2>1, <2>5
    <2> QED
      BY <1>3, <2>2, <2>5, <2>6 DEF W
  <1> QED
    BY <1>4, <1>5

LEMMA RequestIds ==
  ASSUME HttpInv
  PROVE  request_.id \in Nat /\ \A d \in 1..Got : dispatched[d].id \in Nat
  <1>1. 0..MaxRequests \subseteq Nat
    BY HttpAssumption
  <1>2. \A q \in Requests : q.id \in 0..MaxRequests
    BY DEF Requests
  <1>3. \A d \in 1..Got : dispatched[d] \in Requests
    BY ElementOfSeq DEF HttpInv, Got
  <1> QED
    BY <1>1, <1>2, <1>3 DEF HttpInv

(* The order of ids survives a move forward in the stream. *)
LEMMA OrderedOn ==
  ASSUME HttpInv, NEW p, NEW q, Ordered(p), NotAfter(p, q),
         p \in Places, q \in Places,
         dispatched' = dispatched, request_'.id = request_.id,
         state_' # "ExpectRequestLine" => state_ # "ExpectRequestLine"
  PROVE  Ordered(q)'
  <1>1. \A i \in Nat : Before(i, p) => Before(i, q)
    BY DEF Before, NotAfter, Places
  <1>2. request_.id \in Nat /\ \A d \in 1..Got : dispatched[d].id \in Nat
    BY RequestIds
  <1>3. Got' = Got
    BY DEF Got
  <1>4. \A i : Before(i, q)' <=> Before(i, q)
    BY DEF Before
  <1> QED
    BY <1>1, <1>2, <1>3 DEF Ordered, Before

LEMMA RequestLineStep ==
  ASSUME HttpInv, StreamInv, ParseRequestLine
  PROVE  StreamInv'
  <1> DEFINE isLine == Len(LineText) = 1
             succeed == isLine /\ LineText[1].t \in {"GET", "POST"}
  <1>1. PICK tag : /\ Labels(Unread, sent, tag)
                   /\ Healthy => Phase(tag[1])
                   /\ Ordered(tag[1])
    BY DEF StreamInv
  <1>2. /\ pc = "parsing"
        /\ state_ = "ExpectRequestLine"
        /\ FindCRLF # 0
        /\ ok' = succeed
        /\ pc' = IF succeed THEN "parsing" ELSE "parsed"
        /\ state_' = IF succeed THEN "ExpectHeaders" ELSE state_
        /\ buf' = IF succeed THEN RestOfBuffer ELSE buf
        /\ succeed => request_' = [request_ EXCEPT !.id = LineText[1].id, !.method_ = LineText[1].t]
        /\ request_'.headers_ = request_.headers_
        /\ UNCHANGED <<environment, sent, net, tcp, dispatched, wire, rejected>>
    <2>1. request_ \in Requests
      BY DEF HttpInv
    <2>2. request_' =
                IF succeed
                THEN [request_ EXCEPT !.id = LineText[1].id, !.method_ = LineText[1].t]
                ELSE IF isLine /\ LineText[1].t = "GET HTTP/9"
                THEN [request_ EXCEPT !.id = LineText[1].id, !.method_ = "GET"]
                ELSE [request_ EXCEPT !.method_ = "Invalid"]
      BY Zenon DEF ParseRequestLine
    <2>3. request_'.headers_ = request_.headers_
      <3> HIDE DEF isLine, succeed
      <3> QED
        BY <2>1, <2>2 DEF Requests
    <2> HIDE DEF isLine, succeed
    <2>4. succeed => request_' = [request_ EXCEPT !.id = LineText[1].id, !.method_ = LineText[1].t]
      BY <2>2, Zenon
    <2> QED
      BY <2>3, <2>4, Zenon DEF ParseRequestLine, isLine, succeed
  <1>3. request_.headers_ = {}
    BY <1>2 DEF StreamInv
  <1>4. CASE ~ succeed
    <2>1. Unread' = Unread /\ sent' = sent /\ state_' = "ExpectRequestLine" /\ Got' = Got
      BY <1>2, <1>4 DEF Unread, Got
    <2>2. ~ Healthy'
      BY <1>2, <1>4 DEF Healthy
    <2>3. Ordered(tag[1])'
      BY <1>1, <1>2, <2>1 DEF Ordered, Before
    <2>4. Labels(Unread, sent, tag)'
      BY <1>1, <2>1 DEF Labels, NextPlace
    <2> QED
      BY <1>2, <1>3, <2>2, <2>3, <2>4, Zenon DEF StreamInv
  <1>5. CASE succeed
    <2>1. /\ FindCRLF = 2 /\ 2 \in 1..Len(buf) /\ 1 \in 1..Len(buf) /\ 2 \in 0..Len(buf)
          /\ LineText[1] = buf[1]
      <3>1. buf \in Seq(Atoms) /\ Len(buf) \in Nat
        BY LenProperties DEF HttpInv, TypeOK
      <3>2. FindCRLF \in 1..Len(buf) /\ Len(LineText) = FindCRLF - 1
            /\ \A j \in 1..FindCRLF - 1 : LineText[j] = buf[j]
        BY <1>2, <3>1, LineFound
      <3>3. FindCRLF = 2
        <4>1. \A f \in 1..Len(buf) : f - 1 = 1 => f = 2
          BY <3>1
        <4>2. FindCRLF - 1 = 1
          BY <1>5, <3>2
        <4> QED
          BY <3>2, <4>1, <4>2
      <3> QED
        BY <3>1, <3>2, <3>3
    <2> DEFINE g == tag[1][1]
               k == sent[g]
    <2>2. /\ tag[1] \in Places /\ g \in 1..Len(sent) /\ k \in AnyKind
          /\ tag[1][2] \in 1..Len(Whole(k, g))
          /\ buf[1] = Whole(k, g)[tag[1][2]]
          /\ tag[1 + 1] = NextPlace(sent, tag[1])
          /\ tag[2 + 1] = NextPlace(sent, tag[2])
      BY <1>1, <2>1, InBuffer
    <2>3. tag[1][2] = 1 /\ buf[1].id = g /\ buf[1].t = RequestLine(k) /\ k # "badLine"
      BY <1>5, <2>1, <2>2, LineStarts
    <2>4. tag[3] = <<g, 3>>
      <3>1. Len(Whole(k, g)) >= 3
        BY <2>2, WholeAtoms
      <3>2. Len(Whole(k, g)) \in Nat
        BY <2>2, WholeAtoms
      <3> HIDE DEF k
      <3>3. 1 < Len(Whole(sent[g], g)) /\ 2 < Len(Whole(sent[g], g))
        BY <3>1, <3>2 DEF k
      <3>4. tag[1] = <<g, 1>>
        BY <2>2, <2>3 DEF Places
      <3>5. tag[2] = <<g, 2>>
        BY <2>2, <3>3, <3>4 DEF NextPlace
      <3> QED
        BY <2>2, <3>3, <3>5 DEF NextPlace
    <2>5. PICK rest : Labels(Unread', sent', rest) /\ rest[1] = tag[2 + 1]
      <3>1. buf' = SubSeq(buf, 2 + 1, Len(buf)) /\ net' = net /\ sent' = sent
        BY <1>2, <1>5, <2>1 DEF RestOfBuffer
      <3> QED
        BY <1>1, <2>1, <3>1, Consumed
    <2>6. rest[1] = <<g, 3>>
      BY <2>4, <2>5
    <2>7. /\ request_'.id = g /\ request_'.method_ = RequestLine(k)
          /\ request_'.headers_ = {}
      <3>1. request_ \in Requests
        BY DEF HttpInv
      <3>2. request_' = [request_ EXCEPT !.id = g, !.method_ = RequestLine(k)]
        BY <1>2, <1>5, <2>1, <2>3
      <3> HIDE DEF g, k
      <3> QED
        BY <1>2, <1>3, <3>1, <3>2 DEF Requests
    <2>8. /\ state_' = "ExpectHeaders" /\ pc' = "parsing" /\ Got' = Got /\ sent' = sent
          /\ dispatched' = dispatched /\ rejected' = rejected
      BY <1>2, <1>5 DEF Got
    <2>9. Ordered(rest[1])'
      <3>1. \A d \in 1..Got : dispatched[d].id \in Nat
        BY RequestIds
      <3>2. \A d \in 1..Got : dispatched[d].id < g
        BY <1>1, <2>3, <3>1 DEF Ordered, Before
      <3>3. g \in Nat
        BY <2>2 DEF Places
      <3> HIDE DEF g
      <3> QED
        BY <1>1, <2>6, <2>7, <2>8, <3>2, <3>3 DEF Ordered, Before
    <2>10. (Healthy => Phase(rest[1]))'
      <3> SUFFICES ASSUME Healthy' PROVE AtHeaders(rest[1])'
        BY <2>8 DEF Phase
      <3>1. Healthy
        BY <1>2, <2>8 DEF Healthy
      <3>2. tag[1] = <<Got + 1, 1>>
        BY <1>1, <1>2, <2>3, <3>1 DEF Phase, AtRequestLine
      <3>3. g = Got + 1
        BY <3>2
      <3>4. InRequest'
        BY <2>2, <2>7, <2>8, <3>3 DEF InRequest
      <3> QED
        BY <2>3, <2>6, <2>7, <2>8, <3>3, <3>4 DEF AtHeaders
    <2> QED
      BY <2>5, <2>8, <2>9, <2>10, Zenon DEF StreamInv
  <1> QED
    BY <1>4, <1>5

(* A step of the parser that only moves on in the stream: what is left to  *)
(* show is where it stands if nothing was rejected.                        *)
LEMMA ParserMoves ==
  ASSUME HttpInv, NEW tag, Labels(Unread, sent, tag), Ordered(tag[1]), NEW m \in 0..Len(buf),
         buf' = SubSeq(buf, m + 1, Len(buf)), net' = net, sent' = sent,
         dispatched' = dispatched, request_'.id = request_.id,
         state_ # "ExpectRequestLine", state_' # "ExpectRequestLine",
         (Healthy => Phase(tag[m + 1]))'
  PROVE  StreamInv'
  <1>1. /\ \E rest : Labels(Unread', sent', rest) /\ rest[1] = tag[m + 1]
        /\ NotAfter(tag[1], tag[m + 1])
    BY Consumed
  <1>2. PICK rest : Labels(Unread', sent', rest) /\ rest[1] = tag[m + 1]
    BY <1>1
  <1>3. tag[1] \in Places /\ tag[m + 1] \in Places
    <2>1. m + 1 \in 1..Len(Unread) + 1 /\ 1 \in 1..Len(Unread) + 1
      <3>1. Len(Unread) = Len(buf) + Len(net) /\ Len(buf) \in Nat /\ Len(net) \in Nat
        BY ConcatProperties, LenProperties DEF HttpInv, TypeOK, Unread
      <3> QED
        BY <3>1
    <2> QED
      BY <2>1 DEF Labels
  <1>4. Ordered(rest[1])'
    BY <1>1, <1>2, <1>3, OrderedOn
  <1> QED
    BY <1>2, <1>4, Zenon DEF StreamInv

LEMMA HeaderStep ==
  ASSUME HttpInv, StreamInv, ParseHeader
  PROVE  StreamInv'
  <1> DEFINE Named(a) == a.t \in HeaderNames
             hasColon == \E i \in 1..Len(LineText) : Named(LineText[i])
  <1>1. PICK tag : /\ Labels(Unread, sent, tag)
                   /\ Healthy => Phase(tag[1])
                   /\ Ordered(tag[1])
    BY DEF StreamInv
  <1>2. /\ pc = "parsing"
        /\ state_ = "ExpectHeaders" /\ state_' = "ExpectHeaders"
        /\ FindCRLF > 1
        /\ ok' = hasColon
        /\ pc' = IF hasColon THEN "parsing" ELSE "parsed"
        /\ request_' =
              IF hasColon /\ Len(LineText) = 1
              THEN [request_ EXCEPT !.headers_ = @ \union {<<LineText[1].t, LineText[1].id>>}]
              ELSE request_
        /\ buf' = RestOfBuffer
        /\ UNCHANGED <<environment, sent, net, tcp, dispatched, wire, rejected>>
    BY Zenon DEF ParseHeader
  <1>3. request_' \in [id : {request_.id}, method_ : {request_.method_},
                       headers_ : {request_'.headers_}, contentLength_ : Lengths,
                       content_ : Seq(Atoms)]
    <2>1. request_ \in Requests
      BY DEF HttpInv
    <2> HIDE DEF hasColon
    <2> QED
      BY <1>2, <2>1 DEF Requests
  <1>4. request_'.id = request_.id /\ request_'.method_ = request_.method_
    BY <1>3
  <1>5. buf \in Seq(Atoms) /\ Len(buf) \in Nat
    BY LenProperties DEF HttpInv, TypeOK
  <1>6. /\ FindCRLF \in 1..Len(buf) /\ FindCRLF \in 0..Len(buf)
        /\ Len(LineText) = FindCRLF - 1
        /\ \A j \in 1..FindCRLF - 1 : LineText[j] = buf[j]
        /\ \A j \in 1..Len(buf) : buf[j].t = "crlf" => FindCRLF <= j
        /\ 1 \in 1..Len(buf) /\ 2 \in 1..Len(buf)
    <2>1. FindCRLF # 0
      BY <1>2, <1>5, CrlfFound
    <2>2. /\ FindCRLF \in 1..Len(buf)
          /\ \A j \in 1..Len(buf) : buf[j].t = "crlf" => FindCRLF <= j
      BY <1>5, <2>1, CrlfFound
    <2>3. /\ Len(LineText) = FindCRLF - 1
          /\ \A j \in 1..FindCRLF - 1 : LineText[j] = buf[j]
      BY <1>5, <2>1, LineFound
    <2>4. 1 \in 1..Len(buf) /\ 2 \in 1..Len(buf) /\ FindCRLF \in 0..Len(buf)
      BY <1>2, <1>5, <2>2
    <2> QED
      BY <2>2, <2>3, <2>4
  <1>m. PICK m \in 0..Len(buf) : m = FindCRLF
    BY <1>6
  <1>7. ASSUME Healthy' PROVE AtHeaders(tag[m + 1])'
    <2>1. hasColon
      BY <1>2, <1>7 DEF Healthy
    <2>2. AtHeaders(tag[1])
      BY <1>1, <1>2, <1>7 DEF Healthy, Phase
    <2> DEFINE g == Got + 1
               k == sent[g]
               W == Whole(k, g)
    <2>3. W = Whole(sent[g], g) /\ k = sent[g]
      OBVIOUS
    <2>4. CRLF.t = "crlf" /\ \A t, i : Atom(t, i).t = t /\ Atom(t, i).id = i
      BY DEF CRLF, Atom
    <2>5. tag[1] = <<g, 3>> \/ (tag[1] = <<g, 5>> /\ k # "postNoLength")
      BY <2>2 DEF AtHeaders
    <2> HIDE DEF g, k, W
    <2>6. k \in AnyKind /\ (tag[1] = <<g, 3>> => buf[1] = W[3]) /\ (tag[1] = <<g, 5>> => buf[1] = W[5])
      BY <1>1, <1>6, <2>3, <2>5, AtPlace
    <2>7. buf[1].t # "crlf"
      BY <1>2, <1>6
    <2>8. tag[1] = <<g, 3>> /\ k # "postNoLength"
      <3>1. k # "postNoLength" => W[5] = CRLF
        BY <2>3, <2>6, WholeAtoms
      <3>2. k = "postNoLength" => W[3] = CRLF
        BY <2>3, <2>6, WholeAtoms
      <3> QED
        BY <2>4, <2>5, <2>6, <2>7, <3>1, <3>2
    <2>9. /\ W[3] = Atom(FirstHeader(k), g) /\ W[4] = CRLF /\ Len(W) \in {5, 7}
      BY <2>3, <2>6, <2>8, WholeAtoms
    <2>10. buf[1] = Atom(FirstHeader(k), g)
      BY <2>6, <2>8, <2>9
    <2>11. tag[2] = <<g, 4>>
      <3>1. 3 < Len(W) => tag[1 + 1] = <<g, 3 + 1>>
        BY <1>1, <1>6, <2>3, <2>8, AtPlace
      <3> QED
        BY <2>9, <3>1
    <2>12. buf[2] = CRLF /\ tag[3] = <<g, 5>>
      <3>1. buf[2] = W[4] /\ (4 < Len(W) => tag[2 + 1] = <<g, 4 + 1>>)
        BY <1>1, <1>6, <2>3, <2>11, AtPlace
      <3>l. \A n \in {5, 7} : 4 < n
        OBVIOUS
      <3>2. 4 < Len(W)
        BY <2>9, <3>l, Zenon
      <3>3. tag[3] = <<g, 5>>
        BY <3>1, <3>2
      <3> QED
        BY <2>9, <3>1, <3>3
    <2>13. FindCRLF = 2 /\ Len(LineText) = 1 /\ LineText[1] = buf[1]
      <3>1. FindCRLF <= 2
        BY <1>6, <2>4, <2>12
      <3>2. FindCRLF = 2
        BY <1>2, <1>6, <3>1
      <3> QED
        BY <1>6, <3>2
    <2>b. k # "badLine"
      BY <2>2 DEF AtHeaders, g, k
    <2>14. k # "badHeader" /\ k # "badLine"
      <3>1. Named(LineText[1])
        <4>1. PICK i \in 1..Len(LineText) : Named(LineText[i])
          BY <2>1
        <4>2. i = 1
          BY <2>13
        <4> QED
          BY <4>1, <4>2
      <3>2. FirstHeader(k) # "no colon"
        BY <2>4, <2>10, <2>13, <3>1 DEF HeaderNames, LengthHeaders
      <3> QED
        BY <2>b, <3>2 DEF FirstHeader
    <2>15. request_'.headers_ = {<<FirstHeader(k), g>>}
      <3>1. request_.headers_ = {}
        <4>1. <<g, 3>> # <<g, 5>>
          OBVIOUS
        <4> QED
          BY <2>2, <2>8, <4>1 DEF AtHeaders, g
      <3>2. request_' = [request_ EXCEPT !.headers_ = @ \union {<<FirstHeader(k), g>>}]
        <4>1. LineText[1].t = FirstHeader(k) /\ LineText[1].id = g
          BY <2>4, <2>10, <2>13
        <4> HIDE DEF hasColon
        <4> QED
          BY <1>2, <2>1, <2>13, <4>1
      <3>3. request_ \in Requests
        BY DEF HttpInv
      <3> QED
        BY <3>1, <3>2, <3>3 DEF Requests
    <2>16. /\ g <= Len(sent) /\ request_.id = g /\ request_.method_ = RequestLine(k)
      BY <2>2 DEF AtHeaders, InRequest, g, k
    <2>17. Got' = Got /\ sent' = sent
      BY <1>2 DEF Got
    <2>18. InRequest'
      BY <1>4, <2>15, <2>16, <2>17 DEF InRequest, g, k
    <2>19. tag[m + 1] = <<g, 5>>
      BY <1>m, <2>12, <2>13
    <2>20. g = Got' + 1 /\ k = sent'[Got' + 1]
      BY <2>17 DEF g, k
    <2> QED
      BY <2>8, <2>14, <2>15, <2>18, <2>19, <2>20, Zenon DEF AtHeaders
  <1>8. (Healthy => Phase(tag[m + 1]))'
    BY <1>2, <1>7 DEF Phase
  <1>9. buf' = SubSeq(buf, m + 1, Len(buf)) /\ net' = net /\ sent' = sent
        /\ dispatched' = dispatched
    BY <1>2, <1>m DEF RestOfBuffer
  <1>10. state_ # "ExpectRequestLine" /\ state_' # "ExpectRequestLine"
    BY <1>2
  <1> HIDE DEF Named, hasColon
  <1> QED
    BY <1>1, <1>4, <1>8, <1>9, <1>10, ParserMoves

LEMMA BlankLineStep ==
  ASSUME HttpInv, StreamInv, ParseBlankLine
  PROVE  StreamInv'
  <1>1. PICK tag : /\ Labels(Unread, sent, tag)
                   /\ Healthy => Phase(tag[1])
                   /\ Ordered(tag[1])
    BY DEF StreamInv
  <1>2. /\ pc = "parsing"
        /\ state_ = "ExpectHeaders"
        /\ FindCRLF = 1
        /\ buf' = RestOfBuffer
        /\ UNCHANGED <<environment, sent, net, tcp, dispatched, wire, rejected>>
    BY Zenon DEF ParseBlankLine
  <1>3. \/ /\ request_.method_ # "POST"
           /\ state_' = "GotAll"
           /\ pc' = "parsed" /\ ok' = ok
           /\ request_' = request_
        \/ /\ request_.method_ = "POST"
           /\ ContentLengths(request_) = {}
           /\ ok' = FALSE /\ pc' = "parsed"
           /\ state_' = state_
           /\ request_' = request_
        \/ /\ request_.method_ = "POST"
           /\ \E cl \in ContentLengths(request_) :
                 LET n == LengthRead(cl) IN
                 /\ request_' = [request_ EXCEPT !.contentLength_ = n]
                 /\ state_' = IF n # 0 THEN "ExpectBody" ELSE "GotAll"
                 /\ pc' = IF n # 0 THEN "parsing" ELSE "parsed"
           /\ ok' = ok
    BY Zenon DEF ParseBlankLine
  <1>4. request_'.id = request_.id /\ request_'.method_ = request_.method_
        /\ request_'.headers_ = request_.headers_
    <2>1. request_' = request_ \/ \E n \in Lengths : request_' = [request_ EXCEPT !.contentLength_ = n]
      BY <1>3, LengthTyped
    <2>2. request_ \in Requests
      BY DEF HttpInv
    <2> QED
      BY <2>1, <2>2 DEF Requests
  <1>5. buf \in Seq(Atoms) /\ Len(buf) \in Nat
    BY LenProperties DEF HttpInv, TypeOK
  <1>6. 1 \in 1..Len(buf) /\ 1 \in 0..Len(buf) /\ buf[1].t = "crlf"
    <2>1. FindCRLF \in 1..Len(buf) /\ buf[FindCRLF].t = "crlf"
      BY <1>2, <1>5, CrlfFound
    <2> QED
      BY <1>2, <1>5, <2>1
  <1>7. Got' = Got /\ sent' = sent
    BY <1>2 DEF Got
  <1>8. state_' # "ExpectRequestLine"
    BY <1>2, <1>3
  <1> DEFINE g == Got + 1
             k == sent[g]
             W == Whole(k, g)
  <1>9. ASSUME Healthy' PROVE Phase(tag[1 + 1])'
    <2>1. AtHeaders(tag[1])
      <3>1. Healthy
        BY <1>2, <1>9 DEF Healthy
      <3> QED
        BY <1>1, <1>2, <3>1 DEF Phase
    <2>p. request_.method_ = "POST" =>
             \E cl \in ContentLengths(request_) :
                LET n == LengthRead(cl) IN
                /\ request_' = [request_ EXCEPT !.contentLength_ = n]
                /\ state_' = IF n # 0 THEN "ExpectBody" ELSE "GotAll"
      <3>1. ~ (ok' = FALSE /\ pc' = "parsed")
        BY <1>9 DEF Healthy
      <3> HIDE DEF g, k, W
      <3> QED
        BY <1>3, <3>1
    <2>2. InRequest'
      BY <1>4, <1>7, <2>1 DEF AtHeaders, InRequest
    <2>3. /\ request_.method_ = RequestLine(k) /\ g <= Len(sent) /\ k # "badLine"
          /\ \/ tag[1] = <<g, 3>> /\ request_.headers_ = {}
             \/ /\ tag[1] = <<g, 5>>
                /\ k \notin {"badHeader", "postNoLength"}
                /\ request_.headers_ = {<<FirstHeader(k), g>>}
      BY <2>1, Zenon DEF AtHeaders, InRequest
    <2>4. W = Whole(sent[g], g) /\ k = sent[g] /\ g = Got + 1
      OBVIOUS
    <2>5. g \in Nat
      BY LenProperties DEF HttpInv, Got
    <2> HIDE DEF g, k, W
    <2>6. k \in AnyKind /\ (tag[1] = <<g, 3>> => buf[1] = W[3])
          /\ (tag[1] = <<g, 5>> /\ 5 < Len(W) => tag[1 + 1] = <<g, 5 + 1>>)
          /\ (tag[1] = <<g, 5>> /\ ~ (5 < Len(W)) => tag[1 + 1] = <<g + 1, 1>>)
      BY <1>1, <1>6, <2>3, <2>4, AtPlace
    <2>7. CRLF.t = "crlf" /\ \A t, i : Atom(t, i).t = t /\ Atom(t, i).id = i
      BY DEF CRLF, Atom
    <2>8. tag[1] = <<g, 5>> /\ k \notin {"badHeader", "postNoLength"}
          /\ request_.headers_ = {<<FirstHeader(k), g>>}
      <3>1. CASE tag[1] = <<g, 3>> /\ request_.headers_ = {}
        <4>1. k # "postNoLength" => buf[1] = Atom(FirstHeader(k), g)
          BY <2>4, <2>6, <3>1, WholeAtoms
        <4>2. FirstHeader(k) # "crlf"
          BY DEF FirstHeader
        <4>3. k = "postNoLength"
          BY <1>6, <2>7, <4>1, <4>2
        <4>4. request_.method_ = "POST"
          BY <2>3, <4>3 DEF RequestLine
        <4>5. ContentLengths(request_) = {}
          BY <3>1 DEF ContentLengths
        <4> QED
          BY <2>p, <4>4, <4>5
      <3> QED
        BY <2>3, <3>1
    <2>9. Len(W) = IF k \in {"getBody", "post"} THEN 7 ELSE 5
      BY <2>4, <2>6, <2>8, WholeAtoms
    <2>10. tag[1 + 1] = IF k \in {"getBody", "post"} THEN <<g, 6>> ELSE <<g + 1, 1>>
      BY <2>6, <2>8, <2>9
    <2>11. ContentLengths(request_) = {FirstHeader(k)} \intersect LengthHeaders
      <3>1. {h[1] : h \in {<<FirstHeader(k), g>>}} = {FirstHeader(k)}
        OBVIOUS
      <3> QED
        BY <2>8, <3>1, Zenon DEF ContentLengths
    <2>12. g = Got' + 1 /\ k = sent'[Got' + 1] /\ g + 1 = Got' + 2
      BY <1>7, <2>4, LenProperties DEF HttpInv, Got
    <2>13. CASE request_.method_ # "POST"
      <3>1. state_' = "GotAll"
        BY <1>3, <2>13
      <3>2. k # "post" /\ k # "postEmpty"
        BY <2>3, <2>13 DEF RequestLine
      <3>3. AtEnd(tag[1 + 1])'
        BY <2>2, <2>10, <2>12, <3>2, Zenon DEF AtEnd
      <3> QED
        BY <3>1, <3>3, Zenon DEF Phase
    <2>14. CASE request_.method_ = "POST"
      <3>1. k \in {"post", "postEmpty", "postNegative"}
        BY <2>3, <2>6, <2>8, <2>14 DEF RequestLine, AnyKind
      <3>2. PICK cl \in ContentLengths(request_) :
               LET n == LengthRead(cl) IN
               /\ request_' = [request_ EXCEPT !.contentLength_ = n]
               /\ state_' = IF n # 0 THEN "ExpectBody" ELSE "GotAll"
        BY <2>p, <2>14
      <3>3. cl = FirstHeader(k)
        BY <2>11, <3>2
      <3>4. CASE k = "post"
        <4>1. cl = "Content-Length:2"
          BY <3>3, <3>4 DEF FirstHeader
        <4>2. request_' = [request_ EXCEPT !.contentLength_ = BodySize] /\ state_' = "ExpectBody"
          BY <3>2, <4>1 DEF LengthRead, BodySize
        <4>3. request_'.contentLength_ = BodySize
          BY <4>2 DEF HttpInv, Requests
        <4>4. AtBody(tag[1 + 1])'
          BY <2>2, <2>10, <2>12, <3>4, <4>3, Zenon DEF AtBody, BodySize
        <4> QED
          BY <4>2, <4>4, Zenon DEF Phase
      <3>5. CASE k = "postEmpty"
        <4>1. cl = "Content-Length:0"
          BY <3>3, <3>5 DEF FirstHeader
        <4>2. state_' = "GotAll"
          BY <3>2, <4>1 DEF LengthRead
        <4>3. AtEnd(tag[1 + 1])'
          <5>1. tag[1 + 1] = <<g + 1, 1>> /\ k # "post"
            BY <2>10, <3>5
          <5> QED
            BY <2>2, <2>12, <5>1, Zenon DEF AtEnd
        <4> QED
          BY <4>2, <4>3, Zenon DEF Phase
      <3>6. CASE k = "postNegative"
        <4>1. cl = "Content-Length:-1"
          BY <3>3, <3>6 DEF FirstHeader
        <4>2. LengthRead(cl) = Wrapped /\ Wrapped # 0
          BY <4>1 DEF LengthRead, Wrapped
        <4>3. request_' = [request_ EXCEPT !.contentLength_ = Wrapped] /\ state_' = "ExpectBody"
          BY <3>2, <4>2
        <4>4. request_'.contentLength_ = Wrapped
          BY <4>3 DEF HttpInv, Requests
        <4>5. tag[1 + 1] = <<g + 1, 1>>
          BY <2>10, <3>6
        <4>6. Stuck(tag[1 + 1])'
          BY <2>2, <2>12, <3>6, <4>4, <4>5, Zenon DEF Stuck
        <4> QED
          BY <4>3, <4>6, Zenon DEF Phase
      <3> QED
        BY <3>1, <3>4, <3>5, <3>6
    <2> QED
      BY <2>13, <2>14
  <1>10. (Healthy => Phase(tag[1 + 1]))'
    BY <1>9
  <1>11. buf' = SubSeq(buf, 1 + 1, Len(buf)) /\ net' = net /\ sent' = sent
         /\ dispatched' = dispatched /\ state_ # "ExpectRequestLine"
    BY <1>2 DEF RestOfBuffer
  <1> HIDE DEF g, k, W
  <1> QED
    BY <1>1, <1>4, <1>6, <1>8, <1>10, <1>11, ParserMoves

LEMMA BodyStep ==
  ASSUME HttpInv, StreamInv, ParseBody
  PROVE  StreamInv'
  <1>1. PICK tag : /\ Labels(Unread, sent, tag)
                   /\ Healthy => Phase(tag[1])
                   /\ Ordered(tag[1])
    BY DEF StreamInv
  <1> DEFINE n == request_.contentLength_
  <1>2. /\ pc = "parsing" /\ pc' = "parsed"
        /\ state_ = "ExpectBody"
        /\ UNCHANGED <<environment, sent, net, tcp, dispatched, wire, rejected>>
    BY Zenon DEF ParseBody
  <1>3. buf \in Seq(Atoms) /\ Len(buf) \in Nat
    BY LenProperties DEF HttpInv, TypeOK
  <1>4. Got' = Got /\ sent' = sent
    BY <1>2 DEF Got
  <1>5. CASE BodyLacks
    <2>1. ok' = TRUE /\ UNCHANGED <<buf, state_, request_>>
      BY <1>5, Zenon DEF ParseBody
    <2>2. Labels(Unread, sent, tag)'
      BY <1>1, <1>2, <2>1 DEF Labels, NextPlace, Unread
    <2>3. Ordered(tag[1])'
      BY <1>1, <1>2, <1>4, <2>1 DEF Ordered, Before
    <2>4. (Healthy => Phase(tag[1]))'
      <3>1. Healthy' => Healthy
        BY <1>2 DEF Healthy
      <3>2. Phase(tag[1]) <=> Phase(tag[1])'
        BY <1>2, <1>4, <2>1, Zenon
           DEF Phase, AtRequestLine, AtHeaders, AtBody, Stuck, AtEnd, InRequest
      <3> QED
        BY <1>1, <3>1, <3>2
    <2> QED
      BY <1>2, <2>1, <2>2, <2>3, <2>4, Zenon DEF StreamInv
  <1>6. CASE ~ BodyLacks
    <2>n. n \in Nat /\ Len(buf) >= n /\ n # Wrapped
      BY <1>3, <1>6 DEF BodyLacks, HttpInv, TypeOK, Lengths
    <2>1. /\ request_' = [request_ EXCEPT !.content_ = SubSeq(buf, 1, n)]
          /\ buf' = SubSeq(buf, n + 1, Len(buf))
          /\ state_' = "GotAll" /\ ok' = ok
      BY <1>6, Zenon DEF ParseBody
    <2>2. /\ request_'.id = request_.id /\ request_'.method_ = request_.method_
          /\ request_'.headers_ = request_.headers_ /\ request_'.content_ = SubSeq(buf, 1, n)
      <3>1. request_ \in Requests
        BY DEF HttpInv
      <3> HIDE DEF n
      <3> QED
        BY <2>1, <3>1 DEF Requests
    <2>m. PICK m \in 0..Len(buf) : m = n
      <3>1. n \in 0..Len(buf)
        BY <1>3, <2>n
      <3> HIDE DEF n
      <3> QED
        BY <3>1
    <2> DEFINE g == Got + 1
               k == sent[g]
    <2>3. ASSUME Healthy' PROVE AtEnd(tag[m + 1])'
      <3>1. AtBody(tag[1])
        BY <1>1, <1>2, <2>3, <2>n DEF Healthy, Phase, Stuck
      <3>2. k = "post" /\ n = 2 /\ tag[1] = <<g, 6>>
        BY <3>1 DEF AtBody, BodySize
      <3>3. k = sent[g] /\ g = Got + 1
        OBVIOUS
      <3> HIDE DEF g, k
      <3>4. 1 \in 1..Len(buf) /\ 2 \in 1..Len(buf)
        BY <1>3, <2>n, <3>2
      <3>5. /\ Len(Whole(k, g)) = 7
            /\ Whole(k, g)[6] = Atom("byte", g) /\ Whole(k, g)[7] = Atom("byte", g)
        BY <3>2, WholeAtoms DEF AnyKind
      <3>6. buf[1] = Atom("byte", g) /\ tag[2] = <<g, 7>>
        <4>1. buf[1] = Whole(k, g)[6]
              /\ (6 < Len(Whole(k, g)) => tag[1 + 1] = <<g, 6 + 1>>)
          BY <1>1, <3>2, <3>3, <3>4, AtPlace
        <4>2. 6 < Len(Whole(k, g)) /\ 1 + 1 = 2 /\ 6 + 1 = 7
          BY <3>5
        <4>3. tag[2] = <<g, 7>>
          BY <4>1, <4>2
        <4> QED
          BY <3>5, <4>1, <4>3
      <3>7. buf[2] = Atom("byte", g) /\ tag[3] = <<g + 1, 1>>
        <4>1. buf[2] = Whole(k, g)[7]
              /\ (~ (7 < Len(Whole(k, g))) => tag[2 + 1] = <<g + 1, 1>>)
          BY <1>1, <3>3, <3>4, <3>6, AtPlace
        <4>2. ~ (7 < Len(Whole(k, g))) /\ 2 + 1 = 3
          BY <3>5
        <4>3. tag[3] = <<g + 1, 1>>
          BY <4>1, <4>2
        <4> QED
          BY <3>5, <4>1, <4>3
      <3>8. SubSeq(buf, 1, 2) = <<buf[1], buf[2]>>
        <4>1. SubSeq(buf, 1, 2) \in Seq(Atoms) /\ Len(SubSeq(buf, 1, 2)) = 2
              /\ SubSeq(buf, 1, 2)[1] = buf[1] /\ SubSeq(buf, 1, 2)[2] = buf[2]
          <5>1. \A j \in 1..2 : buf[j] \in Atoms
            <6>1. \A j \in 1..2 : j \in 1..Len(buf)
              BY <1>3, <3>4
            <6> QED
              BY <1>3, <6>1, ElementOfSeq
          <5>2. /\ SubSeq(buf, 1, 2) \in Seq(Atoms)
                /\ Len(SubSeq(buf, 1, 2)) = IF 1 <= 2 THEN 2 - 1 + 1 ELSE 0
                /\ \A j \in 1..2 - 1 + 1 : SubSeq(buf, 1, 2)[j] = buf[1 + j - 1]
            BY <5>1, SubSeqProperties
          <5> QED
            BY <5>2
        <4>2. <<buf[1], buf[2]>> \in Seq(Atoms)
          <5>1. buf[1] \in Atoms /\ buf[2] \in Atoms
            BY <1>3, <3>4, ElementOfSeq
          <5> HIDE DEF Atoms
          <5> QED
            BY <5>1
        <4>3. Len(<<buf[1], buf[2]>>) = 2 /\ <<buf[1], buf[2]>>[1] = buf[1]
              /\ <<buf[1], buf[2]>>[2] = buf[2]
          OBVIOUS
        <4>4. \A j \in 1..2 : SubSeq(buf, 1, 2)[j] = <<buf[1], buf[2]>>[j]
          BY <4>1, <4>3
        <4> QED
          BY <4>1, <4>2, <4>3, <4>4, SeqEqual
      <3>9. request_'.content_ = Bytes(g)
        BY <2>2, <3>2, <3>6, <3>7, <3>8 DEF Bytes, Atom
      <3>10. g = Got' + 1 /\ k = sent'[Got' + 1] /\ g + 1 = Got' + 2
        BY <1>4, <3>3, LenProperties DEF HttpInv, Got
      <3>11. InRequest'
        BY <1>4, <2>2, <3>1 DEF AtBody, InRequest
      <3>12. tag[m + 1] = <<Got' + 2, 1>>
        BY <2>m, <3>2, <3>7, <3>10
      <3>13. request_'.content_ = Bytes(Got' + 1)
        BY <3>9, <3>10
      <3> QED
        BY <3>11, <3>12, <3>13, Zenon DEF AtEnd, Bytes
    <2>4. (Healthy => Phase(tag[m + 1]))'
      BY <2>1, <2>3 DEF Phase
    <2>5. buf' = SubSeq(buf, m + 1, Len(buf)) /\ net' = net /\ sent' = sent
          /\ dispatched' = dispatched /\ state_ # "ExpectRequestLine"
          /\ state_' # "ExpectRequestLine"
      BY <1>2, <2>1, <2>m
    <2> HIDE DEF n, g, k
    <2> QED
      BY <1>1, <2>2, <2>4, <2>5, ParserMoves
  <1> QED
    BY <1>5, <1>6

(* What the client has to have sent for the parser to be where it is.      *)
LEMMA PhaseGrown ==
  ASSUME HttpInv, NEW k \in Kinds, ClientSends(k), NEW pos, Phase(pos)
  PROVE  Phase(pos)'
  <1>1. /\ Len(sent') = Len(sent) + 1
        /\ \A i \in 1..Len(sent) : sent'[i] = sent[i]
    BY SendsTyped
  <1>2. Len(sent) \in Nat /\ Got \in Nat
    BY LenProperties DEF HttpInv, TypeOK, Got
  <1>3. UNCHANGED <<state_, request_, dispatched>> /\ Got' = Got
    BY DEF ClientSends, Got
  <1>4. Got + 1 <= Len(sent) => sent'[Got + 1] = sent[Got + 1] /\ Got + 1 <= Len(sent')
    BY <1>1, <1>2
  <1>5. Got >= 1 /\ Got <= Len(sent) => sent'[Got] = sent[Got] /\ Got <= Len(sent')
    BY <1>1, <1>2
  <1>6. InRequest => InRequest'
    BY <1>3, <1>4 DEF InRequest
  <1>7. AtRequestLine(pos) => AtRequestLine(pos)'
    BY <1>3, <1>5, Zenon DEF AtRequestLine
  <1>8. InRequest => sent'[Got + 1] = sent[Got + 1]
    BY <1>4 DEF InRequest
  <1>9. AtHeaders(pos) => AtHeaders(pos)'
    BY <1>3, <1>6, <1>8, Zenon DEF AtHeaders
  <1>10. AtBody(pos) => AtBody(pos)'
    BY <1>3, <1>6, <1>8, Zenon DEF AtBody, BodySize
  <1>s. Stuck(pos) => Stuck(pos)'
    BY <1>3, <1>6, <1>8, Zenon DEF Stuck
  <1>11. AtEnd(pos) => AtEnd(pos)'
    BY <1>3, <1>6, <1>8, Zenon DEF AtEnd, Bytes
  <1> QED
    BY <1>3, <1>7, <1>9, <1>10, <1>s, <1>11, Zenon DEF Phase

(* A step that touches neither the stream nor the parser.                  *)
LEMMA ParserKept ==
  ASSUME StreamInv, Unread' = Unread, sent' = sent, UNCHANGED <<state_, request_, dispatched>>,
         Healthy' => Healthy
  PROVE  StreamInv'
  <1>1. PICK tag : /\ Labels(Unread, sent, tag)
                   /\ Healthy => Phase(tag[1])
                   /\ Ordered(tag[1])
    BY DEF StreamInv
  <1>2. Got' = Got
    BY DEF Got
  <1>3. Labels(Unread', sent', tag)
    BY <1>1
  <1>4. Phase(tag[1]) => Phase(tag[1])'
    BY <1>2, Zenon DEF Phase, AtRequestLine, AtHeaders, AtBody, Stuck, AtEnd, InRequest
  <1>5. Ordered(tag[1])'
    BY <1>1, <1>2 DEF Ordered, Before
  <1> QED
    BY <1>1, <1>3, <1>4, <1>5, Zenon DEF StreamInv

LEMMA StreamInvNext == HttpInv /\ StreamInv /\ [Next]_vars => StreamInv'
  <1> SUFFICES ASSUME HttpInv, StreamInv, [Next]_vars PROVE StreamInv'
    OBVIOUS
  <1>1. CASE UNCHANGED vars
    <2>1. UNCHANGED <<buf, net, sent, state_, request_, dispatched, rejected, pc, ok>>
      BY <1>1 DEF vars
    <2>2. Unread' = Unread /\ (Healthy' => Healthy)
      BY <2>1, Zenon DEF Unread, Healthy
    <2> QED
      BY <2>1, <2>2, ParserKept
  <1>2. ASSUME NEW k \in Kinds, ClientSends(k) PROVE StreamInv'
    <2>1. PICK tag : /\ Labels(Unread, sent, tag)
                     /\ Healthy => Phase(tag[1])
                     /\ Ordered(tag[1])
      BY DEF StreamInv
    <2> DEFINE W == Whole(k, Len(sent) + 1)
    <2>2. /\ k \in AnyKind /\ sent \in Seq(AnyKind)
          /\ net' = net \o W /\ W \in Seq(Atoms) /\ sent' = Append(sent, k)
      BY <1>2, SendsTyped
    <2>3. UNCHANGED <<buf, pc, ok, state_, request_, dispatched, rejected>> /\ Got' = Got
      BY <1>2 DEF ClientSends, Got
    <2>4. Unread \in Seq(Atoms)
      BY ConcatProperties DEF HttpInv, TypeOK, Unread
    <2>5. Unread' = Unread \o W
      <3>1. buf \in Seq(Atoms) /\ net \in Seq(Atoms)
        BY DEF HttpInv, TypeOK
      <3> HIDE DEF W
      <3>2. (buf \o net) \o W = buf \o (net \o W)
        BY <2>2, <3>1, ConcatAssociative
      <3> QED
        BY <2>2, <2>3, <3>2 DEF Unread
    <2>6. PICK more : Labels(Unread \o W, Append(sent, k), more) /\ more[1] = tag[1]
      BY <2>1, <2>2, <2>4, Grown
    <2>7. Labels(Unread', sent', more)
      BY <2>2, <2>5, <2>6
    <2>8. (Healthy => Phase(more[1]))'
      <3>1. Healthy' => Healthy
        BY <2>3 DEF Healthy
      <3>2. Phase(more[1]) => Phase(more[1])'
        BY <1>2, PhaseGrown
      <3> QED
        BY <2>1, <2>6, <3>1, <3>2
    <2>9. Ordered(more[1])'
      BY <2>1, <2>3, <2>6 DEF Ordered, Before
    <2>10. (state_ = "ExpectRequestLine" => request_.headers_ = {})'
      BY <2>3 DEF StreamInv
    <2> QED
      BY <2>7, <2>8, <2>9, <2>10, Zenon DEF StreamInv
  <1>3. CASE OnMessage
    <2>1. Unread' = Unread
      BY <1>3, Delivered DEF Unread
    <2>2. UNCHANGED <<sent, state_, request_, dispatched, rejected>> /\ pc = "poll"
      BY <1>3 DEF OnMessage
    <2>3. Healthy' => Healthy
      BY <2>2 DEF Healthy
    <2> QED
      BY <2>1, <2>2, <2>3, ParserKept
  <1>4. CASE ParseRequestLine
    BY <1>4, RequestLineStep
  <1>5. CASE ParseHeader
    BY <1>5, HeaderStep
  <1>6. CASE ParseBlankLine
    BY <1>6, BlankLineStep
  <1>7. CASE ParseBody
    BY <1>7, BodyStep
  <1>8. CASE SpinWithoutCRLF
    BY <1>1, <1>8 DEF SpinWithoutCRLF
  <1>9. CASE Reject
    <2>1. UNCHANGED <<buf, net, sent, state_, request_, dispatched>> /\ rejected' = TRUE
      BY <1>9 DEF Reject
    <2>2. Unread' = Unread /\ ~ Healthy'
      BY <2>1 DEF Unread, Healthy
    <2> QED
      BY <2>1, <2>2, ParserKept
  <1>10. CASE OnRequest
    <2>1. PICK tag : /\ Labels(Unread, sent, tag)
                     /\ Healthy => Phase(tag[1])
                     /\ Ordered(tag[1])
      BY DEF StreamInv
    <2>2. /\ pc = "parsed" /\ ok /\ state_ = "GotAll" /\ state_' = "ExpectRequestLine"
          /\ dispatched' = Append(dispatched, request_)
          /\ UNCHANGED <<buf, net, sent, rejected>>
      BY <1>10 DEF OnRequest, Reset
    <2>3. request_'.headers_ = {}
      BY <1>10 DEF OnRequest, Reset, NewRequest
    <2>4. dispatched \in Seq(Requests) /\ request_ \in Requests
      BY DEF HttpInv
    <2>5. Got \in Nat /\ Got' = Got + 1 /\ dispatched'[Got + 1] = request_
          /\ \A d \in 1..Got : dispatched'[d] = dispatched[d]
      BY <2>2, <2>4, AppendProperties, LenProperties DEF Got
    <2>6. Labels(Unread', sent', tag)
      <3>1. Unread' = Unread
        BY <2>2 DEF Unread
      <3> QED
        BY <2>1, <2>2, <3>1
    <2>7. Ordered(tag[1])'
      <3>1. \A d \in 1..Got' : d \in 1..Got \/ d = Got + 1
        BY <2>5
      <3>2. /\ \A d \in 1..Got : Before(dispatched[d].id, tag[1]) /\ dispatched[d].id < request_.id
            /\ \A d, e \in 1..Got : d < e => dispatched[d].id < dispatched[e].id
            /\ Before(request_.id, tag[1])
        BY <2>1, <2>2 DEF Ordered
      <3>3. \A i : Before(i, tag[1])' <=> Before(i, tag[1])
        BY DEF Before
      <3>4. \A d \in 1..Got' : Before(dispatched'[d].id, tag[1])
        BY <2>5, <3>1, <3>2
      <3>5. ASSUME NEW d \in 1..Got', NEW e \in 1..Got', d < e
            PROVE  dispatched'[d].id < dispatched'[e].id
        <4>1. d \in 1..Got
          BY <2>5, <3>5
        <4>2. CASE e \in 1..Got
          BY <2>5, <3>2, <3>5, <4>1, <4>2
        <4>3. CASE e = Got + 1
          BY <2>5, <3>2, <4>1, <4>3
        <4> QED
          BY <3>1, <4>2, <4>3
      <3> QED
        BY <2>2, <3>4, <3>5 DEF Ordered, Before
    <2>8. (Healthy => Phase(tag[1]))'
      <3> SUFFICES ASSUME Healthy' PROVE AtRequestLine(tag[1])'
        BY <2>2 DEF Phase
      <3>1. AtEnd(tag[1])
        BY <2>1, <2>2 DEF Healthy, Phase
      <3>2. Got + 1 <= Len(sent) /\ (\/ tag[1] = <<Got + 2, 1>>
                                     \/ sent[Got + 1] = "getBody" /\ tag[1] = <<Got + 1, 6>>)
        BY <3>1 DEF AtEnd, InRequest
      <3>3. Got' + 1 = Got + 2 /\ Got' >= 1
        BY <2>5
      <3>4. sent' = sent /\ Got' = Got + 1
        BY <2>2, <2>5
      <3> QED
        BY <3>2, <3>3, <3>4 DEF AtRequestLine
    <2> QED
      BY <2>3, <2>6, <2>7, <2>8, Zenon DEF StreamInv
  <1>11. CASE AwaitMore
    <2>1. UNCHANGED <<buf, net, sent, state_, request_, dispatched, rejected>> /\ ok /\ pc = "parsed"
      BY <1>11 DEF AwaitMore
    <2>2. Unread' = Unread /\ (Healthy' => Healthy)
      BY <2>1 DEF Unread, Healthy
    <2> QED
      BY <2>1, <2>2, ParserKept
  <1> QED
    BY <1>1, <1>2, <1>3, <1>4, <1>5, <1>6, <1>7, <1>8, <1>9, <1>10, <1>11, Zenon
       DEF Next, Server, ParseStep

(* The wire has the answers of the requests handled, in order, as long as  *)
(* the connection is open.                                                 *)
AnsweredInv ==
    /\ tcp = "connected" => ~rejected /\ Len(wire) = Got
    /\ ResponsePairing

FramingInv ==
    /\ ~rejected => Got <= Len(sent)
    /\ Framing

(* When a request is handed over and nothing was rejected, it is the next. *)
LEMMA NextInLine ==
  ASSUME HttpInv, StreamInv, OnRequest, ~rejected
  PROVE  /\ Got + 1 <= Len(sent)
         /\ request_.id = Got + 1
         /\ \A h \in request_.headers_ : h[2] = Got + 1
  <1>1. PICK tag : Healthy => Phase(tag[1])
    BY DEF StreamInv
  <1>2. Healthy /\ state_ = "GotAll"
    BY DEF OnRequest, Healthy
  <1>3. AtEnd(tag[1])
    BY <1>1, <1>2 DEF Phase
  <1> QED
    BY <1>3 DEF AtEnd, InRequest

LEMMA AnsweredNext == HttpInv /\ StreamInv /\ AnsweredInv /\ [Next]_vars => AnsweredInv'
  <1> SUFFICES ASSUME HttpInv, StreamInv, AnsweredInv, [Next]_vars PROVE AnsweredInv'
    OBVIOUS
  <1>1. Len(wire) \in Nat /\ wire \in Seq(0..MaxRequests) /\ Got \in Nat
    BY LenProperties DEF HttpInv, TypeOK, Got
  <1>2. ASSUME UNCHANGED <<tcp, wire, dispatched, rejected>> PROVE AnsweredInv'
    BY <1>2 DEF AnsweredInv, ResponsePairing, Got
  <1>3. ASSUME NEW r \in 0..MaxRequests, Send(r), tcp = "connected" => r \in {0, Len(wire) + 1}
        PROVE  ResponsePairing'
    <2>1. CASE tcp = "connected"
      <3>1. wire' = Append(wire, r)
        BY <1>3, <2>1 DEF Send
      <3>2. /\ Len(wire') = Len(wire) + 1 /\ wire'[Len(wire) + 1] = r
            /\ \A i \in 1..Len(wire) : wire'[i] = wire[i]
        BY <1>1, <3>1, AppendProperties
      <3>3. \A i \in 1..Len(wire') : i \in 1..Len(wire) \/ i = Len(wire) + 1
        BY <1>1, <3>2
      <3> QED
        BY <1>3, <2>1, <3>2, <3>3 DEF AnsweredInv, ResponsePairing
    <2>2. CASE tcp # "connected"
      <3>1. wire' = wire
        BY <1>3, <2>2 DEF Send
      <3> QED
        BY <3>1 DEF AnsweredInv, ResponsePairing
    <2> QED
      BY <2>1, <2>2
  <1>4. CASE Reject
    <2>1. tcp' = "disconnecting" /\ Send(0) /\ 0 \in 0..MaxRequests
      BY <1>4, HttpAssumption DEF Reject
    <2>2. ResponsePairing'
      BY <1>3, <2>1
    <2> QED
      BY <2>1, <2>2 DEF AnsweredInv
  <1>5. CASE OnRequest
    <2>1. /\ Send(request_.id) /\ dispatched' = Append(dispatched, request_)
          /\ tcp' \in {"disconnecting", tcp} /\ rejected' = rejected
      BY <1>5 DEF OnRequest
    <2>2. request_.id \in 0..MaxRequests /\ request_ \in Requests /\ dispatched \in Seq(Requests)
      BY DEF HttpInv, Requests
    <2>3. tcp = "connected" => request_.id = Len(wire) + 1 /\ ~ rejected
      BY <1>5, NextInLine DEF AnsweredInv
    <2>4. ResponsePairing'
      BY <1>3, <2>1, <2>2, <2>3
    <2>5. Got' = Got + 1
      BY <2>1, <2>2, AppendProperties DEF Got
    <2>6. tcp = "connected" => Len(wire') = Len(wire) + 1
      BY <1>1, <2>1, <2>2, AppendProperties DEF Send
    <2> QED
      BY <2>1, <2>3, <2>4, <2>5, <2>6 DEF AnsweredInv
  <1>6. ASSUME ~ Reject, ~ OnRequest PROVE UNCHANGED <<tcp, wire, dispatched, rejected>>
    <2>1. CASE UNCHANGED vars
      BY <2>1 DEF vars
    <2>2. ASSUME NEW k \in Kinds, ClientSends(k) PROVE UNCHANGED <<tcp, wire, dispatched, rejected>>
      BY <2>2 DEF ClientSends
    <2>3. OnMessage => UNCHANGED <<tcp, wire, dispatched, rejected>>
      BY DEF OnMessage
    <2>4. ParseRequestLine => UNCHANGED <<tcp, wire, dispatched, rejected>>
      BY Zenon DEF ParseRequestLine
    <2>5. ParseHeader => UNCHANGED <<tcp, wire, dispatched, rejected>>
      BY Zenon DEF ParseHeader
    <2>6. ParseBlankLine => UNCHANGED <<tcp, wire, dispatched, rejected>>
      BY Zenon DEF ParseBlankLine
    <2>7. ParseBody => UNCHANGED <<tcp, wire, dispatched, rejected>>
      BY Zenon DEF ParseBody
    <2>8. SpinWithoutCRLF => UNCHANGED <<tcp, wire, dispatched, rejected>>
      BY DEF SpinWithoutCRLF, vars
    <2>9. AwaitMore => UNCHANGED <<tcp, wire, dispatched, rejected>>
      BY DEF AwaitMore
    <2> QED
      BY <1>6, <2>1, <2>2, <2>3, <2>4, <2>5, <2>6, <2>7, <2>8, <2>9, Zenon
         DEF Next, Server, ParseStep
  <1> QED
    BY <1>2, <1>4, <1>5, <1>6, Zenon

(* content_ while the parser works: of the requests handled, or with a     *)
(* complete one, of that one too.                                          *)
Filled == IF state_ = "GotAll" THEN Got + 1 ELSE Got

ContentInv == Healthy => LastBody(sent, Filled, request_.content_)

(* What LastBody says depends on the first i requests only. *)
LEMMA LastBodyKept ==
  ASSUME NEW ks, NEW all, NEW i, \A j \in 1..i : all[j] = ks[j], NEW content,
         LastBody(ks, i, content), i \in Nat
  PROVE  LastBody(all, i, content)
  <1>1. CASE content = <<>> /\ \A j \in 1..i : ks[j] # "post"
    BY <1>1 DEF LastBody
  <1>2. CASE \E j \in 1..i : /\ ks[j] = "post" /\ content = Bytes(j)
                            /\ \A l \in j + 1..i : ks[l] # "post"
    <2>1. PICK j \in 1..i : /\ ks[j] = "post" /\ content = Bytes(j)
                            /\ \A l \in j + 1..i : ks[l] # "post"
      BY <1>2
    <2>2. \A l \in j + 1..i : l \in 1..i
      BY <2>1
    <2>3. all[j] = "post" /\ \A l \in j + 1..i : all[l] # "post"
      BY <2>1, <2>2
    <2> QED
      BY <2>1, <2>3 DEF LastBody
  <1> QED
    BY <1>1, <1>2 DEF LastBody

(* One request more: its own body, or the one that was there.              *)
LEMMA LastBodyNext ==
  ASSUME NEW ks, NEW i \in Nat, NEW old, LastBody(ks, i, old), NEW content,
         ks[i + 1] = "post" => content = Bytes(i + 1),
         ks[i + 1] # "post" => content = old
  PROVE  LastBody(ks, i + 1, content)
  <1>1. CASE ks[i + 1] = "post"
    <2>1. i + 1 \in 1..i + 1 /\ (i + 1) + 1..i + 1 = {}
      OBVIOUS
    <2> QED
      BY <1>1, <2>1 DEF LastBody
  <1>2. CASE ks[i + 1] # "post"
    <2>1. CASE old = <<>> /\ \A j \in 1..i : ks[j] # "post"
      <3>1. \A j \in 1..i + 1 : j \in 1..i \/ j = i + 1
        OBVIOUS
      <3> QED
        BY <1>2, <2>1, <3>1 DEF LastBody
    <2>2. CASE \E j \in 1..i : /\ ks[j] = "post" /\ old = Bytes(j)
                              /\ \A l \in j + 1..i : ks[l] # "post"
      <3>1. PICK j \in 1..i : /\ ks[j] = "post" /\ old = Bytes(j)
                              /\ \A l \in j + 1..i : ks[l] # "post"
        BY <2>2
      <3>2. j \in 1..i + 1 /\ \A l \in j + 1..i + 1 : l \in j + 1..i \/ l = i + 1
        BY <3>1
      <3>3. \A l \in j + 1..i + 1 : ks[l] # "post"
        BY <1>2, <3>1, <3>2
      <3> QED
        BY <1>2, <3>1, <3>2, <3>3 DEF LastBody
    <2> QED
      BY <2>1, <2>2 DEF LastBody
  <1> QED
    BY <1>1, <1>2

LEMMA ContentNext ==
  HttpInv /\ StreamInv /\ FramingInv /\ ContentInv /\ [Next]_vars => ContentInv'
  <1> SUFFICES ASSUME HttpInv, StreamInv, FramingInv, ContentInv, [Next]_vars, Healthy'
               PROVE  LastBody(sent', Filled', request_'.content_)
    BY DEF ContentInv, LastBody, Bytes
  <1>1. Len(sent) \in Nat /\ Got \in Nat /\ request_ \in Requests
    BY LenProperties DEF HttpInv, TypeOK, Got
  <1>2. StreamInv'
    BY StreamInvNext
  <1>3. ASSUME UNCHANGED <<sent, dispatched, request_>>, Healthy,
               state_ = "GotAll" <=> state_' = "GotAll"
        PROVE  LastBody(sent', Filled', request_'.content_)
    <2>1. Filled' = Filled
      BY <1>3 DEF Filled, Got
    <2> QED
      BY <1>3, <2>1 DEF ContentInv
  <1>4. ASSUME UNCHANGED <<sent, dispatched>>, Healthy, request_'.content_ = request_.content_,
               state_ # "GotAll", state_' # "GotAll"
        PROVE  LastBody(sent', Filled', request_'.content_)
    <2>1. Filled' = Filled
      BY <1>4 DEF Filled, Got
    <2> QED
      BY <1>4, <2>1 DEF ContentInv
  <1>5. ASSUME UNCHANGED <<sent, dispatched>>, Healthy, state_ # "GotAll", state_' = "GotAll",
               sent[Got + 1] # "post" => request_'.content_ = request_.content_
        PROVE  LastBody(sent', Filled', request_'.content_)
    <2>1. Filled = Got /\ Filled' = Got + 1 /\ sent' = sent /\ Got' = Got
      BY <1>5 DEF Filled, Got
    <2>2. PICK pos : AtEnd(pos)'
      BY <1>2, <1>5 DEF StreamInv, Phase
    <2>3. sent[Got + 1] = "post" => request_'.content_ = Bytes(Got + 1)
      BY <2>1, <2>2 DEF AtEnd, Bytes
    <2>4. LastBody(sent, Got, request_.content_)
      BY <1>5, <2>1 DEF ContentInv
    <2>5. LastBody(sent, Got + 1, request_'.content_)
      BY <1>1, <1>5, <2>3, <2>4, LastBodyNext
    <2> QED
      BY <2>1, <2>5
  <1>6. CASE UNCHANGED vars
    BY <1>3, <1>6, Zenon DEF vars, Healthy
  <1>7. ASSUME NEW k \in Kinds, ClientSends(k)
        PROVE  LastBody(sent', Filled', request_'.content_)
    <2>1. /\ Len(sent') = Len(sent) + 1
          /\ \A i \in 1..Len(sent) : sent'[i] = sent[i]
      BY <1>7, SendsTyped
    <2>2. UNCHANGED <<pc, ok, state_, request_, dispatched, rejected>>
      BY <1>7 DEF ClientSends
    <2>3. Healthy /\ Filled' = Filled /\ Filled \in Nat
      BY <1>1, <2>2 DEF Healthy, Filled, Got
    <2>4. Filled <= Len(sent)
      <3>1. PICK pos : Phase(pos) /\ Ordered(pos)
        BY <2>3 DEF StreamInv
      <3>2. CASE state_ = "GotAll"
        BY <3>1, <3>2 DEF Phase, AtEnd, InRequest, Filled
      <3>3. CASE state_ # "GotAll"
        BY <3>3, <2>3 DEF Healthy, Filled, FramingInv
      <3> QED
        BY <3>2, <3>3
    <2>5. \A j \in 1..Filled : sent'[j] = sent[j]
      <3>1. \A j \in 1..Filled : j \in 1..Len(sent)
        BY <1>1, <2>3, <2>4
      <3> QED
        BY <2>1, <3>1
    <2>6. LastBody(sent, Filled, request_.content_)
      BY <2>3 DEF ContentInv
    <2>7. LastBody(sent', Filled, request_.content_)
      BY <2>3, <2>5, <2>6, LastBodyKept
    <2> QED
      BY <2>2, <2>3, <2>7
  <1>8. CASE OnMessage
    <2>1. UNCHANGED <<sent, dispatched, request_, state_, rejected>> /\ pc = "poll"
      BY <1>8 DEF OnMessage
    <2> QED
      BY <1>3, <2>1 DEF Healthy
  <1>9. CASE ParseRequestLine
    <2>1. /\ pc = "parsing" /\ state_ = "ExpectRequestLine" /\ state_' # "GotAll"
          /\ UNCHANGED <<sent, dispatched, rejected>>
      BY <1>9, Zenon DEF ParseRequestLine
    <2>2. \/ \E i, m : request_' = [request_ EXCEPT !.id = i, !.method_ = m]
          \/ request_' = [request_ EXCEPT !.method_ = "Invalid"]
      BY <1>9, Zenon DEF ParseRequestLine
    <2>3. request_'.content_ = request_.content_
      BY <1>1, <2>2 DEF Requests
    <2> QED
      BY <1>4, <2>1, <2>3 DEF Healthy
  <1>10. CASE ParseHeader
    <2>1. /\ pc = "parsing" /\ state_ = "ExpectHeaders" /\ state_' = state_
          /\ UNCHANGED <<sent, dispatched, rejected>>
      BY <1>10, Zenon DEF ParseHeader
    <2>2. \/ request_' = request_
          \/ \E h : request_' = [request_ EXCEPT !.headers_ = @ \union {h}]
      BY <1>10, Zenon DEF ParseHeader
    <2>3. request_'.content_ = request_.content_
      BY <1>1, <2>2 DEF Requests
    <2> QED
      BY <1>4, <2>1, <2>3 DEF Healthy
  <1>11. CASE ParseBlankLine
    <2>1. /\ pc = "parsing" /\ state_ = "ExpectHeaders"
          /\ UNCHANGED <<sent, dispatched, rejected>>
      BY <1>11, Zenon DEF ParseBlankLine
    <2>2. request_' = request_ \/ \E n : request_' = [request_ EXCEPT !.contentLength_ = n]
      BY <1>11, Zenon DEF ParseBlankLine
    <2>3. request_'.content_ = request_.content_
      BY <1>1, <2>2 DEF Requests
    <2> QED
      BY <1>4, <1>5, <2>1, <2>3 DEF Healthy
  <1>12. CASE ParseBody
    <2>1. /\ pc = "parsing" /\ state_ = "ExpectBody"
          /\ UNCHANGED <<sent, dispatched, rejected>>
      BY <1>12, Zenon DEF ParseBody
    <2>2. CASE BodyLacks
      <3>1. state_' = state_ /\ request_' = request_
        BY <1>12, <2>2, Zenon DEF ParseBody
      <3> QED
        BY <1>4, <2>1, <3>1 DEF Healthy
    <2>3. CASE ~ BodyLacks
      <3>1. state_' = "GotAll"
        BY <1>12, <2>3, Zenon DEF ParseBody
      <3>2. PICK pos : AtBody(pos) \/ Stuck(pos)
        BY <2>1 DEF StreamInv, Phase, Healthy
      <3>3. ~ Stuck(pos)
        BY <2>3 DEF Stuck, BodyLacks
      <3>4. sent[Got + 1] = "post"
        BY <3>2, <3>3 DEF AtBody
      <3> QED
        BY <1>5, <2>1, <3>1, <3>4 DEF Healthy
    <2> QED
      BY <2>2, <2>3
  <1>13. CASE SpinWithoutCRLF
    BY <1>6, <1>13 DEF SpinWithoutCRLF
  <1>14. CASE Reject
    BY <1>14 DEF Reject, Healthy
  <1>15. CASE OnRequest
    <2>1. /\ ok /\ state_ = "GotAll" /\ state_' = "ExpectRequestLine" /\ sent' = sent
          /\ dispatched' = Append(dispatched, request_) /\ rejected' = rejected
          /\ request_' = [NewRequest EXCEPT !.contentLength_ = request_.contentLength_,
                                            !.content_ = request_.content_]
      BY <1>15 DEF OnRequest, Reset
    <2>2. Healthy
      BY <2>1 DEF Healthy
    <2>3. Got' = Got + 1 /\ Filled = Got + 1 /\ Filled' = Got'
      BY <2>1, AppendProperties DEF HttpInv, Got, Filled
    <2>4. request_'.content_ = request_.content_
      BY <2>1, NewRequestTyped DEF NewRequest
    <2> QED
      BY <2>1, <2>2, <2>3, <2>4 DEF ContentInv
  <1>16. CASE AwaitMore
    <2>1. UNCHANGED <<sent, dispatched, request_, state_, rejected>> /\ ok
      BY <1>16 DEF AwaitMore
    <2> QED
      BY <1>3, <2>1 DEF Healthy
  <1> QED
    BY <1>6, <1>7, <1>8, <1>9, <1>10, <1>11, <1>12, <1>13, <1>14, <1>15, <1>16, Zenon
       DEF Next, Server, ParseStep

LEMMA FramingNext ==
  HttpInv /\ StreamInv /\ ContentInv /\ FramingInv /\ [Next]_vars => FramingInv'
  <1> SUFFICES ASSUME HttpInv, StreamInv, ContentInv, FramingInv, [Next]_vars PROVE FramingInv'
    OBVIOUS
  <1>1. Len(sent) \in Nat /\ Got \in Nat
    BY LenProperties DEF HttpInv, TypeOK, Got
  <1> DEFINE Fits(i, d, s) == LET req == d[i] IN
                /\ req.id = i
                /\ \A h \in req.headers_ : h[2] = i
                /\ LastBody(s, i, req.content_)
  <1>2. Framing <=> (~rejected => \A i \in 1..Got : Fits(i, dispatched, sent))
    BY DEF Framing, Got
  <1>3. Framing' <=> (~rejected' => \A i \in 1..Got' : Fits(i, dispatched', sent'))
    BY DEF Framing, Got, LastBody, Bytes
  <1>4. ASSUME UNCHANGED <<dispatched, sent>>, ~rejected' => ~rejected PROVE FramingInv'
    <2>1. Got' = Got /\ dispatched' = dispatched /\ sent' = sent
      BY <1>4 DEF Got
    <2> HIDE DEF Fits
    <2> QED
      BY <1>2, <1>3, <1>4, <2>1 DEF FramingInv
  <1>5. ASSUME NEW k \in Kinds, ClientSends(k) PROVE FramingInv'
    <2>1. /\ Len(sent') = Len(sent) + 1
          /\ \A i \in 1..Len(sent) : sent'[i] = sent[i]
      BY <1>5, SendsTyped
    <2>2. UNCHANGED <<dispatched, rejected>> /\ Got' = Got
      BY <1>5 DEF ClientSends, Got
    <2>3. ~rejected => Got <= Len(sent) /\ \A i \in 1..Got : Fits(i, dispatched, sent)
      <3> HIDE DEF Fits
      <3> QED
        BY <1>2 DEF FramingInv
    <2>4. ASSUME ~rejected, NEW i \in 1..Got PROVE Fits(i, dispatched', sent')
      <3>1. i \in Nat /\ \A j \in 1..i : j \in 1..Len(sent)
        BY <1>1, <2>3, <2>4
      <3>2. \A j \in 1..i : sent'[j] = sent[j]
        BY <2>1, <3>1
      <3>3. Fits(i, dispatched, sent)
        BY <2>3, <2>4
      <3>4. LastBody(sent, i, dispatched[i].content_)
        BY <3>3
      <3>5. LastBody(sent', i, dispatched[i].content_)
        BY <3>1, <3>2, <3>4, LastBodyKept
      <3>6. dispatched' = dispatched
        BY <2>2
      <3> QED
        BY <3>3, <3>5, <3>6
    <2>5. ~rejected' => Got' <= Len(sent')
      <3>1. ~rejected => Got <= Len(sent)
        BY DEF FramingInv
      <3> QED
        BY <1>1, <2>1, <2>2, <3>1
    <2> HIDE DEF Fits
    <2> QED
      BY <1>3, <2>2, <2>4, <2>5 DEF FramingInv
  <1>6. CASE OnRequest
    <2>1. /\ dispatched' = Append(dispatched, request_)
          /\ UNCHANGED <<sent, rejected>>
      BY <1>6 DEF OnRequest
    <2>2. request_ \in Requests /\ dispatched \in Seq(Requests)
      BY DEF HttpInv
    <2>3. /\ Got' = Got + 1 /\ dispatched'[Got + 1] = request_
          /\ \A i \in 1..Got : dispatched'[i] = dispatched[i]
      BY <2>1, <2>2, AppendProperties DEF Got
    <2>4. ~rejected => Got + 1 <= Len(sent) /\ Fits(Got + 1, dispatched', sent')
      <3>1. ~rejected => /\ Got + 1 <= Len(sent)
                         /\ request_.id = Got + 1
                         /\ \A h \in request_.headers_ : h[2] = Got + 1
        BY <1>6, NextInLine
      <3>2. ~rejected => LastBody(sent, Got + 1, request_.content_)
        BY <1>6 DEF OnRequest, Healthy, ContentInv, Filled
      <3> QED
        BY <2>1, <2>3, <3>1, <3>2
    <2>5. ~rejected => \A i \in 1..Got : Fits(i, dispatched', sent')
      <3>1. ~rejected => \A i \in 1..Got : Fits(i, dispatched, sent)
        <4> HIDE DEF Fits
        <4> QED
          BY <1>2 DEF FramingInv
      <3> QED
        BY <2>1, <2>3, <3>1
    <2>6. \A i \in 1..Got' : i \in 1..Got \/ i = Got + 1
      BY <1>1, <2>3
    <2> HIDE DEF Fits
    <2>7. ~rejected' => \A i \in 1..Got' : Fits(i, dispatched', sent')
      BY <2>1, <2>4, <2>5, <2>6
    <2>8. ~rejected' => Got' <= Len(sent')
      BY <2>1, <2>3, <2>4
    <2> QED
      BY <1>3, <2>7, <2>8 DEF FramingInv
  <1>7. ASSUME ~ OnRequest, \A k \in Kinds : ~ ClientSends(k)
        PROVE  UNCHANGED <<dispatched, sent>> /\ (~rejected' => ~rejected)
    <2> DEFINE Kept == UNCHANGED <<dispatched, sent>> /\ (~rejected' => ~rejected)
    <2>1. UNCHANGED vars => Kept
      BY DEF vars
    <2>3. OnMessage => Kept
      BY DEF OnMessage
    <2>4. ParseRequestLine => UNCHANGED <<dispatched, sent, rejected>>
      BY Zenon DEF ParseRequestLine
    <2>5. ParseHeader => UNCHANGED <<dispatched, sent, rejected>>
      BY Zenon DEF ParseHeader
    <2>6. ParseBlankLine => UNCHANGED <<dispatched, sent, rejected>>
      BY Zenon DEF ParseBlankLine
    <2>7. ParseBody => UNCHANGED <<dispatched, sent, rejected>>
      BY Zenon DEF ParseBody
    <2>8. SpinWithoutCRLF => Kept
      BY DEF SpinWithoutCRLF, vars
    <2>9. AwaitMore => Kept
      BY DEF AwaitMore
    <2>10. Reject => Kept
      BY DEF Reject
    <2>s. UNCHANGED <<dispatched, sent, rejected>> => Kept
      OBVIOUS
    <2> HIDE DEF Kept
    <2>11. Kept
      BY <1>7, <2>1, <2>3, <2>4, <2>5, <2>6, <2>7, <2>8, <2>9, <2>10, <2>s, Zenon
         DEF Next, Server, ParseStep
    <2> QED
      BY <2>11 DEF Kept
  <1> QED
    BY <1>4, <1>5, <1>6, <1>7

(* However the stream is cut and whatever is pipelined: as long as nothing *)
(* was rejected, the handlers get the client's requests one by one, in     *)
(* order, each with its own headers; a request that came with a body has   *)
(* that body, any other the body of the last request that came with one.   *)
THEOREM FramingTheorem == Spec => []Framing
  <1>1. Init => FramingInv
    <2> SUFFICES ASSUME Init PROVE FramingInv
      OBVIOUS
    <2>1. sent = <<>> /\ dispatched = <<>>
      BY Zenon DEF Init
    <2> QED
      BY <2>1 DEF FramingInv, Framing, Got
  <1>c. Init => ContentInv
    <2> SUFFICES ASSUME Init PROVE ContentInv
      OBVIOUS
    <2>1. sent = <<>> /\ dispatched = <<>> /\ request_ = NewRequest /\ state_ = "ExpectRequestLine"
      BY Zenon DEF Init
    <2>2. Filled = 0 /\ request_.content_ = <<>>
      BY <2>1 DEF Filled, Got, NewRequest
    <2> QED
      BY <2>2 DEF ContentInv, LastBody
  <1>2. FramingInv => Framing
    BY DEF FramingInv
  <1> QED
    BY <1>1, <1>c, <1>2, HttpInvInit, HttpInvNext, StreamInvInit, StreamInvNext, ContentNext,
       FramingNext, PTL DEF Spec

(* Answers and requests are paired by position, and no request reaches a   *)
(* handler twice, whatever was pipelined, cut or rejected before.          *)
THEOREM AnsweredTheorem == Spec => []AnsweredInStep
  <1>1. Init => AnsweredInv
    <2> SUFFICES ASSUME Init PROVE AnsweredInv
      OBVIOUS
    <2>1. wire = <<>> /\ dispatched = <<>> /\ rejected = FALSE
      BY Zenon DEF Init
    <2> QED
      BY <2>1 DEF AnsweredInv, ResponsePairing, Got
  <1>2. HttpInv /\ StreamInv => DispatchedOnce
    <2> SUFFICES ASSUME HttpInv, StreamInv PROVE DispatchedOnce
      OBVIOUS
    <2>1. \A d, e \in 1..Got : d < e => dispatched[d].id < dispatched[e].id
      BY DEF StreamInv, Ordered
    <2>2. Got \in Nat /\ \A d \in 1..Got : dispatched[d].id \in Nat
      BY RequestIds, LenProperties DEF HttpInv, Got
    <2>3. \A d, e \in 1..Got : dispatched[d].id = dispatched[e].id => ~ (d < e) /\ ~ (e < d)
      BY <2>1, <2>2
    <2> QED
      BY <2>2, <2>3 DEF DispatchedOnce, Got
  <1>3. HttpInv /\ StreamInv /\ AnsweredInv => AnsweredInStep
    BY <1>2 DEF AnsweredInv, AnsweredInStep
  <1> QED
    BY <1>1, <1>3, HttpInvInit, HttpInvNext, StreamInvInit, StreamInvNext, AnsweredNext, PTL
       DEF Spec
-----------------------------------------------------------------------------
(* The connection as its client sees it.  What AnsweredInv leaves open is  *)
(* the number of a request that is still handled after a rejection: it is  *)
(* one of those sent, as every line the parser takes for a request line is.*)
NumberedInv == state_ # "ExpectRequestLine" => request_.id \in 1..Len(sent)

LEMMA LineNumbered ==
  ASSUME HttpInv, StreamInv, ParseRequestLine
  PROVE  NumberedInv'
  <1>1. PICK tag : Labels(Unread, sent, tag)
    BY DEF StreamInv
  <1> DEFINE succeed == Len(LineText) = 1 /\ LineText[1].t \in {"GET", "POST"}
  <1>f. state_ = "ExpectRequestLine" /\ FindCRLF # 0 /\ sent' = sent
    BY Zenon DEF ParseRequestLine
  <1>2. /\ state_' = IF succeed THEN "ExpectHeaders" ELSE state_
        /\ request_' =
              IF succeed
              THEN [request_ EXCEPT !.id = LineText[1].id, !.method_ = LineText[1].t]
              ELSE IF Len(LineText) = 1 /\ LineText[1].t = "GET HTTP/9"
              THEN [request_ EXCEPT !.id = LineText[1].id, !.method_ = "GET"]
              ELSE [request_ EXCEPT !.method_ = "Invalid"]
    BY Zenon DEF ParseRequestLine
  <1>3. CASE ~ succeed
    <2> HIDE DEF succeed
    <2> QED
      BY <1>2, <1>f, <1>3, Zenon DEF NumberedInv
  <1>4. CASE succeed
    <2>1. buf \in Seq(Atoms) /\ Len(buf) \in Nat
      BY LenProperties DEF HttpInv, TypeOK
    <2>2. /\ FindCRLF \in 1..Len(buf) /\ Len(LineText) = FindCRLF - 1
          /\ \A j \in 1..FindCRLF - 1 : LineText[j] = buf[j]
      BY <1>f, <2>1, LineFound
    <2>3. Len(LineText) = 1 /\ LineText[1].t \in {"GET", "POST"}
      BY <1>4
    <2>4. 1 \in 1..FindCRLF - 1 /\ 1 \in 1..Len(buf)
      <3>1. FindCRLF - 1 = 1 /\ FindCRLF \in 1..Len(buf)
        BY <2>2, <2>3
      <3>2. \A f \in 1..Len(buf) : f - 1 = 1 => 1 \in 1..f - 1 /\ 1 \in 1..Len(buf)
        BY <2>1
      <3> QED
        BY <3>1, <3>2
    <2>5. LineText[1] = buf[1] /\ buf[1].t \in {"GET", "POST"}
      BY <2>2, <2>3, <2>4
    <2> DEFINE g == tag[1][1]
               o == tag[1][2]
    <2>6. /\ g \in 1..Len(sent) /\ sent[g] \in AnyKind
          /\ o \in 1..Len(Whole(sent[g], g)) /\ buf[1] = Whole(sent[g], g)[o]
      BY <1>1, <2>4, InBuffer
    <2> HIDE DEF g, o
    <2>7. buf[1].id = g
      BY <2>5, <2>6, LineStarts
    <2> HIDE DEF succeed
    <2>8. request_' = [request_ EXCEPT !.id = LineText[1].id, !.method_ = LineText[1].t]
      BY <1>2, <1>4, Zenon
    <2>9. request_'.id = g
      BY <2>5, <2>7, <2>8 DEF HttpInv, Requests
    <2> QED
      BY <1>f, <2>6, <2>9 DEF NumberedInv
  <1> QED
    BY <1>3, <1>4

(* The other steps of the parser keep the number. *)
LEMMA NumberKept ==
  ASSUME HttpInv, NumberedInv, sent' = sent,
         request_'.id = request_.id,
         state_' # "ExpectRequestLine" => state_ # "ExpectRequestLine"
  PROVE  NumberedInv'
  BY DEF NumberedInv

LEMMA NumberedNext == HttpInv /\ StreamInv /\ NumberedInv /\ [Next]_vars => NumberedInv'
  <1> SUFFICES ASSUME HttpInv, StreamInv, NumberedInv, [Next]_vars PROVE NumberedInv'
    OBVIOUS
  <1>0. request_ \in Requests /\ Len(sent) \in Nat
    BY LenProperties DEF HttpInv, TypeOK
  <1>1. ASSUME UNCHANGED <<sent, state_, request_>> PROVE NumberedInv'
    BY <1>1 DEF NumberedInv
  <1>2. ASSUME NEW k \in Kinds, ClientSends(k) PROVE NumberedInv'
    <2>1. Len(sent') = Len(sent) + 1 /\ UNCHANGED <<state_, request_>>
      BY <1>2, SendsTyped DEF ClientSends
    <2> QED
      BY <1>0, <2>1 DEF NumberedInv
  <1>3. CASE OnMessage
    BY <1>1, <1>3 DEF OnMessage
  <1>4. CASE ParseRequestLine
    BY <1>4, LineNumbered
  <1>5. CASE ParseHeader
    <2> DEFINE hasColon == \E i \in 1..Len(LineText) :
                              LineText[i].t \in HeaderNames
    <2>1. /\ UNCHANGED <<sent, state_>>
          /\ request_' = IF hasColon /\ Len(LineText) = 1
                         THEN [request_ EXCEPT !.headers_ =
                                  @ \union {<<LineText[1].t, LineText[1].id>>}]
                         ELSE request_
      BY <1>5, Zenon DEF ParseHeader
    <2>2. request_'.id = request_.id
      <3> HIDE DEF hasColon
      <3> QED
        BY <1>0, <2>1 DEF Requests
    <2> QED
      BY <2>1, <2>2, NumberKept
  <1>6. CASE ParseBlankLine
    <2>1. state_ = "ExpectHeaders" /\ sent' = sent
      BY <1>6, Zenon DEF ParseBlankLine
    <2>2. \/ request_' = request_
          \/ \E cl \in ContentLengths(request_) :
                request_' = [request_ EXCEPT !.contentLength_ = LengthRead(cl)]
      BY <1>6, Zenon DEF ParseBlankLine
    <2>3. request_'.id = request_.id
      BY <1>0, <2>2 DEF Requests
    <2> QED
      BY <2>1, <2>3, NumberKept
  <1>7. CASE ParseBody
    <2>1. state_ = "ExpectBody" /\ sent' = sent
      BY <1>7, Zenon DEF ParseBody
    <2>2. \/ request_' = request_
          \/ request_' = [request_ EXCEPT !.content_ = SubSeq(buf, 1, request_.contentLength_)]
      BY <1>7 DEF ParseBody
    <2>3. request_'.id = request_.id
      BY <1>0, <2>2 DEF Requests
    <2> QED
      BY <2>1, <2>3, NumberKept
  <1>8. CASE OnRequest
    BY <1>8 DEF OnRequest, Reset, NumberedInv
  <1>9. CASE SpinWithoutCRLF \/ Reject \/ AwaitMore
    <2>1. SpinWithoutCRLF => UNCHANGED <<sent, state_, request_>>
      BY DEF SpinWithoutCRLF, vars
    <2>2. Reject => UNCHANGED <<sent, state_, request_>>
      BY DEF Reject
    <2>3. AwaitMore => UNCHANGED <<sent, state_, request_>>
      BY DEF AwaitMore
    <2> QED
      BY <1>1, <1>9, <2>1, <2>2, <2>3
  <1>10. CASE UNCHANGED vars
    BY <1>1, <1>10 DEF vars
  <1> QED
    BY <1>2, <1>3, <1>4, <1>5, <1>6, <1>7, <1>8, <1>9, <1>10, Zenon
       DEF Next, Server, ParseStep

(* The numbers of the requests handled, as RequestServer has them. *)
Handled == [d \in 1..Len(dispatched) |-> dispatched[d].id]

LEMMA HandledLater ==
  ASSUME HttpInv, OnRequest
  PROVE  /\ Len(Handled) = Got
         /\ Handled' = Append(Handled, request_.id)
  <1>1. dispatched \in Seq(Requests) /\ request_ \in Requests /\ Got \in Nat
    BY LenProperties DEF HttpInv, Got
  <1>2. dispatched' = Append(dispatched, request_)
    BY DEF OnRequest
  <1>3. /\ Len(dispatched') = Got + 1
        /\ \A d \in 1..Got : dispatched'[d] = dispatched[d]
        /\ dispatched'[Got + 1] = request_
    BY <1>1, <1>2, AppendProperties DEF Got
  <1>4. Handled \in Seq(0..MaxRequests) /\ Len(Handled) = Got /\ DOMAIN Handled = 1..Got
    <2>1. \A d \in 1..Got : dispatched[d].id \in 0..MaxRequests
      <3>1. \A d \in 1..Got : dispatched[d] \in Requests
        BY <1>1, ElementOfSeq DEF Got
      <3> QED
        BY <3>1 DEF Requests
    <2> QED
      BY <1>1, <2>1 DEF Handled, Got
  <1>5. request_.id \in 0..MaxRequests
    BY <1>1 DEF Requests
  <1> DEFINE A == Append(Handled, request_.id)
  <1>6. /\ Len(A) = Got + 1 /\ A[Got + 1] = request_.id
        /\ \A d \in 1..Got : A[d] = Handled[d]
        /\ A \in Seq(0..MaxRequests)
    BY <1>4, <1>5, AppendProperties
  <1>7. A = [d \in 1..Got + 1 |-> A[d]]
    <2> HIDE DEF A
    <2> QED
      BY <1>6, SeqDef
  <1>8. Handled' = [d \in 1..Got + 1 |-> dispatched'[d].id]
    BY <1>3 DEF Handled
  <1>9. \A d \in 1..Got + 1 : dispatched'[d].id = A[d]
    <2>1. \A d \in 1..Got + 1 : d \in 1..Got \/ d = Got + 1
      BY <1>1
    <2>2. \A d \in 1..Got : Handled[d] = dispatched[d].id
      BY DEF Handled, Got
    <2> HIDE DEF A
    <2> QED
      BY <1>3, <1>6, <2>1, <2>2
  <1> HIDE DEF A
  <1>10. Handled' = A
    BY <1>7, <1>8, <1>9
  <1> QED
    BY <1>4, <1>10 DEF A

LEMMA ServiceStep ==
  HttpInv /\ StreamInv /\ AnsweredInv /\ NumberedInv /\ [Next]_vars
     => [Service!Next]_(Service!serviceVars)
  <1> SUFFICES ASSUME HttpInv, StreamInv, AnsweredInv, NumberedInv, [Next]_vars
               PROVE  [Service!Next]_(Service!serviceVars)
    OBVIOUS
  <1>1. ASSUME UNCHANGED <<sent, dispatched, wire, tcp, rejected>>
        PROVE  UNCHANGED Service!serviceVars
    BY <1>1 DEF Service!serviceVars
  <1>2. ASSUME NEW k \in Kinds, ClientSends(k) PROVE Service!Ask
    <2>1. Len(sent') = Len(sent) + 1 /\ tcp = "connected"
          /\ UNCHANGED <<dispatched, wire, tcp, rejected>>
      BY <1>2, SendsTyped DEF ClientSends
    <2> QED
      BY <2>1 DEF Service!Ask
  <1>3. CASE Reject
    <2>1. /\ Send(0) /\ tcp' = "disconnecting" /\ rejected' = TRUE
          /\ UNCHANGED <<sent, dispatched>>
      BY <1>3 DEF Reject
    <2> QED
      BY <2>1 DEF Send, Service!Next, Service!Refuse, Service!SendOut
  <1>4. CASE OnRequest
    <2>1. /\ Send(request_.id) /\ tcp' \in {"disconnecting", tcp}
          /\ state_ = "GotAll"
          /\ UNCHANGED <<sent, rejected>>
      BY <1>4 DEF OnRequest
    <2>2. Len(Handled) = Got /\ Handled' = Append(Handled, request_.id)
      BY <1>4, HandledLater
    <2>3. tcp \in {"connected", "disconnecting"} /\ rejected \in BOOLEAN
      BY DEF HttpInv, TypeOK
    <2>4. CASE ~ rejected
      <3>1. Got + 1 <= Len(sent) /\ request_.id = Got + 1
        BY <1>4, <2>4, NextInLine
      <3>2. (tcp' = "connected") \in {tcp = "connected", FALSE}
        BY <2>1
      <3>3. Service!Handle
        BY <2>1, <2>2, <2>4, <3>1, <3>2 DEF Send, Handled, Service!Handle, Service!SendOut
      <3> QED
        BY <3>3 DEF Service!Next
    <2>5. CASE rejected
      <3>1. tcp = "disconnecting" /\ tcp' = tcp /\ wire' = wire
        BY <2>1, <2>3, <2>5 DEF AnsweredInv, Send
      <3>2. request_.id \in 1..Len(sent)
        BY <2>1 DEF NumberedInv
      <3>3. \A d \in 1..Len(Handled) : Handled[d] < request_.id
        BY <2>1, <2>2 DEF StreamInv, Ordered, Handled, Got
      <3>4. Service!HandleUnanswered
        BY <2>1, <2>2, <2>5, <3>1, <3>2, <3>3 DEF Handled, Service!HandleUnanswered
      <3> QED
        BY <3>4 DEF Service!Next
    <2> QED
      BY <2>4, <2>5
  <1>5. ASSUME ~ OnRequest, ~ Reject, \A k \in Kinds : ~ ClientSends(k)
        PROVE  UNCHANGED <<sent, dispatched, wire, tcp, rejected>>
    <2>1. UNCHANGED vars => UNCHANGED <<sent, dispatched, wire, tcp, rejected>>
      BY DEF vars
    <2>2. OnMessage => UNCHANGED <<sent, dispatched, wire, tcp, rejected>>
      BY DEF OnMessage
    <2>3. ParseRequestLine => UNCHANGED <<sent, dispatched, wire, tcp, rejected>>
      BY Zenon DEF ParseRequestLine
    <2>4. ParseHeader => UNCHANGED <<sent, dispatched, wire, tcp, rejected>>
      BY Zenon DEF ParseHeader
    <2>5. ParseBlankLine => UNCHANGED <<sent, dispatched, wire, tcp, rejected>>
      BY Zenon DEF ParseBlankLine
    <2>6. ParseBody => UNCHANGED <<sent, dispatched, wire, tcp, rejected>>
      BY Zenon DEF ParseBody
    <2>7. SpinWithoutCRLF => UNCHANGED <<sent, dispatched, wire, tcp, rejected>>
      BY DEF SpinWithoutCRLF, vars
    <2>8. AwaitMore => UNCHANGED <<sent, dispatched, wire, tcp, rejected>>
      BY DEF AwaitMore
    <2> QED
      BY <1>5, <2>1, <2>2, <2>3, <2>4, <2>5, <2>6, <2>7, <2>8, Zenon
         DEF Next, Server, ParseStep
  <1>6. ASSUME NEW k \in Kinds, ClientSends(k) PROVE Service!Next
    BY <1>2, <1>6 DEF Service!Next
  <1> QED
    BY <1>1, <1>3, <1>4, <1>5, <1>6

(* The connection implements RequestServer: however the stream is cut, run *)
(* together or broken, its client sees requests handled one by one in      *)
(* order and answered until the connection closes.                         *)
THEOREM ConnectionServes == Spec => ServiceSpec
  <1>1. Init => Service!Init
    BY DEF Init, Service!Init
  <1>2. Init => AnsweredInv /\ NumberedInv
    <2> SUFFICES ASSUME Init PROVE AnsweredInv /\ NumberedInv
      OBVIOUS
    <2>1. /\ wire = <<>> /\ dispatched = <<>> /\ rejected = FALSE
          /\ state_ = "ExpectRequestLine"
      BY Zenon DEF Init
    <2> QED
      BY <2>1 DEF AnsweredInv, NumberedInv, ResponsePairing, Got
  <1> QED
    BY <1>1, <1>2, HttpInvInit, HttpInvNext, StreamInvInit, StreamInvNext, AnsweredNext,
       NumberedNext, ServiceStep, PTL
       DEF Spec, ServiceSpec, Service!Spec
=============================================================================
