----------------------- MODULE DbConnectionPool_proof -----------------------
(***************************************************************************)
(* Proofs about DbConnectionPool, for any finite set of threads, any set   *)
(* of connection objects and any pool size: its type invariant, that a     *)
(* connection has one owner, that none leaks, that no wake-up is lost, and *)
(* that it implements ResourcePool.                                        *)
(*                                                                         *)
(* The invariant is built in layers, each proved with the earlier ones as  *)
(* hypotheses: TypeInv, then SingleOwner, Conservation and Wakeups.        *)
(***************************************************************************)
EXTENDS DbConnectionPool, FiniteSetTheorems, SequenceTheorems, TLAPS

(* Types, and which program points hold a connection. *)
TypeInv == TypeOK /\ HoldsWhilePastPop

LEMMA TypeInvInit == Init => TypeInv
  <1> SUFFICES ASSUME Init PROVE TypeInv
    OBVIOUS
  <1>1. <<>> \in Seq(Conns)
    BY EmptySeq
  <1> QED
    BY <1>1 DEF Init, TypeInv, TypeOK, HoldsWhilePastPop, PCs

(* Pushing a connection back keeps the types, from either program point.   *)
LEMMA PushBackTypeInv ==
  ASSUME NEW t \in Threads, TypeInv, pc[t] \in {"using", "failing"}, PushBack(t)
  PROVE  TypeInv'
  <1> USE PoolAssumption
  <1>1. conn[t] \in Conns
    BY DEF TypeInv, TypeOK, HoldsWhilePastPop
  <1>2. connections_' \in Seq(Conns)
    BY <1>1 DEF PushBack, TypeInv, TypeOK
  <1>3. pc' \in [Threads -> PCs] /\ conn' \in [Threads -> Conns \union {NoConn}]
    BY DEF PushBack, TypeInv, TypeOK, PCs, Waiting
  <1>4. HoldsWhilePastPop'
    BY DEF PushBack, TypeInv, TypeOK, HoldsWhilePastPop, Waiting
  <1> QED
    BY <1>2, <1>3, <1>4 DEF PushBack, TypeInv, TypeOK, checkerVars

LEMMA TypeInvNext == TypeInv /\ [Next]_vars => TypeInv'
  <1> SUFFICES ASSUME TypeInv, [Next]_vars PROVE TypeInv'
    OBVIOUS
  <1> USE PoolAssumption DEF queueVars, checkerVars
  <1>1. CASE InitPool
    <2>1. connections_' \in Seq(Conns)
      BY <1>1, SeqDef DEF InitPool
    <2> QED
      BY <1>1, <2>1 DEF InitPool, TypeInv, TypeOK, HoldsWhilePastPop
  <1>2. ASSUME NEW t \in Threads, Caller(t) PROVE TypeInv'
    <2>1. CASE GetConnection(t)
      BY <2>1 DEF GetConnection, TypeInv, TypeOK, HoldsWhilePastPop, PCs
    <2>2. CASE PopFront(t)
      <3>1. Head(connections_) \in Conns /\ Tail(connections_) \in Seq(Conns)
        BY <2>2, HeadTailProperties DEF PopFront, TypeInv, TypeOK
      <3> QED
        BY <2>2, <3>1 DEF PopFront, TypeInv, TypeOK, HoldsWhilePastPop, PCs
    <2>3. CASE ThrowNotInitialized(t)
      BY <2>3 DEF ThrowNotInitialized, TypeInv, TypeOK, HoldsWhilePastPop, PCs
    <2>4. CASE Wait(t)
      BY <2>4 DEF Wait, TypeInv, TypeOK, HoldsWhilePastPop, PCs
    <2>5. CASE SpuriousWake(t)
      BY <2>5 DEF SpuriousWake, TypeInv, TypeOK, HoldsWhilePastPop, PCs
    <2>6. CASE Ping(t)
      BY <2>6 DEF Ping, TypeInv, TypeOK, HoldsWhilePastPop, PCs
    <2>7. CASE Reconnected(t)
      BY <2>7 DEF Reconnected, TypeInv, TypeOK, HoldsWhilePastPop, PCs
    <2>8. CASE ConnectFailed(t)
      BY <2>8 DEF ConnectFailed, TypeInv, TypeOK, HoldsWhilePastPop, PCs
    <2>9. CASE Return(t)
      BY <2>9, PushBackTypeInv DEF Return
    <2>10. CASE ReturnFailed(t)
      BY <2>10, PushBackTypeInv DEF ReturnFailed
    <2> QED
      BY <1>2, <2>1, <2>2, <2>3, <2>4, <2>5, <2>6, <2>7, <2>8, <2>9, <2>10 DEF Caller
  <1>3. CASE Checker
    <2>1. CASE CheckerSnapshot
      BY <2>1 DEF CheckerSnapshot, TypeInv, TypeOK, HoldsWhilePastPop
    <2>2. CASE CheckerNap
      BY <2>2 DEF CheckerNap, TypeInv, TypeOK, HoldsWhilePastPop
    <2>3. CASE CheckerNapEnds
      BY <2>3 DEF CheckerNapEnds, TypeInv, TypeOK, HoldsWhilePastPop
    <2>4. CASE CheckerPing
      <3>1. Tail(connsToCheck) \in Seq(Conns)
        BY <2>4, HeadTailProperties DEF CheckerPing, TypeInv, TypeOK
      <3>2. dead' \subseteq Conns
        BY <2>4 DEF CheckerPing, TypeInv, TypeOK
      <3> QED
        BY <2>4, <3>1, <3>2 DEF CheckerPing, TypeInv, TypeOK, HoldsWhilePastPop
    <2>5. CASE CheckerWakes
      BY <2>5 DEF CheckerWakes, TypeInv, TypeOK, HoldsWhilePastPop
    <2> QED
      BY <1>3, <2>1, <2>2, <2>3, <2>4, <2>5 DEF Checker
  <1>4. ASSUME NEW c \in Conns, ConnectionDies(c) PROVE TypeInv'
    BY <1>4 DEF ConnectionDies, TypeInv, TypeOK, HoldsWhilePastPop
  <1>5. CASE UNCHANGED vars
    BY <1>5 DEF vars, TypeInv, TypeOK, HoldsWhilePastPop
  <1> QED
    BY <1>1, <1>2, <1>3, <1>4, <1>5 DEF Next

(* Every variable keeps its type, and a thread has a connection exactly    *)
(* from the pop to the push back.                                          *)
THEOREM TypeInvariant == Spec => []TypeInv
  <1> QED
    BY TypeInvInit, TypeInvNext, PTL DEF Spec

-----------------------------------------------------------------------------
(* Every variable keeps its type, the part of TypeInv the runs check.      *)
THEOREM TypeCorrect == Spec => []TypeOK
  <1>1. TypeInv => TypeOK
    BY DEF TypeInv
  <1> QED
    BY <1>1, TypeInvariant, PTL

-----------------------------------------------------------------------------
(* One owner per connection. *)

LEMMA PopFrontSingleOwner ==
  ASSUME NEW t \in Threads, TypeInv, SingleOwner, PopFront(t)
  PROVE  SingleOwner'
  <1> USE PoolAssumption
  <1> DEFINE q == connections_
  <1>1. /\ Head(q) = q[1]
        /\ Len(q) \in Nat /\ Len(q) # 0
        /\ Len(Tail(q)) = Len(q) - 1
        /\ \A i \in 1..Len(Tail(q)) : Tail(q)[i] = q[i+1]
    BY HeadTailProperties, LenProperties, EmptySeq DEF PopFront, TypeInv, TypeOK
  <1>2. /\ connections_' = Tail(q)
        /\ conn' = [conn EXCEPT ![t] = q[1]]
        /\ conn \in [Threads -> Conns \union {NoConn}]
        /\ t \notin Holders
        /\ Holders' \subseteq Holders \union {t}
    BY <1>1 DEF PopFront, TypeInv, TypeOK, HoldsWhilePastPop, Holders
  <1>3. \A i, j \in 1..Len(Tail(q)) : Tail(q)[i] = Tail(q)[j] => i = j
    BY <1>1 DEF SingleOwner
  <1>4. \A i \in 1..Len(Tail(q)) : Tail(q)[i] # q[1]
    BY <1>1 DEF SingleOwner
  <1>5. \A u \in Holders', i \in 1..Len(Tail(q)) : Tail(q)[i] # conn'[u]
    BY <1>1, <1>2, <1>4 DEF SingleOwner
  <1>6. \A u, v \in Holders' : conn'[u] = conn'[v] => u = v
    BY <1>1, <1>2 DEF SingleOwner, Holders
  <1> QED
    BY <1>2, <1>3, <1>5, <1>6 DEF SingleOwner

LEMMA PushBackSingleOwner ==
  ASSUME NEW t \in Threads, TypeInv, SingleOwner,
         pc[t] \in {"using", "failing"}, PushBack(t)
  PROVE  SingleOwner'
  <1> USE PoolAssumption
  <1> DEFINE q == connections_
  <1>1. /\ conn[t] \in Conns
        /\ t \in Holders
        /\ conn \in [Threads -> Conns \union {NoConn}]
        /\ q \in Seq(Conns)
        /\ Len(q) \in Nat
    BY LenProperties DEF TypeInv, TypeOK, HoldsWhilePastPop, Holders
  <1>2. /\ connections_' = Append(q, conn[t])
        /\ conn' = [conn EXCEPT ![t] = NoConn]
        /\ Holders' = Holders \ {t}
    BY <1>1 DEF PushBack, Holders
  <1>3. /\ Len(connections_') = Len(q) + 1
        /\ \A i \in 1..Len(q) : connections_'[i] = q[i]
        /\ connections_'[Len(q) + 1] = conn[t]
    BY <1>1, <1>2
  <1>4. \A i, j \in 1..Len(connections_') : connections_'[i] = connections_'[j] => i = j
    <2> SUFFICES ASSUME NEW i \in 1..Len(q) + 1, NEW j \in 1..Len(q) + 1,
                        connections_'[i] = connections_'[j]
                 PROVE  i = j
      BY <1>3
    <2>1. CASE i \in 1..Len(q) /\ j \in 1..Len(q)
      BY <2>1, <1>3 DEF SingleOwner
    <2>2. CASE i = Len(q) + 1 /\ j \in 1..Len(q)
      BY <2>2, <1>1, <1>3 DEF SingleOwner
    <2>3. CASE j = Len(q) + 1 /\ i \in 1..Len(q)
      BY <2>3, <1>1, <1>3 DEF SingleOwner
    <2> QED
      BY <2>1, <2>2, <2>3, <1>1
  <1>5. \A u \in Holders', i \in 1..Len(connections_') : connections_'[i] # conn'[u]
    <2> SUFFICES ASSUME NEW u \in Holders \ {t}, NEW i \in 1..Len(q) + 1
                 PROVE  connections_'[i] # conn[u]
      BY <1>1, <1>2, <1>3 DEF Holders
    <2>1. CASE i \in 1..Len(q)
      BY <2>1, <1>3 DEF SingleOwner
    <2>2. CASE i = Len(q) + 1
      BY <2>2, <1>1, <1>3 DEF SingleOwner
    <2> QED
      BY <2>1, <2>2, <1>1
  <1>6. \A u, v \in Holders' : conn'[u] = conn'[v] => u = v
    BY <1>1, <1>2 DEF SingleOwner, Holders
  <1> QED
    BY <1>4, <1>5, <1>6 DEF SingleOwner

(* A new object is in nobody's hands and not in the queue. *)
LEMMA ReconnectedSingleOwner ==
  ASSUME NEW t \in Threads, TypeInv, SingleOwner, Reconnected(t)
  PROVE  SingleOwner'
  <1> USE PoolAssumption
  <1>1. PICK c \in Conns \ Live : conn' = [conn EXCEPT ![t] = c]
    BY DEF Reconnected
  <1>2. /\ t \in Holders
        /\ conn \in [Threads -> Conns \union {NoConn}]
        /\ connections_' = connections_
    BY DEF Reconnected, TypeInv, TypeOK, HoldsWhilePastPop, Holders, queueVars
  <1>3. Holders' = Holders
    BY <1>1, <1>2 DEF Holders
  <1>4. /\ \A i \in 1..Len(connections_) : connections_[i] # c
        /\ \A u \in Holders : conn[u] # c
    BY <1>1 DEF Live, Elems
  <1> QED
    BY <1>1, <1>2, <1>3, <1>4 DEF SingleOwner, Holders

(* The queue and the borrowers change in four ways only. *)
LEMMA QueueSteps ==
  ASSUME [Next]_vars
  PROVE  \/ InitPool
         \/ \E t \in Threads : PopFront(t)
         \/ \E t \in Threads : Reconnected(t)
         \/ \E t \in Threads : pc[t] \in {"using", "failing"} /\ PushBack(t)
         \/ UNCHANGED <<initialized_, connections_, conn>>
  <1> USE DEF queueVars, checkerVars
  <1>1. ASSUME NEW t \in Threads, Caller(t),
               ~PopFront(t), ~Reconnected(t), ~Return(t), ~ReturnFailed(t)
        PROVE  UNCHANGED <<initialized_, connections_, conn>>
    BY <1>1 DEF Caller, GetConnection, ThrowNotInitialized, Wait, SpuriousWake,
                Ping, ConnectFailed
  <1>2. ASSUME Checker PROVE UNCHANGED <<initialized_, connections_, conn>>
    BY <1>2 DEF Checker, CheckerSnapshot, CheckerNap, CheckerNapEnds,
                CheckerPing, CheckerWakes
  <1>3. ASSUME NEW c \in Conns, ConnectionDies(c)
        PROVE  UNCHANGED <<initialized_, connections_, conn>>
    BY <1>3 DEF ConnectionDies
  <1> QED
    BY <1>1, <1>2, <1>3 DEF Next, vars, Return, ReturnFailed

(* Before init() the pool is empty and nobody waits: getConnection throws. *)
EmptyBeforeInit ==
    ~initialized_ => connections_ = <<>> /\ Holders = {} /\ Waiting = {}

LEMMA EmptyBeforeInitNext ==
  TypeInv /\ EmptyBeforeInit /\ [Next]_vars => EmptyBeforeInit'
  <1> SUFFICES ASSUME TypeInv, EmptyBeforeInit, [Next]_vars, ~initialized_'
               PROVE  connections_' = <<>> /\ Holders' = {} /\ Waiting' = {}
    BY DEF EmptyBeforeInit
  <1> USE PoolAssumption DEF queueVars, checkerVars
  <1>1. ~initialized_
    <2>1. InitPool => initialized_'
      BY DEF InitPool
    <2>2. ~InitPool => initialized_' = initialized_
      BY QueueSteps DEF PopFront, Reconnected, PushBack
    <2> QED
      BY <2>1, <2>2
  <1>2. connections_ = <<>> /\ Holders = {} /\ Waiting = {}
    BY <1>1 DEF EmptyBeforeInit
  <1>3. UNCHANGED <<connections_, conn>>
    <2>1. ~InitPool
      BY DEF InitPool
    <2>2. \A t \in Threads : ~PopFront(t)
      BY <1>2 DEF PopFront
    <2>3. \A t \in Threads : pc[t] \notin {"connecting", "using", "failing"}
      BY <1>2 DEF TypeInv, HoldsWhilePastPop, Holders
    <2> QED
      BY <2>1, <2>2, <2>3, QueueSteps DEF Reconnected
  <1>4. Holders' = {}
    BY <1>2, <1>3 DEF Holders
  <1>5. Waiting' = {}
    <2>1. \A t \in Threads : pc[t] # "waiting"
      BY <1>2 DEF Waiting
    <2>2. ASSUME NEW t \in Threads, Caller(t) PROVE \A u \in Threads : pc'[u] # "waiting"
      BY <2>1, <2>2, <1>1, <1>2 DEF TypeInv, TypeOK, Caller, GetConnection, PopFront,
         ThrowNotInitialized, Wait, SpuriousWake, Ping, Reconnected, ConnectFailed,
         Return, ReturnFailed, PushBack
    <2>3. ASSUME InitPool \/ Checker \/ (\E c \in Conns : ConnectionDies(c)) \/ UNCHANGED vars
          PROVE  pc' = pc
      BY <2>3 DEF InitPool, Checker, CheckerSnapshot, CheckerNap, CheckerNapEnds,
         CheckerPing, CheckerWakes, ConnectionDies, vars
    <2> QED
      BY <2>1, <2>2, <2>3 DEF Next, Waiting
  <1> QED
    BY <1>2, <1>3, <1>4, <1>5

LEMMA SingleOwnerNext ==
  TypeInv /\ EmptyBeforeInit /\ SingleOwner /\ [Next]_vars => SingleOwner'
  <1> SUFFICES ASSUME TypeInv, EmptyBeforeInit, SingleOwner, [Next]_vars
               PROVE  SingleOwner'
    OBVIOUS
  <1> USE PoolAssumption
  <1>1. CASE InitPool
    <2>1. PICK q \in [1..PoolSize -> Conns] :
             /\ \A i, j \in 1..PoolSize : q[i] = q[j] => i = j
             /\ connections_' = q
      BY <1>1 DEF InitPool
    <2>2. q \in Seq(Conns) /\ Len(q) = PoolSize
      BY <2>1, SeqDef, LenProperties
    <2>3. Holders' = {}
      BY <1>1 DEF InitPool, EmptyBeforeInit, Holders
    <2> QED
      BY <2>1, <2>2, <2>3 DEF SingleOwner
  <1>2. CASE UNCHANGED <<initialized_, connections_, conn>>
    BY <1>2 DEF SingleOwner, Holders
  <1> QED
    BY <1>1, <1>2, QueueSteps, PopFrontSingleOwner, ReconnectedSingleOwner,
       PushBackSingleOwner

-----------------------------------------------------------------------------
(* No connection leaks. *)

LEMMA HoldersFinite == IsFiniteSet(Holders) /\ Cardinality(Holders) \in Nat
  BY PoolAssumption, FS_Subset, FS_CardinalityType DEF Holders

LEMMA PopFrontHolders ==
  ASSUME NEW t \in Threads, TypeInv, PopFront(t)
  PROVE  /\ connections_ # <<>>
         /\ Len(connections_) \in Nat \ {0}
         /\ Len(connections_') = Len(connections_) - 1
         /\ t \notin Holders
         /\ Holders' = Holders \union {t}
  <1> USE PoolAssumption
  <1>1. Head(connections_) \in Conns /\ Len(Tail(connections_)) = Len(connections_) - 1
    BY HeadTailProperties DEF PopFront, TypeInv, TypeOK
  <1>2. Len(connections_) \in Nat \ {0}
    BY EmptySeq DEF PopFront, TypeInv, TypeOK
  <1> QED
    BY <1>1, <1>2 DEF PopFront, TypeInv, TypeOK, HoldsWhilePastPop, Holders

LEMMA PushBackHolders ==
  ASSUME NEW t \in Threads, TypeInv, pc[t] \in {"using", "failing"}, PushBack(t)
  PROVE  /\ Len(connections_) \in Nat
         /\ Len(connections_') = Len(connections_) + 1
         /\ t \in Holders
         /\ Holders' = Holders \ {t}
  <1>1. conn[t] \in Conns /\ t \in Holders
    BY PoolAssumption DEF TypeInv, TypeOK, HoldsWhilePastPop, Holders
  <1>2. Len(connections_) \in Nat /\ Len(connections_') = Len(connections_) + 1
    BY <1>1, LenProperties DEF PushBack, TypeInv, TypeOK
  <1> QED
    BY <1>1, <1>2 DEF PushBack, TypeInv, TypeOK, Holders

LEMMA ReconnectedHolders ==
  ASSUME NEW t \in Threads, TypeInv, Reconnected(t)
  PROVE  connections_' = connections_ /\ initialized_' = initialized_ /\ Holders' = Holders
  BY PoolAssumption
     DEF Reconnected, TypeInv, TypeOK, HoldsWhilePastPop, Holders, queueVars

LEMMA ConservationNext ==
  TypeInv /\ EmptyBeforeInit /\ Conservation /\ [Next]_vars => Conservation'
  <1> SUFFICES ASSUME TypeInv, EmptyBeforeInit, Conservation, [Next]_vars
               PROVE  Conservation'
    OBVIOUS
  <1> USE PoolAssumption
  <1>1. CASE InitPool
    <2>1. Len(connections_') = PoolSize
      BY <1>1, SeqDef, LenProperties DEF InitPool
    <2>2. Holders' = {}
      BY <1>1 DEF InitPool, EmptyBeforeInit, Holders
    <2> QED
      BY <1>1, <2>1, <2>2, FS_EmptySet DEF InitPool, Conservation
  <1>2. ASSUME NEW t \in Threads, PopFront(t) PROVE Conservation'
    <2>1. Cardinality(Holders') = Cardinality(Holders) + 1
      BY <1>2, PopFrontHolders, HoldersFinite, FS_AddElement
    <2> QED
      BY <1>2, <2>1, PopFrontHolders, HoldersFinite DEF PopFront, Conservation
  <1>3. ASSUME NEW t \in Threads, Reconnected(t) PROVE Conservation'
    BY <1>3, ReconnectedHolders DEF Conservation
  <1>4. ASSUME NEW t \in Threads, pc[t] \in {"using", "failing"}, PushBack(t)
        PROVE  Conservation'
    <2>1. Cardinality(Holders') = Cardinality(Holders) - 1
      BY <1>4, PushBackHolders, HoldersFinite, FS_RemoveElement
    <2> QED
      BY <1>4, <2>1, PushBackHolders, HoldersFinite DEF PushBack, Conservation
  <1>5. CASE UNCHANGED <<initialized_, connections_, conn>>
    BY <1>5 DEF Conservation, Holders
  <1> QED
    BY <1>1, <1>2, <1>3, <1>4, <1>5, QueueSteps

-----------------------------------------------------------------------------
(* No wake-up is lost. *)

LEMMA WokenFinite == IsFiniteSet(Woken) /\ Cardinality(Woken) \in Nat
  BY PoolAssumption, FS_Subset, FS_CardinalityType DEF Woken

(* The caller that pops is one of the woken ones, or has just arrived. *)
LEMMA PopFrontNoLostWakeup ==
  ASSUME NEW t \in Threads, TypeInv, NoLostWakeup, PopFront(t)
  PROVE  NoLostWakeup'
  <1>1. /\ Waiting' = Waiting
        /\ Woken' = Woken \ {t}
    BY DEF PopFront, TypeInv, TypeOK, Waiting, Woken
  <1>2. Cardinality(Woken') >= Cardinality(Woken) - 1
    BY <1>1, WokenFinite, FS_RemoveElement
  <1>3. Cardinality(Woken') \in Nat
    BY <1>1, WokenFinite, FS_RemoveElement, FS_CardinalityType
  <1> QED
    BY <1>1, <1>2, <1>3, WokenFinite, PopFrontHolders DEF NoLostWakeup

(* A push wakes a waiting caller if there is one. *)
LEMMA PushBackNoLostWakeup ==
  ASSUME NEW t \in Threads, TypeInv, NoLostWakeup,
         pc[t] \in {"using", "failing"}, PushBack(t)
  PROVE  NoLostWakeup'
  <1>1. CASE Waiting = {}
    <2>1. Waiting' = {}
      BY <1>1 DEF PushBack, TypeInv, TypeOK, Waiting
    <2> QED
      BY <2>1 DEF NoLostWakeup
  <1>2. CASE Waiting # {}
    <2>1. PICK w \in Waiting : pc' = [pc EXCEPT ![t] = "idle", ![w] = "woken"]
      BY <1>2 DEF PushBack
    <2>2. w # t /\ w \notin Woken /\ Woken' = Woken \union {w}
      BY <2>1 DEF TypeInv, TypeOK, Waiting, Woken
    <2>3. Cardinality(Woken') = Cardinality(Woken) + 1
      BY <2>2, WokenFinite, FS_AddElement
    <2> QED
      BY <1>2, <2>3, WokenFinite, PushBackHolders DEF NoLostWakeup
  <1> QED
    BY <1>1, <1>2

LEMMA NoLostWakeupNext ==
  TypeInv /\ EmptyBeforeInit /\ NoLostWakeup /\ [Next]_vars => NoLostWakeup'
  <1> SUFFICES ASSUME TypeInv, EmptyBeforeInit, NoLostWakeup, [Next]_vars
               PROVE  NoLostWakeup'
    OBVIOUS
  <1> USE PoolAssumption DEF queueVars, checkerVars
  <1>1. CASE InitPool
    <2>1. Waiting' = {}
      BY <1>1 DEF InitPool, EmptyBeforeInit, Waiting
    <2> QED
      BY <2>1 DEF NoLostWakeup
  <1>2. ASSUME NEW t \in Threads, Caller(t) PROVE NoLostWakeup'
    <2>1. CASE PopFront(t)
      BY <2>1, PopFrontNoLostWakeup
    <2>2. CASE Return(t) \/ ReturnFailed(t)
      BY <2>2, PushBackNoLostWakeup DEF Return, ReturnFailed
    <2>3. CASE ThrowNotInitialized(t)
      <3>1. Waiting' = {}
        BY <2>3 DEF ThrowNotInitialized, EmptyBeforeInit, Waiting, TypeInv, TypeOK
      <3> QED
        BY <3>1 DEF NoLostWakeup
    <2>4. CASE Wait(t)
      <3>1. Len(connections_') = 0
        BY <2>4, EmptySeq DEF Wait
      <3>2. Woken' = Woken \ {t}
        BY <2>4 DEF Wait, Woken, TypeInv, TypeOK
      <3>3. Cardinality(Woken') \in Nat
        BY <3>2, WokenFinite, FS_RemoveElement, FS_CardinalityType
      <3> QED
        BY <3>1, <3>3 DEF NoLostWakeup
    <2>5. CASE SpuriousWake(t)
      <3>1. t \notin Woken /\ Woken' = Woken \union {t} /\ connections_' = connections_
        BY <2>5 DEF SpuriousWake, Woken, TypeInv, TypeOK
      <3>2. Cardinality(Woken') = Cardinality(Woken) + 1
        BY <3>1, WokenFinite, FS_AddElement
      <3>3. Waiting # {}
        BY <2>5 DEF SpuriousWake, Waiting
      <3>4. Len(connections_) \in Nat
        BY LenProperties DEF TypeInv, TypeOK
      <3> QED
        BY <3>1, <3>2, <3>3, <3>4, WokenFinite DEF NoLostWakeup
    <2>6. CASE GetConnection(t) \/ Ping(t) \/ Reconnected(t) \/ ConnectFailed(t)
      <3>1. Waiting' = Waiting /\ Woken' = Woken /\ connections_' = connections_
        BY <2>6 DEF GetConnection, Ping, Reconnected, ConnectFailed, Waiting, Woken,
           TypeInv, TypeOK
      <3> QED
        BY <3>1 DEF NoLostWakeup
    <2> QED
      BY <1>2, <2>1, <2>2, <2>3, <2>4, <2>5, <2>6 DEF Caller
  <1>3. ASSUME Checker \/ (\E c \in Conns : ConnectionDies(c)) \/ UNCHANGED vars
        PROVE  NoLostWakeup'
    <2>1. UNCHANGED <<pc, connections_>>
      BY <1>3 DEF Checker, CheckerSnapshot, CheckerNap, CheckerNapEnds,
         CheckerPing, CheckerWakes, ConnectionDies, vars
    <2> QED
      BY <2>1 DEF NoLostWakeup, Waiting, Woken
  <1> QED
    BY <1>1, <1>2, <1>3 DEF Next

-----------------------------------------------------------------------------
(* The inductive invariant and what follows from it. *)

PoolInv ==
    /\ TypeInv
    /\ EmptyBeforeInit
    /\ SingleOwner
    /\ Conservation
    /\ NoLostWakeup

LEMMA PoolInvInit == Init => PoolInv
  <1> SUFFICES ASSUME Init PROVE PoolInv
    OBVIOUS
  <1>1. connections_ = <<>> /\ Len(connections_) = 0 /\ Holders = {} /\ Waiting = {}
    BY EmptySeq DEF Init, Holders, Waiting
  <1>2. SingleOwner
    BY <1>1 DEF SingleOwner
  <1>3. Conservation
    BY <1>1, FS_EmptySet DEF Conservation, Init
  <1> QED
    BY <1>1, <1>2, <1>3, TypeInvInit DEF PoolInv, EmptyBeforeInit, NoLostWakeup

LEMMA PoolInvNext == PoolInv /\ [Next]_vars => PoolInv'
  BY TypeInvNext, EmptyBeforeInitNext, SingleOwnerNext, ConservationNext,
     NoLostWakeupNext DEF PoolInv

LEMMA PoolInvariant == Spec => []PoolInv
  BY PoolInvInit, PoolInvNext, PTL DEF Spec

(* A connection is in one place of the queue or with one borrower: two     *)
(* threads never run statements on one MySQL connection through the pool.  *)
THEOREM OneOwner == Spec => []SingleOwner
  <1>1. PoolInv => SingleOwner
    BY DEF PoolInv
  <1> QED
    BY <1>1, PoolInvariant, PTL

(* After init() the idle and the borrowed connections are PoolSize, on     *)
(* every path through getConnection and the deleter.                       *)
THEOREM NoLeak == Spec => []Conservation
  <1>1. PoolInv => Conservation
    BY DEF PoolInv
  <1> QED
    BY <1>1, PoolInvariant, PTL

(* While a caller sleeps on the condition variable, each idle connection   *)
(* has a woken caller on its way to it.                                    *)
THEOREM WakeupsSuffice == Spec => []NoLostWakeup
  <1>1. PoolInv => NoLostWakeup
    BY DEF PoolInv
  <1> QED
    BY <1>1, PoolInvariant, PTL

-----------------------------------------------------------------------------
(* The refinement. *)

LEMMA RefinementInit == Init => Pool!Init
  BY EmptySeq DEF Init, Pool!Init, Holders

LEMMA RefinementNext == PoolInv /\ [Next]_vars => [Pool!Next]_(Pool!poolVars)
  <1> SUFFICES ASSUME PoolInv, [Next]_vars PROVE [Pool!Next]_(Pool!poolVars)
    OBVIOUS
  <1> USE DEF PoolInv, Pool!poolVars
  <1>1. CASE InitPool
    <2>1. Len(connections_) = 0 /\ Len(connections_') = PoolSize
      BY <1>1, EmptySeq, SeqDef, LenProperties, PoolAssumption
         DEF InitPool, EmptyBeforeInit
    <2>2. Holders' = Holders
      BY <1>1 DEF InitPool, Holders
    <2> QED
      BY <1>1, <2>1, <2>2 DEF InitPool, Pool!Next, Pool!Open
  <1>2. ASSUME NEW t \in Threads, PopFront(t) PROVE Pool!Take(t)
    <2>1. /\ Len(connections_) \in Nat \ {0}
          /\ Len(connections_') = Len(connections_) - 1
          /\ t \notin Holders
          /\ Holders' = Holders \union {t}
      BY <1>2, PopFrontHolders
    <2>2. Len(connections_) > 0
      BY <2>1
    <2> QED
      BY <1>2, <2>1, <2>2 DEF PopFront, Pool!Take
  <1>3. ASSUME NEW t \in Threads, Reconnected(t) PROVE UNCHANGED Pool!poolVars
    BY <1>3, ReconnectedHolders
  <1>4. ASSUME NEW t \in Threads, pc[t] \in {"using", "failing"}, PushBack(t)
        PROVE  Pool!Give(t)
    BY <1>4, PushBackHolders DEF PushBack, Pool!Give
  <1>5. CASE UNCHANGED <<initialized_, connections_, conn>>
    BY <1>5 DEF Holders
  <1> QED
    BY <1>1, <1>2, <1>3, <1>4, <1>5, QueueSteps DEF Pool!Next

(* The pool implements ResourcePool: whatever happens to single            *)
(* connections, callers see PoolSize permits, each with one owner.         *)
THEOREM PoolRefinement == Spec => PoolSpec
  BY RefinementInit, RefinementNext, PoolInvariant, PTL DEF Spec, PoolSpec, Pool!Spec
=============================================================================
