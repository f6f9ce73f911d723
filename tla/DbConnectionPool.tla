-------------------------- MODULE DbConnectionPool --------------------------
(***************************************************************************)
(* The MySQL connection pool (HttpServer/src/utils/db/DbConnectionPool.cpp *)
(* with DbConnection.cpp's ping, reconnect and constructor): a queue of    *)
(* idle connections behind one mutex and one condition variable, callers   *)
(* that borrow a connection, run one statement and give it back through    *)
(* the deleter of a shared_ptr, and a detached health thread.              *)
(*                                                                         *)
(* A critical section that does no I/O is one step, taken when mutex_ is   *)
(* free.  The health thread is the only one that keeps mutex_ over several *)
(* steps: it sleeps a second with the mutex held when the queue is empty   *)
(* (DbConnectionPool.cpp:119-123), so mutex_ is a variable.  A step of the *)
(* MySQL client library (connect, ping, statement) is a step of its own    *)
(* outside the mutex, and everything may happen between two of them.       *)
(***************************************************************************)
EXTENDS Naturals, Sequences, FiniteSets

CONSTANTS Threads,     \* threads that borrow: I/O loops and MQ workers
          Conns,       \* identities of DbConnection objects
          PoolSize,    \* MysqlUtil::init's poolSize
          NoConn,      \* a thread that holds no connection
          MaxCalls     \* bound: calls of getConnection per thread

ASSUME PoolAssumption ==
    /\ IsFiniteSet(Threads)
    /\ PoolSize \in Nat \ {0}
    /\ NoConn \notin Conns
    /\ MaxCalls \in Nat

VARIABLES
    initialized_,      \* init() has filled the queue
    connections_,      \* queue of idle connections
    mutex_,            \* "free", or "checker" while the health thread sleeps with it
    pc,                \* where each thread is in getConnection or the deleter
    conn,              \* the connection object each thread has, or NoConn
    calls,             \* calls of getConnection made so far, per thread
    dead,              \* live connection objects whose next ping fails: the server side
                       \* is gone and OPT_RECONNECT does not bring it back
    chk,               \* where the health thread is
    connsToCheck       \* the health thread's copy of the queue

vars == <<initialized_, connections_, mutex_, pc, conn, calls, dead, chk,
          connsToCheck>>

queueVars   == <<initialized_, connections_>>
checkerVars == <<mutex_, chk, connsToCheck>>

PCs == {"idle", "locking", "waiting", "woken", "pinging", "connecting",
        "failing", "using"}

(* Elements of a sequence. *)
Elems(s) == {s[i] : i \in 1..Len(s)}

Holders == {t \in Threads : conn[t] # NoConn}
Waiting == {t \in Threads : pc[t] = "waiting"}
Woken   == {t \in Threads : pc[t] = "woken"}

(* Objects some shared_ptr still refers to: their identity is taken. *)
Live ==
    Elems(connections_) \union Elems(connsToCheck)
        \union {conn[t] : t \in Holders}

-----------------------------------------------------------------------------
Init ==
    /\ initialized_ = FALSE
    /\ connections_ = <<>>
    /\ mutex_ = "free"
    /\ pc = [t \in Threads |-> "idle"]
    /\ conn = [t \in Threads |-> NoConn]
    /\ calls = [t \in Threads |-> 0]
    /\ dead = {}
    /\ chk = "top"
    /\ connsToCheck = <<>>

(***************************************************************************)
(* init(): PoolSize connections under the mutex, once.  A connection that  *)
(* cannot be created throws out of ChatServer's constructor and main, and  *)
(* the process ends: that outcome has no successor and is left out.        *)
(***************************************************************************)
InitPool ==
    /\ mutex_ = "free"
    /\ ~initialized_
    /\ \E q \in [1..PoolSize -> Conns] :
          /\ \A i, j \in 1..PoolSize : q[i] = q[j] => i = j
          /\ connections_' = q
    /\ initialized_' = TRUE
    /\ UNCHANGED <<pc, conn, calls, dead, checkerVars>>

(* A handler or an MQ worker calls getConnection. *)
GetConnection(t) ==
    /\ pc[t] = "idle"
    /\ calls[t] < MaxCalls
    /\ calls' = [calls EXCEPT ![t] = @ + 1]
    /\ pc' = [pc EXCEPT ![t] = "locking"]
    /\ UNCHANGED <<queueVars, conn, dead, checkerVars>>

(* Fault: front() without pop(). *)
PopFrontKeeps(t) ==
    /\ pc[t] \in {"locking", "woken"}
    /\ mutex_ = "free"
    /\ connections_ # <<>>
    /\ conn' = [conn EXCEPT ![t] = Head(connections_)]
    /\ pc' = [pc EXCEPT ![t] = "pinging"]
    /\ UNCHANGED <<queueVars, calls, dead, checkerVars>>

(* The caller has the mutex and the queue has a connection: pop the front. *)
PopFront(t) ==
    /\ pc[t] \in {"locking", "woken"}
    /\ mutex_ = "free"
    /\ connections_ # <<>>
    /\ conn' = [conn EXCEPT ![t] = Head(connections_)]
    /\ connections_' = Tail(connections_)
    /\ pc' = [pc EXCEPT ![t] = "pinging"]
    /\ UNCHANGED <<initialized_, calls, dead, checkerVars>>

(* The queue is empty and init() has not run: getConnection throws. *)
ThrowNotInitialized(t) ==
    /\ pc[t] \in {"locking", "woken"}
    /\ mutex_ = "free"
    /\ connections_ = <<>>
    /\ ~initialized_
    /\ pc' = [pc EXCEPT ![t] = "idle"]
    /\ UNCHANGED <<queueVars, conn, calls, dead, checkerVars>>

(* The queue is empty: cv_.wait gives the mutex up.  A woken thread that   *)
(* finds the queue empty again, because another caller came first, waits   *)
(* once more (the while loop).                                             *)
Wait(t) ==
    /\ pc[t] \in {"locking", "woken"}
    /\ mutex_ = "free"
    /\ connections_ = <<>>
    /\ initialized_
    /\ pc' = [pc EXCEPT ![t] = "waiting"]
    /\ UNCHANGED <<queueVars, conn, calls, dead, checkerVars>>

(* The C++ standard lets cv_.wait return with no notification. *)
SpuriousWake(t) ==
    /\ pc[t] = "waiting"
    /\ pc' = [pc EXCEPT ![t] = "woken"]
    /\ UNCHANGED <<queueVars, conn, calls, dead, checkerVars>>

(* ping() outside the mutex: hand the connection out, or replace it. *)
Ping(t) ==
    /\ pc[t] = "pinging"
    /\ pc' = [pc EXCEPT ![t] = IF conn[t] \in dead THEN "connecting" ELSE "using"]
    /\ UNCHANGED <<queueVars, conn, calls, dead, checkerVars>>

(* createConnection() succeeds: a new object takes the dead one's place.   *)
(* The old object is destroyed unless the health thread still refers to it.*)
Reconnected(t) ==
    /\ pc[t] = "connecting"
    /\ \E c \in Conns \ Live :
          /\ conn' = [conn EXCEPT ![t] = c]
          /\ dead' = IF conn[t] \in Elems(connsToCheck) THEN dead ELSE dead \ {conn[t]}
    /\ pc' = [pc EXCEPT ![t] = "using"]
    /\ UNCHANGED <<queueVars, calls, checkerVars>>

(* Fault: the catch block rethrows without giving the connection back. *)
ConnectFailedDrops(t) ==
    /\ pc[t] = "connecting"
    /\ pc' = [pc EXCEPT ![t] = "idle"]
    /\ conn' = [conn EXCEPT ![t] = NoConn]
    /\ UNCHANGED <<queueVars, calls, dead, checkerVars>>

(* createConnection() throws: conn is still the dead connection. *)
ConnectFailed(t) ==
    /\ pc[t] = "connecting"
    /\ pc' = [pc EXCEPT ![t] = "failing"]
    /\ UNCHANGED <<queueVars, conn, calls, dead, checkerVars>>

(* Fault: no notify_one. *)
PushBackSilent(t) ==
    /\ mutex_ = "free"
    /\ connections_' = Append(connections_, conn[t])
    /\ conn' = [conn EXCEPT ![t] = NoConn]
    /\ pc' = [pc EXCEPT ![t] = "idle"]
    /\ UNCHANGED <<initialized_, calls, dead, checkerVars>>

(***************************************************************************)
(* push and notify_one under the mutex.  The deleter runs it when the      *)
(* statement is done or has thrown, the catch block when the connection    *)
(* could not be replaced and getConnection rethrows.                       *)
(***************************************************************************)
PushBack(t) ==
    /\ mutex_ = "free"
    /\ connections_' = Append(connections_, conn[t])
    /\ conn' = [conn EXCEPT ![t] = NoConn]
    /\ \/ /\ Waiting = {}
          /\ pc' = [pc EXCEPT ![t] = "idle"]
       \/ \E w \in Waiting :
             pc' = [pc EXCEPT ![t] = "idle", ![w] = "woken"]
    /\ UNCHANGED <<initialized_, calls, dead, checkerVars>>

Return(t) == pc[t] = "using" /\ PushBack(t)

ReturnFailed(t) == pc[t] = "failing" /\ PushBack(t)

-----------------------------------------------------------------------------
(* checkConnections(), the queue has connections: copy it, let go. *)
CheckerSnapshot ==
    /\ chk = "top"
    /\ mutex_ = "free"
    /\ connections_ # <<>>
    /\ connsToCheck' = connections_
    /\ chk' = "checking"
    /\ UNCHANGED <<queueVars, mutex_, pc, conn, calls, dead>>

(* The queue is empty: sleep one second with the mutex held. *)
CheckerNap ==
    /\ chk = "top"
    /\ mutex_ = "free"
    /\ connections_ = <<>>
    /\ mutex_' = "checker"
    /\ chk' = "napping"
    /\ UNCHANGED <<queueVars, pc, conn, calls, dead, connsToCheck>>

(* continue: the mutex is released and at once asked for again. *)
CheckerNapEnds ==
    /\ chk = "napping"
    /\ mutex_' = "free"
    /\ chk' = "top"
    /\ UNCHANGED <<queueVars, pc, conn, calls, dead, connsToCheck>>

(***************************************************************************)
(* One turn of the loop outside the mutex: ping, and reconnect() in place  *)
(* if the ping failed; reconnect may fail, which is logged.  When the copy *)
(* goes away, a replaced object it was the last to refer to is destroyed.  *)
(***************************************************************************)
CheckerPing ==
    /\ chk = "checking"
    /\ connsToCheck # <<>>
    /\ connsToCheck' = Tail(connsToCheck)
    /\ LET c == Head(connsToCheck)
           inUse == c \in Elems(connections_) \union {conn[t] : t \in Holders}
       IN \/ dead' = dead \ {c}
          \/ c \in dead /\ inUse /\ dead' = dead
    /\ chk' = IF Len(connsToCheck) = 1 THEN "sleeping" ELSE "checking"
    /\ UNCHANGED <<queueVars, mutex_, pc, conn, calls>>

(* The 60 seconds are over. *)
CheckerWakes ==
    /\ chk = "sleeping"
    /\ chk' = "top"
    /\ UNCHANGED <<queueVars, mutex_, pc, conn, calls, dead, connsToCheck>>

(* The server drops a connection: timeout, restart, network. *)
ConnectionDies(c) ==
    /\ c \in Live \ dead
    /\ dead' = dead \union {c}
    /\ UNCHANGED <<queueVars, pc, conn, calls, checkerVars>>

-----------------------------------------------------------------------------
Caller(t) ==
    \/ GetConnection(t)
    \/ PopFront(t)
    \/ ThrowNotInitialized(t)
    \/ Wait(t)
    \/ SpuriousWake(t)
    \/ Ping(t)
    \/ Reconnected(t)
    \/ ConnectFailed(t)
    \/ Return(t)
    \/ ReturnFailed(t)

Checker ==
    \/ CheckerSnapshot
    \/ CheckerNap
    \/ CheckerNapEnds
    \/ CheckerPing
    \/ CheckerWakes

Next ==
    \/ InitPool
    \/ \E t \in Threads : Caller(t)
    \/ Checker
    \/ \E c \in Conns : ConnectionDies(c)

Spec == Init /\ [][Next]_vars

(* What t does with the mutex, and what it does without. *)
TakesMutex(t) ==
    PopFront(t) \/ ThrowNotInitialized(t) \/ Wait(t) \/ Return(t) \/ ReturnFailed(t)

Connects(t) == Ping(t) \/ Reconnected(t) \/ ConnectFailed(t)

(***************************************************************************)
(* Fairness.  A running thread goes on (WF), and a thread that asks for    *)
(* the mutex again and again while it is free gets it (SF): the health     *)
(* thread re-takes it right after its nap, so with WF alone it could win   *)
(* every time and the pool would stop.  No handler is obliged to call, the *)
(* server need not drop a connection, and cv_.wait need not wake up.       *)
(***************************************************************************)
Fairness ==
    /\ SF_vars(InitPool)
    /\ WF_vars(Checker)
    /\ \A t \in Threads : SF_vars(TakesMutex(t)) /\ WF_vars(Connects(t))

FairSpec == Spec /\ Fairness

-----------------------------------------------------------------------------
(* Every variable has its type, and mutex_ agrees with the health thread.  *)
TypeOK ==
    /\ initialized_ \in BOOLEAN
    /\ connections_ \in Seq(Conns)
    /\ mutex_ \in {"free", "checker"}
    /\ pc \in [Threads -> PCs]
    /\ conn \in [Threads -> Conns \union {NoConn}]
    /\ calls \in [Threads -> Nat]
    /\ dead \subseteq Conns
    /\ chk \in {"top", "napping", "checking", "sleeping"}
    /\ connsToCheck \in Seq(Conns)

(* A thread has a connection exactly between the pop and the push back. *)
HoldsWhilePastPop ==
    \A t \in Threads :
       conn[t] # NoConn <=> pc[t] \in {"pinging", "connecting", "failing", "using"}

(* A connection belongs to one owner: one place of the queue or one thread.*)
(* Two borrowers never run statements on one MySQL connection, and no      *)
(* deleter gives back a connection that is already in the queue.           *)
SingleOwner ==
    /\ \A i, j \in 1..Len(connections_) : connections_[i] = connections_[j] => i = j
    /\ \A t \in Holders, i \in 1..Len(connections_) : connections_[i] # conn[t]
    /\ \A t, u \in Holders : conn[t] = conn[u] => t = u

(* No connection leaks and none is added, whatever the path: replaced,     *)
(* failed to be replaced, statement thrown.                                *)
Conservation ==
    Len(connections_) + Cardinality(Holders) = IF initialized_ THEN PoolSize ELSE 0

(* No wake-up is lost: while a caller sleeps on cv_, every idle connection *)
(* has a woken caller on its way to it.                                    *)
NoLostWakeup ==
    Waiting # {} => Len(connections_) <= Cardinality(Woken)

(* Every call of getConnection ends, with a connection or an exception,    *)
(* once the other threads' calls are bounded, whatever the health thread   *)
(* does with the mutex.                                                    *)
CallsEnd ==
    \A t \in Threads : pc[t] = "locking" ~> pc[t] \in {"idle", "using"}

(* The pool implements the abstract one. *)
Pool == INSTANCE ResourcePool
            WITH Clients <- Threads, Capacity <- PoolSize,
                 opened <- initialized_, free <- Len(connections_),
                 holders <- Holders

PoolSpec == Pool!Spec
=============================================================================
