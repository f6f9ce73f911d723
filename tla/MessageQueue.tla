---------------------------- MODULE MessageQueue ----------------------------
(***************************************************************************)
(* The asynchronous write path of the chat: MQManager::publish, RabbitMQ's *)
(* sql_queue and the workers of RabbitMQThreadPool that run executeMysql   *)
(* (AIApps/ChatServer/src/AIUtil/MQManager.cpp, aiappmain/AiApp.cpp).      *)
(*                                                                         *)
(* The broker and SimpleAmqpClient are external and modelled from how they *)
(* are called: BasicPublish returns when the broker has the message or     *)
(* throws; a message for a queue nobody has declared is dropped; with      *)
(* prefetch 1 a consumer has at most one message it has not acknowledged,  *)
(* and the broker puts it back at the head of the queue when the channel   *)
(* of the consumer goes away.  The fourth argument of BasicConsume,        *)
(* no_ack, is false, so the BasicAck after handler_ is what removes the    *)
(* message (the comment above the call speaks of automatic ack).  The      *)
(* broker itself does not restart.                                         *)
(***************************************************************************)
EXTENDS Integers, Sequences, FiniteSets

CONSTANTS Publishers,      \* I/O threads that run chat()
          Statements,      \* INSERT statements per publisher: 1..Statements
          PoolSize,        \* channels of MQManager
          Workers,         \* threads of RabbitMQThreadPool
          Bad,             \* statements MySQL rejects
          None,            \* no statement
          MaxFaults,       \* bound: broken channels and lost replies
          MaxOutages       \* bound: times MySQL goes down

Msgs == Publishers \X (1..Statements)

ASSUME QueueAssumption ==
    /\ Statements \in Nat
    /\ PoolSize \in Nat \ {0}
    /\ IsFiniteSet(Workers)
    /\ Bad \subseteq Msgs
    /\ None \notin Msgs \union Publishers

VARIABLES
    sent,          \* statements each publisher is done with
    ppc,           \* "idle", "locking" or "publishing"
    index,         \* the channel a publish() call uses
    counter_,      \* MQManager::counter_
    mtx,           \* the publisher in each channel's lock, or None
    broken,        \* channels whose connection is gone
    declared,      \* the queue exists
    queue,         \* ready messages of sql_queue
    unacked,       \* the message each consumer has not acknowledged
    wpc,           \* where each worker is
    orphan,        \* the statement a worker executes though the broker has
                   \* taken the message back, or None
    stop_,         \* RabbitMQThreadPool::stop_
    mysqlUp,       \* MySQL answers
    rows,          \* rows each statement has inserted
    accepted,      \* statements the broker has queued (history)
    requeued,      \* times each statement went back to the queue (history)
    faults, outages

publisherVars == <<sent, ppc, index, counter_, mtx, broken>>
brokerVars    == <<declared, queue, unacked>>
dbVars        == <<mysqlUp, rows>>
history       == <<accepted, requeued>>
bounds        == <<faults, outages>>
workerVars    == <<wpc, orphan>>
vars == <<publisherVars, brokerVars, workerVars, stop_, dbVars, history, bounds>>

Channels == 0..PoolSize - 1

Init ==
    /\ sent = [p \in Publishers |-> 0]
    /\ ppc = [p \in Publishers |-> "idle"]
    /\ index = [p \in Publishers |-> 0]
    /\ counter_ = 0
    /\ mtx = [c \in Channels |-> None]
    /\ broken = {}
    /\ declared \in BOOLEAN          \* durable: an earlier run may have done it
    /\ queue = <<>>
    /\ unacked = [w \in Workers |-> None]
    /\ wpc = [w \in Workers |-> "start"]
    /\ orphan = [w \in Workers |-> None]
    /\ stop_ = FALSE
    /\ mysqlUp = TRUE
    /\ rows = [m \in Msgs |-> 0]
    /\ accepted = {}
    /\ requeued = [m \in Msgs |-> 0]
    /\ faults = 0
    /\ outages = 0

-----------------------------------------------------------------------------
(* publish(): a channel in turn, its lock, BasicPublish. *)

ChooseChannel(p) ==
    /\ ppc[p] = "idle"
    /\ sent[p] < Statements
    /\ index' = [index EXCEPT ![p] = counter_ % PoolSize]
    /\ counter_' = counter_ + 1
    /\ ppc' = [ppc EXCEPT ![p] = "locking"]
    /\ UNCHANGED <<sent, mtx, broken, brokerVars, workerVars, stop_, dbVars, history, bounds>>

Lock(p) ==
    /\ ppc[p] = "locking"
    /\ mtx[index[p]] = None
    /\ mtx' = [mtx EXCEPT ![index[p]] = p]
    /\ ppc' = [ppc EXCEPT ![p] = "publishing"]
    /\ UNCHANGED <<sent, index, counter_, broken, brokerVars, workerVars, stop_, dbVars, history, bounds>>

(* publish() is left, by return or by exception: the lock_guard unlocks.   *)
Leave(p) ==
    /\ mtx' = [mtx EXCEPT ![index[p]] = None]
    /\ ppc' = [ppc EXCEPT ![p] = "idle"]
    /\ sent' = [sent EXCEPT ![p] = @ + 1]

BasicPublish(p) ==
    /\ ppc[p] = "publishing"
    /\ index[p] \notin broken
    /\ LET m == <<p, sent[p] + 1>> IN
       IF declared
       THEN queue' = Append(queue, m) /\ accepted' = accepted \union {m}
       ELSE UNCHANGED <<queue, accepted>>
    /\ Leave(p)
    /\ UNCHANGED <<index, counter_, broken, declared, unacked, workerVars, stop_, dbVars, requeued, bounds>>

(* Fault: lock() and unlock() in place of the lock_guard. *)
PublishThrowsLocked(p) ==
    /\ ppc[p] = "publishing"
    /\ index[p] \in broken
    /\ ppc' = [ppc EXCEPT ![p] = "idle"]
    /\ sent' = [sent EXCEPT ![p] = @ + 1]
    /\ UNCHANGED <<index, counter_, mtx, broken, brokerVars, workerVars, stop_, dbVars, history, bounds>>

(* The channel has been closed: BasicPublish throws, now and ever after,   *)
(* since nothing opens the channel again.                                  *)
PublishThrows(p) ==
    /\ ppc[p] = "publishing"
    /\ index[p] \in broken
    /\ Leave(p)
    /\ UNCHANGED <<index, counter_, broken, brokerVars, workerVars, stop_, dbVars, history, bounds>>

ChannelBreaks(c) ==
    /\ faults < MaxFaults
    /\ c \notin broken
    /\ broken' = broken \union {c}
    /\ faults' = faults + 1
    /\ UNCHANGED <<sent, ppc, index, counter_, mtx, brokerVars, workerVars, stop_, dbVars, history, outages>>

-----------------------------------------------------------------------------
(* worker() *)

(* Channel, DeclareQueue (durable), BasicConsume, BasicQos.                *)
WorkerStarts(w) ==
    /\ wpc[w] = "start"
    /\ wpc' = [wpc EXCEPT ![w] = "ready"]
    /\ declared' = TRUE
    /\ UNCHANGED <<publisherVars, queue, unacked, orphan, stop_, dbVars, history, bounds>>

(* The broker delivers the head of the queue to a consumer with none.      *)
Deliver(w) ==
    /\ wpc[w] = "ready"
    /\ unacked[w] = None
    /\ queue # <<>>
    /\ unacked' = [unacked EXCEPT ![w] = Head(queue)]
    /\ queue' = Tail(queue)
    /\ UNCHANGED <<publisherVars, declared, workerVars, stop_, dbVars, history, bounds>>

(* BasicConsumeMessage has the message: handler_ is called.                *)
Consume(w) ==
    /\ wpc[w] = "ready"
    /\ unacked[w] # None
    /\ wpc' = [wpc EXCEPT ![w] = "inserting"]
    /\ UNCHANGED <<publisherVars, brokerVars, orphan, stop_, dbVars, history, bounds>>

(* executeMysql succeeds. *)
Insert(w) ==
    /\ wpc[w] = "inserting"
    /\ mysqlUp
    /\ unacked[w] \notin Bad
    /\ rows' = [rows EXCEPT ![unacked[w]] = @ + 1]
    /\ wpc' = [wpc EXCEPT ![w] = "acking"]
    /\ UNCHANGED <<publisherVars, brokerVars, orphan, stop_, mysqlUp, history, bounds>>

(* The thread ends for good: its channel closes and the broker takes back  *)
(* what it has not acknowledged.                                           *)
Exit(w, how) ==
    /\ wpc' = [wpc EXCEPT ![w] = how]
    /\ unacked' = [unacked EXCEPT ![w] = None]
    /\ IF unacked[w] = None
       THEN UNCHANGED <<queue, requeued>>
       ELSE /\ queue' = <<unacked[w]>> \o queue
            /\ requeued' = [requeued EXCEPT ![unacked[w]] = @ + 1]

(* Fault: the exception is caught in the loop and the message acknowledged.*)
InsertThrowsAcked(w) ==
    /\ wpc[w] = "inserting"
    /\ ~mysqlUp \/ unacked[w] \in Bad
    /\ wpc' = [wpc EXCEPT ![w] = "acking"]
    /\ UNCHANGED <<publisherVars, brokerVars, orphan, stop_, dbVars, history, bounds>>

(* executeMysql throws: the catch is outside the loop, the thread ends.    *)
InsertThrows(w) ==
    /\ wpc[w] = "inserting"
    /\ ~mysqlUp \/ unacked[w] \in Bad
    /\ Exit(w, "dead")
    /\ UNCHANGED <<publisherVars, declared, orphan, stop_, dbVars, accepted, bounds>>

(* MySQL has committed but its reply is lost: the same throw.              *)
ReplyLost(w) ==
    /\ wpc[w] = "inserting"
    /\ mysqlUp
    /\ unacked[w] \notin Bad
    /\ faults < MaxFaults
    /\ faults' = faults + 1
    /\ rows' = [rows EXCEPT ![unacked[w]] = @ + 1]
    /\ Exit(w, "dead")
    /\ UNCHANGED <<publisherVars, declared, orphan, stop_, mysqlUp, accepted, outages>>

(* Fault: the loop ends after one message. *)
AckAndLeave(w) ==
    /\ wpc[w] = "acking"
    /\ wpc' = [wpc EXCEPT ![w] = "stopped"]
    /\ unacked' = [unacked EXCEPT ![w] = None]
    /\ UNCHANGED <<publisherVars, declared, queue, orphan, stop_, dbVars, history, bounds>>

BasicAck(w) ==
    /\ wpc[w] = "acking"
    /\ wpc' = [wpc EXCEPT ![w] = "ready"]
    /\ unacked' = [unacked EXCEPT ![w] = None]
    /\ UNCHANGED <<publisherVars, declared, queue, orphan, stop_, dbVars, history, bounds>>

(* The worker's connection to RabbitMQ is gone: Channel::Create, the next  *)
(* BasicConsumeMessage or the BasicAck throws.                             *)
ConnectionLost(w) ==
    /\ wpc[w] \in {"start", "ready", "acking"}
    /\ faults < MaxFaults
    /\ faults' = faults + 1
    /\ Exit(w, "dead")
    /\ UNCHANGED <<publisherVars, declared, orphan, stop_, dbVars, accepted, outages>>

(* It goes while handler_ runs: the broker takes the message back at once  *)
(* and may deliver it to another worker, and this one goes on with it.     *)
TakenBack(w) ==
    /\ wpc[w] = "inserting"
    /\ faults < MaxFaults
    /\ faults' = faults + 1
    /\ orphan' = [orphan EXCEPT ![w] = unacked[w]]
    /\ Exit(w, "orphaned")
    /\ UNCHANGED <<publisherVars, declared, stop_, dbVars, accepted, outages>>

(* executeMysql succeeds and the BasicAck throws, or executeMysql throws.  *)
OrphanEnds(w) ==
    /\ wpc[w] = "orphaned"
    /\ wpc' = [wpc EXCEPT ![w] = "dead"]
    /\ orphan' = [orphan EXCEPT ![w] = None]
    /\ rows' = IF mysqlUp /\ orphan[w] \notin Bad
               THEN [rows EXCEPT ![orphan[w]] = @ + 1]
               ELSE rows
    /\ UNCHANGED <<publisherVars, brokerVars, stop_, mysqlUp, history, bounds>>

(* shutdown(), from the destructor at the end of main.                     *)
Shutdown ==
    /\ ~stop_
    /\ stop_' = TRUE
    /\ UNCHANGED <<publisherVars, brokerVars, workerVars, dbVars, history, bounds>>

(* while(!stop_) ends: BasicCancel, and the channel closes with the thread.*)
WorkerStops(w) ==
    /\ wpc[w] = "ready"
    /\ stop_
    /\ Exit(w, "stopped")
    /\ UNCHANGED <<publisherVars, declared, orphan, stop_, dbVars, accepted, bounds>>

MysqlDown ==
    /\ mysqlUp
    /\ outages < MaxOutages
    /\ mysqlUp' = FALSE
    /\ outages' = outages + 1
    /\ UNCHANGED <<publisherVars, brokerVars, workerVars, stop_, rows, history, faults>>

MysqlUp ==
    /\ ~mysqlUp
    /\ mysqlUp' = TRUE
    /\ UNCHANGED <<publisherVars, brokerVars, workerVars, stop_, rows, history, bounds>>

-----------------------------------------------------------------------------
Publisher(p) == ChooseChannel(p) \/ Lock(p) \/ BasicPublish(p) \/ PublishThrows(p)

Worker(w) ==
    \/ WorkerStarts(w)
    \/ Consume(w)
    \/ Insert(w)
    \/ InsertThrows(w)
    \/ BasicAck(w)
    \/ WorkerStops(w)
    \/ OrphanEnds(w)

Fault(w) == ReplyLost(w) \/ ConnectionLost(w) \/ TakenBack(w)

Next ==
    \/ \E p \in Publishers : Publisher(p)
    \/ \E c \in Channels : ChannelBreaks(c)
    \/ \E w \in Workers : Worker(w) \/ Deliver(w) \/ Fault(w)
    \/ Shutdown
    \/ MysqlDown
    \/ MysqlUp

Spec == Init /\ [][Next]_vars

(* Threads and the broker go on; a free lock that is asked for is got; an  *)
(* outage of MySQL ends.  Nobody is obliged to publish, stop or fail.      *)
Fairness ==
    /\ \A p \in Publishers :
          SF_vars(Lock(p)) /\ WF_vars(BasicPublish(p) \/ PublishThrows(p))
    /\ \A w \in Workers : WF_vars(Worker(w)) /\ WF_vars(Deliver(w))
    /\ WF_vars(MysqlUp)

FairSpec == Spec /\ Fairness

-----------------------------------------------------------------------------
TypeOK ==
    /\ sent \in [Publishers -> 0..Statements]
    /\ ppc \in [Publishers -> {"idle", "locking", "publishing"}]
    /\ index \in [Publishers -> Channels]
    /\ counter_ \in Nat
    /\ mtx \in [Channels -> Publishers \union {None}]
    /\ broken \subseteq Channels
    /\ declared \in BOOLEAN
    /\ queue \in Seq(Msgs)
    /\ unacked \in [Workers -> Msgs \union {None}]
    /\ wpc \in [Workers -> {"start", "ready", "inserting", "acking", "orphaned",
                            "dead", "stopped"}]
    /\ orphan \in [Workers -> Msgs \union {None}]
    /\ stop_ \in BOOLEAN
    /\ mysqlUp \in BOOLEAN
    /\ rows \in [Msgs -> Nat]
    /\ accepted \subseteq Msgs
    /\ requeued \in [Msgs -> Nat]
    /\ faults \in Nat
    /\ outages \in Nat

Queued == {queue[i] : i \in 1..Len(queue)}
InHand == {unacked[w] : w \in Workers} \ {None}
Stored == {m \in Msgs : rows[m] > 0}

(* A statement the broker has taken is ready, in the hands of a worker, or *)
(* in the database, whatever fails and whenever: nothing is lost.          *)
NoLoss == accepted \subseteq Queued \union InHand \union Stored

(* The broker has a statement in one place: ready, or with one consumer.   *)
OneCopy ==
    /\ \A i, j \in 1..Len(queue) : queue[i] = queue[j] => i = j
    /\ \A v, w \in Workers : unacked[v] = unacked[w] /\ unacked[w] # None => v = w
    /\ Queued \intersect InHand = {}

(* Two workers may execute one statement at once, after the broker has     *)
(* taken it back from the first.  Still every row too many is paid for: a  *)
(* statement has at most one row more than the times it went back to the   *)
(* queue, the rows counted that such workers have yet to add.              *)
Orphans(m) == {w \in Workers : orphan[w] = m}
RowsBounded ==
    \A m \in Msgs : rows[m] + Cardinality(Orphans(m)) <= 1 + requeued[m]

(* publish() never leaves a channel locked, nor gives it to two threads:   *)
(* a publisher is inside the lock of its channel exactly while publishing. *)
ChannelLocked ==
    \A p \in Publishers, c \in Channels :
       mtx[c] = p <=> ppc[p] = "publishing" /\ index[p] = c

(* The write path is at least once. *)
Log == INSTANCE SqlLog
           WITH Statements <- Msgs, waiting <- Queued \union InHand, stored <- Stored

LogSpec == Log!Spec

(* While a worker is left and nobody stops the pool, every statement the   *)
(* broker has taken gets to the database.                                  *)
EventuallyStored ==
    \A m \in Msgs :
       m \in accepted ~>
          m \in Stored \/ stop_ \/ \A w \in Workers : wpc[w] = "dead"
=============================================================================
