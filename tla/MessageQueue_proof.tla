------------------------- MODULE MessageQueue_proof -------------------------
(***************************************************************************)
(* Proofs about MessageQueue, for any publishers, statements, workers and  *)
(* number of channels, and any number of faults and outages: types, the    *)
(* locks of the channels, one copy and no loss of a statement, the bound   *)
(* on doubled rows, and that the write path implements SqlLog.             *)
(***************************************************************************)
EXTENDS MessageQueue, SequenceTheorems, FiniteSetTheorems, TLAPS

(* Sequences without repetition, as sets. *)

Elems(s) == {s[i] : i \in 1..Len(s)}
Distinct(s) == \A i, j \in 1..Len(s) : s[i] = s[j] => i = j

LEMMA ElemsAppend ==
  ASSUME NEW S, NEW s \in Seq(S), NEW e \in S
  PROVE  /\ Append(s, e) \in Seq(S)
         /\ Elems(Append(s, e)) = Elems(s) \union {e}
         /\ Distinct(s) /\ e \notin Elems(s) => Distinct(Append(s, e))
  <1> DEFINE a == Append(s, e)
  <1>1. /\ a \in Seq(S)
        /\ Len(s) \in Nat /\ Len(a) = Len(s) + 1
        /\ \A i \in 1..Len(s) : a[i] = s[i]
        /\ a[Len(s) + 1] = e
    BY AppendProperties, LenProperties
  <1>2. 1..Len(a) = 1..Len(s) \union {Len(s) + 1}
    BY <1>1
  <1> HIDE DEF a
  <1>3. Elems(a) = Elems(s) \union {e}
    BY <1>1, <1>2 DEF Elems
  <1>4. Distinct(s) /\ e \notin Elems(s) => Distinct(a)
    BY <1>1, <1>2 DEF Elems, Distinct
  <1> QED
    BY <1>1, <1>3, <1>4 DEF a

LEMMA ElemsTail ==
  ASSUME NEW S, NEW s \in Seq(S), s # <<>>
  PROVE  /\ Head(s) \in S /\ Tail(s) \in Seq(S)
         /\ Elems(s) = Elems(Tail(s)) \union {Head(s)}
         /\ Distinct(s) => Distinct(Tail(s)) /\ Head(s) \notin Elems(Tail(s))
  <1> DEFINE r == Tail(s)
  <1>1. /\ Head(s) \in S /\ Head(s) = s[1] /\ r \in Seq(S)
        /\ Len(s) \in Nat \ {0} /\ Len(r) = Len(s) - 1
        /\ \A i \in 1..Len(r) : r[i] = s[i + 1]
    BY HeadTailProperties, LenProperties, EmptySeq
  <1>2. \A i \in 1..Len(s) : i = 1 \/ (i - 1 \in 1..Len(r) /\ s[i] = r[i - 1])
    BY <1>1
  <1>3. \A i \in 1..Len(r) : i + 1 \in 1..Len(s)
    BY <1>1
  <1>4. 1 \in 1..Len(s)
    BY <1>1
  <1> HIDE DEF r
  <1>5. Elems(s) = Elems(r) \union {Head(s)}
    BY <1>1, <1>2, <1>3, <1>4 DEF Elems
  <1>6. Distinct(s) => Distinct(r) /\ Head(s) \notin Elems(r)
    <2> SUFFICES ASSUME Distinct(s) PROVE Distinct(r) /\ Head(s) \notin Elems(r)
      OBVIOUS
    <2>1. ASSUME NEW i \in 1..Len(r), NEW j \in 1..Len(r), r[i] = r[j] PROVE i = j
      <3>1. i + 1 = j + 1
        BY <1>1, <1>3, <2>1 DEF Distinct
      <3> QED
        BY <3>1, <1>1
    <2>2. ASSUME NEW i \in 1..Len(r), r[i] = Head(s) PROVE FALSE
      <3>1. i + 1 = 1
        BY <1>1, <1>3, <1>4, <2>2 DEF Distinct
      <3> QED
        BY <3>1, <1>1
    <2> QED
      BY <2>1, <2>2 DEF Distinct, Elems
  <1> QED
    BY <1>1, <1>5, <1>6 DEF r

LEMMA ElemsCons ==
  ASSUME NEW S, NEW s \in Seq(S), NEW e \in S
  PROVE  /\ <<e>> \o s \in Seq(S)
         /\ Elems(<<e>> \o s) = Elems(s) \union {e}
         /\ Distinct(s) /\ e \notin Elems(s) => Distinct(<<e>> \o s)
  <1> DEFINE c == <<e>> \o s
  <1>1. /\ <<e>> \in Seq(S) /\ Len(<<e>>) = 1 /\ <<e>>[1] = e
    OBVIOUS
  <1>2. /\ c \in Seq(S)
        /\ Len(s) \in Nat /\ Len(c) = Len(s) + 1
        /\ \A i \in 1..Len(c) : c[i] = IF i = 1 THEN e ELSE s[i - 1]
    BY <1>1, ConcatProperties, LenProperties
  <1>3. \A i \in 1..Len(s) : i + 1 \in 1..Len(c) /\ c[i + 1] = s[i]
    BY <1>2
  <1>4. \A i \in 1..Len(c) : i = 1 \/ (i - 1 \in 1..Len(s) /\ c[i] = s[i - 1])
    BY <1>2
  <1>5. 1 \in 1..Len(c) /\ c[1] = e
    BY <1>2
  <1> HIDE DEF c
  <1>6. Elems(c) = Elems(s) \union {e}
    BY <1>3, <1>4, <1>5 DEF Elems
  <1>7. Distinct(s) /\ e \notin Elems(s) => Distinct(c)
    <2> SUFFICES ASSUME Distinct(s), e \notin Elems(s),
                        NEW i \in 1..Len(c), NEW j \in 1..Len(c), c[i] = c[j]
                 PROVE  i = j
      BY DEF Distinct
    <2>1. CASE i = 1 \/ j = 1
      BY <2>1, <1>4, <1>5 DEF Elems
    <2>2. CASE i # 1 /\ j # 1
      <3>1. i - 1 = j - 1
        BY <2>2, <1>4 DEF Distinct
      <3> QED
        BY <3>1, <1>2
    <2> QED
      BY <2>1, <2>2
  <1> QED
    BY <1>2, <1>6, <1>7 DEF c

-----------------------------------------------------------------------------
(* Types and the locks of the channels. *)

(* A publisher in publish() has a statement left to send; a worker in      *)
(* handler_ or past it has a message in hand, the broker's or an orphan.   *)
Busy ==
    /\ \A p \in Publishers : ppc[p] # "idle" => sent[p] < Statements
    /\ \A w \in Workers : wpc[w] \in {"inserting", "acking"} => unacked[w] # None
    /\ \A w \in Workers : orphan[w] # None <=> wpc[w] = "orphaned"

WorkerPlaces == {"start", "ready", "inserting", "acking", "orphaned", "dead", "stopped"}
Endings == {"orphaned", "dead", "stopped"}

TypeInv == TypeOK /\ Busy

LEMMA TypeInvInit == Init => TypeInv
  <1> SUFFICES ASSUME Init PROVE TypeInv
    OBVIOUS
  <1>1. queue \in Seq(Msgs)
    BY EmptySeq DEF Init
  <1>2. 0 \in Channels /\ 0 \in 0..Statements
    BY QueueAssumption DEF Channels
  <1> QED
    BY <1>1, <1>2 DEF Init, TypeInv, TypeOK, Busy

(* What publish() sends. *)
LEMMA NextStatement ==
  ASSUME TypeInv, NEW p \in Publishers, ppc[p] = "publishing"
  PROVE  <<p, sent[p] + 1>> \in Msgs /\ sent[p] + 1 \in 0..Statements
  <1>1. sent[p] \in 0..Statements /\ sent[p] < Statements
    BY DEF TypeInv, TypeOK, Busy
  <1>2. sent[p] + 1 \in 1..Statements /\ sent[p] + 1 \in 0..Statements
    BY <1>1, QueueAssumption
  <1> QED
    BY <1>2 DEF Msgs

(* The thread that ends gives its message back. *)
LEMMA ExitTypes ==
  ASSUME TypeInv, NEW w \in Workers, NEW how \in Endings, Exit(w, how)
  PROVE  /\ queue' \in Seq(Msgs)
         /\ unacked' \in [Workers -> Msgs \union {None}]
         /\ wpc' \in [Workers -> WorkerPlaces]
         /\ requeued' \in [Msgs -> Nat]
         /\ \A v \in Workers : wpc'[v] \in {"inserting", "acking"} => unacked'[v] # None
         /\ \A v \in Workers : wpc'[v] = IF v = w THEN how ELSE wpc[v]
  <1> USE DEF WorkerPlaces, Endings
  <1>1. CASE unacked[w] = None
    BY <1>1 DEF Exit, TypeInv, TypeOK, Busy
  <1>2. CASE unacked[w] # None
    <2>1. unacked[w] \in Msgs
      BY <1>2 DEF TypeInv, TypeOK
    <2>2. queue \in Seq(Msgs)
      BY DEF TypeInv, TypeOK
    <2>3. queue' = <<unacked[w]>> \o queue
      BY <1>2 DEF Exit
    <2>4. queue' \in Seq(Msgs)
      BY <2>1, <2>2, <2>3, ElemsCons
    <2>5. requeued' \in [Msgs -> Nat]
      BY <1>2, <2>1 DEF Exit, TypeInv, TypeOK
    <2> QED
      BY <2>4, <2>5 DEF Exit, TypeInv, TypeOK, Busy
  <1> QED
    BY <1>1, <1>2

LEMMA TypeInvNext == TypeInv /\ [Next]_vars => TypeInv'
  <1> SUFFICES ASSUME TypeInv, [Next]_vars PROVE TypeInv'
    OBVIOUS
  <1> USE QueueAssumption
          DEF publisherVars, brokerVars, workerVars, dbVars, history, bounds,
              WorkerPlaces, Endings
  <1>1. ASSUME NEW p \in Publishers, Publisher(p) PROVE TypeInv'
    <2>1. CASE ChooseChannel(p)
      <3>1. counter_ % PoolSize \in Channels
        BY DEF TypeInv, TypeOK, Channels
      <3> QED
        BY <2>1, <3>1 DEF ChooseChannel, TypeInv, TypeOK, Busy
    <2>2. CASE Lock(p)
      BY <2>2 DEF Lock, TypeInv, TypeOK, Busy
    <2>3. CASE BasicPublish(p)
      <3>1. /\ <<p, sent[p] + 1>> \in Msgs
            /\ sent[p] + 1 \in 0..Statements
        BY <2>3, NextStatement DEF BasicPublish
      <3>2. queue \in Seq(Msgs) /\ accepted \subseteq Msgs
        BY DEF TypeInv, TypeOK
      <3>3. queue' \in Seq(Msgs) /\ accepted' \subseteq Msgs
        <4> DEFINE m == <<p, sent[p] + 1>>
        <4>1. Append(queue, m) \in Seq(Msgs) /\ accepted \union {m} \subseteq Msgs
          BY <3>1, <3>2, AppendProperties
        <4>2. \/ queue' = Append(queue, m) /\ accepted' = accepted \union {m}
              \/ queue' = queue /\ accepted' = accepted
          BY <2>3 DEF BasicPublish
        <4> HIDE DEF m
        <4> QED
          BY <3>2, <4>1, <4>2
      <3>4. /\ sent' \in [Publishers -> 0..Statements]
            /\ ppc' \in [Publishers -> {"idle", "locking", "publishing"}]
            /\ mtx' \in [Channels -> Publishers \union {None}]
        BY <2>3, <3>1 DEF BasicPublish, Leave, TypeInv, TypeOK
      <3>5. Busy'
        BY <2>3 DEF BasicPublish, Leave, TypeInv, TypeOK, Busy
      <3> QED
        BY <2>3, <3>3, <3>4, <3>5 DEF BasicPublish, TypeInv, TypeOK
    <2>4. CASE PublishThrows(p)
      BY <2>4, NextStatement DEF PublishThrows, Leave, TypeInv, TypeOK, Busy
    <2> QED
      BY <1>1, <2>1, <2>2, <2>3, <2>4 DEF Publisher
  <1>2. ASSUME NEW w \in Workers, Worker(w) \/ Deliver(w) \/ Fault(w) PROVE TypeInv'
    <2>1. CASE WorkerStarts(w)
      BY <2>1 DEF WorkerStarts, TypeInv, TypeOK, Busy
    <2>2. CASE Consume(w)
      BY <2>2 DEF Consume, TypeInv, TypeOK, Busy
    <2>3. CASE Insert(w)
      <3>1. unacked[w] \in Msgs
        BY <2>3 DEF Insert, TypeInv, TypeOK, Busy
      <3> QED
        BY <2>3, <3>1 DEF Insert, TypeInv, TypeOK, Busy
    <2>4. CASE InsertThrows(w)
      BY <2>4, ExitTypes DEF InsertThrows, TypeInv, TypeOK, Busy
    <2>5. CASE BasicAck(w)
      BY <2>5 DEF BasicAck, TypeInv, TypeOK, Busy
    <2>6. CASE WorkerStops(w)
      BY <2>6, ExitTypes DEF WorkerStops, TypeInv, TypeOK, Busy
    <2>7. CASE Deliver(w)
      <3>1. Head(queue) \in Msgs /\ Tail(queue) \in Seq(Msgs)
        BY <2>7, ElemsTail DEF Deliver, TypeInv, TypeOK
      <3> QED
        BY <2>7, <3>1 DEF Deliver, TypeInv, TypeOK, Busy
    <2>8. CASE ReplyLost(w)
      <3>1. unacked[w] \in Msgs
        BY <2>8 DEF ReplyLost, TypeInv, TypeOK, Busy
      <3> QED
        BY <2>8, <3>1, ExitTypes DEF ReplyLost, TypeInv, TypeOK, Busy
    <2>9. CASE ConnectionLost(w)
      BY <2>9, ExitTypes DEF ConnectionLost, TypeInv, TypeOK, Busy
    <2>10. CASE TakenBack(w)
      <3>1. unacked[w] \in Msgs
        BY <2>10 DEF TakenBack, TypeInv, TypeOK, Busy
      <3> QED
        BY <2>10, <3>1, ExitTypes DEF TakenBack, TypeInv, TypeOK, Busy
    <2>11. CASE OrphanEnds(w)
      <3>1. orphan[w] \in Msgs
        BY <2>11 DEF OrphanEnds, TypeInv, TypeOK, Busy
      <3>2. rows' \in [Msgs -> Nat]
        BY <2>11, <3>1 DEF OrphanEnds, TypeInv, TypeOK
      <3> QED
        BY <2>11, <3>2 DEF OrphanEnds, TypeInv, TypeOK, Busy
    <2> QED
      BY <1>2, <2>1, <2>2, <2>3, <2>4, <2>5, <2>6, <2>7, <2>8, <2>9, <2>10, <2>11
         DEF Worker, Fault
  <1>3. ASSUME NEW c \in Channels, ChannelBreaks(c) PROVE TypeInv'
    BY <1>3 DEF ChannelBreaks, TypeInv, TypeOK, Busy
  <1>4. CASE Shutdown
    BY <1>4 DEF Shutdown, TypeInv, TypeOK, Busy
  <1>5. CASE MysqlDown
    <2>1. outages' \in Nat
      <3>1. outages \in Nat /\ outages' = outages + 1
        BY <1>5 DEF MysqlDown, TypeInv, TypeOK
      <3> QED
        BY <3>1
    <2>2. mysqlUp' \in BOOLEAN
      BY <1>5, Zenon DEF MysqlDown
    <2>3. UNCHANGED <<publisherVars, brokerVars, workerVars, stop_, rows, history, faults>>
      BY <1>5 DEF MysqlDown
    <2>4. TypeOK'
      BY <2>1, <2>2, <2>3 DEF TypeInv, TypeOK
    <2> QED
      BY <2>3, <2>4 DEF TypeInv, Busy
  <1>6. CASE MysqlUp
    BY <1>6 DEF MysqlUp, TypeInv, TypeOK, Busy
  <1>7. CASE UNCHANGED vars
    BY <1>7 DEF vars, TypeInv, TypeOK, Busy
  <1> QED
    BY <1>1, <1>2, <1>3, <1>4, <1>5, <1>6, <1>7 DEF Next

LEMMA TypeInvariant == Spec => []TypeInv
  BY TypeInvInit, TypeInvNext, PTL DEF Spec

(* Every variable keeps its type: a channel that exists is chosen, and no  *)
(* more statements are sent than there are.                                *)
THEOREM TypeCorrect == Spec => []TypeOK
  <1>1. TypeInv => TypeOK
    BY DEF TypeInv
  <1> QED
    BY <1>1, TypeInvariant, PTL

LEMMA ChannelLockedNext == TypeInv /\ ChannelLocked /\ [Next]_vars => ChannelLocked'
  <1> SUFFICES ASSUME TypeInv, ChannelLocked, [Next]_vars PROVE ChannelLocked'
    OBVIOUS
  <1> USE QueueAssumption
  <1>1. ASSUME NEW p \in Publishers, Publisher(p) PROVE ChannelLocked'
    <2>1. CASE ChooseChannel(p)
      BY <2>1 DEF ChooseChannel, TypeInv, TypeOK, ChannelLocked
    <2>2. CASE Lock(p)
      BY <2>2 DEF Lock, TypeInv, TypeOK, ChannelLocked
    <2>3. CASE BasicPublish(p) \/ PublishThrows(p)
      <3>1. ppc[p] = "publishing" /\ Leave(p) /\ index' = index
        BY <2>3 DEF BasicPublish, PublishThrows
      <3> QED
        BY <3>1 DEF Leave, TypeInv, TypeOK, ChannelLocked
    <2> QED
      BY <1>1, <2>1, <2>2, <2>3 DEF Publisher
  <1>2. CASE UNCHANGED <<mtx, ppc, index>>
    BY <1>2 DEF ChannelLocked
  <1> QED
    BY <1>1, <1>2 DEF Next, vars, publisherVars, Worker, Fault, WorkerStarts, Consume,
       Insert, InsertThrows, BasicAck, WorkerStops, Deliver, ReplyLost, ConnectionLost,
       TakenBack, OrphanEnds, ChannelBreaks, Shutdown, MysqlDown, MysqlUp

(* A channel has at most one thread inside its lock, and a thread that     *)
(* leaves publish(), by return or by exception, leaves it unlocked.        *)
THEOREM ChannelsExclusive == Spec => []ChannelLocked
  <1>1. Init => ChannelLocked
    BY QueueAssumption DEF Init, ChannelLocked
  <1> QED
    BY <1>1, TypeInvariant, ChannelLockedNext, PTL DEF Spec

-----------------------------------------------------------------------------
(* Where statements are, and what each kind of step does to that. *)

(* The parts of the invariant beside TypeInv, NoLoss and OneCopy: what is  *)
(* on its way was accepted, what was accepted was sent, what is being      *)
(* acknowledged is stored, and a statement that will still be executed has *)
(* no more rows than redeliveries, counting those its orphans may add.     *)
Taken ==
    /\ Queued \union InHand \union Stored \subseteq accepted
    /\ \A w \in Workers : orphan[w] # None => orphan[w] \in accepted
SentOnce == \A m \in accepted : m[2] <= sent[m[1]]
AckStored == \A w \in Workers : wpc[w] = "acking" => unacked[w] \in Stored
Due(m) == rows[m] + Cardinality(Orphans(m))
Doubled ==
    \A m \in Msgs :
       /\ Due(m) <= 1 + requeued[m]
       /\ m \in Queued => Due(m) <= requeued[m]
       /\ \A w \in Workers :
             unacked[w] = m /\ wpc[w] # "acking" => Due(m) <= requeued[m]

(* What a step of worker w on statement m does to the rows there are and   *)
(* those its orphans may add.                                              *)
MoreDue(m) == \A k \in Msgs : Due(k)' = IF k = m THEN Due(k) + 1 ELSE Due(k)

LEMMA DueSteps ==
  ASSUME TypeInv, NEW w \in Workers, NEW m \in Msgs
  PROVE  /\ \A k \in Msgs : Due(k) \in Nat /\ rows[k] <= Due(k)
         /\ orphan' = orphan /\ rows' = rows => \A k \in Msgs : Due(k)' = Due(k)
         /\ orphan' = orphan /\ rows' = [rows EXCEPT ![m] = @ + 1] => MoreDue(m)
         /\ /\ orphan[w] = None /\ orphan' = [orphan EXCEPT ![w] = m] /\ rows' = rows
            => MoreDue(m)
         /\ /\ orphan[w] = m /\ orphan' = [orphan EXCEPT ![w] = None]
            /\ rows' = rows \/ rows' = [rows EXCEPT ![m] = @ + 1]
            => \A k \in Msgs : Due(k)' \in Nat /\ Due(k)' <= Due(k)
  <1> DEFINE C(k) == Cardinality(Orphans(k))
  <1>1. rows \in [Msgs -> Nat] /\ orphan \in [Workers -> Msgs \union {None}] /\ None \notin Msgs
    BY QueueAssumption DEF TypeInv, TypeOK
  <1>2. \A k : IsFiniteSet(Orphans(k)) /\ C(k) \in Nat
    BY QueueAssumption, FS_Subset, FS_CardinalityType DEF Orphans
  <1>3. ASSUME orphan' = orphan PROVE \A k : C(k)' = C(k)
    BY <1>3 DEF Orphans
  <1>4. ASSUME orphan[w] = None, orphan' = [orphan EXCEPT ![w] = m]
        PROVE  \A k \in Msgs : C(k)' = IF k = m THEN C(k) + 1 ELSE C(k)
    <2>1. w \notin Orphans(m) /\ Orphans(m)' = Orphans(m) \union {w}
      BY <1>1, <1>4 DEF Orphans
    <2>2. \A k \in Msgs : k # m => Orphans(k)' = Orphans(k)
      BY <1>1, <1>4 DEF Orphans
    <2>3. C(m)' = C(m) + 1
      BY <1>2, <2>1, FS_AddElement
    <2> QED
      BY <2>2, <2>3
  <1>5. ASSUME orphan[w] = m, orphan' = [orphan EXCEPT ![w] = None]
        PROVE  \A k \in Msgs : C(k)' = IF k = m THEN C(k) - 1 ELSE C(k)
    <2>1. w \in Orphans(m) /\ Orphans(m)' = Orphans(m) \ {w}
      BY <1>1, <1>5 DEF Orphans
    <2>2. \A k \in Msgs : k # m => Orphans(k)' = Orphans(k)
      BY <1>1, <1>5 DEF Orphans
    <2>3. C(m)' = C(m) - 1
      BY <1>2, <2>1, FS_RemoveElement
    <2> QED
      BY <2>2, <2>3
  <1>6. ASSUME orphan[w] = m PROVE C(m) >= 1
    <2>1. w \in Orphans(m)
      BY <1>6 DEF Orphans
    <2>2. C(m) # 0
      BY <1>2, <2>1, FS_EmptySet
    <2> QED
      BY <1>2, <2>2
  <1>7. \A k \in Msgs : Due(k) = rows[k] + C(k) /\ Due(k)' = rows'[k] + C(k)'
    BY DEF Due
  <1>8. \A k \in Msgs : C(k) \in Nat /\ rows[k] \in Nat
    BY <1>1, <1>2
  <1> HIDE DEF C
  <1>9. ASSUME orphan[w] = m, orphan' = [orphan EXCEPT ![w] = None],
               rows' = rows \/ rows' = [rows EXCEPT ![m] = @ + 1], NEW k \in Msgs
        PROVE  Due(k)' \in Nat /\ Due(k)' <= Due(k)
    <2>1. C(k)' = (IF k = m THEN C(k) - 1 ELSE C(k)) /\ (k = m => C(k) >= 1)
      BY <1>5, <1>6, <1>9
    <2>2. rows'[k] = rows[k] \/ (k = m /\ rows'[k] = rows[k] + 1)
      <3>1. CASE rows' = rows
        BY <3>1
      <3>2. CASE rows' = [rows EXCEPT ![m] = @ + 1]
        BY <1>1, <3>2
      <3> QED
        BY <1>9, <3>1, <3>2
    <2> QED
      BY <1>7, <1>8, <2>1, <2>2
  <1> QED
    BY <1>1, <1>3, <1>4, <1>7, <1>8, <1>9 DEF MoreDue

QueueInv ==
    /\ TypeInv
    /\ Taken
    /\ SentOnce
    /\ AckStored
    /\ Doubled
    /\ OneCopy
    /\ NoLoss

(* The broker takes statement m of publisher p. *)
Accepts(p, m) ==
    /\ ppc[p] = "publishing"
    /\ m = <<p, sent[p] + 1>>
    /\ queue' = Append(queue, m)
    /\ accepted' = accepted \union {m}
    /\ sent' = [sent EXCEPT ![p] = @ + 1]
    /\ UNCHANGED <<unacked, wpc, orphan, rows, requeued>>

(* Worker w ends, having executed its statement or not, or loses its       *)
(* connection while executing it.                                          *)
Ends(w, how) ==
    /\ Exit(w, how)
    /\ \/ rows' = rows /\ orphan' = orphan
       \/ /\ wpc[w] = "inserting"
          /\ rows' = [rows EXCEPT ![unacked[w]] = @ + 1] /\ orphan' = orphan
       \/ /\ wpc[w] = "inserting"
          /\ rows' = rows /\ orphan' = [orphan EXCEPT ![w] = unacked[w]]
    /\ UNCHANGED <<accepted, sent>>

(* Nothing moves; a publish() may have failed. *)
Aside ==
    /\ UNCHANGED <<queue, unacked, orphan, rows, accepted, requeued>>
    /\ \A p \in Publishers : sent'[p] >= sent[p]
    /\ \A w \in Workers : wpc'[w] = "acking" <=> wpc[w] = "acking"

LEMMA QueueSteps ==
  ASSUME TypeInv, [Next]_vars
  PROVE  \/ \E p \in Publishers, m \in Msgs : Accepts(p, m)
         \/ \E w \in Workers : Deliver(w) \/ Insert(w) \/ BasicAck(w) \/ OrphanEnds(w)
         \/ \E w \in Workers, how \in Endings : Ends(w, how)
         \/ Aside
  <1> DEFINE Goal == \/ \E p \in Publishers, m \in Msgs : Accepts(p, m)
                     \/ \E w \in Workers : Deliver(w) \/ Insert(w) \/ BasicAck(w) \/ OrphanEnds(w)
                     \/ \E w \in Workers, how \in Endings : Ends(w, how)
                     \/ Aside
  <1> USE DEF publisherVars, brokerVars, workerVars, dbVars, history, bounds
  <1>0. \A p \in Publishers : sent[p] \in Int
    BY QueueAssumption DEF TypeInv, TypeOK
  <1>1. ASSUME NEW p \in Publishers, BasicPublish(p) PROVE Goal
    <2>1. CASE declared
      <3>1. <<p, sent[p] + 1>> \in Msgs
        BY <1>1, NextStatement DEF BasicPublish
      <3>2. Accepts(p, <<p, sent[p] + 1>>)
        BY <1>1, <2>1 DEF BasicPublish, Accepts, Leave
      <3> QED
        BY <3>1, <3>2
    <2>2. CASE ~declared
      <3>1. Aside
        BY <1>0, <1>1, <2>2 DEF BasicPublish, Leave, Aside, TypeInv, TypeOK
      <3> QED
        BY <3>1
    <2> QED
      BY <2>1, <2>2
  <1>2. ASSUME NEW p \in Publishers, PublishThrows(p) PROVE Aside
    BY <1>0, <1>2 DEF PublishThrows, Leave, Aside, TypeInv, TypeOK
  <1>3. ASSUME NEW p \in Publishers, ChooseChannel(p) \/ Lock(p) PROVE Aside
    BY <1>0, <1>3 DEF ChooseChannel, Lock, Aside
  <1>4. ASSUME NEW w \in Workers, WorkerStarts(w) \/ Consume(w) PROVE Aside
    BY <1>0, <1>4 DEF WorkerStarts, Consume, Aside, TypeInv, TypeOK
  <1>5. ASSUME NEW w \in Workers,
               \/ InsertThrows(w) \/ ReplyLost(w) \/ ConnectionLost(w)
               \/ TakenBack(w) \/ WorkerStops(w)
        PROVE  \E how \in Endings : Ends(w, how)
    BY <1>5 DEF InsertThrows, ReplyLost, ConnectionLost, TakenBack, WorkerStops, Ends, Endings
  <1>6. CASE \/ \E c \in Channels : ChannelBreaks(c)
             \/ Shutdown \/ MysqlDown \/ MysqlUp \/ UNCHANGED vars
    <2>1. Aside
      BY <1>0, <1>6 DEF ChannelBreaks, Shutdown, MysqlDown, MysqlUp, vars, Aside
    <2> QED
      BY <2>1
  <1> QED
    BY <1>1, <1>2, <1>3, <1>4, <1>5, <1>6 DEF Next, Publisher, Worker, Fault

(* A statement that is sent is new. *)
LEMMA AcceptsEffect ==
  ASSUME QueueInv, NEW p \in Publishers, NEW m \in Msgs, Accepts(p, m)
  PROVE  /\ m \notin accepted
         /\ Queued' = Queued \union {m}
         /\ InHand' = InHand
         /\ Stored' = Stored
         /\ Distinct(queue')
  <1>1. sent[p] \in Int
    BY QueueAssumption DEF QueueInv, TypeInv, TypeOK
  <1>2. m \notin accepted
    BY <1>1 DEF QueueInv, SentOnce, Accepts
  <1>3. queue \in Seq(Msgs) /\ Distinct(queue) /\ m \notin Elems(queue)
    BY <1>2 DEF QueueInv, TypeInv, TypeOK, OneCopy, Distinct, Taken, Queued, Elems
  <1>4. Elems(queue') = Elems(queue) \union {m} /\ Distinct(queue')
    BY <1>3, ElemsAppend DEF Accepts
  <1> QED
    BY <1>2, <1>4 DEF Accepts, Queued, Elems, InHand, Stored

LEMMA DeliverEffect ==
  ASSUME QueueInv, NEW w \in Workers, Deliver(w)
  PROVE  /\ Head(queue) \in Msgs
         /\ Queued = Queued' \union {Head(queue)}
         /\ Head(queue) \notin Queued'
         /\ Head(queue) \notin InHand
         /\ InHand' = InHand \union {Head(queue)}
         /\ Stored' = Stored
         /\ Distinct(queue')
  <1>1. queue \in Seq(Msgs) /\ Distinct(queue) /\ queue # <<>>
    BY DEF QueueInv, TypeInv, TypeOK, OneCopy, Distinct, Deliver
  <1>2. /\ Head(queue) \in Msgs
        /\ Elems(queue) = Elems(queue') \union {Head(queue)}
        /\ Distinct(queue') /\ Head(queue) \notin Elems(queue')
    BY <1>1, ElemsTail DEF Deliver
  <1>3. Head(queue) # None
    BY <1>2, QueueAssumption
  <1>4. InHand' = InHand \union {Head(queue)}
    BY <1>3 DEF Deliver, InHand, QueueInv, TypeInv, TypeOK
  <1>5. Queued = Elems(queue) /\ Queued' = Elems(queue')
    BY DEF Queued, Elems
  <1>6. Head(queue) \notin InHand
    BY <1>2, <1>5 DEF QueueInv, OneCopy
  <1>7. Stored' = Stored
    BY DEF Deliver, dbVars, Stored
  <1> QED
    BY <1>2, <1>4, <1>5, <1>6, <1>7

LEMMA EndsEffect ==
  ASSUME QueueInv, NEW w \in Workers, NEW how \in Endings, Ends(w, how),
         unacked[w] # None
  PROVE  /\ unacked[w] \in Msgs
         /\ Queued' = Queued \union {unacked[w]}
         /\ InHand' = InHand \ {unacked[w]}
         /\ Stored' = Stored \/ Stored' = Stored \union {unacked[w]}
         /\ Distinct(queue')
  <1> DEFINE m == unacked[w]
  <1>1. m \in Msgs /\ queue \in Seq(Msgs) /\ Distinct(queue)
    BY DEF QueueInv, TypeInv, TypeOK, OneCopy, Distinct
  <1>2. m \in InHand
    BY DEF InHand
  <1>3. Queued = Elems(queue) /\ Queued' = Elems(queue')
    BY DEF Queued, Elems
  <1>4. m \notin Elems(queue)
    BY <1>2, <1>3 DEF QueueInv, OneCopy
  <1>5. queue' = <<m>> \o queue
    BY DEF Ends, Exit
  <1>6. Elems(queue') = Elems(queue) \union {m} /\ Distinct(queue')
    BY <1>1, <1>4, <1>5, ElemsCons
  <1>7. InHand' = InHand \ {m}
    BY DEF Ends, Exit, InHand, QueueInv, TypeInv, TypeOK, OneCopy
  <1>8. Stored' = Stored \/ Stored' = Stored \union {m}
    <2>1. rows \in [Msgs -> Nat]
      BY DEF QueueInv, TypeInv, TypeOK
    <2> QED
      BY <1>1, <2>1 DEF Ends, Stored
  <1> QED
    BY <1>1, <1>3, <1>6, <1>7, <1>8

LEMMA InsertEffect ==
  ASSUME QueueInv, NEW w \in Workers, Insert(w)
  PROVE  /\ unacked[w] \in InHand
         /\ unacked[w] \in Msgs
         /\ Queued' = Queued
         /\ InHand' = InHand
         /\ Stored' = Stored \union {unacked[w]}
  <1>1. unacked[w] \in Msgs /\ unacked[w] \in InHand
    BY DEF QueueInv, TypeInv, TypeOK, Busy, Insert, InHand
  <1>2. rows \in [Msgs -> Nat]
    BY DEF QueueInv, TypeInv, TypeOK
  <1>3. Stored' = Stored \union {unacked[w]}
    BY <1>1, <1>2 DEF Insert, Stored
  <1> QED
    BY <1>1, <1>3 DEF Insert, brokerVars, Queued, InHand

LEMMA AckEffect ==
  ASSUME QueueInv, NEW w \in Workers, BasicAck(w)
  PROVE  /\ unacked[w] \in Stored
         /\ Queued' = Queued
         /\ InHand' = InHand \ {unacked[w]}
         /\ Stored' = Stored
         /\ unacked[w] \notin Queued
  <1>1. unacked[w] \in Stored /\ unacked[w] \in InHand
    BY DEF QueueInv, AckStored, TypeInv, Busy, BasicAck, InHand
  <1>2. InHand' = InHand \ {unacked[w]}
    BY DEF BasicAck, InHand, QueueInv, TypeInv, TypeOK, OneCopy
  <1> QED
    BY <1>1, <1>2 DEF BasicAck, dbVars, Queued, Stored, QueueInv, OneCopy

-----------------------------------------------------------------------------
(* The invariant is kept, one kind of step at a time. *)

LEMMA AcceptsInv ==
  ASSUME QueueInv, NEW p \in Publishers, NEW m \in Msgs, Accepts(p, m), TypeInv'
  PROVE  QueueInv'
  <1>1. /\ m \notin accepted
        /\ Queued' = Queued \union {m} /\ InHand' = InHand /\ Stored' = Stored
        /\ Distinct(queue')
    BY AcceptsEffect
  <1>2. accepted' = accepted \union {m} /\ orphan' = orphan
    BY DEF Accepts
  <1>3. Taken' /\ NoLoss'
    BY <1>1, <1>2 DEF QueueInv, Taken, NoLoss
  <1>4. SentOnce'
    <2>1. sent[p] \in Int /\ sent \in [Publishers -> 0..Statements]
      BY QueueAssumption DEF QueueInv, TypeInv, TypeOK
    <2>2. m = <<p, sent[p] + 1>> /\ sent' = [sent EXCEPT ![p] = @ + 1]
      BY DEF Accepts
    <2>3. \A q \in Publishers :
             sent[q] \in Int /\ sent'[q] \in Int /\ sent'[q] >= sent[q]
      BY <2>1, <2>2
    <2>4. m[2] <= sent'[m[1]]
      BY <2>1, <2>2
    <2>5. ASSUME NEW k \in accepted PROVE k[2] <= sent'[k[1]]
      <3>1. k \in Msgs /\ k[2] <= sent[k[1]]
        BY DEF QueueInv, SentOnce, TypeInv, TypeOK
      <3>2. k[1] \in Publishers /\ k[2] \in Int
        BY <3>1, QueueAssumption DEF Msgs
      <3> QED
        BY <2>3, <3>1, <3>2
    <2> QED
      BY <1>2, <2>4, <2>5 DEF SentOnce
  <1>5. AckStored'
    BY <1>1 DEF Accepts, QueueInv, AckStored
  <1>6. Due(m) = 0 /\ requeued[m] \in Nat
    <2>1. rows[m] = 0 /\ requeued[m] \in Nat /\ m # None
      BY <1>1, QueueAssumption DEF QueueInv, Taken, Stored, TypeInv, TypeOK
    <2>2. Orphans(m) = {}
      BY <1>1, <2>1 DEF QueueInv, Taken, Orphans
    <2> QED
      BY <2>1, <2>2, FS_EmptySet DEF Due
  <1>7. Doubled'
    <2>1. UNCHANGED <<unacked, wpc, requeued>> /\ \A k \in Msgs : Due(k)' = Due(k)
      BY <1>2 DEF Accepts, Due, Orphans
    <2>2. Due(m)' <= requeued'[m] /\ Due(m)' <= 1 + requeued'[m]
      BY <1>6, <2>1
    <2>3. \A k \in Msgs : k \in Queued' => k \in Queued \/ k = m
      BY <1>1
    <2> QED
      BY <2>1, <2>2, <2>3 DEF QueueInv, Doubled
  <1>8. m \notin Queued /\ m \notin InHand
    BY <1>1 DEF QueueInv, Taken
  <1>9. OneCopy'
    <2>1. \A v, w \in Workers : unacked'[v] = unacked'[w] /\ unacked'[w] # None => v = w
      BY DEF Accepts, QueueInv, OneCopy
    <2>2. Queued' \intersect InHand' = {}
      BY <1>1, <1>8 DEF QueueInv, OneCopy
    <2> QED
      BY <1>1, <2>1, <2>2 DEF OneCopy, Distinct
  <1> QED
    BY <1>3, <1>4, <1>5, <1>7, <1>9 DEF QueueInv

LEMMA DeliverInv ==
  ASSUME QueueInv, NEW w \in Workers, Deliver(w), TypeInv'
  PROVE  QueueInv'
  <1> DEFINE h == Head(queue)
  <1>1. /\ h \in Msgs
        /\ Queued = Queued' \union {h} /\ h \notin Queued' /\ h \notin InHand
        /\ InHand' = InHand \union {h} /\ Stored' = Stored
        /\ Distinct(queue')
    BY DeliverEffect
  <1>2. /\ unacked[w] = None /\ wpc[w] = "ready"
        /\ unacked' = [unacked EXCEPT ![w] = h]
        /\ UNCHANGED <<accepted, sent, wpc, orphan, rows, requeued>>
    BY DEF Deliver, publisherVars, workerVars, dbVars, history
  <1>3. h # None /\ unacked \in [Workers -> Msgs \union {None}]
    BY <1>1, QueueAssumption DEF QueueInv, TypeInv, TypeOK
  <1> HIDE DEF h
  <1>4. Taken' /\ NoLoss' /\ SentOnce'
    BY <1>1, <1>2 DEF QueueInv, Taken, NoLoss, SentOnce
  <1>5. AckStored'
    BY <1>1, <1>2, <1>3 DEF QueueInv, AckStored
  <1>6. Doubled'
    <2>1. \A k \in Msgs : Due(k)' = Due(k)
      BY <1>2 DEF Due, Orphans
    <2> QED
      BY <1>1, <1>2, <1>3, <2>1 DEF QueueInv, Doubled
  <1>7. OneCopy'
    <2>1. \A v \in Workers : unacked[v] # h
      BY <1>1, <1>3 DEF InHand
    <2>2. \A u, v \in Workers : unacked'[u] = unacked'[v] /\ unacked'[v] # None => u = v
      BY <1>2, <1>3, <2>1 DEF QueueInv, OneCopy
    <2>3. Queued' \intersect InHand' = {}
      BY <1>1 DEF QueueInv, OneCopy
    <2> QED
      BY <1>1, <2>2, <2>3 DEF OneCopy, Distinct
  <1> QED
    BY <1>4, <1>5, <1>6, <1>7 DEF QueueInv

LEMMA EndsInv ==
  ASSUME QueueInv, NEW w \in Workers, NEW how \in Endings, Ends(w, how), TypeInv'
  PROVE  QueueInv'
  <1> DEFINE m == unacked[w]
  <1>1. /\ unacked' = [unacked EXCEPT ![w] = None]
        /\ wpc' = [wpc EXCEPT ![w] = how]
        /\ UNCHANGED <<accepted, sent>>
    BY DEF Ends, Exit
  <1>2. /\ unacked \in [Workers -> Msgs \union {None}]
        /\ rows \in [Msgs -> Nat] /\ requeued \in [Msgs -> Nat]
        /\ wpc \in [Workers -> WorkerPlaces]
    BY DEF QueueInv, TypeInv, TypeOK, WorkerPlaces
  <1>3. CASE m = None
    <2>1. UNCHANGED <<queue, requeued, rows, orphan>> /\ unacked' = unacked
      BY <1>1, <1>2, <1>3 DEF Ends, Exit, QueueInv, TypeInv, Busy
    <2>2. Queued' = Queued /\ InHand' = InHand /\ Stored' = Stored
      BY <2>1 DEF Queued, InHand, Stored
    <2>3. Taken' /\ NoLoss' /\ SentOnce' /\ OneCopy'
      BY <1>1, <2>1, <2>2 DEF QueueInv, Taken, NoLoss, SentOnce, OneCopy
    <2>4. AckStored'
      BY <1>1, <1>2, <2>1, <2>2 DEF QueueInv, AckStored, Endings
    <2>5. \A v \in Workers : v = w \/ wpc'[v] = wpc[v]
      BY <1>1, <1>2
    <2>6. Doubled'
      <3>1. \A v \in Workers : unacked'[v] \in Msgs => v # w
        BY <1>3, <2>1, QueueAssumption
      <3>2. \A k \in Msgs : Due(k)' = Due(k)
        BY <2>1 DEF Due, Orphans
      <3> QED
        BY <2>1, <2>2, <2>5, <3>1, <3>2 DEF QueueInv, Doubled
    <2> QED
      BY <2>3, <2>4, <2>6 DEF QueueInv
  <1>4. CASE m # None
    <2>1. /\ m \in Msgs
          /\ Queued' = Queued \union {m} /\ InHand' = InHand \ {m}
          /\ Stored' = Stored \/ Stored' = Stored \union {m}
          /\ Distinct(queue')
      BY <1>4, EndsEffect
    <2>2. m \in InHand
      BY <1>4 DEF InHand
    <2>3. requeued' = [requeued EXCEPT ![m] = @ + 1]
      BY <1>4 DEF Ends, Exit
    <2>4. \/ rows' = rows /\ orphan' = orphan
          \/ wpc[w] = "inserting" /\ rows' = [rows EXCEPT ![m] = @ + 1] /\ orphan' = orphan
          \/ wpc[w] = "inserting" /\ rows' = rows /\ orphan' = [orphan EXCEPT ![w] = m]
      BY DEF Ends
    <2>a. \A v \in Workers : orphan'[v] # None => orphan'[v] = orphan[v] \/ orphan'[v] = m
      BY <2>4 DEF QueueInv, TypeInv, TypeOK
    <2>5. \A v \in Workers : v # w => unacked[v] # m
      BY <1>4 DEF QueueInv, OneCopy
    <2> HIDE DEF m
    <2>6. Taken' /\ NoLoss' /\ SentOnce'
      BY <1>1, <2>1, <2>2, <2>a DEF QueueInv, Taken, NoLoss, SentOnce
    <2>7. AckStored'
      BY <1>1, <1>2, <2>1 DEF QueueInv, AckStored, Endings
    <2>8. OneCopy'
      <3>1. \A u, v \in Workers : unacked'[u] = unacked'[v] /\ unacked'[v] # None => u = v
        BY <1>1, <1>2 DEF QueueInv, OneCopy
      <3>2. Queued' \intersect InHand' = {}
        BY <2>1 DEF QueueInv, OneCopy
      <3> QED
        BY <2>1, <3>1, <3>2 DEF OneCopy, Distinct
    <2>9. Doubled'
      <3>1. PICK g \in Msgs : g = m
        BY <2>1
      <3>2. /\ \A k \in Msgs : k # g => requeued'[k] = requeued[k]
            /\ requeued'[g] = requeued[g] + 1
        BY <1>2, <2>3, <3>1
      <3>3. orphan[w] = None \/ wpc[w] # "inserting"
        BY DEF QueueInv, TypeInv, Busy
      <3>4. /\ \A k \in Msgs : Due(k) \in Nat
            /\ (\A k \in Msgs : Due(k)' = Due(k)) \/ (wpc[w] = "inserting" /\ MoreDue(g))
        <4>1. /\ \A k \in Msgs : Due(k) \in Nat
              /\ rows' = rows /\ orphan' = orphan => \A k \in Msgs : Due(k)' = Due(k)
              /\ orphan' = orphan /\ rows' = [rows EXCEPT ![g] = @ + 1] => MoreDue(g)
              /\ /\ orphan[w] = None /\ orphan' = [orphan EXCEPT ![w] = g] /\ rows' = rows
                 => MoreDue(g)
          BY DueSteps DEF QueueInv
        <4>2. \/ rows' = rows /\ orphan' = orphan
              \/ wpc[w] = "inserting" /\ rows' = [rows EXCEPT ![g] = @ + 1] /\ orphan' = orphan
              \/ wpc[w] = "inserting" /\ rows' = rows /\ orphan' = [orphan EXCEPT ![w] = g]
          BY <2>4, <3>1
        <4> QED
          BY <3>3, <4>1, <4>2
      <3>5. Due(g)' <= requeued'[g] /\ Due(g)' <= 1 + requeued'[g]
        <4>1. Due(g) <= 1 + requeued[g]
          BY DEF QueueInv, Doubled
        <4>2. wpc[w] = "inserting" => Due(g) <= requeued[g]
          BY <3>1 DEF QueueInv, Doubled, m
        <4>3. Due(g) \in Nat /\ requeued[g] \in Nat
          BY <1>2, <3>4
        <4>4. Due(g)' = Due(g) \/ (wpc[w] = "inserting" /\ Due(g)' = Due(g) + 1)
          BY <3>4 DEF MoreDue
        <4> QED
          BY <3>2, <4>1, <4>2, <4>3, <4>4
      <3>6. ASSUME NEW k \in Msgs, k # g
            PROVE  /\ Due(k)' <= 1 + requeued'[k]
                   /\ k \in Queued' => Due(k)' <= requeued'[k]
                   /\ \A v \in Workers :
                         unacked'[v] = k /\ wpc'[v] # "acking" => Due(k)' <= requeued'[k]
        <4>1. \A v \in Workers : unacked'[v] = k => v # w /\ unacked[v] = k /\ wpc'[v] = wpc[v]
          BY <1>1, <1>2, QueueAssumption
        <4>2. Due(k)' = Due(k)
          BY <3>4, <3>6 DEF MoreDue
        <4> QED
          BY <2>1, <3>1, <3>2, <3>6, <4>1, <4>2 DEF QueueInv, Doubled
      <3> QED
        BY <3>5, <3>6 DEF Doubled
    <2> QED
      BY <2>6, <2>7, <2>8, <2>9 DEF QueueInv
  <1> QED
    BY <1>3, <1>4

LEMMA InsertInv ==
  ASSUME QueueInv, NEW w \in Workers, Insert(w), TypeInv'
  PROVE  QueueInv'
  <1> DEFINE m == unacked[w]
  <1>1. /\ m \in InHand /\ m \in Msgs
        /\ Queued' = Queued /\ InHand' = InHand /\ Stored' = Stored \union {m}
    BY InsertEffect
  <1>2. /\ wpc[w] = "inserting"
        /\ wpc' = [wpc EXCEPT ![w] = "acking"]
        /\ rows' = [rows EXCEPT ![m] = @ + 1]
        /\ UNCHANGED <<queue, unacked, orphan, accepted, sent, requeued>>
    BY DEF Insert, publisherVars, brokerVars, history
  <1>3. /\ rows \in [Msgs -> Nat] /\ requeued \in [Msgs -> Nat]
        /\ wpc \in [Workers -> WorkerPlaces]
    BY DEF QueueInv, TypeInv, TypeOK, WorkerPlaces
  <1>4. Taken' /\ NoLoss' /\ SentOnce' /\ OneCopy'
    BY <1>1, <1>2 DEF QueueInv, Taken, NoLoss, SentOnce, OneCopy
  <1>5. AckStored'
    BY <1>1, <1>2, <1>3 DEF QueueInv, AckStored
  <1>6. \A v \in Workers : unacked[v] = m => v = w
    BY <1>1, QueueAssumption DEF QueueInv, OneCopy
  <1>7. m \notin Queued /\ Due(m) <= requeued[m]
    BY <1>1, <1>2 DEF QueueInv, OneCopy, Doubled
  <1>a. (\A k \in Msgs : Due(k) \in Nat) /\ MoreDue(m)
    BY <1>1, <1>2, DueSteps DEF QueueInv
  <1> HIDE DEF m
  <1>8. Doubled'
    <2>1. PICK g \in Msgs : g = m
      BY <1>1
    <2>2. Due(g)' <= 1 + requeued'[g]
      <3>1. Due(g)' = Due(g) + 1 /\ Due(g) \in Nat /\ requeued[g] \in Nat
        BY <1>3, <1>a, <2>1 DEF MoreDue
      <3> QED
        BY <1>2, <1>7, <2>1, <3>1
    <2>3. \A k \in Msgs : k # g => Due(k)' = Due(k) /\ requeued'[k] = requeued[k]
      BY <1>2, <1>a, <2>1 DEF MoreDue
    <2>4. \A v \in Workers : v # w => wpc'[v] = wpc[v]
      BY <1>2, <1>3
    <2>5. wpc'[w] = "acking"
      BY <1>2, <1>3
    <2>6. g \notin Queued' /\ \A v \in Workers : unacked'[v] = g => v = w
      BY <1>1, <1>2, <1>6, <1>7, <2>1
    <2>7. \A k \in Msgs : k # g =>
             \A v \in Workers : unacked'[v] = k => v # w /\ unacked[v] = k
      BY <1>2, <2>1 DEF m
    <2> QED
      BY <1>1, <2>2, <2>3, <2>4, <2>5, <2>6, <2>7 DEF QueueInv, Doubled
  <1> QED
    BY <1>4, <1>5, <1>8 DEF QueueInv

LEMMA AckInv ==
  ASSUME QueueInv, NEW w \in Workers, BasicAck(w), TypeInv'
  PROVE  QueueInv'
  <1> DEFINE m == unacked[w]
  <1>1. /\ m \in Stored /\ m \notin Queued
        /\ Queued' = Queued /\ InHand' = InHand \ {m} /\ Stored' = Stored
    BY AckEffect
  <1>2. /\ wpc' = [wpc EXCEPT ![w] = "ready"]
        /\ unacked' = [unacked EXCEPT ![w] = None]
        /\ UNCHANGED <<queue, orphan, rows, accepted, sent, requeued>>
    BY DEF BasicAck, publisherVars, dbVars, history
  <1>3. /\ unacked \in [Workers -> Msgs \union {None}]
        /\ wpc \in [Workers -> WorkerPlaces]
    BY DEF QueueInv, TypeInv, TypeOK, WorkerPlaces
  <1> HIDE DEF m
  <1>4. Taken' /\ NoLoss' /\ SentOnce'
    BY <1>1, <1>2 DEF QueueInv, Taken, NoLoss, SentOnce
  <1>5. AckStored'
    BY <1>1, <1>2, <1>3 DEF QueueInv, AckStored
  <1>6. Doubled'
    <2>1. \A v \in Workers, k \in Msgs :
             unacked'[v] = k => v # w /\ unacked[v] = k /\ wpc'[v] = wpc[v]
      BY <1>2, <1>3, QueueAssumption
    <2>2. \A k \in Msgs : Due(k)' = Due(k)
      BY <1>2 DEF Due, Orphans
    <2> QED
      BY <1>1, <1>2, <2>1, <2>2 DEF QueueInv, Doubled
  <1>7. OneCopy'
    BY <1>1, <1>2, <1>3 DEF QueueInv, OneCopy
  <1> QED
    BY <1>4, <1>5, <1>6, <1>7 DEF QueueInv

LEMMA AsideInv ==
  ASSUME QueueInv, Aside, TypeInv'
  PROVE  QueueInv'
  <1>1. Queued' = Queued /\ InHand' = InHand /\ Stored' = Stored
    BY DEF Aside, Queued, InHand, Stored
  <1>2. SentOnce'
    <2> SUFFICES ASSUME NEW k \in accepted PROVE k[2] <= sent'[k[1]]
      BY DEF SentOnce, Aside
    <2>1. k \in Msgs /\ k[2] <= sent[k[1]]
      BY DEF QueueInv, SentOnce, TypeInv, TypeOK
    <2>2. k[1] \in Publishers /\ k[2] \in Int
      BY <2>1, QueueAssumption DEF Msgs
    <2>3. /\ sent[k[1]] \in Int /\ sent'[k[1]] \in Int
          /\ sent'[k[1]] >= sent[k[1]]
      BY <2>2, QueueAssumption DEF QueueInv, TypeInv, TypeOK, Aside
    <2> QED
      BY <2>1, <2>2, <2>3
  <1>3. \A k \in Msgs : Due(k)' = Due(k)
    BY DEF Aside, Due, Orphans
  <1>4. Doubled'
    BY <1>1, <1>3 DEF Aside, QueueInv, Doubled
  <1> QED
    BY <1>1, <1>2, <1>4 DEF Aside, QueueInv, Taken, NoLoss, OneCopy, AckStored

(* What a worker without a connection executes was accepted before: the    *)
(* broker has it still, or it has been stored.                             *)
LEMMA OrphanEffect ==
  ASSUME QueueInv, NEW w \in Workers, OrphanEnds(w)
  PROVE  /\ orphan[w] \in Msgs /\ orphan[w] \in accepted
         /\ Queued' = Queued /\ InHand' = InHand
         /\ Stored' = Stored \/ Stored' = Stored \union {orphan[w]}
         /\ rows' = rows \/ rows' = [rows EXCEPT ![orphan[w]] = @ + 1]
  <1>1. orphan[w] # None /\ orphan[w] \in Msgs /\ orphan[w] \in accepted
    BY DEF OrphanEnds, QueueInv, TypeInv, TypeOK, Busy, Taken
  <1>2. rows' = rows \/ rows' = [rows EXCEPT ![orphan[w]] = @ + 1]
    BY DEF OrphanEnds
  <1>3. rows \in [Msgs -> Nat]
    BY DEF QueueInv, TypeInv, TypeOK
  <1> QED
    BY <1>1, <1>2, <1>3 DEF OrphanEnds, brokerVars, Queued, InHand, Stored

LEMMA OrphanInv ==
  ASSUME QueueInv, NEW w \in Workers, OrphanEnds(w), TypeInv'
  PROVE  QueueInv'
  <1> DEFINE m == orphan[w]
  <1>1. /\ m \in Msgs /\ m \in accepted
        /\ Queued' = Queued /\ InHand' = InHand
        /\ Stored' = Stored \/ Stored' = Stored \union {m}
        /\ rows' = rows \/ rows' = [rows EXCEPT ![m] = @ + 1]
    BY OrphanEffect
  <1>2. /\ wpc[w] = "orphaned" /\ wpc' = [wpc EXCEPT ![w] = "dead"]
        /\ orphan' = [orphan EXCEPT ![w] = None]
        /\ UNCHANGED <<queue, unacked, accepted, sent, requeued>>
    BY DEF OrphanEnds, publisherVars, brokerVars, history
  <1>3. /\ requeued \in [Msgs -> Nat] /\ orphan \in [Workers -> Msgs \union {None}]
        /\ wpc \in [Workers -> WorkerPlaces]
    BY DEF QueueInv, TypeInv, TypeOK, WorkerPlaces
  <1>4. \A k \in Msgs : Due(k) \in Nat /\ Due(k)' \in Nat /\ Due(k)' <= Due(k)
    BY <1>1, <1>2, DueSteps DEF QueueInv
  <1> HIDE DEF m
  <1>5. Taken' /\ NoLoss' /\ SentOnce' /\ OneCopy'
    BY <1>1, <1>2, <1>3 DEF QueueInv, Taken, NoLoss, SentOnce, OneCopy
  <1>6. \A v \in Workers : wpc'[v] = "acking" <=> wpc[v] = "acking"
    BY <1>2, <1>3
  <1>7. AckStored'
    BY <1>1, <1>2, <1>6 DEF QueueInv, AckStored
  <1>8. Doubled'
    <2>1. \A k \in Msgs, b \in Nat : Due(k) <= b => Due(k)' <= b
      BY <1>4
    <2>2. \A k \in Msgs : requeued[k] \in Nat /\ 1 + requeued[k] \in Nat
      BY <1>3
    <2> QED
      BY <1>1, <1>2, <1>6, <2>1, <2>2 DEF QueueInv, Doubled
  <1> QED
    BY <1>5, <1>7, <1>8 DEF QueueInv

LEMMA QueueInvNext == QueueInv /\ [Next]_vars => QueueInv'
  <1> SUFFICES ASSUME QueueInv, [Next]_vars PROVE QueueInv'
    OBVIOUS
  <1>1. TypeInv /\ TypeInv'
    BY TypeInvNext DEF QueueInv
  <1> QED
    BY <1>1, QueueSteps, AcceptsInv, DeliverInv, EndsInv, InsertInv, AckInv, OrphanInv,
       AsideInv

LEMMA QueueInvInit == Init => QueueInv
  <1> SUFFICES ASSUME Init PROVE QueueInv
    OBVIOUS
  <1>1. Queued = {} /\ InHand = {} /\ Stored = {}
    BY DEF Init, Queued, InHand, Stored
  <1>2. ASSUME NEW m \in Msgs PROVE Due(m) = 0
    <2>1. Orphans(m) = {} /\ rows[m] = 0
      BY QueueAssumption DEF Init, Orphans
    <2> QED
      BY <2>1, FS_EmptySet DEF Due
  <1>3. Doubled
    BY <1>2 DEF Init, Doubled
  <1> QED
    BY <1>1, <1>3, TypeInvInit, QueueAssumption
       DEF Init, QueueInv, Taken, SentOnce, AckStored, OneCopy, NoLoss

LEMMA QueueInvariant == Spec => []QueueInv
  BY QueueInvInit, QueueInvNext, PTL DEF Spec

-----------------------------------------------------------------------------
(* What follows. *)

(* A statement the broker has taken is never forgotten: whichever workers  *)
(* die, and whenever, it is queued, in hand or in the database.            *)
THEOREM NothingLost == Spec => []NoLoss
  <1>1. QueueInv => NoLoss
    BY DEF QueueInv
  <1> QED
    BY <1>1, QueueInvariant, PTL

(* To the broker a statement is in one place, ready or with one consumer,  *)
(* and redelivery hands it over.  (Two workers may still execute it at the *)
(* same time, after the connection of one is lost: see RowsPaidFor.)       *)
THEOREM OneHolder == Spec => []OneCopy
  <1>1. QueueInv => OneCopy
    BY DEF QueueInv
  <1> QED
    BY <1>1, QueueInvariant, PTL

(* Each doubled row of a statement is paid for by a redelivery of it, the  *)
(* rows counted that workers without a connection may still add.           *)
THEOREM RowsPaidFor == Spec => []RowsBounded
  <1>1. QueueInv => RowsBounded
    BY DEF QueueInv, Doubled, RowsBounded, Due
  <1> QED
    BY <1>1, QueueInvariant, PTL

LEMMA LogStep == QueueInv /\ [Next]_vars => [Log!Next]_(Log!logVars)
  <1> SUFFICES ASSUME QueueInv, [Next]_vars PROVE [Log!Next]_(Log!logVars)
    OBVIOUS
  <1>1. ASSUME NEW p \in Publishers, NEW m \in Msgs, Accepts(p, m) PROVE Log!Accept(m)
    BY <1>1, AcceptsEffect DEF Accepts, Log!Accept
  <1>2. ASSUME NEW w \in Workers, Deliver(w) PROVE UNCHANGED Log!logVars
    BY <1>2, DeliverEffect DEF Deliver, history, Log!logVars
  <1>3. ASSUME NEW w \in Workers, Insert(w) PROVE unacked[w] \in Msgs /\ Log!Store(unacked[w])
    BY <1>3, InsertEffect DEF Insert, history, Log!Store
  <1>4. ASSUME NEW w \in Workers, BasicAck(w)
        PROVE  unacked[w] \in Msgs /\ Log!Forget(unacked[w])
    BY <1>4, AckEffect DEF BasicAck, history, Log!Forget, Stored
  <1>5. ASSUME NEW w \in Workers, NEW how \in Endings, Ends(w, how)
        PROVE  UNCHANGED Log!logVars \/ (unacked[w] \in Msgs /\ Log!Store(unacked[w]))
    <2>1. CASE unacked[w] = None
      <3>1. UNCHANGED <<queue, rows, accepted>> /\ unacked' = unacked
        BY <1>5, <2>1 DEF Ends, Exit, QueueInv, TypeInv, TypeOK, Busy
      <3> QED
        BY <3>1 DEF Log!logVars, Queued, InHand, Stored
    <2>2. CASE unacked[w] # None
      <3>1. unacked[w] \in InHand /\ accepted' = accepted
        BY <1>5, <2>2 DEF Ends, InHand
      <3> QED
        BY <1>5, <2>2, <3>1, EndsEffect DEF Log!logVars, Log!Store
    <2> QED
      BY <2>1, <2>2
  <1>6. CASE Aside
    BY <1>6 DEF Aside, Log!logVars, Queued, InHand, Stored
  <1>7. ASSUME NEW w \in Workers, OrphanEnds(w)
        PROVE  UNCHANGED Log!logVars \/ (orphan[w] \in Msgs /\ Log!Store(orphan[w]))
    <2>1. /\ accepted' = accepted /\ orphan[w] \in accepted /\ orphan[w] \in Msgs
          /\ Queued' = Queued /\ InHand' = InHand
          /\ Stored' = Stored \/ Stored' = Stored \union {orphan[w]}
      BY <1>7, OrphanEffect DEF OrphanEnds, history
    <2>2. orphan[w] \in Queued \union InHand \/ orphan[w] \in Stored
      BY <2>1 DEF QueueInv, NoLoss
    <2> QED
      BY <2>1, <2>2 DEF Log!logVars, Log!Store
  <1> QED
    BY <1>1, <1>2, <1>3, <1>4, <1>5, <1>6, <1>7, QueueSteps DEF QueueInv, Log!Next

(* The write path implements SqlLog: at least once, in whatever order.     *)
THEOREM WritePathRefinesLog == Spec => LogSpec
  <1>1. Init => Log!Init
    BY DEF Init, Log!Init, Queued, InHand, Stored
  <1> QED
    BY <1>1, LogStep, QueueInvariant, PTL DEF Spec, LogSpec, Log!Spec
=============================================================================
