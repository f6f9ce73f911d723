------------------------- MODULE ChatPipeline_proof -------------------------
(***************************************************************************)
(* Proofs about ChatPipeline, for any users, session ids, requests,        *)
(* restarts and failures: types; that no conversation gets a message of    *)
(* another one; that the session lists name every conversation once, name  *)
(* only conversations that are there, and miss none that has rows; that a  *)
(* restart brings back what was said, with its roles; and that the         *)
(* conversations keep to the log their write path implements.              *)
(***************************************************************************)
EXTENDS ChatPipeline, SequenceTheorems, FiniteSetTheorems, TLAPS

(* The messages that belong to a conversation. *)
Own(k) == {m \in Messages : m.key = k}

(* TypeOK, with the helper of a request that is still to be listed, and    *)
(* with the messages of a conversation its own.                            *)
TypeInv ==
    /\ TypeOK
    /\ \A r \in Requests : pc[r] = "listing" => key[r] \in helpers
    /\ \A k \in Keys : messages[k] \in Seq(Own(k))

LEMMA AllButLastType ==
  ASSUME NEW S, NEW s \in Seq(S)
  PROVE  AllButLast(s) \in Seq(S)
  <1>1. CASE s = <<>>
    BY <1>1 DEF AllButLast
  <1>2. CASE s # <<>>
    <2>1. Len(s) \in Nat /\ Len(s) # 0
      BY <1>2, EmptySeq, LenProperties
    <2>2. \A i \in 1..(Len(s) - 1) : s[i] \in S
      BY <2>1, ElementOfSeq
    <2> QED
      BY <1>2, <2>1, <2>2, SubSeqProperties DEF AllButLast
  <1> QED
    BY <1>1, <1>2

LEMMA SeqSubset ==
  ASSUME NEW S, NEW T, S \subseteq T, NEW s \in Seq(S)
  PROVE  s \in Seq(T)
  OBVIOUS

LEMMA StatementType ==
  ASSUME TypeInv, NEW r \in Requests, key[r] \in Keys, NEW role \in {"user", "ai"}
  PROVE  /\ Statement(key[r], role, r) \in Statements
         /\ Statement(key[r], role, r) \in Own(key[r])
  BY DEF TypeInv, TypeOK, Statement, Statements, Own, Messages

LEMMA AddMessageType ==
  ASSUME TypeInv, NEW r \in Requests, pc[r] \in InChat,
         NEW old \in Seq(Own(key[r])), NEW role \in {"user", "ai"},
         NEW next \in {"asked", "answering", "done"},
         AddMessage(r, old, role, next)
  PROVE  TypeInv'
  <1> DEFINE m == Statement(key[r], role, r)
  <1>1. key[r] \in Keys /\ key[r] \in helpers
    BY DEF TypeInv, TypeOK, InChat
  <1>2. m \in Statements /\ m \in Own(key[r]) /\ m \in Messages
    BY <1>1, StatementType DEF Own
  <1>3. Append(old, m) \in Seq(Own(key[r])) /\ Append(old, m) \in Seq(Messages)
    BY <1>2 DEF Own
  <1>4. old \in Seq(Messages) /\ said[key[r]] \in Seq(Messages)
    <2>1. Own(key[r]) \subseteq Messages
      BY DEF Own
    <2> QED
      BY <1>1, <2>1, SeqSubset DEF TypeInv, TypeOK
  <1>5. /\ messages' \in [Keys -> Seq(Messages)]
        /\ said' \in [Keys -> Seq(Messages)]
        /\ \A k \in Keys : messages'[k] \in Seq(Own(k))
    BY <1>1, <1>2, <1>3, <1>4 DEF TypeInv, TypeOK, AddMessage
  <1>6. /\ accepted' \subseteq Statements
        /\ accepted \subseteq accepted'
        /\ stored' = stored
    BY <1>2 DEF TypeInv, TypeOK, AddMessage, Log!Accept, logVars
  <1>7. /\ pc' \in [Requests -> InChat \union {"idle", "listing", "done"}]
        /\ key' \in [Requests -> Keys \union {None}]
        /\ known' \in [Users -> SUBSET Ids]
        /\ \A s \in Requests :
              /\ pc'[s] \in InChat => pc[s] \in InChat /\ key'[s] = key[s]
              /\ pc'[s] = "listing" => pc[s] = "listing" /\ key'[s] = key[s]
    <2>1. CASE Proceed(r, next) /\ next # "done"
      BY <1>1, <2>1 DEF TypeInv, TypeOK, Proceed, Goto, InChat
    <2>2. CASE Leave(r)
      <3>1. known' \in [Users -> SUBSET Ids]
        BY <1>1, <2>2 DEF TypeInv, TypeOK, AddMessage, Proceed, Keys
      <3> QED
        BY <1>1, <2>2, <3>1 DEF TypeInv, TypeOK, Leave, Goto, InChat
    <2> QED
      BY <2>1, <2>2 DEF AddMessage, Proceed
  <1>8. cut' \union disturbed' \union tied' \union missing' \union unsaid' \subseteq Keys
    BY <1>1 DEF TypeInv, TypeOK, AddMessage
  <1>9. UNCHANGED <<helpers, sessionsIdsMap, unread, doubled, now>> /\ Rows' = Rows
    BY <1>6 DEF AddMessage, Rows
  <1> QED
    BY <1>5, <1>6, <1>7, <1>8, <1>9 DEF TypeInv, TypeOK, InChat

(* Steps that touch neither the messages nor the log. *)
LEMMA RequestType ==
  ASSUME TypeInv,
         \/ \E r \in Requests, k \in Keys : Find(r, k) \/ Emplace(r, k)
         \/ \E r \in Requests : PushId(r) \/ CallThrows(r) \/ CreateThrows(r)
         \/ \E k \in Keys : History(k)
         \/ \E u \in Users : ListSessions(u)
         \/ DeclareQueue
         \/ Tick
         \/ UNCHANGED vars
  PROVE  TypeInv'
  <1> USE DEF TypeInv, TypeOK, Goto, InChat, process, requestVars, logVars, world, bounds,
          excuses, history, Rows
  <1>1. ASSUME NEW r \in Requests, NEW k \in Keys, Find(r, k) \/ Emplace(r, k) PROVE TypeInv'
    BY <1>1 DEF Find, Emplace, Enter
  <1>2. ASSUME NEW r \in Requests, PushId(r) PROVE TypeInv'
    <2>1. key[r] \in Keys /\ key[r][1] \in Users /\ key[r][2] \in Ids
      BY <1>2 DEF PushId, Keys
    <2>2. sessionsIdsMap' \in [Users -> Seq(Ids)]
      BY <1>2, <2>1 DEF PushId
    <2> QED
      BY <1>2, <2>2 DEF PushId
  <1>3. ASSUME NEW r \in Requests, CallThrows(r) \/ CreateThrows(r) PROVE TypeInv'
    BY <1>3 DEF CallThrows, CreateThrows, Leave
  <1>4. ASSUME NEW k \in Keys, History(k) PROVE TypeInv'
    BY <1>4 DEF History
  <1>5. ASSUME NEW u \in Users, ListSessions(u) PROVE TypeInv'
    <2>1. Listed(u) \subseteq Ids
      BY DEF Listed
    <2>2. Pushing(u) \subseteq Ids
      BY DEF Pushing, Keys
    <2>3. known' \in [Users -> SUBSET Ids]
      BY <1>5, <2>1, <2>2 DEF ListSessions
    <2> QED
      BY <1>5, <2>3 DEF ListSessions
  <1>6. CASE DeclareQueue
    BY <1>6 DEF DeclareQueue
  <1>7. CASE Tick
    BY <1>7 DEF Tick
  <1>8. CASE UNCHANGED vars
    BY <1>8 DEF vars
  <1> QED
    BY <1>1, <1>2, <1>3, <1>4, <1>5, <1>6, <1>7, <1>8

LEMMA StoreType ==
  ASSUME TypeInv, NEW m \in accepted, Store(m) \/ StoreAgain(m)
  PROVE  TypeInv'
  <1>1. /\ stored' = stored \union {m} /\ accepted' = accepted
        /\ doubled \subseteq doubled' /\ doubled' \subseteq doubled \union {m}
        /\ unread' = {}
        /\ UNCHANGED <<process, pc, key, now, known, said, excuses>>
    BY DEF Store, StoreAgain, Log!Store, Serving, requestVars, world, history
  <1>2. doubled' \subseteq stored'
    BY <1>1 DEF TypeInv, TypeOK
  <1> QED
    BY <1>1, <1>2 DEF TypeInv, TypeOK, process, excuses

LEMMA RestartType ==
  ASSUME TypeInv, Restart \/ RestartUnread
  PROVE  TypeInv'
  <1> USE DEF TypeInv, TypeOK
  <1>1. /\ helpers' = {}
        /\ messages' = [k \in Keys |-> <<>>]
        /\ sessionsIdsMap' = [u \in Users |-> <<>>]
        /\ pc' = [r \in Requests |-> IF pc[r] = "idle" THEN "idle" ELSE "done"]
        /\ key' = [r \in Requests |-> None]
        /\ UNCHANGED <<accepted, stored, doubled, now, known, said>>
    BY DEF Restart, RestartUnread, NewProcess, logVars, world
  <1>2. unread' \subseteq Rows'
    BY <1>1 DEF Restart, RestartUnread, Rows
  <1>3. /\ cut' \subseteq Keys
        /\ tied' \subseteq Keys
        /\ disturbed' \subseteq Keys
    BY DEF Restart, RestartUnread, NewProcess, Statements
  <1>4. missing' \subseteq Keys /\ unsaid' \subseteq Keys
    BY DEF Restart, RestartUnread, NewProcess, Statements
  <1>5. /\ messages' \in [Keys -> Seq(Messages)]
        /\ sessionsIdsMap' \in [Users -> Seq(Ids)]
        /\ \A k \in Keys : messages'[k] \in Seq(Own(k))
    BY <1>1
  <1>6. /\ pc' \in [Requests -> InChat \union {"idle", "listing", "done"}]
        /\ \A r \in Requests : pc'[r] \notin InChat \union {"listing"}
        /\ key' \in [Requests -> Keys \union {None}]
    BY <1>1 DEF InChat
  <1> QED
    BY <1>1, <1>2, <1>3, <1>4, <1>5, <1>6

LEMMA RowType ==
  ASSUME TypeInv, NEW row \in unread
  PROVE  row[1] \in Statements /\ row[1] \in stored /\ row[1].key \in Keys
  BY DEF TypeInv, TypeOK, Rows, Statements

LEMMA ReadRowType ==
  ASSUME TypeInv, NEW row \in unread, ReadRow(row)
  PROVE  TypeInv'
  <1> USE DEF TypeInv, TypeOK
  <1> DEFINE k == row[1].key
  <1>1. k \in Keys /\ k[1] \in Users /\ k[2] \in Ids
    BY RowType DEF Keys
  <1>2. row[1] \in Messages /\ row[1] \in Own(k)
    BY RowType DEF Statements, Messages, Own
  <1>3. /\ messages' \in [Keys -> Seq(Messages)]
        /\ \A j \in Keys : messages'[j] \in Seq(Own(j))
    BY <1>1, <1>2 DEF ReadRow
  <1>4. sessionsIdsMap' \in [Users -> Seq(Ids)]
    BY <1>1 DEF ReadRow
  <1>5. /\ helpers' = helpers \union {k}
        /\ unread' \subseteq unread
        /\ UNCHANGED <<pc, key, accepted, stored, doubled, now, known, said,
                      cut, disturbed, tied, missing, unsaid>>
    BY DEF ReadRow, logVars, world, history, excuses
  <1> QED
    BY <1>1, <1>3, <1>4, <1>5 DEF Rows

LEMMA TypeInvInit == Init => TypeInv
  BY PipelineAssumption DEF Init, TypeInv, TypeOK, InChat, Rows

LEMMA TypeInvNext == TypeInv /\ [Next]_vars => TypeInv'
  <1> SUFFICES ASSUME TypeInv, [Next]_vars PROVE TypeInv'
    OBVIOUS
  <1>1. ASSUME NEW r \in Requests, Ask(r) \/ Answer(r) \/ PopPrompt(r) \/ AddAnswer(r)
        PROVE  TypeInv'
    <2>1. pc[r] \in InChat /\ messages[key[r]] \in Seq(Own(key[r]))
      BY <1>1 DEF Ask, Answer, PopPrompt, AddAnswer, InChat, TypeInv, TypeOK
    <2>2. AllButLast(messages[key[r]]) \in Seq(Own(key[r]))
      BY <2>1, AllButLastType
    <2> QED
      BY <1>1, <2>1, <2>2, AddMessageType DEF Ask, Answer, PopPrompt, AddAnswer
  <1>2. ASSUME NEW r \in Requests, PushPrompt(r) PROVE TypeInv'
    <2>1. key[r] \in helpers /\ key[r] \in Keys
      BY <1>2 DEF PushPrompt, InChat, TypeInv, TypeOK
    <2>2. Statement(key[r], "prompt", r) \in Messages /\ Statement(key[r], "prompt", r) \in Own(key[r])
      BY <2>1 DEF Statement, Messages, Own, TypeInv, TypeOK
    <2>3. /\ messages' \in [Keys -> Seq(Messages)]
          /\ \A k \in Keys : messages'[k] \in Seq(Own(k))
      BY <1>2, <2>1, <2>2 DEF PushPrompt, TypeInv, TypeOK
    <2> QED
      BY <1>2, <2>1, <2>3 DEF PushPrompt, TypeInv, TypeOK, Goto, InChat, Rows,
         logVars, world, bounds, history, excuses
  <1>3. ASSUME NEW m \in accepted, Store(m) \/ StoreAgain(m) PROVE TypeInv'
    BY <1>3, StoreType
  <1>4. ASSUME NEW row \in unread, ReadRow(row) PROVE TypeInv'
    BY <1>4, ReadRowType
  <1>5. CASE Restart \/ RestartUnread
    BY <1>5, RestartType
  <1>6. CASE ~(Restart \/ RestartUnread)
    BY <1>1, <1>2, <1>3, <1>4, <1>6, RequestType DEF Next, Request
  <1> QED
    BY <1>5, <1>6

(* Types, and that chat() runs on a helper that is there, whatever fails   *)
(* and restarts.                                                           *)
THEOREM TypeCorrect == Spec => []TypeOK
  <1>1. TypeInv => TypeOK
    BY DEF TypeInv
  <1> QED
    BY <1>1, TypeInvInit, TypeInvNext, PTL DEF Spec

(* No conversation has a message of another one, over any restarts.        *)
THEOREM NoCrossTalkTheorem == Spec => []NoCrossTalk
  <1>1. ASSUME TypeInv PROVE NoCrossTalk
    <2> SUFFICES ASSUME NEW k \in Keys, NEW i \in 1..Len(messages[k])
                 PROVE  messages[k][i].key = k
      BY DEF NoCrossTalk
    <2>1. messages[k][i] \in Own(k)
      BY <1>1, ElementOfSeq DEF TypeInv
    <2> QED
      BY <2>1 DEF Own
  <1> QED
    BY <1>1, TypeInvInit, TypeInvNext, PTL DEF Spec

-----------------------------------------------------------------------------
OnList(k) == k[2] \in Listed(k[1])
Known(k) == k[2] \in known[k[1]]
HasStatement(k) == \E m \in accepted : m.key = k
HasRow(k) == \E row \in unread : row[1].key = k
BeingListed(k) == \E r \in Requests : pc[r] = "listing" /\ key[r] = k
Broken == cut \union disturbed
Excused == Broken \union missing \union unsaid

LEMMA KeysEqual ==
  \A j, k \in Keys : j[1] = k[1] /\ j[2] = k[2] => j = k
  BY DEF Keys

(* How the lists change. *)
LEMMA ListsUnchanged ==
  ASSUME UNCHANGED sessionsIdsMap
  PROVE  /\ \A k \in Keys : OnList(k)' <=> OnList(k)
         /\ ListedOnce => ListedOnce'
  BY DEF OnList, Listed, ListedOnce

LEMMA ListedType ==
  ASSUME TypeInv, NEW u \in Users, NEW i \in Listed(u)
  PROVE  <<u, i>> \in Keys /\ OnList(<<u, i>>)
  BY DEF TypeInv, TypeOK, Listed, OnList, Keys

LEMMA ListAppended ==
  ASSUME TypeInv, NEW k \in Keys, ListedOnce, ~OnList(k),
         sessionsIdsMap' = [sessionsIdsMap EXCEPT ![k[1]] = Append(@, k[2])]
  PROVE  /\ \A j \in Keys : OnList(j)' <=> OnList(j) \/ j = k
         /\ ListedOnce'
  <1> DEFINE u == k[1]
  <1>1. /\ u \in Users /\ k[2] \in Ids
        /\ sessionsIdsMap \in [Users -> Seq(Ids)]
    BY DEF Keys, TypeInv, TypeOK
  <1>2. /\ sessionsIdsMap'[u] = Append(sessionsIdsMap[u], k[2])
        /\ \A v \in Users : v # u => sessionsIdsMap'[v] = sessionsIdsMap[v]
    BY <1>1
  <1>3. /\ Len(sessionsIdsMap[u]) \in Nat
        /\ Len(sessionsIdsMap'[u]) = Len(sessionsIdsMap[u]) + 1
        /\ \A n \in 1..Len(sessionsIdsMap[u]) : sessionsIdsMap'[u][n] = sessionsIdsMap[u][n]
        /\ sessionsIdsMap'[u][Len(sessionsIdsMap[u]) + 1] = k[2]
    BY <1>1, <1>2
  <1>4. Listed(u)' = Listed(u) \union {k[2]}
    BY <1>3 DEF Listed
  <1>5. \A v \in Users : v # u => Listed(v)' = Listed(v)
    BY <1>2 DEF Listed
  <1>6. \A j \in Keys : OnList(j)' <=> OnList(j) \/ j = k
    BY <1>1, <1>4, <1>5, KeysEqual DEF OnList, Keys
  <1>7. ASSUME NEW v \in Users, NEW i \in 1..Len(sessionsIdsMap'[v]),
               NEW j \in 1..Len(sessionsIdsMap'[v]),
               sessionsIdsMap'[v][i] = sessionsIdsMap'[v][j]
        PROVE  i = j
    <2>1. CASE v # u
      BY <1>2, <1>7, <2>1 DEF ListedOnce
    <2>2. CASE v = u
      <3>1. \A n \in 1..Len(sessionsIdsMap[u]) : sessionsIdsMap[u][n] # k[2]
        BY DEF OnList, Listed
      <3> QED
        BY <1>1, <1>3, <1>7, <2>2, <3>1 DEF ListedOnce
    <2> QED
      BY <2>1, <2>2
  <1> QED
    BY <1>6, <1>7 DEF ListedOnce

(* A name goes on a list only under the mutex, by the one request that has *)
(* just made the helper, and it is not there yet.                          *)
ListInv ==
    /\ ListedOnce
    /\ \A k \in Keys : OnList(k) => k \in helpers
    /\ \A r \in Requests : pc[r] = "listing" => ~OnList(key[r])
    /\ \A r, s \in Requests : pc[r] = "listing" /\ pc[s] = "listing" => r = s
    /\ ~Serving => \A r \in Requests : pc[r] \in {"idle", "done"}

(* Nothing that was accepted, or that a page may ask for, is off the list, *)
(* unless it is excused; and where anything was said there is a statement  *)
(* that the next process will find.                                        *)
CompleteInv ==
    /\ \A k \in Keys \ Excused :
          /\ HasStatement(k) => OnList(k) \/ HasRow(k)
          /\ k \in helpers => OnList(k) \/ BeingListed(k)
          /\ Known(k) => OnList(k) \/ HasRow(k) \/ BeingListed(k)
          /\ \A r \in Requests : pc[r] \in InChat /\ key[r] = k => OnList(k)
    /\ \A k \in Keys \ Broken : said[k] # <<>> => HasStatement(k)

(* The effect of a message on all that ListInv and CompleteInv mention.    *)
LEMMA AddMessageEffect ==
  ASSUME TypeInv, NEW r \in Requests, pc[r] \in InChat,
         NEW old, NEW role \in {"user", "ai"},
         NEW next \in {"asked", "answering", "done"},
         AddMessage(r, old, role, next)
  PROVE  /\ UNCHANGED <<helpers, sessionsIdsMap, unread, missing, unsaid>>
         /\ key[r] \in Keys
         /\ \A k \in Keys : k # key[r] => said'[k] = said[k]
         /\ Broken \subseteq Broken'
         /\ \A k \in Keys : Known(k)' => Known(k) \/ k = key[r]
         /\ \A s \in Requests : s # r => pc'[s] = pc[s] /\ key'[s] = key[s]
         /\ \/ pc'[r] \in InChat /\ key'[r] = key[r]
            \/ pc'[r] = "done"
         /\ \/ \A k \in Keys : HasStatement(k)' <=> HasStatement(k) \/ k = key[r]
            \/ /\ key[r] \in Broken'
               /\ \A k \in Keys : HasStatement(k)' <=> HasStatement(k)
  <1>1. key[r] \in Keys /\ key[r][1] \in Users
    BY DEF TypeInv, TypeOK, InChat, Keys
  <1>2. UNCHANGED <<helpers, sessionsIdsMap, unread, missing, unsaid>> /\ Broken \subseteq Broken'
    BY DEF AddMessage, Broken
  <1>3. Proceed(r, next) \/ (Leave(r) /\ UNCHANGED known)
    BY DEF AddMessage
  <1>4. \A k \in Keys : Known(k)' => Known(k) \/ k = key[r]
    <2>1. known' = known \/ known' = [known EXCEPT ![key[r][1]] = @ \union {key[r][2]}]
      BY <1>3 DEF Proceed
    <2>2. known \in [Users -> SUBSET Ids] /\ \A k \in Keys : k[1] \in Users
      BY DEF TypeInv, TypeOK, Keys
    <2> QED
      BY <1>1, <2>1, <2>2, KeysEqual DEF Known
  <1>5. /\ \A s \in Requests : s # r => pc'[s] = pc[s] /\ key'[s] = key[s]
        /\ \/ pc'[r] \in InChat /\ key'[r] = key[r]
           \/ pc'[r] = "done"
    BY <1>3 DEF Proceed, Leave, Goto, InChat, TypeInv, TypeOK
  <1>6. \/ \A k \in Keys : HasStatement(k)' <=> HasStatement(k) \/ k = key[r]
        \/ /\ key[r] \in Broken'
           /\ \A k \in Keys : HasStatement(k)' <=> HasStatement(k)
    BY DEF AddMessage, Log!Accept, Statement, HasStatement, Broken, logVars
  <1>7. \A k \in Keys : k # key[r] => said'[k] = said[k]
    BY DEF AddMessage, TypeInv, TypeOK
  <1> QED
    BY <1>1, <1>2, <1>4, <1>5, <1>6, <1>7

LEMMA AddMessageLists ==
  ASSUME TypeInv, ListInv, CompleteInv, NEW r \in Requests, pc[r] \in InChat,
         NEW old, NEW role \in {"user", "ai"},
         NEW next \in {"asked", "answering", "done"},
         AddMessage(r, old, role, next)
  PROVE  ListInv' /\ CompleteInv'
  <1>1. \A k \in Keys : (OnList(k)' <=> OnList(k)) /\ (HasRow(k)' <=> HasRow(k))
    BY AddMessageEffect, ListsUnchanged DEF HasRow
  <1>2. ListedOnce' /\ (Serving' <=> Serving)
    BY AddMessageEffect, ListsUnchanged DEF ListInv, Serving
  <1>3. pc[r] # "listing" /\ pc'[r] # "listing"
    BY AddMessageEffect DEF InChat
  <1>4. \A s \in Requests : pc[s] = "listing" => key[s] \in Keys
    BY DEF TypeInv, TypeOK
  <1>5. ListInv'
    BY <1>1, <1>2, <1>3, <1>4, AddMessageEffect DEF ListInv, InChat
  <1>6. ASSUME NEW k \in Keys, k \notin Excused'
        PROVE  /\ HasStatement(k)' => OnList(k)' \/ HasRow(k)'
               /\ k \in helpers' => OnList(k)' \/ BeingListed(k)'
               /\ Known(k)' => OnList(k)' \/ HasRow(k)' \/ BeingListed(k)'
               /\ \A s \in Requests : pc'[s] \in InChat /\ key'[s] = k => OnList(k)'
    <2>1. k \notin Excused
      BY <1>6, AddMessageEffect DEF Excused
    <2>2. k = key[r] => OnList(k)
      BY <2>1 DEF CompleteInv
    <2>3. BeingListed(k) => BeingListed(k)'
      BY <1>3, AddMessageEffect DEF BeingListed
    <2>4. HasStatement(k)' => OnList(k)' \/ HasRow(k)'
      <3>1. HasStatement(k)' => HasStatement(k) \/ k = key[r]
        BY AddMessageEffect
      <3> QED
        BY <1>1, <2>1, <2>2, <3>1 DEF CompleteInv
    <2>5. k \in helpers' => OnList(k)' \/ BeingListed(k)'
      <3>1. helpers' = helpers
        BY AddMessageEffect
      <3> QED
        BY <1>1, <2>1, <2>3, <3>1 DEF CompleteInv
    <2>6. Known(k)' => OnList(k)' \/ HasRow(k)' \/ BeingListed(k)'
      <3>1. Known(k)' => Known(k) \/ k = key[r]
        BY AddMessageEffect
      <3> QED
        BY <1>1, <2>1, <2>2, <2>3, <3>1 DEF CompleteInv
    <2>7. ASSUME NEW s \in Requests, pc'[s] \in InChat, key'[s] = k PROVE OnList(k)'
      <3>1. pc[s] \in InChat /\ key[s] = k
        BY <2>7, AddMessageEffect DEF InChat
      <3> QED
        BY <1>1, <2>1, <3>1 DEF CompleteInv
    <2> QED
      BY <2>4, <2>5, <2>6, <2>7
  <1>7. ASSUME NEW k \in Keys, k \notin Broken', said'[k] # <<>>
        PROVE  HasStatement(k)'
    <2>1. k \notin Broken
      BY <1>7, AddMessageEffect
    <2>2. CASE k = key[r]
      BY <1>7, <2>2, AddMessageEffect
    <2>3. CASE k # key[r]
      <3>1. HasStatement(k)
        BY <1>7, <2>1, <2>3, AddMessageEffect DEF CompleteInv
      <3> QED
        BY <3>1, AddMessageEffect
    <2> QED
      BY <2>2, <2>3
  <1>8. CompleteInv'
    BY <1>6, <1>7 DEF CompleteInv
  <1> QED
    BY <1>5, <1>8

(* The clock, the queue and the broker are of no concern to the lists. *)
LEMMA ElsewhereLists ==
  ASSUME ListInv, CompleteInv,
         \/ \E m \in accepted : Store(m) \/ StoreAgain(m)
         \/ DeclareQueue
         \/ Tick
         \/ UNCHANGED vars
  PROVE  ListInv' /\ CompleteInv'
  <1>1. UNCHANGED <<process, requestVars, accepted, known, said, cut, disturbed, missing, unsaid>>
    BY DEF Store, StoreAgain, Log!Store, DeclareQueue, Tick, vars, history, excuses, world, logVars
  <1>2. UNCHANGED <<helpers, sessionsIdsMap, pc, key, unread>>
    BY <1>1 DEF process, requestVars
  <1>3. ListInv'
    BY <1>2 DEF ListInv, ListedOnce, OnList, Listed, Serving
  <1>4. \A k \in Keys : /\ OnList(k)' <=> OnList(k)
                        /\ HasRow(k)' <=> HasRow(k)
                        /\ HasStatement(k)' <=> HasStatement(k)
                        /\ BeingListed(k)' <=> BeingListed(k)
                        /\ Known(k)' <=> Known(k)
    BY <1>1, <1>2 DEF OnList, Listed, HasRow, HasStatement, BeingListed, Known
  <1>5. Excused' = Excused /\ Broken' = Broken
    BY <1>1 DEF Excused, Broken
  <1> QED
    BY <1>1, <1>2, <1>3, <1>4, <1>5 DEF CompleteInv

LEMMA EnterLists ==
  ASSUME TypeInv, ListInv, CompleteInv, NEW r \in Requests, NEW k \in Keys,
         Find(r, k) \/ Emplace(r, k)
  PROVE  ListInv' /\ CompleteInv'
  <1>1. /\ helpers' = helpers \union {k}
        /\ UNCHANGED <<sessionsIdsMap, unread, accepted, known, said, missing, unsaid>>
        /\ Broken \subseteq Broken'
        /\ pc[r] = "idle" /\ Serving
        /\ \A s \in Requests : pc[s] # "listing"
        /\ key'[r] = k
        /\ \A s \in Requests : s # r => pc'[s] = pc[s] /\ key'[s] = key[s]
    BY DEF Find, Emplace, Enter, Goto, MutexFree, Broken, logVars, world, TypeInv, TypeOK
  <1>2. \/ pc'[r] = "ready" /\ (Known(k) \/ k \in helpers)
        \/ pc'[r] = "listing" /\ k \notin helpers
    BY DEF Find, Emplace, Enter, Goto, Known, TypeInv, TypeOK
  <1>3. \A j \in Keys : /\ OnList(j)' <=> OnList(j)
                        /\ HasStatement(j)' <=> HasStatement(j)
                        /\ Known(j)' <=> Known(j)
                        /\ ~HasRow(j) /\ ~BeingListed(j)
    BY <1>1, ListsUnchanged DEF HasRow, HasStatement, BeingListed, Known, Serving
  <1>4. ListInv'
    BY <1>1, <1>2, <1>3, ListsUnchanged DEF ListInv, Serving
  <1>5. ASSUME NEW j \in Keys \ Excused'
        PROVE  /\ HasStatement(j)' => OnList(j)'
               /\ j \in helpers' => OnList(j)' \/ BeingListed(j)'
               /\ Known(j)' => OnList(j)'
               /\ \A s \in Requests : pc'[s] \in InChat /\ key'[s] = j => OnList(j)'
    <2>1. j \in Keys \ Excused
      BY <1>1, <1>5 DEF Excused
    <2>2. /\ HasStatement(j) => OnList(j)
          /\ j \in helpers => OnList(j)
          /\ Known(j) => OnList(j)
          /\ \A s \in Requests : pc[s] \in InChat /\ key[s] = j => OnList(j)
      BY <1>3, <2>1 DEF CompleteInv
    <2>3. j = k => OnList(j) \/ pc'[r] = "listing"
      BY <1>2, <2>2
    <2>4. pc'[r] = "listing" => BeingListed(k)' /\ pc'[r] \notin InChat
      BY <1>1 DEF BeingListed, InChat
    <2> QED
      BY <1>1, <1>3, <2>2, <2>3, <2>4
  <1>6. ASSUME NEW j \in Keys \ Broken', said'[j] # <<>>
        PROVE  HasStatement(j)'
    BY <1>1, <1>3, <1>6 DEF CompleteInv
  <1>7. CompleteInv'
    BY <1>5, <1>6 DEF CompleteInv
  <1> QED
    BY <1>4, <1>7

LEMMA PushIdLists ==
  ASSUME TypeInv, ListInv, CompleteInv, NEW r \in Requests, PushId(r)
  PROVE  ListInv' /\ CompleteInv'
  <1>1. /\ pc[r] = "listing" /\ pc'[r] = "ready"
        /\ key[r] \in Keys /\ key[r] \in helpers /\ ~OnList(key[r])
        /\ UNCHANGED <<helpers, key, unread, accepted, known, said, missing, unsaid>>
        /\ Broken' = Broken
        /\ \A s \in Requests : s # r => pc'[s] = pc[s] /\ pc[s] # "listing"
    BY DEF PushId, Goto, Broken, logVars, world, history, excuses, TypeInv, TypeOK, ListInv
  <1>2. /\ \A j \in Keys : OnList(j)' <=> OnList(j) \/ j = key[r]
        /\ ListedOnce'
    BY <1>1, ListAppended DEF PushId, ListInv
  <1>3. \A j \in Keys : /\ HasStatement(j)' <=> HasStatement(j)
                        /\ HasRow(j)' <=> HasRow(j)
                        /\ Known(j)' <=> Known(j)
                        /\ BeingListed(j) => j = key[r]
    BY <1>1 DEF HasStatement, HasRow, Known, BeingListed
  <1>4. Serving' <=> Serving
    BY <1>1 DEF Serving
  <1>5. ListInv'
    BY <1>1, <1>2, <1>4 DEF ListInv
  <1>6. \A s \in Requests, j \in Keys :
           pc'[s] \in InChat /\ key'[s] = j => j = key[r] \/ (pc[s] \in InChat /\ key[s] = j)
    BY <1>1
  <1>7. CompleteInv'
    <2>1. Excused' = Excused
      BY <1>1 DEF Excused
    <2>2. ASSUME NEW j \in Keys \ Excused
          PROVE  /\ HasStatement(j) => OnList(j)' \/ HasRow(j)
                 /\ j \in helpers => OnList(j)'
                 /\ Known(j) => OnList(j)' \/ HasRow(j)
                 /\ \A s \in Requests : pc'[s] \in InChat /\ key'[s] = j => OnList(j)'
      BY <1>2, <1>3, <1>6 DEF CompleteInv
    <2> QED
      BY <1>1, <1>3, <2>1, <2>2 DEF CompleteInv
  <1> QED
    BY <1>5, <1>7

LEMMA HistoryLists ==
  ASSUME TypeInv, ListInv, CompleteInv, NEW k \in Keys, History(k)
  PROVE  ListInv' /\ CompleteInv'
  <1>1. /\ helpers' = helpers \union {k} /\ Known(k) /\ Serving
        /\ UNCHANGED <<sessionsIdsMap, pc, key, unread, accepted, known, said,
                      missing, unsaid, cut, disturbed>>
    BY DEF History, Known, MutexFree, requestVars, logVars, world, history, excuses
  <1>2. \A j \in Keys : /\ OnList(j)' <=> OnList(j)
                        /\ HasStatement(j)' <=> HasStatement(j)
                        /\ HasRow(j)' <=> HasRow(j)
                        /\ ~HasRow(j)
                        /\ Known(j)' <=> Known(j)
                        /\ BeingListed(j)' <=> BeingListed(j)
    BY <1>1, ListsUnchanged DEF HasStatement, HasRow, Known, BeingListed, Serving
  <1>3. Excused' = Excused /\ Broken' = Broken
    BY <1>1 DEF Excused, Broken
  <1>4. ListInv'
    BY <1>1, <1>2, ListsUnchanged DEF ListInv, Serving, TypeInv, TypeOK
  <1>5. CompleteInv'
    BY <1>1, <1>2, <1>3 DEF CompleteInv
  <1> QED
    BY <1>4, <1>5

LEMMA ListSessionsLists ==
  ASSUME TypeInv, ListInv, CompleteInv, NEW u \in Users, ListSessions(u)
  PROVE  ListInv' /\ CompleteInv'
  <1>1. UNCHANGED <<helpers, sessionsIdsMap, pc, key, unread, accepted, said,
                   missing, unsaid, cut, disturbed>>
    BY DEF ListSessions, process, requestVars, logVars, history, excuses
  <1>2. \A j \in Keys : /\ OnList(j)' <=> OnList(j)
                        /\ HasStatement(j)' <=> HasStatement(j)
                        /\ HasRow(j)' <=> HasRow(j)
                        /\ BeingListed(j)' <=> BeingListed(j)
    BY <1>1, ListsUnchanged DEF HasStatement, HasRow, BeingListed
  <1>3. \A j \in Keys : Known(j)' => Known(j) \/ OnList(j) \/ BeingListed(j)
    <2> SUFFICES ASSUME NEW j \in Keys, Known(j)' PROVE Known(j) \/ OnList(j) \/ BeingListed(j)
      OBVIOUS
    <2>1. known \in [Users -> SUBSET Ids] /\ j[1] \in Users
      BY DEF TypeInv, TypeOK, Keys
    <2>2. PICK copy \in SUBSET (Listed(u) \union Pushing(u)) :
             known' = [known EXCEPT ![u] = @ \union copy]
      BY DEF ListSessions
    <2>3. CASE j[2] \in Pushing(j[1])
      <3>1. PICK q \in Requests : pc[q] = "listing" /\ key[q][1] = j[1] /\ key[q][2] = j[2]
        BY <2>3 DEF Pushing
      <3>2. key[q] \in Keys
        BY <3>1 DEF TypeInv, TypeOK
      <3> QED
        BY <3>1, <3>2, KeysEqual DEF BeingListed
    <2>4. CASE j[2] \notin Pushing(j[1])
      BY <2>1, <2>2, <2>4 DEF Known, OnList
    <2> QED
      BY <2>3, <2>4
  <1>4. Excused' = Excused /\ Broken' = Broken
    BY <1>1 DEF Excused, Broken
  <1>5. ListInv'
    BY <1>1, <1>2, ListsUnchanged DEF ListInv, Serving, TypeInv, TypeOK
  <1>6. CompleteInv'
    BY <1>1, <1>2, <1>3, <1>4 DEF CompleteInv
  <1> QED
    BY <1>5, <1>6

LEMMA ChatStepLists ==
  ASSUME TypeInv, ListInv, CompleteInv, NEW r \in Requests,
         PushPrompt(r) \/ CallThrows(r) \/ CreateThrows(r)
  PROVE  ListInv' /\ CompleteInv'
  <1>1. /\ UNCHANGED <<helpers, sessionsIdsMap, unread, accepted, known, said, missing, unsaid>>
        /\ pc[r] \in InChat /\ key[r] \in Keys
        /\ Broken \subseteq Broken'
        /\ \A s \in Requests : s # r => pc'[s] = pc[s] /\ key'[s] = key[s]
        /\ \/ pc'[r] \in InChat /\ key'[r] = key[r]
           \/ pc'[r] = "done"
    BY DEF PushPrompt, CallThrows, CreateThrows, Leave, Goto, InChat, Broken, process, logVars, world,
           history, excuses, TypeInv, TypeOK
  <1>2. \A j \in Keys : /\ OnList(j)' <=> OnList(j)
                        /\ HasStatement(j)' <=> HasStatement(j)
                        /\ HasRow(j)' <=> HasRow(j)
                        /\ Known(j)' <=> Known(j)
                        /\ BeingListed(j) => BeingListed(j)'
    BY <1>1, ListsUnchanged DEF HasStatement, HasRow, Known, BeingListed, InChat
  <1>4. Excused \subseteq Excused'
    BY <1>1 DEF Excused
  <1>5. ListInv'
    BY <1>1, <1>2, ListsUnchanged DEF ListInv, Serving, InChat, TypeInv, TypeOK
  <1>6. \A s \in Requests : pc'[s] \in InChat => pc[s] \in InChat /\ key'[s] = key[s]
    BY <1>1 DEF InChat
  <1>7. CompleteInv'
    BY <1>1, <1>2, <1>4, <1>6 DEF CompleteInv
  <1> QED
    BY <1>5, <1>7

(* A new process: what is known and not broken is unsaid, or was accepted; *)
(* it is missing, or among the rows.                                       *)
LEMMA RestartLists ==
  ASSUME TypeInv, ListInv, CompleteInv, Restart \/ RestartUnread
  PROVE  ListInv' /\ CompleteInv'
  <1>1. /\ helpers' = {}
        /\ sessionsIdsMap' = [u \in Users |-> <<>>]
        /\ \A r \in Requests : pc'[r] \in {"idle", "done"}
        /\ UNCHANGED <<accepted, stored, doubled, known, said>>
        /\ unsaid' = {k \in Keys : k[2] \in known[k[1]] /\ said[k] = <<>>}
        /\ cut \subseteq cut' /\ disturbed \subseteq disturbed'
    BY DEF Restart, RestartUnread, NewProcess, logVars, world
  <1>2. \A k \in Keys : ~OnList(k)'
    BY <1>1 DEF OnList, Listed, Keys
  <1>3. ListedOnce'
    BY <1>1 DEF ListedOnce
  <1>4. ListInv'
    BY <1>1, <1>2, <1>3 DEF ListInv
  <1>5. \A k \in Keys : HasStatement(k) => k \in missing' \/ HasRow(k)'
    <2>1. CASE RestartUnread
      BY <2>1 DEF RestartUnread
    <2>2. CASE Restart
      <3>1. SUFFICES ASSUME NEW m \in accepted, m.key \notin missing'
                     PROVE  HasRow(m.key)'
        BY DEF HasStatement
      <3>2. m \in stored
        BY <2>2, <3>1 DEF Restart
      <3>3. <<m, 1>> \in unread'
        BY <2>2, <3>2 DEF Restart, Rows
      <3> QED
        BY <3>3 DEF HasRow
    <2> QED
      BY <2>1, <2>2
  <1>6. \A k \in Keys : (HasStatement(k)' <=> HasStatement(k)) /\ (Known(k)' <=> Known(k))
    BY <1>1 DEF HasStatement, Known
  <1>7. /\ \A k \in Keys : k \notin Broken' /\ said[k] # <<>> => HasStatement(k)
        /\ \A k \in Keys : Known(k) /\ k \notin Broken' \union unsaid' => HasStatement(k)
    BY <1>1 DEF Broken, CompleteInv, Known
  <1>8. CompleteInv'
    <2>1. \A r \in Requests : pc'[r] \notin InChat
      BY <1>1 DEF InChat
    <2> QED
      BY <1>1, <1>2, <1>5, <1>6, <1>7, <2>1 DEF CompleteInv, Excused
  <1> QED
    BY <1>4, <1>8

(* A row that is read puts its conversation on the list, or finds it there. *)
LEMMA ReadRowLists ==
  ASSUME TypeInv, ListInv, CompleteInv, NEW row \in unread, ReadRow(row)
  PROVE  ListInv' /\ CompleteInv'
  <1> DEFINE k == row[1].key
  <1>1. /\ k \in Keys /\ row[1] \in accepted
        /\ helpers' = helpers \union {k}
        /\ unread' = unread \ {row}
        /\ UNCHANGED <<pc, key, accepted, known, said, cut, disturbed, missing, unsaid>>
        /\ \A r \in Requests : pc[r] \in {"idle", "done"}
    BY RowType DEF ReadRow, logVars, world, history, excuses, ListInv, Serving, TypeInv, TypeOK
  <1>3. \A j \in Keys : HasRow(j) => HasRow(j)' \/ j = k
    BY <1>1 DEF HasRow
  <1>4. \A j \in Keys : /\ HasStatement(j)' <=> HasStatement(j)
                        /\ Known(j)' <=> Known(j)
                        /\ ~BeingListed(j)
    BY <1>1 DEF HasStatement, Known, BeingListed
  <1>5. /\ \A j \in Keys : OnList(j)' => OnList(j) \/ j = k
        /\ \A j \in Keys : OnList(j) => OnList(j)'
        /\ k \notin helpers => OnList(k)'
        /\ ListedOnce'
    <2>1. CASE k \in helpers
      <3>1. UNCHANGED sessionsIdsMap
        BY <2>1 DEF ReadRow
      <3> QED
        BY <2>1, <3>1, ListsUnchanged DEF ListInv
    <2>2. CASE k \notin helpers
      <3>1. sessionsIdsMap' = [sessionsIdsMap EXCEPT ![k[1]] = Append(@, k[2])]
        BY <2>2 DEF ReadRow
      <3>2. ~OnList(k)
        BY <1>1, <2>2 DEF ListInv
      <3> QED
        BY <1>1, <3>1, <3>2, ListAppended DEF ListInv
    <2> QED
      BY <2>1, <2>2
  <1>6. ListInv'
    BY <1>1, <1>5 DEF ListInv
  <1>7. k \notin Excused => OnList(k)'
    BY <1>1, <1>4, <1>5 DEF CompleteInv
  <1>8. Excused' = Excused /\ Broken' = Broken
    BY <1>1 DEF Excused, Broken
  <1>9. CompleteInv'
    <2>1. \A r \in Requests : pc'[r] \notin InChat
      BY <1>1 DEF InChat
    <2>2. ASSUME NEW j \in Keys \ Excused
          PROVE  /\ HasStatement(j) => OnList(j)' \/ HasRow(j)'
                 /\ j \in helpers' => OnList(j)'
                 /\ Known(j) => OnList(j)' \/ HasRow(j)'
      BY <1>1, <1>3, <1>4, <1>5, <1>7 DEF CompleteInv
    <2> QED
      BY <1>1, <1>4, <1>8, <2>1, <2>2 DEF CompleteInv
  <1> QED
    BY <1>6, <1>9

LEMMA ListsInit == Init => ListInv /\ CompleteInv
  <1> SUFFICES ASSUME Init PROVE ListInv /\ CompleteInv
    OBVIOUS
  <1>1. \A k \in Keys : ~OnList(k) /\ ~Known(k) /\ ~HasStatement(k)
    BY DEF Init, OnList, Listed, Known, HasStatement, Keys
  <1>2. ListInv
    BY <1>1 DEF Init, ListInv, ListedOnce, Serving
  <1>3. CompleteInv
    BY <1>1 DEF Init, CompleteInv, InChat
  <1> QED
    BY <1>2, <1>3

LEMMA ListsNext ==
  TypeInv /\ ListInv /\ CompleteInv /\ [Next]_vars => ListInv' /\ CompleteInv'
  <1> SUFFICES ASSUME TypeInv, ListInv, CompleteInv, [Next]_vars
               PROVE  ListInv' /\ CompleteInv'
    OBVIOUS
  <1>1. ASSUME NEW r \in Requests, Request(r) PROVE ListInv' /\ CompleteInv'
    <2>1. ASSUME NEW k \in Keys, Find(r, k) \/ Emplace(r, k)
          PROVE  ListInv' /\ CompleteInv'
      BY <2>1, EnterLists
    <2>2. CASE Ask(r) \/ Answer(r) \/ PopPrompt(r) \/ AddAnswer(r)
      <3>1. pc[r] \in InChat
        BY <2>2 DEF Ask, Answer, PopPrompt, AddAnswer, InChat
      <3> QED
        BY <2>2, <3>1, AddMessageLists DEF Ask, Answer, PopPrompt, AddAnswer
    <2>3. CASE PushId(r)
      BY <2>3, PushIdLists
    <2>4. CASE PushPrompt(r) \/ CallThrows(r) \/ CreateThrows(r)
      BY <2>4, ChatStepLists
    <2> QED
      BY <1>1, <2>1, <2>2, <2>3, <2>4 DEF Request
  <1>2. ASSUME NEW k \in Keys, History(k) PROVE ListInv' /\ CompleteInv'
    BY <1>2, HistoryLists
  <1>3. ASSUME NEW u \in Users, ListSessions(u) PROVE ListInv' /\ CompleteInv'
    BY <1>3, ListSessionsLists
  <1>4. ASSUME NEW row \in unread, ReadRow(row) PROVE ListInv' /\ CompleteInv'
    BY <1>4, ReadRowLists
  <1>5. CASE Restart \/ RestartUnread
    BY <1>5, RestartLists
  <1>6. CASE \/ \E m \in accepted : Store(m) \/ StoreAgain(m)
             \/ DeclareQueue
             \/ Tick
             \/ UNCHANGED vars
    BY <1>6, ElsewhereLists
  <1> QED
    BY <1>1, <1>2, <1>3, <1>4, <1>5, <1>6 DEF Next

(* A session is on its user's list once, for any number of sessions,       *)
(* requests and restarts.                                                  *)
THEOREM ListedOnceTheorem == Spec => []ListedOnce
  <1>1. ListInv => ListedOnce
    BY DEF ListInv
  <1> QED
    BY <1>1, TypeInvInit, TypeInvNext, ListsInit, ListsNext, PTL DEF Spec

(* A list shows only conversations the server has, also in the middle of a *)
(* creation, when ChatSessionsHandler copies it under the other mutex.     *)
THEOREM ListedHaveHelpersTheorem == Spec => []ListedHaveHelpers
  <1>1. ASSUME TypeInv, ListInv PROVE ListedHaveHelpers
    <2> SUFFICES ASSUME NEW u \in Users, NEW i \in Listed(u) PROVE <<u, i>> \in helpers
      BY DEF ListedHaveHelpers
    <2> QED
      BY <1>1, ListedType DEF ListInv
  <1> QED
    BY <1>1, TypeInvInit, TypeInvNext, ListsInit, ListsNext, PTL DEF Spec

(* Both at once: what the handlers rely on when they read a list.          *)
THEOREM ListsAreRightTheorem == Spec => []ListsAreRight
  BY ListedOnceTheorem, ListedHaveHelpersTheorem, PTL DEF ListsAreRight

(* A conversation that has rows is on its user's list, over any restarts,  *)
(* unless a chat in it failed midway, was cut off or overlapped, its rows  *)
(* were not there at the last start, or it had none, its first chat having *)
(* thrown before anything was said.                                        *)
THEOREM StoredIsListedTheorem == Spec => []StoredIsListed
  <1>1. ASSUME TypeInv, CompleteInv PROVE StoredIsListed
    <2> SUFFICES ASSUME NEW m \in stored, Serving,
                        m.key \notin cut \union disturbed \union missing \union unsaid
                 PROVE  OnList(m.key)
      BY DEF StoredIsListed, OnList
    <2>1. m.key \in Keys /\ HasStatement(m.key)
      BY <1>1 DEF TypeInv, TypeOK, Statements, HasStatement
    <2>2. ~HasRow(m.key)
      BY DEF Serving, HasRow
    <2> QED
      BY <1>1, <2>1, <2>2 DEF CompleteInv, Excused, Broken
  <1> QED
    BY <1>1, TypeInvInit, TypeInvNext, ListsInit, ListsNext, PTL DEF Spec


-----------------------------------------------------------------------------
(* What is restored.                                                       *)

Doubtful == disturbed \union tied \union missing

(* While nothing is disturbed one chat at a time adds to a conversation,   *)
(* and what was said in it is what was accepted of it, in the order of     *)
(* time.                                                                   *)
Alone(k) == \A r, s \in Chatting(k) : r = s

Recorded(k) ==
    /\ \A i \in 1..Len(said[k]) : said[k][i] \in accepted /\ said[k][i].key = k
    /\ \A i \in 1..Len(said[k]) : said[k][i].ts <= now
    /\ \A m \in accepted : m.key = k => \E i \in 1..Len(said[k]) : said[k][i] = m
    /\ \A i, j \in 1..Len(said[k]) :
          i < j => said[k][i] # said[k][j] /\ said[k][i].ts <= said[k][j].ts

SaidInv == \A k \in Keys \ disturbed : Alone(k) /\ Recorded(k)

(* A prompt that is to be popped is the last message. *)
EndsWithPrompt(k) == messages[k] # <<>> /\ messages[k][Len(messages[k])].role = "prompt"

Remembered(k) ==
    /\ IsTalk(messages[k], said[k])
    /\ \A r \in Chatting(k) : pc[r] = "prompted" => EndsWithPrompt(k)

(* During a restore memory is the beginning of what was said, and the rest *)
(* is still to be read, each row once.                                     *)
Restored(k) ==
    /\ Len(messages[k]) <= Len(said[k])
    /\ \A i \in 1..Len(messages[k]) : messages[k][i] = said[k][i]
    /\ \A i \in Len(messages[k]) + 1..Len(said[k]) : <<said[k][i], 1>> \in unread
    /\ \A row \in unread : row[1].key = k =>
          \E i \in Len(messages[k]) + 1..Len(said[k]) : row = <<said[k][i], 1>>
    /\ ~Tied(k)

MemoryInv ==
    \A k \in Keys \ Doubtful : /\ Serving => Remembered(k)
                               /\ ~Serving => Restored(k)

(* While every chat has run to its end question and answer alternate, and  *)
(* there is a prompt only while a chat is about to pop it.                 *)
Midway == {"asked", "prompted", "answering"}

Alternates(k) ==
    /\ \A i \in 1..Len(said[k]) : said[k][i].role = "user" <=> i % 2 = 1
    /\ Len(said[k]) % 2 = 1 <=> \E r \in Chatting(k) : pc[r] \in {"asked", "answering"}
    /\ \A i \in 1..Len(messages[k]) : messages[k][i].role = "prompt" =>
          i = Len(messages[k]) /\ \E r \in Chatting(k) : pc[r] = "prompted"

RolesInv == \A k \in Keys \ Broken : Alternates(k)

(* Place, by its recursion. *)
LEMMA PlaceStep ==
  ASSUME NEW s
  PROVE  /\ Place(s, 0) = 0
         /\ \A n \in Nat : /\ Place(s, n) \in Nat
                           /\ s[n + 1].role # "prompt" => Place(s, n + 1) = Place(s, n) + 1
                           /\ s[n + 1].role = "prompt" => Place(s, n + 1) = Place(s, n)
  <1> DEFINE S(n) == {j \in 1..n : s[j].role # "prompt"}
  <1>1. \A n \in Nat : IsFiniteSet(S(n)) /\ Cardinality(S(n)) \in Nat
    <2> TAKE n \in Nat
    <2>1. IsFiniteSet(1..n)
      BY FS_Interval
    <2> QED
      BY <2>1, FS_Subset, FS_CardinalityType
  <1>2. Cardinality(S(0)) = 0
    BY FS_EmptySet
  <1>3. ASSUME NEW n \in Nat, s[n + 1].role # "prompt"
        PROVE  Cardinality(S(n + 1)) = Cardinality(S(n)) + 1
    <2>1. S(n + 1) = S(n) \union {n + 1} /\ n + 1 \notin S(n)
      BY <1>3
    <2>2. Cardinality(S(n) \union {n + 1}) = Cardinality(S(n)) + 1
      BY <1>1, <2>1, FS_AddElement
    <2> QED
      BY <2>1, <2>2
  <1>4. ASSUME NEW n \in Nat, s[n + 1].role = "prompt"
        PROVE  S(n + 1) = S(n)
    BY <1>4
  <1> QED
    BY <1>1, <1>2, <1>3, <1>4 DEF Place

(* Places increase, and without prompts they count all. *)
LEMMA PlaceMonotone ==
  ASSUME NEW s, NEW i \in Nat, NEW n \in Nat, i <= n
  PROVE  Place(s, i) <= Place(s, n)
  <1>1. IsFiniteSet(1..n)
    BY FS_Interval
  <1>2. IsFiniteSet({j \in 1..n : s[j].role # "prompt"})
    BY <1>1, FS_Subset
  <1>3. {j \in 1..i : s[j].role # "prompt"} \subseteq {j \in 1..n : s[j].role # "prompt"}
    OBVIOUS
  <1> QED
    BY <1>2, <1>3, FS_Subset DEF Place

LEMMA PlaceNoPrompts ==
  ASSUME NEW s, NEW n \in Nat, \A j \in 1..n : s[j].role # "prompt"
  PROVE  \A i \in 0..n : Place(s, i) = i
  <1> TAKE i \in 0..n
  <1>1. {j \in 1..i : s[j].role # "prompt"} = 1..i
    OBVIOUS
  <1>2. Cardinality(1..i) = i
    BY FS_Interval
  <1> QED
    BY <1>1, <1>2 DEF Place

(* The beginning of a sequence determines the places in it. *)
LEMMA PlaceSame ==
  ASSUME NEW s, NEW t, NEW n \in Nat, \A j \in 1..n : t[j] = s[j]
  PROVE  \A i \in 0..n : Place(t, i) = Place(s, i)
  <1> TAKE i \in 0..n
  <1>1. {j \in 1..i : t[j].role # "prompt"} = {j \in 1..i : s[j].role # "prompt"}
    OBVIOUS
  <1> QED
    BY <1>1 DEF Place

(* The places of what is no prompt are those of the talk. *)
LEMMA PlaceInTalk ==
  ASSUME NEW s, NEW n \in Nat, NEW i \in 1..n, s[i].role # "prompt"
  PROVE  Place(s, i) \in 1..Place(s, n)
  <1>1. i - 1 \in Nat /\ (i - 1) + 1 = i
    OBVIOUS
  <1>2. Place(s, i - 1) \in Nat /\ Place(s, i) = Place(s, i - 1) + 1
    BY <1>1, PlaceStep
  <1>3. Place(s, i) <= Place(s, n) /\ Place(s, n) \in Nat
    BY PlaceMonotone, PlaceStep
  <1> QED
    BY <1>2, <1>3

(* What push_back and pop_back do to a conversation and its talk. *)
LEMMA TalkEmpty == IsTalk(<<>>, <<>>)
  BY PlaceStep DEF IsTalk

LEMMA TalkSaid ==
  ASSUME NEW A, NEW B, NEW s \in Seq(A), NEW t \in Seq(B), NEW m, m \in A, m \in B,
         IsTalk(s, t), m.role # "prompt"
  PROVE  IsTalk(Append(s, m), Append(t, m))
  <1> DEFINE u == Append(s, m)
             n == Len(s)
  <1>1. /\ n \in Nat /\ Len(t) \in Nat
        /\ Len(u) = n + 1 /\ u[n + 1] = m /\ \A j \in 1..n : u[j] = s[j]
        /\ Len(Append(t, m)) = Len(t) + 1
        /\ Append(t, m)[Len(t) + 1] = m /\ \A j \in 1..Len(t) : Append(t, m)[j] = t[j]
    BY LenProperties, AppendProperties
  <1> HIDE DEF u, n
  <1>2. \A i \in 0..n : Place(u, i) = Place(s, i)
    BY <1>1, PlaceSame
  <1>3. Place(s, n) = Len(t)
    BY DEF IsTalk, n
  <1>4. Place(u, n + 1) = Len(t) + 1
    <2>1. u[n + 1].role # "prompt" /\ Place(u, n) = Len(t)
      BY <1>1, <1>2, <1>3
    <2>2. u[n + 1].role # "prompt" => Place(u, n + 1) = Place(u, n) + 1
      BY <1>1, PlaceStep
    <2> QED
      BY <2>1, <2>2
  <1>5. ASSUME NEW i \in 1..n, u[i].role # "prompt"
        PROVE  Append(t, m)[Place(u, i)] = u[i]
    <2>1. s[i].role # "prompt" /\ u[i] = s[i] /\ Place(u, i) = Place(s, i)
      BY <1>1, <1>2, <1>5
    <2>2. Place(s, i) \in 1..Len(t)
      BY <1>1, <1>3, <2>1, PlaceInTalk
    <2>3. t[Place(s, i)] = s[i]
      BY <2>1 DEF IsTalk, n
    <2> QED
      BY <1>1, <2>1, <2>2, <2>3
  <1>6. \A i \in 1..n + 1 : u[i].role # "prompt" => Append(t, m)[Place(u, i)] = u[i]
    <2> SUFFICES ASSUME NEW i \in 1..n + 1, u[i].role # "prompt"
                 PROVE  Append(t, m)[Place(u, i)] = u[i]
      OBVIOUS
    <2>1. i \in 1..n \/ i = n + 1
      BY <1>1
    <2>2. Append(t, m)[Place(u, n + 1)] = u[n + 1]
      BY <1>1, <1>4
    <2> QED
      BY <1>5, <2>1, <2>2
  <1> QED
    BY <1>1, <1>4, <1>6 DEF IsTalk, u

LEMMA TalkPrompted ==
  ASSUME NEW A, NEW s \in Seq(A), NEW t, NEW m \in A, IsTalk(s, t), m.role = "prompt"
  PROVE  IsTalk(Append(s, m), t)
  <1> DEFINE u == Append(s, m)
             n == Len(s)
  <1>1. /\ n \in Nat
        /\ Len(u) = n + 1 /\ u[n + 1] = m /\ \A j \in 1..n : u[j] = s[j]
    BY LenProperties, AppendProperties
  <1> HIDE DEF u, n
  <1>2. \A i \in 0..n : Place(u, i) = Place(s, i)
    BY <1>1, PlaceSame
  <1>3. Place(u, n + 1) = Len(t)
    <2>1. u[n + 1].role = "prompt" /\ Place(u, n) = Len(t)
      BY <1>1, <1>2 DEF IsTalk, n
    <2>2. u[n + 1].role = "prompt" => Place(u, n + 1) = Place(u, n)
      BY <1>1, PlaceStep
    <2> QED
      BY <2>1, <2>2
  <1>4. \A i \in 1..n + 1 : u[i].role # "prompt" => t[Place(u, i)] = u[i]
    BY <1>1, <1>2 DEF IsTalk, n
  <1> QED
    BY <1>1, <1>3, <1>4 DEF IsTalk, u

LEMMA TalkPopped ==
  ASSUME NEW A, NEW s \in Seq(A), NEW t, s # <<>>, s[Len(s)].role = "prompt", IsTalk(s, t)
  PROVE  IsTalk(AllButLast(s), t)
  <1> DEFINE u == AllButLast(s)
             n == Len(s) - 1
  <1>1. /\ n \in Nat /\ Len(s) = n + 1
    BY LenProperties, EmptySeq
  <1>2. Len(u) = n /\ \A j \in 1..n : u[j] = s[j]
    BY <1>1, SubSeqProperties DEF AllButLast
  <1>3. s[n + 1].role = "prompt"
    BY <1>1
  <1> HIDE DEF u, n
  <1>4. \A i \in 0..n : Place(u, i) = Place(s, i)
    BY <1>1, <1>2, PlaceSame
  <1>5. Place(s, n + 1) = Place(s, n)
    BY <1>1, <1>3, PlaceStep
  <1>6. Place(u, n) = Len(t)
    BY <1>1, <1>4, <1>5 DEF IsTalk
  <1>7. \A i \in 1..n : u[i].role # "prompt" => t[Place(u, i)] = u[i]
    BY <1>1, <1>2, <1>4 DEF IsTalk
  <1> QED
    BY <1>2, <1>6, <1>7 DEF IsTalk, u

(* A conversation without prompts is its talk. *)
LEMMA TalkWhole ==
  ASSUME NEW A, NEW B, NEW s \in Seq(A), NEW t \in Seq(B), \A i \in 1..Len(s) : s[i].role # "prompt"
  PROVE  IsTalk(s, t) <=> Len(t) = Len(s) /\ \A i \in 1..Len(s) : t[i] = s[i]
  <1>1. Len(s) \in Nat /\ Len(t) \in Nat
    BY LenProperties
  <1>2. \A i \in 0..Len(s) : Place(s, i) = i
    BY <1>1, PlaceNoPrompts
  <1> QED
    BY <1>1, <1>2 DEF IsTalk


-----------------------------------------------------------------------------
(* A step that adds no message, takes up nothing half-way, and leaves      *)
(* half-way only what it breaks.                                           *)
LEMMA NothingSaid ==
  ASSUME TypeInv, SaidInv, MemoryInv, RolesInv,
         UNCHANGED <<messages, said, unread, accepted, tied, missing>>,
         disturbed \subseteq disturbed', cut \subseteq cut',
         now' \in Nat, now <= now',
         Serving \/ UNCHANGED stored,
         \A k \in Keys \ disturbed' : Alone(k)',
         \A r \in Requests : pc'[r] \in Midway => pc'[r] = pc[r] /\ key'[r] = key[r],
         \A r \in Requests : pc[r] \in Midway =>
            (pc'[r] = pc[r] /\ key'[r] = key[r]) \/ key[r] \in Broken'
  PROVE  SaidInv' /\ MemoryInv' /\ RolesInv'
  <1>1. Broken \subseteq Broken' /\ Doubtful \subseteq Doubtful'
    BY DEF Broken, Doubtful
  <1>2. ASSUME NEW k \in Keys \ disturbed' PROVE Recorded(k)'
    <2>1. Recorded(k)
      BY <1>2 DEF SaidInv
    <2>2. \A i \in 1..Len(said[k]) : said[k][i].ts <= now'
      <3>1. \A i \in 1..Len(said[k]) : said[k][i] \in accepted /\ said[k][i].ts <= now
        BY <2>1 DEF Recorded
      <3>2. accepted \subseteq Statements /\ now \in Nat
        BY DEF TypeInv, TypeOK
      <3>3. \A m \in Statements : m.ts \in Nat
        BY DEF Statements
      <3> QED
        BY <3>1, <3>2, <3>3
    <2> QED
      BY <2>1, <2>2 DEF Recorded
  <1>3. \A k \in Keys, r \in Requests :
           r \in Chatting(k)' /\ pc'[r] \in Midway => r \in Chatting(k) /\ pc[r] = pc'[r]
    BY DEF Chatting, Midway, InChat
  <1>4. \A k \in Keys \ Broken', r \in Requests :
           r \in Chatting(k) /\ pc[r] \in Midway => r \in Chatting(k)' /\ pc[r] = pc'[r]
    BY DEF Chatting, Midway, InChat
  <1>5. ASSUME NEW k \in Keys \ Doubtful'
        PROVE  /\ Serving' => Remembered(k)'
               /\ ~Serving' => Restored(k)'
    <2>1. k \in Keys \ Doubtful
      BY <1>1, <1>5
    <2>2. Serving' => Remembered(k)'
      <3>1. Serving' => Remembered(k)
        <4>1. Serving' <=> Serving
          BY DEF Serving
        <4> QED
          BY <2>1, <4>1 DEF MemoryInv
      <3>2. Chatting(k)' \subseteq Requests
        BY DEF Chatting
      <3> QED
        BY <1>3, <3>1, <3>2 DEF Remembered, EndsWithPrompt, Midway
    <2>3. ~Serving' => Restored(k)'
      <3>1. ASSUME ~Serving' PROVE Restored(k) /\ UNCHANGED stored
        BY <2>1, <3>1 DEF MemoryInv, Serving
      <3> QED
        BY <3>1 DEF Restored, Tied
    <2> QED
      BY <2>2, <2>3
  <1>6. ASSUME NEW k \in Keys \ Broken' PROVE Alternates(k)'
    <2>1. Alternates(k)
      BY <1>1, <1>6 DEF RolesInv
    <2>2. Chatting(k) \subseteq Requests /\ Chatting(k)' \subseteq Requests
      BY DEF Chatting
    <2>3. (\E r \in Chatting(k)' : pc'[r] \in {"asked", "answering"})
              <=> \E r \in Chatting(k) : pc[r] \in {"asked", "answering"}
      BY <1>3, <1>4, <2>2 DEF Midway
    <2>4. (\E r \in Chatting(k) : pc[r] = "prompted") => \E r \in Chatting(k)' : pc'[r] = "prompted"
      BY <1>4, <2>2 DEF Midway
    <2> QED
      BY <2>1, <2>3, <2>4 DEF Alternates
  <1>7. SaidInv'
    BY <1>2 DEF SaidInv
  <1>8. MemoryInv'
    BY <1>5 DEF MemoryInv
  <1>9. RolesInv'
    BY <1>6 DEF RolesInv
  <1> QED
    BY <1>7, <1>8, <1>9

(* A handler that takes up a conversation others are in disturbs it. *)
LEMMA EnterAlone ==
  ASSUME TypeInv, SaidInv, NEW r \in Requests, NEW k \in Keys, pc[r] = "idle",
         NEW p \in {"ready", "listing"}, Enter(r, k, p)
  PROVE  \A j \in Keys \ disturbed' : Alone(j)'
  <1>1. /\ key' = [key EXCEPT ![r] = k] /\ pc' = [pc EXCEPT ![r] = p]
        /\ disturbed \subseteq disturbed'
        /\ k \notin disturbed' => Chatting(k) = {}
    BY DEF Enter, Goto
  <1>2. \A s \in Requests \ {r} : pc'[s] = pc[s] /\ key'[s] = key[s]
    BY <1>1 DEF TypeInv, TypeOK
  <1>3. key'[r] = k
    BY <1>1 DEF TypeInv, TypeOK
  <1> SUFFICES ASSUME NEW j \in Keys \ disturbed' PROVE Alone(j)'
    OBVIOUS
  <1>4. Alone(j)
    BY <1>1 DEF SaidInv
  <1>5. CASE j = k
    <2>1. Chatting(k)' \subseteq {r}
      BY <1>1, <1>2, <1>5 DEF Chatting
    <2> QED
      BY <1>5, <2>1 DEF Alone
  <1>6. CASE j # k
    <2>1. Chatting(j)' \subseteq Chatting(j)
      BY <1>2, <1>3, <1>6 DEF Chatting
    <2> QED
      BY <1>4, <2>1 DEF Alone
  <1> QED
    BY <1>5, <1>6

LEMMA EnterSaid ==
  ASSUME TypeInv, SaidInv, MemoryInv, RolesInv, NEW r \in Requests, NEW k \in Keys,
         Find(r, k) \/ Emplace(r, k)
  PROVE  SaidInv' /\ MemoryInv' /\ RolesInv'
  <1>1. PICK p \in {"ready", "listing"} : Enter(r, k, p)
    BY DEF Find, Emplace
  <1>2. pc[r] = "idle" /\ Serving
    BY DEF Find, Emplace, MutexFree
  <1>3. UNCHANGED <<messages, said, accepted, tied, missing, now>>
    BY DEF Find, Emplace, logVars, world
  <1>4. /\ pc' = [pc EXCEPT ![r] = p] /\ key' = [key EXCEPT ![r] = k]
        /\ UNCHANGED unread /\ disturbed \subseteq disturbed' /\ cut \subseteq cut'
    BY <1>1 DEF Enter, Goto
  <1>5. \A s \in Requests : pc'[s] \in Midway \/ pc[s] \in Midway =>
           pc'[s] = pc[s] /\ key'[s] = key[s]
    BY <1>2, <1>4 DEF TypeInv, TypeOK, Midway
  <1>6. now' \in Nat /\ now <= now'
    BY <1>3 DEF TypeInv, TypeOK
  <1>7. \A j \in Keys \ disturbed' : Alone(j)'
    BY <1>1, <1>2, EnterAlone
  <1> QED
    BY <1>2, <1>3, <1>4, <1>5, <1>6, <1>7, NothingSaid

(* What leaves a request where it is, or takes it out of its chat.         *)
LEMMA LeftAlone ==
  ASSUME SaidInv, disturbed \subseteq disturbed',
         \A k \in Keys : Chatting(k)' \subseteq Chatting(k)
  PROVE  \A k \in Keys \ disturbed' : Alone(k)'
  BY DEF SaidInv, Alone

LEMMA RequestSaid ==
  ASSUME TypeInv, SaidInv, MemoryInv, RolesInv, NEW r \in Requests,
         PushId(r) \/ CallThrows(r) \/ CreateThrows(r)
  PROVE  SaidInv' /\ MemoryInv' /\ RolesInv'
  <1>1. /\ UNCHANGED <<messages, said, unread, accepted, stored, tied, missing, now, disturbed>>
        /\ cut \subseteq cut'
    BY DEF PushId, CallThrows, CreateThrows, process, logVars, world, history, excuses
  <1>2. \A s \in Requests \ {r} : pc'[s] = pc[s] /\ key'[s] = key[s]
    BY DEF PushId, CallThrows, CreateThrows, Leave, Goto, TypeInv, TypeOK
  <1>3. \/ /\ pc[r] = "listing" /\ pc'[r] = "ready" /\ key'[r] = key[r]
        \/ /\ pc'[r] = "done"
           /\ pc[r] = "ready" \/ key[r] \in cut'
    BY DEF PushId, CallThrows, CreateThrows, Leave, Goto, TypeInv, TypeOK
  <1>4. \A k \in Keys : Chatting(k)' \subseteq Chatting(k)
    BY <1>2, <1>3 DEF Chatting, InChat
  <1>5. \A s \in Requests : pc'[s] \in Midway => pc'[s] = pc[s] /\ key'[s] = key[s]
    BY <1>2, <1>3 DEF Midway
  <1>6. \A s \in Requests : pc[s] \in Midway =>
           (pc'[s] = pc[s] /\ key'[s] = key[s]) \/ key[s] \in Broken'
    BY <1>2, <1>3 DEF Midway, Broken
  <1>7. now' \in Nat /\ now <= now'
    BY <1>1 DEF TypeInv, TypeOK
  <1> QED
    BY <1>1, <1>4, <1>5, <1>6, <1>7, LeftAlone, NothingSaid

LEMMA ElsewhereSaid ==
  ASSUME TypeInv, SaidInv, MemoryInv, RolesInv,
         \/ \E k \in Keys : History(k)
         \/ \E u \in Users : ListSessions(u)
         \/ \E m \in accepted : Store(m) \/ StoreAgain(m)
         \/ DeclareQueue
         \/ Tick
         \/ UNCHANGED vars
  PROVE  SaidInv' /\ MemoryInv' /\ RolesInv'
  <1>1. /\ UNCHANGED <<messages, pc, key, said, unread, accepted, tied, missing, disturbed, cut>>
        /\ Serving \/ UNCHANGED stored
        /\ now' \in {now, now + 1}
    BY DEF History, ListSessions, Store, StoreAgain, Log!Store, DeclareQueue, Tick, MutexFree,
           vars, process, requestVars, logVars, world, history, excuses
  <1>2. now' \in Nat /\ now <= now'
    BY <1>1 DEF TypeInv, TypeOK
  <1>3. \A k \in Keys : Chatting(k)' \subseteq Chatting(k)
    BY <1>1 DEF Chatting
  <1> QED
    BY <1>1, <1>2, <1>3, LeftAlone, NothingSaid


(* Where a chat finds its conversation. *)
LEMMA InTheChat ==
  ASSUME TypeInv, ListInv, SaidInv, MemoryInv, RolesInv, NEW r \in Requests, pc[r] \in InChat,
         NEW k, k = key[r]
  PROVE  /\ k \in Keys
         /\ r \in Chatting(k)
         /\ unread = {}
         /\ k \notin disturbed => Recorded(k) /\ Chatting(k) = {r}
         /\ k \notin Doubtful =>
               /\ IsTalk(messages[k], said[k])
               /\ pc[r] = "prompted" => EndsWithPrompt(k)
         /\ k \notin Broken =>
               /\ \A i \in 1..Len(said[k]) : said[k][i].role = "user" <=> i % 2 = 1
               /\ Len(said[k]) % 2 = 1 <=> pc[r] \in {"asked", "answering"}
               /\ \A i \in 1..Len(messages[k]) : messages[k][i].role = "prompt" =>
                     i = Len(messages[k]) /\ pc[r] = "prompted"
  <1>1. k \in Keys
    BY DEF TypeInv, TypeOK
  <1>2. r \in Chatting(k) /\ Chatting(k) \subseteq Requests
    BY DEF Chatting
  <1>3. Serving /\ unread = {}
    BY DEF ListInv, InChat, Serving
  <1>4. k \notin disturbed => Recorded(k) /\ Alone(k)
    BY <1>1 DEF SaidInv
  <1>5. k \notin disturbed => Chatting(k) = {r}
    BY <1>2, <1>4 DEF Alone
  <1>6. k \notin Doubtful => Remembered(k)
    BY <1>1, <1>3 DEF MemoryInv
  <1>7. k \notin Broken => Alternates(k)
    BY <1>1 DEF RolesInv
  <1>8. k \notin Broken => Chatting(k) = {r}
    BY <1>5 DEF Broken
  <1>9. k \notin Doubtful => /\ IsTalk(messages[k], said[k])
                             /\ pc[r] = "prompted" => EndsWithPrompt(k)
    BY <1>2, <1>6 DEF Remembered
  <1>10. k \notin Broken =>
               /\ \A i \in 1..Len(said[k]) : said[k][i].role = "user" <=> i % 2 = 1
               /\ Len(said[k]) % 2 = 1 <=> pc[r] \in {"asked", "answering"}
               /\ \A i \in 1..Len(messages[k]) : messages[k][i].role = "prompt" =>
                     i = Len(messages[k]) /\ pc[r] = "prompted"
    BY <1>7, <1>8 DEF Alternates
  <1> QED
    BY <1>1, <1>2, <1>3, <1>4, <1>5, <1>9, <1>10

(* A conversation that r is not in stays as it is. *)
LEMMA OthersSaid ==
  ASSUME TypeInv, SaidInv, MemoryInv, RolesInv, NEW r \in Requests, unread = {},
         NEW k \in Keys, k # key[r], key'[r] # k,
         \A s \in Requests \ {r} : pc'[s] = pc[s] /\ key'[s] = key[s],
         messages'[k] = messages[k], said'[k] = said[k],
         \A m \in accepted' : m \in accepted \/ m.key # k, accepted \subseteq accepted',
         UNCHANGED <<unread, now>>,
         disturbed \subseteq disturbed', Doubtful \subseteq Doubtful', Broken \subseteq Broken'
  PROVE  /\ k \notin disturbed' => Alone(k)' /\ Recorded(k)'
         /\ k \notin Doubtful' => Remembered(k)'
         /\ k \notin Broken' => Alternates(k)'
  <1>1. Chatting(k)' = Chatting(k) /\ \A s \in Chatting(k) : pc'[s] = pc[s]
    BY DEF Chatting
  <1>2. k \notin disturbed' => Alone(k)' /\ Recorded(k)'
    <2> SUFFICES ASSUME k \notin disturbed' PROVE Alone(k)' /\ Recorded(k)'
      OBVIOUS
    <2>1. Alone(k) /\ Recorded(k)
      BY DEF SaidInv
    <2> QED
      BY <1>1, <2>1 DEF Alone, Recorded
  <1>3. k \notin Doubtful' => Remembered(k)'
    <2> SUFFICES ASSUME k \notin Doubtful' PROVE Remembered(k)'
      OBVIOUS
    <2>1. Remembered(k)
      BY DEF MemoryInv, Serving
    <2> QED
      BY <1>1, <2>1 DEF Remembered, EndsWithPrompt
  <1>4. k \notin Broken' => Alternates(k)'
    <2> SUFFICES ASSUME k \notin Broken' PROVE Alternates(k)'
      OBVIOUS
    <2>1. Alternates(k)
      BY DEF RolesInv
    <2> QED
      BY <1>1, <2>1 DEF Alternates
  <1> QED
    BY <1>2, <1>3, <1>4

(* What a conversation was said to hold grows by an accepted statement. *)
LEMMA RecordedGrows ==
  ASSUME TypeInv, NEW k \in Keys, NEW m \in Statements, Recorded(k),
         m.key = k, m.ts = now, m \notin accepted,
         said'[k] = Append(said[k], m), accepted' = accepted \union {m}, UNCHANGED now
  PROVE  Recorded(k)'
  <1> DEFINE t == said[k]
             n == Len(t)
  <1>1. t \in Seq(Messages) /\ accepted \subseteq Statements /\ now \in Nat
    BY DEF TypeInv, TypeOK
  <1>2. n \in Nat /\ \A x \in Statements : x.ts \in Nat
    BY <1>1, LenProperties DEF Statements
  <1>3. /\ Len(said'[k]) = n + 1
        /\ said'[k][n + 1] = m
        /\ \A i \in 1..n : said'[k][i] = t[i]
    BY <1>1, AppendProperties
  <1>4. /\ \A i \in 1..n : t[i] \in accepted /\ t[i].key = k /\ t[i].ts <= now
        /\ \A x \in accepted : x.key = k => \E i \in 1..n : t[i] = x
        /\ \A i, j \in 1..n : i < j => t[i] # t[j] /\ t[i].ts <= t[j].ts
    BY DEF Recorded
  <1> HIDE DEF t, n
  <1>5. \A i \in 1..n + 1 : i \in 1..n \/ i = n + 1
    BY <1>2
  <1>6. \A i \in 1..n + 1 : said'[k][i] \in accepted' /\ said'[k][i].key = k
    BY <1>3, <1>4, <1>5
  <1>7. \A i \in 1..n + 1 : said'[k][i].ts <= now'
    <2>1. now' = now /\ m.ts <= now
      BY <1>1
    <2> QED
      BY <1>3, <1>4, <1>5, <2>1
  <1>8. \A x \in accepted' : x.key = k => \E i \in 1..n + 1 : said'[k][i] = x
    <2> SUFFICES ASSUME NEW x \in accepted', x.key = k PROVE \E i \in 1..n + 1 : said'[k][i] = x
      OBVIOUS
    <2>1. CASE x = m
      BY <1>2, <1>3, <2>1
    <2>2. CASE x \in accepted
      <3>1. PICK i \in 1..n : t[i] = x
        BY <1>4, <2>2
      <3>2. i \in 1..n + 1
        BY <1>2
      <3> QED
        BY <1>3, <3>1, <3>2
    <2> QED
      BY <2>1, <2>2
  <1>9. ASSUME NEW i \in 1..n + 1, NEW j \in 1..n + 1, i < j
        PROVE  said'[k][i] # said'[k][j] /\ said'[k][i].ts <= said'[k][j].ts
    <2>1. i \in 1..n
      BY <1>2, <1>9
    <2>2. CASE j \in 1..n
      BY <1>3, <1>4, <1>9, <2>1, <2>2
    <2>3. CASE j = n + 1
      <3>1. t[i] # m /\ t[i].ts <= m.ts
        BY <1>4, <2>1
      <3> QED
        BY <1>3, <2>1, <2>3, <3>1
    <2> QED
      BY <1>5, <2>2, <2>3
  <1> QED
    BY <1>3, <1>6, <1>7, <1>8, <1>9 DEF Recorded


(* A message is added to a conversation that is in order. *)
LEMMA AddMessageSaid ==
  ASSUME TypeInv, ListInv, SaidInv, MemoryInv, RolesInv, NEW r \in Requests, pc[r] \in InChat,
         NEW old \in Seq(Own(key[r])), NEW role \in {"user", "ai"},
         NEW next \in {"asked", "answering", "done"},
         AddMessage(r, old, role, next),
         role = "user" <=> next \in {"asked", "answering"},
         key[r] \notin Doubtful => IsTalk(old, said[key[r]]),
         key[r] \notin Broken => /\ role = "user" <=> Len(said[key[r]]) % 2 = 0
                                 /\ \A i \in 1..Len(old) : old[i].role # "prompt"
  PROVE  SaidInv' /\ MemoryInv' /\ RolesInv'
  <1>0. PICK k : k = key[r]
    OBVIOUS
  <1>k. PICK m : m = Statement(k, role, r)
    OBVIOUS
  <1>1. k \notin disturbed => Recorded(k) /\ Chatting(k) = {r}
    BY <1>0, InTheChat
  <1>2. k \in Keys /\ unread = {} /\ UNCHANGED <<unread, now, tied, missing>>
    BY <1>0, InTheChat DEF AddMessage
  <1>3. m \in Statements /\ m \in Own(k) /\ m.role = role /\ m.key = k /\ m.ts = now
    BY <1>0, <1>k, <1>2, StatementType DEF Statement
  <1>4. disturbed \subseteq disturbed' /\ Doubtful \subseteq Doubtful' /\ Broken \subseteq Broken'
    BY <1>2 DEF AddMessage, Doubtful, Broken
  <1>5. /\ messages'[k] = Append(old, m)
        /\ said'[k] = Append(said[k], m)
        /\ \A j \in Keys \ {k} : messages'[j] = messages[j] /\ said'[j] = said[j]
    BY <1>0, <1>k, <1>2 DEF AddMessage, TypeInv, TypeOK
  <1>6. /\ accepted' = accepted \union {m} \/ accepted' = accepted
        /\ k \notin disturbed' =>
              /\ m \notin accepted /\ accepted' = accepted \union {m}
              /\ Proceed(r, next)
    BY <1>0, <1>k DEF AddMessage, Log!Accept, logVars
  <1>7. Proceed(r, next) \/ Leave(r)
    BY DEF AddMessage
  <1>8. /\ \A s \in Requests \ {r} : pc'[s] = pc[s] /\ key'[s] = key[s]
        /\ key'[r] \in {k, None}
        /\ pc'[r] \in {"asked", "answering", "done"}
    BY <1>0, <1>7 DEF Proceed, Leave, Goto, TypeInv, TypeOK
  <1>9. k \notin disturbed' => pc'[r] = next /\ (next # "done" => key'[r] = k)
    BY <1>0, <1>6 DEF Proceed, Leave, Goto, TypeInv, TypeOK
  <1>10. k \notin disturbed' => Chatting(k) = {r} /\ Recorded(k)
    BY <1>1, <1>4
  <1>11. ASSUME NEW j \in Keys, j # k
         PROVE  /\ j \notin disturbed' => Alone(j)' /\ Recorded(j)'
                /\ j \notin Doubtful' => Remembered(j)'
                /\ j \notin Broken' => Alternates(j)'
    <2>1. \A x \in accepted' : x \in accepted \/ x.key # j
      BY <1>3, <1>6, <1>11
    <2>2. accepted \subseteq accepted'
      BY <1>6
    <2>3. key'[r] # j
      BY <1>8, <1>11, PipelineAssumption
    <2>4. messages'[j] = messages[j] /\ said'[j] = said[j]
      BY <1>5, <1>11
    <2>5. j # key[r]
      BY <1>0, <1>11
    <2> QED
      BY <1>2, <1>4, <1>8, <1>11, <2>1, <2>2, <2>3, <2>4, <2>5, OthersSaid
  <1>12. k \notin disturbed' => Chatting(k)' \subseteq {r}
    BY <1>8, <1>10 DEF Chatting
  <1>13. k \notin disturbed' => Alone(k)'
    BY <1>12 DEF Alone
  <1>14. k \notin disturbed' => Recorded(k)'
    BY <1>2, <1>3, <1>5, <1>6, <1>10, RecordedGrows
  <1>15. said[k] \in Seq(Messages) /\ old \in Seq(Messages) /\ m \in Messages
    BY <1>0, <1>2, <1>3, SeqSubset DEF TypeInv, TypeOK, Own
  <1>16. ASSUME k \notin Doubtful' PROVE Remembered(k)'
    <2>1. IsTalk(old, said[k])
      BY <1>0, <1>4, <1>16
    <2>2. IsTalk(Append(old, m), Append(said[k], m))
      BY <1>3, <1>15, <2>1, TalkSaid
    <2>3. \A s \in Chatting(k)' : pc'[s] # "prompted"
      BY <1>8, <1>12, <1>16 DEF Doubtful
    <2> QED
      BY <1>5, <2>2, <2>3 DEF Remembered
  <1>17. ASSUME k \notin Broken' PROVE Alternates(k)'
    <2> DEFINE t == said[k]
               n == Len(t)
               o == Len(old)
    <2>1. k \notin Broken /\ k \notin disturbed'
      BY <1>4, <1>17 DEF Broken
    <2>2. /\ n \in Nat /\ o \in Nat
          /\ Len(said'[k]) = n + 1
          /\ said'[k][n + 1] = m
          /\ \A i \in 1..n : said'[k][i] = t[i]
          /\ Len(messages'[k]) = o + 1
          /\ messages'[k][o + 1] = m
          /\ \A i \in 1..o : messages'[k][i] = old[i]
      BY <1>5, <1>15, LenProperties, AppendProperties
    <2>3. /\ \A i \in 1..n : t[i].role = "user" <=> i % 2 = 1
          /\ role = "user" <=> n % 2 = 0
          /\ \A i \in 1..o : old[i].role # "prompt"
      BY <1>0, <2>1, InTheChat
    <2>4. (\E s \in Chatting(k)' : pc'[s] \in {"asked", "answering"}) <=> role = "user"
      <3>1. next # "done" => r \in Chatting(k)'
        BY <1>9, <2>1 DEF Chatting, InChat
      <3> QED
        BY <1>9, <1>12, <2>1, <3>1
    <2> HIDE DEF t, n, o
    <2>5. (n + 1) % 2 = 1 <=> n % 2 = 0
      BY <2>2
    <2>6. \A i \in 1..n + 1 : said'[k][i].role = "user" <=> i % 2 = 1
      <3> TAKE i \in 1..n + 1
      <3>1. CASE i = n + 1
        BY <1>3, <2>2, <2>3, <2>5, <3>1
      <3>2. CASE i \in 1..n
        BY <2>2, <2>3, <3>2
      <3> QED
        BY <2>2, <3>1, <3>2
    <2>7. \A i \in 1..o + 1 : messages'[k][i].role # "prompt"
      <3> TAKE i \in 1..o + 1
      <3>1. CASE i = o + 1
        BY <1>3, <2>2, <3>1
      <3>2. CASE i \in 1..o
        BY <2>2, <2>3, <3>2
      <3> QED
        BY <2>2, <3>1, <3>2
    <2>8. Len(said'[k]) % 2 = 1 <=> \E s \in Chatting(k)' : pc'[s] \in {"asked", "answering"}
      BY <2>2, <2>3, <2>4, <2>5
    <2> QED
      BY <2>2, <2>6, <2>7, <2>8 DEF Alternates
  <1>18. Serving'
    BY <1>2 DEF Serving
  <1>19. SaidInv'
    BY <1>11, <1>13, <1>14 DEF SaidInv
  <1>20. MemoryInv'
    BY <1>11, <1>16, <1>18 DEF MemoryInv
  <1>21. RolesInv'
    BY <1>11, <1>17 DEF RolesInv
  <1> QED
    BY <1>19, <1>20, <1>21

LEMMA TalkSteps ==
  ASSUME TypeInv, ListInv, SaidInv, MemoryInv, RolesInv, NEW r \in Requests,
         Ask(r) \/ Answer(r) \/ PopPrompt(r) \/ AddAnswer(r)
  PROVE  SaidInv' /\ MemoryInv' /\ RolesInv'
  <1> DEFINE k == key[r]
  <1>1. pc[r] \in InChat
    BY DEF Ask, Answer, PopPrompt, AddAnswer, InChat
  <1>2. messages[k] \in Seq(Own(k)) /\ said[k] \in Seq(Messages) /\ Len(said[k]) \in Nat
    BY <1>1, InTheChat, LenProperties DEF TypeInv, TypeOK
  <1>3. /\ k \notin Doubtful => IsTalk(messages[k], said[k])
        /\ k \notin Broken =>
              /\ Len(said[k]) % 2 = 1 <=> pc[r] \in {"asked", "answering"}
              /\ pc[r] # "prompted" => \A i \in 1..Len(messages[k]) : messages[k][i].role # "prompt"
    BY <1>1, InTheChat
  <1>4. Len(said[k]) % 2 = 0 <=> ~(Len(said[k]) % 2 = 1)
    <2>1. Len(said[k]) \in Nat
      BY <1>2
    <2>2. \A n \in Nat : n % 2 = 0 <=> ~(n % 2 = 1)
      OBVIOUS
    <2> QED
      BY <2>1, <2>2, Zenon
  <1>5. CASE Ask(r)
    BY <1>1, <1>2, <1>3, <1>4, <1>5, AddMessageSaid DEF Ask
  <1>6. CASE Answer(r)
    BY <1>1, <1>2, <1>3, <1>4, <1>6, AddMessageSaid DEF Answer
  <1>7. CASE AddAnswer(r)
    BY <1>1, <1>2, <1>3, <1>4, <1>7, AddMessageSaid DEF AddAnswer
  <1>8. CASE PopPrompt(r)
    <2>1. pc[r] = "prompted" /\ AddMessage(r, AllButLast(messages[k]), "user", "answering")
      BY <1>8 DEF PopPrompt
    <2>2. AllButLast(messages[k]) \in Seq(Own(k))
      BY <1>2, AllButLastType
    <2>3. k \notin Doubtful => IsTalk(AllButLast(messages[k]), said[k])
      <3>1. k \notin Doubtful =>
               messages[k] # <<>> /\ messages[k][Len(messages[k])].role = "prompt"
        BY <1>1, <2>1, InTheChat DEF EndsWithPrompt
      <3>2. k \notin Doubtful => IsTalk(messages[k], said[k])
        BY <1>3
      <3> QED
        BY <1>2, <3>1, <3>2, TalkPopped
    <2>4. k \notin Broken => \A i \in 1..Len(AllButLast(messages[k])) :
                                AllButLast(messages[k])[i].role # "prompt"
      <3>1. CASE messages[k] = <<>>
        BY <3>1 DEF AllButLast
      <3>2. CASE messages[k] # <<>>
        <4>1. Len(messages[k]) \in Nat /\ Len(messages[k]) # 0
          BY <1>2, <3>2, LenProperties, EmptySeq
        <4>2. /\ Len(AllButLast(messages[k])) = Len(messages[k]) - 1
              /\ \A i \in 1..Len(messages[k]) - 1 : AllButLast(messages[k])[i] = messages[k][i]
          BY <1>2, <3>2, <4>1, SubSeqProperties DEF AllButLast
        <4>3. k \notin Broken => \A i \in 1..Len(messages[k]) :
                 messages[k][i].role = "prompt" => i = Len(messages[k])
          BY <1>1, InTheChat
        <4> QED
          BY <4>1, <4>2, <4>3
      <3> QED
        BY <3>1, <3>2
    <2> QED
      BY <1>1, <1>3, <1>4, <2>1, <2>2, <2>3, <2>4, AddMessageSaid
  <1> QED
    BY <1>5, <1>6, <1>7, <1>8

LEMMA PushPromptSaid ==
  ASSUME TypeInv, ListInv, SaidInv, MemoryInv, RolesInv, NEW r \in Requests, PushPrompt(r)
  PROVE  SaidInv' /\ MemoryInv' /\ RolesInv'
  <1>0. PICK k : k = key[r]
    OBVIOUS
  <1>k. PICK m : m = Statement(k, "prompt", r)
    OBVIOUS
  <1>n. PICK n : n = Len(messages[k])
    OBVIOUS
  <1>1. pc[r] = "ready" /\ pc[r] \in InChat
    BY DEF PushPrompt, InChat
  <1>2. k \in Keys /\ unread = {} /\ r \in Chatting(k)
    BY <1>0, <1>1, InTheChat
  <1>3. UNCHANGED <<key, unread, said, accepted, now, tied, missing, disturbed, cut>>
    BY DEF PushPrompt, logVars, world, history, excuses
  <1>4. Doubtful' = Doubtful /\ Broken' = Broken
    BY <1>3 DEF Doubtful, Broken
  <1>5. pc'[r] = "prompted" /\ \A s \in Requests \ {r} : pc'[s] = pc[s]
    BY DEF PushPrompt, Goto, TypeInv, TypeOK
  <1>6. messages'[k] = Append(messages[k], m) /\ \A j \in Keys \ {k} : messages'[j] = messages[j]
    BY <1>0, <1>k, <1>2 DEF PushPrompt, TypeInv, TypeOK
  <1>7. /\ m \in Messages /\ m.role = "prompt"
        /\ messages[k] \in Seq(Messages) /\ n \in Nat
    BY <1>k, <1>n, <1>2, LenProperties DEF Statement, Messages, TypeInv, TypeOK
  <1>8. /\ Len(messages'[k]) = n + 1 /\ messages'[k][n + 1] = m
        /\ \A i \in 1..n : messages'[k][i] = messages[k][i]
        /\ messages'[k] # <<>>
    BY <1>n, <1>6, <1>7, AppendProperties
  <1>9. \A j \in Keys : Chatting(j)' = Chatting(j)
    BY <1>1, <1>3, <1>5 DEF Chatting, InChat
  <1>10. ASSUME NEW j \in Keys, j # k
         PROVE  /\ j \notin disturbed' => Alone(j)' /\ Recorded(j)'
                /\ j \notin Doubtful' => Remembered(j)'
                /\ j \notin Broken' => Alternates(j)'
    <2>1. messages'[j] = messages[j] /\ said'[j] = said[j] /\ key'[r] # j
      BY <1>0, <1>3, <1>6, <1>10
    <2>2. \A s \in Requests \ {r} : pc'[s] = pc[s] /\ key'[s] = key[s]
      BY <1>3, <1>5
    <2>3. accepted \subseteq accepted' /\ \A x \in accepted' : x \in accepted \/ x.key # j
      BY <1>3
    <2>4. UNCHANGED <<unread, now>> /\ disturbed \subseteq disturbed'
          /\ Doubtful \subseteq Doubtful' /\ Broken \subseteq Broken'
      BY <1>3, <1>4
    <2> QED
      BY <1>0, <1>2, <1>10, <2>1, <2>2, <2>3, <2>4, OthersSaid
  <1>11. k \notin disturbed' => Alone(k)' /\ Recorded(k)'
    <2>1. k \notin disturbed => Alone(k) /\ Recorded(k)
      BY <1>2 DEF SaidInv
    <2>2. Recorded(k) => Recorded(k)'
      BY <1>3 DEF Recorded
    <2>3. Alone(k) => Alone(k)'
      BY <1>2, <1>9 DEF Alone
    <2> QED
      BY <1>3, <2>1, <2>2, <2>3
  <1>12. ASSUME k \notin Doubtful' PROVE Remembered(k)'
    <2>1. IsTalk(messages[k], said[k])
      BY <1>0, <1>1, <1>4, <1>12, InTheChat
    <2>2. IsTalk(messages'[k], said'[k])
      BY <1>3, <1>6, <1>7, <2>1, TalkPrompted
    <2>3. EndsWithPrompt(k)'
      BY <1>7, <1>8 DEF EndsWithPrompt
    <2> QED
      BY <1>3, <2>2, <2>3 DEF Remembered
  <1>13. ASSUME k \notin Broken' PROVE Alternates(k)'
    <2>1. /\ \A i \in 1..Len(said[k]) : said[k][i].role = "user" <=> i % 2 = 1
          /\ ~(Len(said[k]) % 2 = 1)
          /\ \A i \in 1..n : messages[k][i].role # "prompt"
      BY <1>0, <1>n, <1>1, <1>4, <1>13, InTheChat
    <2>2. Chatting(k)' = {r}
      BY <1>0, <1>1, <1>2, <1>4, <1>9, <1>13, InTheChat DEF Broken
    <2>3. \A i \in 1..n + 1 : messages'[k][i].role = "prompt" => i = n + 1
      BY <1>7, <1>8, <2>1
    <2>4. ~(\E s \in Chatting(k)' : pc'[s] \in {"asked", "answering"})
      BY <1>5, <2>2
    <2>5. \E s \in Chatting(k)' : pc'[s] = "prompted"
      BY <1>5, <2>2
    <2> QED
      BY <1>3, <1>8, <2>1, <2>3, <2>4, <2>5 DEF Alternates
  <1>14. Serving'
    BY <1>2, <1>3 DEF Serving
  <1>15. SaidInv'
    BY <1>10, <1>11 DEF SaidInv
  <1>16. MemoryInv'
    BY <1>10, <1>12, <1>14 DEF MemoryInv
  <1>17. RolesInv'
    BY <1>10, <1>13 DEF RolesInv
  <1> QED
    BY <1>15, <1>16, <1>17


-----------------------------------------------------------------------------
(* Memory that is read back to the end is what was said. *)
LEMMA ReadToTheEnd ==
  TypeInv /\ unread = {} =>
     \A j \in Keys : Recorded(j) /\ Restored(j) => IsTalk(messages[j], said[j])
  <1> SUFFICES ASSUME TypeInv, NEW k \in Keys, Recorded(k), Restored(k), unread = {}
               PROVE  IsTalk(messages[k], said[k])
    OBVIOUS
  <1>1. /\ messages[k] \in Seq(Messages) /\ said[k] \in Seq(Messages)
        /\ Len(messages[k]) \in Nat /\ Len(said[k]) \in Nat
    BY LenProperties DEF TypeInv, TypeOK
  <1>2. Len(messages[k]) = Len(said[k])
    <2>1. ~(Len(messages[k]) < Len(said[k]))
      BY <1>1 DEF Restored
    <2>2. Len(messages[k]) <= Len(said[k])
      BY DEF Restored
    <2> QED
      BY <1>1, <2>1, <2>2
  <1>3. \A i \in 1..Len(messages[k]) : messages[k][i] = said[k][i]
    BY DEF Restored
  <1>4. \A i \in 1..Len(messages[k]) : messages[k][i].role # "prompt"
    <2>1. \A i \in 1..Len(said[k]) : said[k][i] \in accepted
      BY DEF Recorded
    <2>2. accepted \subseteq Statements /\ \A m \in Statements : m.role # "prompt"
      BY DEF TypeInv, TypeOK, Statements
    <2> QED
      BY <1>2, <1>3, <2>1, <2>2
  <1> QED
    BY <1>1, <1>2, <1>3, <1>4, TalkWhole

(* A process has just begun to read, or has read a row: nobody chats.      *)
Reading ==
    /\ TypeInv
    /\ SaidInv
    /\ \A r \in Requests : pc[r] \notin InChat \union {"listing"}
    /\ \A k \in Keys \ Doubtful : Restored(k)

LEMMA StillReading == Reading => MemoryInv
  <1> SUFFICES ASSUME Reading, NEW k \in Keys, k \notin Doubtful, Serving PROVE Remembered(k)
    BY DEF MemoryInv, Reading
  <1>1. Recorded(k) /\ Restored(k) /\ unread = {} /\ TypeInv
    BY DEF Reading, SaidInv, Doubtful, Serving
  <1>2. IsTalk(messages[k], said[k])
    BY <1>1, ReadToTheEnd
  <1>3. Chatting(k) = {}
    BY DEF Chatting, Reading
  <1> QED
    BY <1>2, <1>3 DEF Remembered

LEMMA StillReadingThen == (Reading => MemoryInv)'
  BY StillReading, PTL

LEMMA RestartSaid ==
  ASSUME TypeInv, TypeInv', SaidInv, MemoryInv, RolesInv, Restart \/ RestartUnread
  PROVE  SaidInv' /\ MemoryInv' /\ RolesInv'
  <1>1. /\ messages' = [k \in Keys |-> <<>>]
        /\ \A r \in Requests : pc'[r] \in {"idle", "done"}
        /\ UNCHANGED <<accepted, stored, doubled, said, now>>
        /\ cut' = cut \union {k \in Keys : Chatting(k) # {}}
        /\ disturbed' = disturbed \union {m.key : m \in doubled}
        /\ tied' = {k \in Keys : Tied(k)}
    BY DEF Restart, RestartUnread, NewProcess, logVars, world
  <1>2. \A k \in Keys : Chatting(k)' = {}
    BY <1>1 DEF Chatting, InChat
  <1>3. SaidInv'
    <2> SUFFICES ASSUME NEW k \in Keys, k \notin disturbed' PROVE Alone(k)' /\ Recorded(k)'
      BY DEF SaidInv
    <2>1. Recorded(k)
      BY <1>1 DEF SaidInv
    <2> QED
      BY <1>1, <1>2, <2>1 DEF Recorded, Alone
  <1>4. ASSUME RestartUnread PROVE MemoryInv'
    <2>1. \A k \in Keys : k \in Doubtful'
      BY <1>4 DEF RestartUnread, Doubtful
    <2> SUFFICES ASSUME NEW k \in Keys, k \notin Doubtful' PROVE FALSE
      BY DEF MemoryInv
    <2> QED
      BY <2>1
  <1>5. ASSUME Restart PROVE MemoryInv'
    <2>1. unread' = Rows /\ missing' = {m.key : m \in accepted \ stored}
      BY <1>5 DEF Restart
    <2>2. ASSUME NEW k \in Keys, k \notin Doubtful' PROVE Restored(k)'
      <3>1. k \notin disturbed' /\ k \notin tied' /\ k \notin missing'
        BY <2>2 DEF Doubtful
      <3>2. Recorded(k)
        BY <1>1, <3>1 DEF SaidInv
      <3>3. messages'[k] = <<>> /\ Len(messages'[k]) = 0
        BY <1>1
      <3>4. Len(said[k]) \in Nat
        BY LenProperties DEF TypeInv, TypeOK
      <3>5. \A m \in accepted : m.key = k => <<m, 1>> \in unread'
        BY <2>1, <3>1 DEF Rows
      <3>6. \A i \in 1..Len(said[k]) : <<said[k][i], 1>> \in unread'
        BY <3>2, <3>5 DEF Recorded
      <3>7. ASSUME NEW row \in unread', row[1].key = k
            PROVE  \E i \in 1..Len(said[k]) : row = <<said[k][i], 1>>
        <4>1. \A m \in doubled : m.key # k
          BY <1>1, <3>1
        <4>2. PICK m \in stored : row = <<m, 1>>
          BY <2>1, <3>7, <4>1 DEF Rows
        <4>3. m \in accepted /\ m.key = k
          BY <3>7, <4>2 DEF TypeInv, TypeOK
        <4>4. PICK i \in 1..Len(said[k]) : said[k][i] = m
          BY <3>2, <4>3 DEF Recorded
        <4> QED
          BY <4>2, <4>4
      <3>8. ~Tied(k)'
        BY <1>1, <3>1 DEF Tied
      <3> QED
        <4>1. said'[k] = said[k] /\ \A j \in 1..0 : messages'[k][j] = said'[k][j]
          BY <1>1
        <4>2. Len(messages'[k]) <= Len(said'[k]) /\ Len(messages'[k]) + 1 = 1
          BY <3>3, <3>4, <4>1
        <4> QED
          BY <3>3, <3>6, <3>7, <3>8, <4>1, <4>2 DEF Restored
    <2>3. \A r \in Requests : pc'[r] \notin InChat \union {"listing"}
      BY <1>1 DEF InChat
    <2>4. \A k \in Keys \ Doubtful' : Restored(k)'
      BY <2>2
    <2> QED
      BY <1>3, <2>3, <2>4, StillReadingThen DEF Reading
  <1>6. RolesInv'
    <2> SUFFICES ASSUME NEW k \in Keys, k \notin Broken' PROVE Alternates(k)'
      BY DEF RolesInv
    <2>1. k \notin Broken /\ Chatting(k) = {}
      BY <1>1 DEF Broken
    <2>2. Alternates(k)
      BY <2>1 DEF RolesInv
    <2>3. \A i \in 1..Len(messages'[k]) : FALSE
      BY <1>1
    <2>4. said'[k] = said[k] /\ Chatting(k)' = {}
      BY <1>1, <1>2
    <2> QED
      BY <2>1, <2>2, <2>3, <2>4 DEF Alternates
  <1> QED
    BY <1>3, <1>4, <1>5, <1>6

(* The row that is read is the one that comes next in its conversation.    *)
LEMMA NextRowIsNext ==
  ASSUME TypeInv, NEW k \in Keys, Recorded(k), Restored(k),
         NEW row \in unread, NextRow(row), row[1].key = k
  PROVE  /\ Len(messages[k]) + 1 \in 1..Len(said[k])
         /\ row = <<said[k][Len(messages[k]) + 1], 1>>
  <1> DEFINE n == Len(messages[k])
             t == said[k]
  <1>1. n \in Nat /\ Len(t) \in Nat
    BY LenProperties DEF TypeInv, TypeOK
  <1>2. PICK j \in n + 1..Len(t) : row = <<t[j], 1>>
    BY DEF Restored
  <1>3. n + 1 \in 1..Len(t) /\ j \in 1..Len(t) /\ n + 1 <= j
    BY <1>1
  <1>4. <<t[n + 1], 1>> \in unread
    BY <1>1, <1>3 DEF Restored
  <1>5. t[j].ts <= t[n + 1].ts
    BY <1>2, <1>4 DEF NextRow
  <1>6. n + 1 < j => t[n + 1] # t[j] /\ t[n + 1].ts <= t[j].ts
    BY <1>3 DEF Recorded
  <1>7. /\ t[j] \in stored /\ t[n + 1] \in stored
        /\ t[j].key = k /\ t[n + 1].key = k
        /\ t[j].ts \in Nat /\ t[n + 1].ts \in Nat
    <2>1. t[j] \in stored /\ t[n + 1] \in stored
      BY <1>2, <1>4, RowType
    <2>2. t[j].key = k /\ t[n + 1].key = k
      BY <1>3 DEF Recorded
    <2>3. stored \subseteq Statements /\ \A m \in Statements : m.ts \in Nat
      BY DEF TypeInv, TypeOK, Statements
    <2> QED
      BY <2>1, <2>2, <2>3
  <1>8. ~(n + 1 < j)
    <2> SUFFICES ASSUME n + 1 < j PROVE FALSE
      OBVIOUS
    <2>1. t[j].ts = t[n + 1].ts /\ t[n + 1] # t[j]
      BY <1>5, <1>6, <1>7
    <2>2. Tied(k)
      BY <1>7, <2>1 DEF Tied
    <2> QED
      BY <2>2 DEF Restored
  <1> QED
    BY <1>1, <1>2, <1>3, <1>8

LEMMA ReadRowSaid ==
  ASSUME TypeInv, TypeInv', ListInv, SaidInv, MemoryInv, RolesInv,
         NEW row \in unread, ReadRow(row)
  PROVE  SaidInv' /\ MemoryInv' /\ RolesInv'
  <1>1. /\ NextRow(row) /\ unread' = unread \ {row}
        /\ UNCHANGED <<pc, key, accepted, stored, now, said, cut, disturbed, tied, missing>>
        /\ messages' = [messages EXCEPT ![row[1].key] = Append(@, row[1])]
    BY DEF ReadRow, logVars, world, history, excuses
  <1>2. /\ \A r \in Requests : pc[r] \in {"idle", "done"}
        /\ ~Serving
    BY DEF ListInv, Serving
  <1>3. PICK k \in Keys : k = row[1].key
    BY RowType
  <1>4. PICK m \in Statements : m = row[1]
    BY RowType
  <1>5. /\ messages'[k] = Append(messages[k], m)
        /\ \A j \in Keys \ {k} : messages'[j] = messages[j]
        /\ m \in Messages /\ m.role # "prompt" /\ messages[k] \in Seq(Messages)
    BY <1>1, <1>3, <1>4 DEF TypeInv, TypeOK, Statements, Messages
  <1>6. /\ Len(messages[k]) \in Nat /\ Len(messages'[k]) = Len(messages[k]) + 1
        /\ messages'[k][Len(messages[k]) + 1] = m
        /\ \A i \in 1..Len(messages[k]) : messages'[k][i] = messages[k][i]
    BY <1>5, AppendProperties, LenProperties
  <1>7. \A j \in Keys : Chatting(j)' = Chatting(j) /\ Chatting(j) = {}
    BY <1>1, <1>2 DEF Chatting, InChat
  <1>8. SaidInv'
    <2> SUFFICES ASSUME NEW j \in Keys, j \notin disturbed' PROVE Alone(j)' /\ Recorded(j)'
      BY DEF SaidInv
    <2>1. Recorded(j)
      BY <1>1 DEF SaidInv
    <2> QED
      BY <1>1, <1>7, <2>1 DEF Recorded, Alone
  <1>9. ASSUME NEW j \in Keys, j \notin Doubtful' PROVE Restored(j)'
    <2>1. Recorded(j) /\ Restored(j)
      BY <1>1, <1>2, <1>9 DEF SaidInv, MemoryInv, Doubtful
    <2>2. CASE j = k
      <3>1. /\ Len(messages[k]) + 1 \in 1..Len(said[k])
            /\ row = <<said[k][Len(messages[k]) + 1], 1>>
        BY <1>1, <1>3, <2>1, <2>2, NextRowIsNext
      <3> DEFINE n == Len(messages[k])
                 t == said[k]
      <3>2. n \in Nat /\ Len(t) \in Nat /\ n + 1 <= Len(t)
        BY <1>6, <3>1, LenProperties DEF TypeInv, TypeOK
      <3>3. /\ \A i \in 1..n : messages[k][i] = t[i]
            /\ \A i \in n + 1..Len(t) : <<t[i], 1>> \in unread
            /\ \A other \in unread : other[1].key = k =>
                  \E i \in n + 1..Len(t) : other = <<t[i], 1>>
            /\ ~Tied(k)
        BY <2>1, <2>2 DEF Restored
      <3>4. \A i, j_1 \in 1..Len(t) : i < j_1 => t[i] # t[j_1]
        BY <2>1, <2>2 DEF Recorded
      <3>5. m = t[n + 1]
        BY <1>4, <3>1
      <3> HIDE DEF n, t
      <3>6. \A i \in 1..n + 1 : messages'[k][i] = t[i]
        <4> TAKE i \in 1..n + 1
        <4>1. CASE i = n + 1
          BY <1>6, <3>5, <4>1 DEF n
        <4>2. CASE i \in 1..n
          BY <1>6, <3>3, <4>2 DEF n
        <4> QED
          BY <3>2, <4>1, <4>2
      <3>7. \A i \in n + 2..Len(t) : <<t[i], 1>> \in unread'
        <4> TAKE i \in n + 2..Len(t)
        <4>1. i \in n + 1..Len(t) /\ t[i] # t[n + 1]
          BY <3>2, <3>4
        <4>2. <<t[i], 1>> \in unread
          BY <3>3, <4>1
        <4>3. row = <<t[n + 1], 1>>
          BY <3>1 DEF n, t
        <4> QED
          BY <1>1, <4>1, <4>2, <4>3
      <3>8. ASSUME NEW other \in unread', other[1].key = k
            PROVE  \E i \in n + 2..Len(t) : other = <<t[i], 1>>
        <4>1. other \in unread /\ other # row
          BY <1>1
        <4>2. PICK i \in n + 1..Len(t) : other = <<t[i], 1>>
          BY <3>3, <3>8, <4>1
        <4>3. i # n + 1
          BY <3>1, <4>1, <4>2 DEF n, t
        <4>4. i \in n + 2..Len(t)
          BY <3>2, <4>3
        <4> QED
          BY <4>2, <4>4
      <3>9. ~Tied(k)'
        BY <1>1, <3>3 DEF Tied
      <3>10. Len(messages'[k]) = n + 1 /\ (n + 1) + 1 = n + 2 /\ said'[k] = t
        BY <1>1, <1>6, <3>2 DEF n, t
      <3>11. Restored(k)'
        BY <3>2, <3>6, <3>7, <3>8, <3>9, <3>10 DEF Restored
      <3> QED
        BY <2>2, <3>11
    <2>3. CASE j # k
      <3>1. messages'[j] = messages[j] /\ said'[j] = said[j]
        BY <1>1, <1>5, <2>3
      <3>2. \A i \in 1..Len(said[j]) : said[j][i].key = j
        BY <2>1 DEF Recorded
      <3>3. \A i \in Len(messages[j]) + 1..Len(said[j]) : i \in 1..Len(said[j])
        <4>1. Len(messages[j]) \in Nat /\ Len(said[j]) \in Nat
          BY LenProperties DEF TypeInv, TypeOK
        <4> QED
          BY <4>1
      <3>4. \A i \in Len(messages[j]) + 1..Len(said[j]) : <<said[j][i], 1>> \in unread'
        <4> TAKE i \in Len(messages[j]) + 1..Len(said[j])
        <4>1. <<said[j][i], 1>> \in unread
          BY <2>1 DEF Restored
        <4>2. said[j][i].key = j /\ row[1].key = k
          BY <1>3, <3>2, <3>3
        <4>3. <<said[j][i], 1>>[1] = said[j][i]
          OBVIOUS
        <4> QED
          BY <1>1, <2>3, <4>1, <4>2, <4>3
      <3>5. ~Tied(j)'
        BY <1>1, <2>1 DEF Restored, Tied
      <3> QED
        BY <1>1, <2>1, <3>1, <3>4, <3>5 DEF Restored
    <2> QED
      BY <2>2, <2>3
  <1>10. MemoryInv'
    <2>1. \A r \in Requests : pc'[r] \notin InChat \union {"listing"}
      BY <1>1, <1>2 DEF InChat
    <2>2. \A j \in Keys \ Doubtful' : Restored(j)'
      BY <1>9
    <2> QED
      BY <1>8, <2>1, <2>2, StillReadingThen DEF Reading
  <1>11. RolesInv'
    <2> SUFFICES ASSUME NEW j \in Keys, j \notin Broken' PROVE Alternates(j)'
      BY DEF RolesInv
    <2>1. Alternates(j)
      BY <1>1 DEF RolesInv, Broken
    <2>2. \A i \in 1..Len(messages[j]) : messages[j][i].role # "prompt"
      BY <1>7, <2>1 DEF Alternates
    <2>3. \A i \in 1..Len(messages'[j]) : messages'[j][i].role # "prompt"
      <3>1. CASE j = k
        <4>1. \A i \in 1..Len(messages[k]) + 1 : i \in 1..Len(messages[k]) \/ i = Len(messages[k]) + 1
          BY <1>6
        <4> QED
          BY <1>5, <1>6, <2>2, <3>1, <4>1
      <3>2. CASE j # k
        BY <1>5, <2>2, <3>2
      <3> QED
        BY <3>1, <3>2
    <2> QED
      BY <1>1, <1>7, <2>1, <2>3 DEF Alternates
  <1> QED
    BY <1>8, <1>10, <1>11

LEMMA SaidInit == Init => SaidInv /\ MemoryInv /\ RolesInv
  <1> SUFFICES ASSUME Init PROVE SaidInv /\ MemoryInv /\ RolesInv
    OBVIOUS
  <1>1. \A k \in Keys : /\ said[k] = <<>> /\ Len(said[k]) = 0
                        /\ messages[k] = <<>> /\ Len(messages[k]) = 0
                        /\ Chatting(k) = {}
    BY DEF Init, Chatting, InChat
  <1>2. accepted = {} /\ unread = {}
    BY DEF Init
  <1>3. SaidInv
    BY <1>1, <1>2 DEF SaidInv, Alone, Recorded
  <1>4. MemoryInv
    BY <1>1, <1>2, TalkEmpty DEF MemoryInv, Remembered, Serving
  <1>5. RolesInv
    <2> SUFFICES ASSUME NEW k \in Keys PROVE Alternates(k)
      BY DEF RolesInv
    <2>1. /\ \A i \in 1..Len(said[k]) : FALSE
          /\ \A i \in 1..Len(messages[k]) : FALSE
          /\ Len(said[k]) = 0
      BY <1>1
    <2>2. 0 % 2 # 1
      OBVIOUS
    <2> QED
      BY <1>1, <2>1, <2>2 DEF Alternates
  <1> QED
    BY <1>3, <1>4, <1>5

LEMMA SaidNext ==
  TypeInv /\ TypeInv' /\ ListInv /\ SaidInv /\ MemoryInv /\ RolesInv /\ [Next]_vars
     => SaidInv' /\ MemoryInv' /\ RolesInv'
  <1> SUFFICES ASSUME TypeInv, TypeInv', ListInv, SaidInv, MemoryInv, RolesInv, [Next]_vars
               PROVE  SaidInv' /\ MemoryInv' /\ RolesInv'
    OBVIOUS
  <1>1. ASSUME NEW r \in Requests, Request(r) PROVE SaidInv' /\ MemoryInv' /\ RolesInv'
    <2>1. ASSUME NEW k \in Keys, Find(r, k) \/ Emplace(r, k)
          PROVE  SaidInv' /\ MemoryInv' /\ RolesInv'
      BY <2>1, EnterSaid
    <2>2. CASE Ask(r) \/ Answer(r) \/ PopPrompt(r) \/ AddAnswer(r)
      BY <2>2, TalkSteps
    <2>3. CASE PushId(r) \/ CallThrows(r) \/ CreateThrows(r)
      BY <2>3, RequestSaid
    <2>4. CASE PushPrompt(r)
      BY <2>4, PushPromptSaid
    <2> QED
      BY <1>1, <2>1, <2>2, <2>3, <2>4 DEF Request
  <1>2. ASSUME NEW row \in unread, ReadRow(row) PROVE SaidInv' /\ MemoryInv' /\ RolesInv'
    BY <1>2, ReadRowSaid
  <1>3. CASE Restart \/ RestartUnread
    BY <1>3, RestartSaid
  <1>4. CASE \/ \E k \in Keys : History(k)
             \/ \E u \in Users : ListSessions(u)
             \/ \E m \in accepted : Store(m) \/ StoreAgain(m)
             \/ DeclareQueue
             \/ Tick
             \/ UNCHANGED vars
    BY <1>4, ElsewhereSaid
  <1> QED
    BY <1>1, <1>2, <1>3, <1>4 DEF Next

(* Over any number of restarts a conversation is what was said in it, in   *)
(* that order, outside the excuses the model records.                      *)
THEOREM RestoreFaithfulTheorem == Spec => []RestoreFaithful
  <1>1. ASSUME MemoryInv PROVE RestoreFaithful
    BY <1>1 DEF MemoryInv, RestoreFaithful, Doubtful, Remembered
  <1> QED
    BY <1>1, TypeInvInit, TypeInvNext, ListsInit, ListsNext, SaidInit, SaidNext, PTL DEF Spec

(* A conversation in which every chat ran to its end shows question and    *)
(* answer in turns, also after it was restored.                            *)
THEOREM ShownRolesTheorem == Spec => []ShownRoles
  <1>1. ASSUME TypeInv, MemoryInv, RolesInv PROVE ShownRoles
    <2> SUFFICES ASSUME NEW k \in Keys, k \notin cut \union disturbed \union tied \union missing,
                        Serving, Chatting(k) = {}, NEW i \in 1..Len(messages[k])
                 PROVE  messages[k][i].role = "user" <=> i % 2 = 1
      BY DEF ShownRoles
    <2>1. Remembered(k) /\ Alternates(k)
      BY <1>1 DEF MemoryInv, RolesInv, Doubtful, Broken
    <2>2. \A j \in 1..Len(messages[k]) : messages[k][j].role # "prompt"
      BY <2>1 DEF Alternates
    <2>3. messages[k] \in Seq(Messages) /\ said[k] \in Seq(Messages)
      BY <1>1 DEF TypeInv, TypeOK
    <2>4. Len(said[k]) = Len(messages[k]) /\ said[k][i] = messages[k][i]
      BY <2>1, <2>2, <2>3, TalkWhole DEF Remembered
    <2> QED
      BY <2>1, <2>4 DEF Alternates
  <1> QED
    BY <1>1, TypeInvInit, TypeInvNext, ListsInit, ListsNext, SaidInit, SaidNext, PTL DEF Spec

-----------------------------------------------------------------------------
(* The write path.  SqlLog takes a statement once; that chat() never hands *)
(* it one twice is what makes its guard no restriction of addMessage.      *)
FreshInv ==
    \A m \in accepted :
       /\ pc[m.req] \in {"asked", "answering", "done"}
       /\ m.role = "ai" => pc[m.req] = "done"

(* The log takes whatever a running chat is about to publish. *)
LogAccepts ==
    \A r \in Requests :
       /\ pc[r] \in {"ready", "prompted"} => Statement(key[r], "user", r) \notin accepted
       /\ pc[r] \in {"asked", "answering"} => Statement(key[r], "ai", r) \notin accepted

LEMMA PublishFresh ==
  ASSUME TypeInv, FreshInv, NEW r \in Requests, pc[r] \in InChat,
         NEW old, NEW role \in {"user", "ai"}, NEW next \in {"asked", "answering", "done"},
         role = "ai" <=> next = "done",
         pc[r] \in {"asked", "answering"} => next = "done",
         AddMessage(r, old, role, next)
  PROVE  /\ FreshInv'
         /\ UNCHANGED logVars \/ \E m \in Statements : Log!Accept(m)
  <1> DEFINE m == Statement(key[r], role, r)
  <1>1. /\ m \in Statements /\ m.req = r /\ m.role = role
        /\ \A n \in accepted : n.req \in Requests
    <2>1. key[r] \in Keys
      BY DEF TypeInv, TypeOK, InChat
    <2> QED
      BY <2>1, StatementType DEF Statement, Statements, TypeInv, TypeOK
  <1>2. /\ UNCHANGED logVars \/ Log!Accept(m)
        /\ UNCHANGED logVars \/ Proceed(r, next)
        /\ Proceed(r, next) \/ Leave(r)
    BY DEF AddMessage
  <1> HIDE DEF m
  <1>3. /\ pc'[r] \in {next, "done"}
        /\ Proceed(r, next) => pc'[r] = next
        /\ \A s \in Requests : s # r => pc'[s] = pc[s]
    BY <1>2 DEF Proceed, Leave, Goto, TypeInv, TypeOK
  <1>4. accepted' = accepted \/ (accepted' = accepted \union {m} /\ pc'[r] = next)
    BY <1>2, <1>3 DEF logVars, Log!Accept
  <1>5. ASSUME NEW n \in accepted
        PROVE  /\ pc'[n.req] \in {"asked", "answering", "done"}
               /\ n.role = "ai" => pc'[n.req] = "done"
    <2>1. /\ pc[n.req] \in {"asked", "answering", "done"}
          /\ n.role = "ai" => pc[n.req] = "done"
          /\ n.req \in Requests
      BY <1>1, <1>5 DEF FreshInv
    <2>2. CASE n.req # r
      BY <1>3, <2>1, <2>2
    <2>3. CASE n.req = r
      <3>1. pc[r] \in {"asked", "answering"}
        BY <2>1, <2>3 DEF InChat
      <3>2. pc'[r] = "done"
        BY <1>3, <3>1
      <3> QED
        BY <2>3, <3>2
    <2> QED
      BY <2>2, <2>3
  <1>6. FreshInv'
    BY <1>1, <1>4, <1>5 DEF FreshInv
  <1> QED
    BY <1>1, <1>2, <1>6

(* A step that publishes nothing, and takes no chat back to its question.  *)
LEMMA FreshKept ==
  ASSUME TypeInv, FreshInv, accepted' = accepted,
         \A r \in Requests : \/ pc'[r] \in {pc[r], "done"}
                             \/ pc[r] \in {"idle", "listing", "ready"}
  PROVE  FreshInv'
  <1>1. \A m \in accepted : m.req \in Requests
    BY DEF TypeInv, TypeOK, Statements
  <1> SUFFICES ASSUME NEW m \in accepted
               PROVE  /\ pc'[m.req] \in {"asked", "answering", "done"}
                      /\ m.role = "ai" => pc'[m.req] = "done"
    BY Zenon DEF FreshInv
  <1>2. pc[m.req] \in {"asked", "answering", "done"} /\ (m.role = "ai" => pc[m.req] = "done")
    BY DEF FreshInv
  <1>3. pc'[m.req] \in {pc[m.req], "done"}
    BY <1>1, <1>2
  <1> QED
    BY <1>2, <1>3

LEMMA FreshNext ==
  TypeInv /\ FreshInv /\ [Next]_vars => FreshInv' /\ [Log!Next]_(Log!logVars)
  <1> SUFFICES ASSUME TypeInv, FreshInv, [Next]_vars
               PROVE  FreshInv' /\ [Log!Next]_(Log!logVars)
    OBVIOUS
  <1>0. UNCHANGED logVars => UNCHANGED Log!logVars
    BY DEF logVars, Log!logVars
  <1>1. ASSUME NEW r \in Requests, Ask(r) \/ Answer(r) \/ PopPrompt(r) \/ AddAnswer(r)
        PROVE  FreshInv' /\ [Log!Next]_(Log!logVars)
    <2>1. FreshInv' /\ (UNCHANGED logVars \/ \E m \in Statements : Log!Accept(m))
      BY <1>1, PublishFresh DEF Ask, Answer, PopPrompt, AddAnswer, InChat
    <2> QED
      BY <1>0, <2>1 DEF Log!Next
  <1>2. ASSUME NEW r \in Requests, NEW k \in Keys, Find(r, k) \/ Emplace(r, k)
        PROVE  FreshInv' /\ UNCHANGED logVars
    <2>1. pc[r] = "idle" /\ UNCHANGED logVars /\ \A s \in Requests : s # r => pc'[s] = pc[s]
      BY <1>2 DEF Find, Emplace, Enter, Goto, TypeInv, TypeOK
    <2> QED
      BY <2>1, FreshKept DEF logVars
  <1>3. ASSUME NEW r \in Requests, PushId(r) \/ PushPrompt(r) \/ CallThrows(r) \/ CreateThrows(r)
        PROVE  FreshInv' /\ UNCHANGED logVars
    <2>1. /\ UNCHANGED logVars /\ \A s \in Requests : s # r => pc'[s] = pc[s]
          /\ pc[r] \in {"listing", "ready"} \/ pc'[r] = "done"
      BY <1>3 DEF PushId, PushPrompt, CallThrows, CreateThrows, Leave, Goto, TypeInv, TypeOK
    <2> QED
      BY <2>1, FreshKept DEF logVars
  <1>4. ASSUME NEW m \in accepted, Store(m) \/ StoreAgain(m)
        PROVE  FreshInv' /\ [Log!Next]_(Log!logVars)
    <2>1. Log!Store(m) /\ UNCHANGED <<accepted, pc>> /\ m \in Statements
      BY <1>4 DEF Store, StoreAgain, Log!Store, requestVars, TypeInv, TypeOK
    <2>2. FreshInv'
      BY <2>1 DEF FreshInv
    <2> QED
      BY <2>1, <2>2 DEF Log!Next
  <1>5. CASE Restart \/ RestartUnread
    <2>1. /\ UNCHANGED logVars
          /\ pc' = [r \in Requests |-> IF pc[r] = "idle" THEN "idle" ELSE "done"]
      BY <1>5 DEF Restart, RestartUnread, NewProcess
    <2> QED
      BY <1>0, <2>1, FreshKept DEF logVars
  <1>6. CASE \/ \E k \in Keys : History(k)
             \/ \E u \in Users : ListSessions(u)
             \/ \E row \in unread : ReadRow(row)
             \/ DeclareQueue
             \/ Tick
             \/ UNCHANGED vars
    <2>1. UNCHANGED <<logVars, pc>>
      BY <1>6 DEF History, ListSessions, ReadRow, DeclareQueue, Tick, requestVars, vars
    <2> QED
      BY <1>0, <2>1 DEF FreshInv, logVars
  <1> QED
    BY <1>0, <1>1, <1>2, <1>3, <1>4, <1>5, <1>6 DEF Next, Request

(* Over any restarts and failures the conversations keep to the log their  *)
(* write path implements: nothing they publish is refused, and what they   *)
(* do to it are steps of SqlLog.                                           *)
THEOREM PipelineKeepsToLog == Spec => Log!Spec /\ []LogAccepts
  <1>1. Init => FreshInv /\ Log!Init
    BY DEF Init, FreshInv, Log!Init
  <1>2. FreshInv => LogAccepts
    <2>1. \A r \in Requests : Statement(key[r], "user", r).req = r
      BY DEF Statement
    <2>2. \A r \in Requests : Statement(key[r], "ai", r).req = r
      BY DEF Statement
    <2>3. \A r \in Requests : Statement(key[r], "ai", r).role = "ai"
      BY DEF Statement
    <2> SUFFICES ASSUME FreshInv, NEW r \in Requests
                 PROVE  /\ pc[r] \in {"ready", "prompted"} =>
                              Statement(key[r], "user", r) \notin accepted
                        /\ pc[r] \in {"asked", "answering"} =>
                              Statement(key[r], "ai", r) \notin accepted
      BY DEF LogAccepts
    <2>4. ASSUME pc[r] \in {"ready", "prompted"} PROVE Statement(key[r], "user", r) \notin accepted
      BY <2>1, <2>4 DEF FreshInv
    <2>5. ASSUME pc[r] \in {"asked", "answering"} PROVE Statement(key[r], "ai", r) \notin accepted
      BY <2>2, <2>3, <2>5 DEF FreshInv
    <2> QED
      BY <2>4, <2>5
  <1> QED
    BY <1>1, <1>2, TypeInvInit, TypeInvNext, FreshNext, PTL DEF Spec, Log!Spec
=============================================================================
