--------------------------- MODULE Accounts_proof ---------------------------
(***************************************************************************)
(* Proofs about LoginSession and Registration.  For any browsers, users,   *)
(* ids and I/O threads: types, that a handler acts only for a user whose   *)
(* password its browser has given, that a session logged out alone stays   *)
(* out, and that a user marked online can be found logged in.  For any     *)
(* number of registrations, names and failing statements: types, that a    *)
(* conflict is reported only of a name that is taken, and, with a unique   *)
(* key on the name, that an account belongs to the request that is told    *)
(* its id, and to that request alone.                                      *)
(***************************************************************************)
EXTENDS LoginSession, Registration, FiniteSetTheorems, TLAPS

(* The points of a handler: before it has its session, and after. *)
Login  == {"login", "setUsername", "setLoggedIn", "checkOnline", "markOnline"}
Starts == {"idle", "getSession", "saveSession"}
Logout == {"logout", "eraseOnline"}
Pages  == {"page", "acting"}
Ends   == {"ok", "forbidden", "failed"}

(* The arrays of TypeOK and what it leaves out: where a thread is, what it *)
(* is asked, and that a running handler has a session of this server.      *)
TypeInv ==
    /\ TypeOK
    /\ pc \in [Handlers -> Starts \union Login \union Logout \union Pages \union Ends]
    /\ req \in [Handlers -> [browser : Browsers \union {None}, kind : Kinds \union {"none"},
                             user : Users \union {None}, cookie : generated \union {None}]]
    /\ \A h \in Handlers :
          /\ pc[h] # "idle" => req[h].browser \in Browsers /\ req[h].kind \in Kinds
          /\ pc[h] \in {"idle", "getSession"} => sid[h] = None
          /\ pc[h] \notin Starts => sid[h] # None
          /\ (pc[h] \in Starts \ {"idle"} /\ req[h].kind = "login") \/ pc[h] \in Login =>
                req[h].user \in Users

(* A server that starts has the types. *)
LEMMA TypeInvInit == Init => TypeInv
  <1> SUFFICES ASSUME Init PROVE TypeInv
    OBVIOUS
  <1>0. isLoggedIn \in [Ids -> BOOLEAN]
    <2>1. isLoggedIn = [i \in Ids |-> FALSE]
      BY DEF Init
    <2>2. \A i \in Ids : FALSE \in BOOLEAN
      OBVIOUS
    <2>3. [i \in Ids |-> FALSE] \in [Ids -> BOOLEAN]
      BY <2>2, SMT
    <2> QED
      BY <2>1, <2>3, Zenon
  <1>1. TypeOK
    <2>1. /\ sessions_ = {} /\ expired = {} /\ generated = {} /\ onlineUsers_ = {}
          /\ credentials = {} /\ gone = {} /\ requests = 0
      BY DEF Init
    <2>2. disturbed \in BOOLEAN
      BY Zenon DEF Init
    <2>3. /\ userId = [i \in Ids |-> None] /\ cookie = [b \in Browsers |-> None]
          /\ sid = [h \in Handlers |-> None]
      BY DEF Init
    <2> QED
      BY <1>0, <2>1, <2>2, <2>3, SessionAssumption DEF TypeOK
  <1>2. \A h \in Handlers : pc[h] = "idle" /\ sid[h] = None
    BY DEF Init
  <1>3. pc \in [Handlers -> Starts \union Login \union Logout \union Pages \union Ends]
    BY DEF Init, Starts
  <1>4. req \in [Handlers -> [browser : Browsers \union {None}, kind : Kinds \union {"none"},
                             user : Users \union {None}, cookie : generated \union {None}]]
    BY DEF Init, Idle
  <1> QED
    BY <1>1, <1>2, <1>3, <1>4 DEF TypeInv, Login, Starts

(* A write of the storage or of a session's data keeps the types, raced or *)
(* not.                                                                    *)
LEMMA StoreType ==
  ASSUME NEW h \in Handlers, NEW i, Store(h, i)
  PROVE  sessions_' \subseteq sessions_ \union {i}
  BY DEF Store, Storage, Written

(* So does a write of a session's data. *)
LEMMA DataType ==
  ASSUME NEW h \in Handlers, NEW d, NEW value, NEW e \in Data(h, d, value)
  PROVE  e = d \/ e = [d EXCEPT ![sid[h]] = value]
  BY DEF Data, Written

(* The same for the flags, whose values are Booleans.                      *)
LEMMA FlagType ==
  ASSUME NEW h \in Handlers, NEW value \in BOOLEAN, isLoggedIn \in [Ids -> BOOLEAN],
         isLoggedIn' \in Data(h, isLoggedIn, value)
  PROVE  isLoggedIn' \in [Ids -> BOOLEAN]
  <1>1. isLoggedIn' = isLoggedIn \/ isLoggedIn' = [isLoggedIn EXCEPT ![sid[h]] = value]
    BY DataType
  <1> QED
    BY <1>1, Zenon

(* Every step of a handler keeps the types, and so does an expiry. *)
LEMMA TypeInvNext == TypeInv /\ [Next]_vars => TypeInv'
  <1> SUFFICES ASSUME TypeInv, [Next]_vars PROVE TypeInv'
    OBVIOUS
  <1> USE SessionAssumption DEF TypeInv, TypeOK, Goto, sessionVars, history,
          Starts, Login, Logout, Pages, Ends, Kinds
  <1>1. ASSUME NEW h \in Handlers, NEW b \in Browsers, NEW u \in Users \union {None},
               NEW k \in Kinds, k = "login" => u \in Users, Receive(h, b, k, u)
        PROVE  TypeInv'
    BY <1>1 DEF Receive
  <1>2a. ASSUME NEW h \in Handlers, LoadSession(h) PROVE TypeInv'
    <2>1. sessions_' \subseteq sessions_
      BY <1>2a DEF LoadSession, Storage, Written
    <2>2. (IF Loadable(req[h].cookie) THEN req[h].cookie ELSE None) \in generated \union {None}
      BY DEF Loadable
    <2> QED
      BY <1>2a, <2>1, <2>2 DEF LoadSession
  <1>2. ASSUME NEW h \in Handlers, SaveSession(h) PROVE TypeInv'
    <2>1. PICK i \in Ids :
             /\ IF sid[h] \notin expired \union {None}
                THEN i = sid[h] /\ UNCHANGED generated
                ELSE i \notin generated /\ generated' = generated \union {i}
             /\ sid' = [sid EXCEPT ![h] = i]
             /\ Store(h, i)
             /\ expired' = expired \ {i}
      BY <1>2 DEF SaveSession
    <2>2. i \in generated' /\ generated \subseteq generated' /\ generated' \subseteq Ids
      BY <2>1
    <2>3. sessions_' \subseteq generated'
      BY <2>1, <2>2, StoreType
    <2> QED
      BY <1>2, <2>1, <2>2, <2>3 DEF SaveSession
  <1>3. ASSUME NEW h \in Handlers, SetUserId(h) PROVE TypeInv'
    BY <1>3, StoreType, DataType DEF SetUserId
  <1>3a. ASSUME NEW h \in Handlers, SetUsername(h) PROVE TypeInv'
    BY <1>3a, StoreType DEF SetUsername
  <1>4. ASSUME NEW h \in Handlers, SetLoggedIn(h) PROVE TypeInv'
    <2>1. isLoggedIn' \in [Ids -> BOOLEAN]
      BY <1>4, FlagType DEF SetLoggedIn
    <2>2. sessions_' \subseteq generated'
      BY <1>4, StoreType DEF SetLoggedIn
    <2> QED
      BY <1>4, <2>1, <2>2 DEF SetLoggedIn
  <1>5. ASSUME NEW h \in Handlers, CheckOnline(h) PROVE TypeInv'
    BY <1>5 DEF CheckOnline
  <1>6. ASSUME NEW h \in Handlers, MarkOnline(h) PROVE TypeInv'
    BY <1>6 DEF MarkOnline
  <1>7. ASSUME NEW h \in Handlers, NobodyToLogOut(h) PROVE TypeInv'
    BY <1>7 DEF NobodyToLogOut
  <1>8. ASSUME NEW h \in Handlers, DestroySession(h) PROVE TypeInv'
    <2>1. sid[h] \in generated /\ sessions_' \subseteq sessions_ /\ gone' \subseteq generated
      BY <1>8 DEF DestroySession, Storage, Written
    <2>2. userId' \in [Ids -> Users \union {None}]
      BY <1>8, DataType DEF DestroySession
    <2>3. isLoggedIn' \in [Ids -> BOOLEAN]
      BY <1>8, FlagType DEF DestroySession
    <2> QED
      BY <1>8, <2>1, <2>2, <2>3 DEF DestroySession
  <1>9. ASSUME NEW h \in Handlers, EraseOnline(h) \/ LogoutThrows(h) PROVE TypeInv'
    BY <1>9 DEF EraseOnline, LogoutThrows
  <1>10. ASSUME NEW h \in Handlers, Page(h) PROVE TypeInv'
    BY <1>10 DEF Page
  <1>10a. ASSUME NEW h \in Handlers, ActAsUser(h) PROVE TypeInv'
    BY <1>10a DEF ActAsUser
  <1>11. ASSUME NEW h \in Handlers, Respond(h) PROVE TypeInv'
    BY <1>11 DEF Respond, Idle
  <1>12. ASSUME NEW i \in Ids, Expire(i) PROVE TypeInv'
    BY <1>12 DEF Expire
  <1>13. CASE UNCHANGED vars
    BY <1>13 DEF vars
  <1> QED
    BY <1>1, <1>2a, <1>2, <1>3, <1>3a, <1>4, <1>5, <1>6, <1>7, <1>8, <1>9, <1>10, <1>10a, <1>11,
       <1>12, <1>13
       DEF Next, Handler

(* Every variable keeps its type, and a handler that has its session keeps *)
(* to its request, for any browsers, users, ids and I/O threads.           *)
THEOREM TypeCorrect == Spec => []TypeOK
  <1>1. TypeInv => TypeOK
    BY DEF TypeInv
  <1> QED
    BY TypeInvInit, TypeInvNext, <1>1, PTL DEF Spec

-----------------------------------------------------------------------------
(* A session logged out alone is out of the storage, and nobody who would  *)
(* put it back holds it.                                                   *)
Saves == {"saveSession", "login", "setUsername", "setLoggedIn", "logout"}

GoneInv ==
    /\ gone \intersect sessions_ = {}
    /\ \A h \in Handlers : pc[h] \in Saves => sid[h] \notin gone

(* Every step keeps logged-out sessions out: what is loaded is stored,     *)
(* what is saved is held, and neither is gone.                             *)
LEMMA GoneInvNext == TypeInv /\ GoneInv /\ [Next]_vars => GoneInv'
  <1> SUFFICES ASSUME TypeInv, GoneInv, [Next]_vars PROVE GoneInv'
    OBVIOUS
  <1> USE SessionAssumption DEF TypeInv, TypeOK, GoneInv, Saves, Goto, sessionVars, history
  <1>1. ASSUME NEW h \in Handlers, NEW b \in Browsers, NEW u, NEW k, Receive(h, b, k, u)
        PROVE  GoneInv'
    BY <1>1 DEF Receive
  <1>2a. ASSUME NEW h \in Handlers, LoadSession(h) PROVE GoneInv'
    <2>1. sessions_' \subseteq sessions_
      BY <1>2a DEF LoadSession, Storage, Written
    <2>2. (IF Loadable(req[h].cookie) THEN req[h].cookie ELSE None) \notin gone
      BY DEF Loadable
    <2> QED
      BY <1>2a, <2>1, <2>2 DEF LoadSession
  <1>2. ASSUME NEW h \in Handlers, SaveSession(h) PROVE GoneInv'
    <2>1. PICK i \in Ids :
             /\ IF sid[h] \notin expired \union {None}
                THEN i = sid[h] /\ UNCHANGED generated
                ELSE i \notin generated /\ generated' = generated \union {i}
             /\ sid' = [sid EXCEPT ![h] = i]
             /\ Store(h, i)
      BY <1>2 DEF SaveSession
    <2>2. i \notin gone
      BY <1>2, <2>1 DEF SaveSession
    <2>3. sessions_' \subseteq sessions_ \union {i}
      BY <2>1, StoreType
    <2> QED
      BY <1>2, <2>1, <2>2, <2>3 DEF SaveSession
  <1>3. ASSUME NEW h \in Handlers, SetUserId(h) \/ SetUsername(h) \/ SetLoggedIn(h)
        PROVE  GoneInv'
    <2>1. pc[h] \in Saves /\ Store(h, sid[h])
      BY <1>3 DEF SetUserId, SetUsername, SetLoggedIn
    <2>2. sessions_' \subseteq sessions_ \union {sid[h]}
      BY <2>1, StoreType
    <2>3. gone' = gone /\ sid' = sid /\ \E p \in Saves \union {"checkOnline"} :
             pc' = [pc EXCEPT ![h] = p]
      BY <1>3 DEF SetUserId, SetUsername, SetLoggedIn
    <2> QED
      BY <2>1, <2>2, <2>3
  <1>4. ASSUME NEW h \in Handlers, DestroySession(h) PROVE GoneInv'
    <2>1. sessions_' \in {sessions_ \ {sid[h]}, sessions_}
      BY <1>4 DEF DestroySession, Storage, Written
    <2>2. CASE Busy = {h}
      <3>1. StorageWriters \ {h} = {}
        BY <2>2 DEF StorageWriters, Busy
      <3>2. sessions_' = sessions_ \ {sid[h]}
        BY <1>4, <3>1 DEF DestroySession, Storage, Written
      <3>3. \A g \in Handlers : pc'[g] \notin Saves
        BY <1>4, <2>2 DEF DestroySession, Busy
      <3> QED
        BY <1>4, <3>2, <3>3 DEF DestroySession
    <2>3. CASE Busy # {h}
      <3>1. gone' = gone /\ sid' = sid /\ pc' = [pc EXCEPT ![h] = "eraseOnline"]
        BY <1>4, <2>3 DEF DestroySession
      <3> QED
        BY <2>1, <3>1
    <2> QED
      BY <2>2, <2>3
  <1>5. ASSUME NEW h \in Handlers,
               \/ CheckOnline(h) \/ MarkOnline(h) \/ NobodyToLogOut(h) \/ EraseOnline(h)
               \/ LogoutThrows(h) \/ Page(h) \/ ActAsUser(h)
        PROVE  GoneInv'
    BY <1>5 DEF CheckOnline, MarkOnline, NobodyToLogOut, EraseOnline, LogoutThrows, Page,
                ActAsUser
  <1>6. ASSUME NEW h \in Handlers, Respond(h) PROVE GoneInv'
    BY <1>6 DEF Respond
  <1>7. ASSUME NEW i \in Ids, Expire(i) PROVE GoneInv'
    BY <1>7 DEF Expire
  <1>8. CASE UNCHANGED vars
    BY <1>8 DEF vars
  <1> QED
    BY <1>1, <1>2a, <1>2, <1>3, <1>4, <1>5, <1>6, <1>7, <1>8 DEF Next, Handler

(* A session that was logged out while no other request was under way      *)
(* never comes back: storage_->load() finds it no more, and no handler     *)
(* that has it saves it.                                                   *)
THEOREM LoggedOutTheorem == Spec => []LoggedOutForGood
  <1>1. Init => GoneInv
    BY DEF Init, GoneInv, Saves
  <1>2. GoneInv => LoggedOutForGood
    BY DEF GoneInv, LoggedOutForGood
  <1> QED
    BY TypeInvInit, TypeInvNext, GoneInvNext, <1>1, <1>2, PTL DEF Spec

-----------------------------------------------------------------------------
(* A browser has a session id if it is in its cookie jar or on its way     *)
(* from or to it.  An id is had by one browser, and the user a session     *)
(* stands for is one whose password that browser has given.                *)
Has(b, i) ==
    \/ cookie[b] = i
    \/ \E h \in Handlers :
          pc[h] # "idle" /\ req[h].browser = b /\ (req[h].cookie = i \/ sid[h] = i)

Password(h) ==
    pc[h] = "login" \/ (pc[h] \in {"getSession", "saveSession"} /\ req[h].kind = "login")

CredInv ==
    /\ \A b \in Browsers, i \in Ids :
          Has(b, i) /\ userId[i] # None => <<b, userId[i]>> \in credentials
    /\ \A b, c \in Browsers, i \in Ids : Has(b, i) /\ Has(c, i) => b = c
    /\ \A i \in Ids \ generated : userId[i] = None
    /\ \A h \in Handlers : Password(h) => <<req[h].browser, req[h].user>> \in credentials

(* A step by which no browser gets an id and no session gets a user.       *)
LEMMA CredKept ==
  ASSUME CredInv,
         \A b \in Browsers, i \in Ids : Has(b, i)' => Has(b, i),
         \A i \in Ids : userId'[i] = userId[i] \/ userId'[i] = None,
         credentials \subseteq credentials',
         generated \subseteq generated',
         \A h \in Handlers :
            Password(h)' => \/ Password(h) /\ req'[h] = req[h]
                            \/ <<req'[h].browser, req'[h].user>> \in credentials'
  PROVE  CredInv'
  BY DEF CredInv

(* Every step keeps ids with their browsers and users with their           *)
(* credentials: only getSession hands out an id, only a login sets a user. *)
LEMMA CredInvNext == TypeInv /\ CredInv /\ [Next]_vars => CredInv'
  <1> SUFFICES ASSUME TypeInv, CredInv, [Next]_vars PROVE CredInv'
    OBVIOUS
  <1> USE SessionAssumption DEF TypeInv, TypeOK, Goto, sessionVars, history
  <1>1. ASSUME NEW h \in Handlers, NEW b \in Browsers, NEW u, NEW k, Receive(h, b, k, u)
        PROVE  CredInv'
    <2>1. \A c \in Browsers, i \in Ids : Has(c, i)' => Has(c, i)
      BY <1>1 DEF Receive, Has
    <2>2. \A g \in Handlers :
             Password(g)' => \/ Password(g) /\ req'[g] = req[g]
                             \/ <<req'[g].browser, req'[g].user>> \in credentials'
      BY <1>1 DEF Receive, Password
    <2> QED
      BY <1>1, <2>1, <2>2, CredKept DEF Receive
  <1>2a. ASSUME NEW h \in Handlers, LoadSession(h) PROVE CredInv'
    <2>1. /\ UNCHANGED <<generated, userId, cookie, req, credentials>>
          /\ pc[h] = "getSession" /\ pc' = [pc EXCEPT ![h] = "saveSession"]
          /\ sid' = [sid EXCEPT ![h] = IF Loadable(req[h].cookie) THEN req[h].cookie ELSE None]
      BY <1>2a DEF LoadSession
    <2>2. \A c \in Browsers, j \in Ids : Has(c, j)' => Has(c, j)
      BY <2>1 DEF Has
    <2>3. \A g \in Handlers : Password(g)' => Password(g) /\ req'[g] = req[g]
      BY <2>1 DEF Password
    <2> QED
      BY <2>1, <2>2, <2>3, CredKept
  <1>2. ASSUME NEW h \in Handlers, SaveSession(h) PROVE CredInv'
    <2>1. PICK i \in Ids :
             /\ IF sid[h] \notin expired \union {None}
                THEN i = sid[h] /\ UNCHANGED generated
                ELSE i \notin generated /\ generated' = generated \union {i}
             /\ sid' = [sid EXCEPT ![h] = i]
      BY <1>2 DEF SaveSession
    <2>2. UNCHANGED <<userId, cookie, req, credentials>> /\ generated \subseteq generated'
          /\ pc[h] = "saveSession" /\ pc' = [pc EXCEPT ![h] = req[h].kind]
      BY <1>2, <2>1 DEF SaveSession
    <2>3. \A g \in Handlers : Password(g)' => Password(g) /\ req'[g] = req[g]
      BY <2>2 DEF Password
    <2>4. req[h].kind # "idle" /\ req[h].browser \in Browsers
      BY <2>2 DEF Kinds
    <2>5. \A c \in Browsers, j \in Ids :
             Has(c, j)' => Has(c, j) \/ (c = req[h].browser /\ j = i)
      BY <2>1, <2>2, <2>4 DEF Has
    <2>6. CASE i = sid[h]
      <3>1. Has(req[h].browser, i)
        BY <2>2, <2>6 DEF Has
      <3> QED
        BY <2>2, <2>3, <2>5, <3>1, CredKept
    <2>7. CASE i \notin generated
      <3>1. \A c \in Browsers : ~Has(c, i)
        BY <2>7 DEF Has
      <3>2. userId'[i] = None
        BY <2>2, <2>7 DEF CredInv
      <3> QED
        BY <2>2, <2>3, <2>5, <3>1, <3>2 DEF CredInv
    <2> QED
      BY <2>1, <2>6, <2>7
  <1>3. ASSUME NEW h \in Handlers, SetUserId(h) PROVE CredInv'
    <2>1. pc[h] = "login" /\ sid[h] \in generated /\ req[h].browser \in Browsers
      BY <1>3 DEF SetUserId, Login, Starts
    <2>2. UNCHANGED <<generated, cookie, req, sid, credentials>>
          /\ pc' = [pc EXCEPT ![h] = "setUsername"]
      BY <1>3 DEF SetUserId
    <2>3. userId' = userId \/ userId' = [userId EXCEPT ![sid[h]] = req[h].user]
      BY <1>3, DataType DEF SetUserId
    <2>4. \A c \in Browsers, j \in Ids : Has(c, j)' <=> Has(c, j)
      BY <2>1, <2>2 DEF Has
    <2>5. \A g \in Handlers : Password(g)' => Password(g)
      BY <2>2 DEF Password
    <2>6. Has(req[h].browser, sid[h])
      BY <2>1 DEF Has
    <2>7. <<req[h].browser, req[h].user>> \in credentials
      BY <2>1 DEF CredInv, Password
    <2>8. ASSUME NEW b \in Browsers, NEW i \in Ids, Has(b, i)', userId'[i] # None
          PROVE  <<b, userId'[i]>> \in credentials
      <3>1. CASE i = sid[h] /\ userId'[i] = req[h].user
        <4>1. b = req[h].browser
          BY <2>1, <2>4, <2>6, <2>8, <3>1 DEF CredInv
        <4> QED
          BY <2>7, <3>1, <4>1
      <3>2. CASE userId'[i] = userId[i]
        BY <2>4, <2>8, <3>2 DEF CredInv
      <3> QED
        BY <2>1, <2>3, <3>1, <3>2
    <2>9. \A i \in Ids \ generated' : userId'[i] = None
      BY <2>1, <2>2, <2>3 DEF CredInv
    <2> QED
      BY <2>2, <2>4, <2>5, <2>8, <2>9 DEF CredInv
  <1>4. ASSUME NEW h \in Handlers, DestroySession(h) PROVE CredInv'
    <2>1. /\ UNCHANGED <<generated, cookie, sid, credentials>>
          /\ req' = [req EXCEPT ![h].user = userId[sid[h]]]
          /\ pc[h] = "logout" /\ pc' = [pc EXCEPT ![h] = "eraseOnline"]
      BY <1>4 DEF DestroySession
    <2>2. \A i \in Ids : userId'[i] = userId[i] \/ userId'[i] = None
      BY <1>4, DataType DEF DestroySession
    <2>3. \A c \in Browsers, j \in Ids : Has(c, j)' => Has(c, j)
      BY <2>1 DEF Has
    <2>4. \A g \in Handlers : Password(g)' => Password(g) /\ req'[g] = req[g]
      BY <2>1 DEF Password
    <2> QED
      BY <2>1, <2>2, <2>3, <2>4, CredKept
  <1>5. ASSUME NEW h \in Handlers,
               \/ SetUsername(h) \/ SetLoggedIn(h) \/ CheckOnline(h) \/ MarkOnline(h)
               \/ NobodyToLogOut(h) \/ EraseOnline(h) \/ LogoutThrows(h) \/ Page(h)
               \/ ActAsUser(h)
        PROVE  CredInv'
    <2>1. /\ UNCHANGED <<generated, userId, cookie, req, sid, credentials>>
          /\ \E p \in (Login \ {"login"}) \union Logout \union Pages \union Ends :
                pc' = [pc EXCEPT ![h] = p]
          /\ pc[h] # "idle"
      BY <1>5 DEF SetUsername, SetLoggedIn, CheckOnline, MarkOnline, NobodyToLogOut,
                  EraseOnline, LogoutThrows, Page, ActAsUser, Login, Logout, Pages, Ends
    <2>2. \A c \in Browsers, j \in Ids : Has(c, j)' => Has(c, j)
      BY <2>1 DEF Has, Login, Logout, Pages, Ends
    <2>3. \A g \in Handlers : Password(g)' => Password(g) /\ req'[g] = req[g]
      BY <2>1 DEF Password, Login, Logout, Pages, Ends
    <2> QED
      BY <2>1, <2>2, <2>3, CredKept
  <1>6. ASSUME NEW h \in Handlers, Respond(h) PROVE CredInv'
    <2>1. /\ UNCHANGED <<generated, userId, credentials>>
          /\ pc[h] # "idle" /\ pc' = [pc EXCEPT ![h] = "idle"]
          /\ req' = [req EXCEPT ![h] = Idle]
          /\ sid' = [sid EXCEPT ![h] = None]
          /\ cookie' = cookie \/ cookie' = [cookie EXCEPT ![req[h].browser] = sid[h]]
      BY <1>6 DEF Respond
    <2>2. \A c \in Browsers, j \in Ids : Has(c, j)' => Has(c, j)
      BY <2>1 DEF Has
    <2>3. \A g \in Handlers : Password(g)' => Password(g) /\ req'[g] = req[g]
      BY <2>1 DEF Password
    <2> QED
      BY <2>1, <2>2, <2>3, CredKept
  <1>7. ASSUME NEW i \in Ids, Expire(i) PROVE CredInv'
    BY <1>7 DEF Expire, CredInv, Has, Password
  <1>8. CASE UNCHANGED vars
    BY <1>8 DEF vars, CredInv, Has, Password
  <1> QED
    BY <1>1, <1>2a, <1>2, <1>3, <1>4, <1>5, <1>6, <1>7, <1>8 DEF Next, Handler

(* However requests interleave and sessions expire, a handler acts for a   *)
(* user only in a browser that has given that user's password: an id is    *)
(* given to one browser, and only its logins write the user of the session.*)
THEOREM ActsForItsUserTheorem == Spec => []ActsForItsUser
  <1>1. Init => CredInv
    BY SessionAssumption DEF Init, CredInv, Has, Password
  <1>2. TypeInv /\ CredInv => ActsForItsUser
    <2> SUFFICES ASSUME TypeInv, CredInv, NEW h \in Handlers, pc[h] = "acting",
                        userId[sid[h]] # None
                 PROVE  <<req[h].browser, userId[sid[h]]>> \in credentials
      BY DEF ActsForItsUser
    <2>1. sid[h] \in Ids /\ req[h].browser \in Browsers
      BY DEF TypeInv, TypeOK, Starts
    <2>2. Has(req[h].browser, sid[h])
      BY DEF Has
    <2> QED
      BY <2>1, <2>2 DEF CredInv
  <1> QED
    BY TypeInvInit, TypeInvNext, CredInvNext, <1>1, <1>2, PTL DEF Spec

-----------------------------------------------------------------------------
(* Who is online.  While nothing is disturbed, one request is handled at a *)
(* time and nothing has expired; a login carries its user through to the   *)
(* session that is marked online; and a user marked online either has a    *)
(* session that says so or is about to be taken off by the logout that     *)
(* destroyed it.                                                           *)
FoundLoggedIn(u) == \E i \in sessions_ : isLoggedIn[i] /\ userId[i] = u
LoggingOut(u) == \E h \in Handlers : pc[h] = "eraseOnline" /\ req[h].user = u

LoginProgress(h) ==
    /\ pc[h] \in {"setUsername", "setLoggedIn", "checkOnline", "markOnline"} =>
          sid[h] \in sessions_ /\ userId[sid[h]] = req[h].user
    /\ pc[h] \in {"checkOnline", "markOnline"} => isLoggedIn[sid[h]]

OnlineInv ==
    ~disturbed =>
       /\ \A g, h \in Busy : g = h
       /\ expired = {}
       /\ \A h \in Handlers : LoginProgress(h)
       /\ \A u \in onlineUsers_ : FoundLoggedIn(u) \/ LoggingOut(u)

(* While nothing is disturbed the handler that runs is alone, and nobody   *)
(* races its writes.                                                       *)
LEMMA Alone ==
  ASSUME TypeInv, OnlineInv, ~disturbed, NEW h \in Handlers, pc[h] # "idle"
  PROVE  /\ \A g \in Handlers \ {h} : pc[g] = "idle"
         /\ expired = {}
         /\ LoginProgress(h)
         /\ \A u \in onlineUsers_ :
               FoundLoggedIn(u) \/ (pc[h] = "eraseOnline" /\ req[h].user = u)
         /\ StorageWriters \ {h} = {}
         /\ \A i : DataWriters(i) \ {h} = {}
  <1>1. \A g \in Handlers \ {h} : pc[g] = "idle"
    BY DEF OnlineInv, Busy
  <1>2. StorageWriters \ {h} = {}
    BY <1>1 DEF StorageWriters
  <1>3. \A i : DataWriters(i) \ {h} = {}
    BY <1>1 DEF DataWriters
  <1>4. \A u \in onlineUsers_ :
           FoundLoggedIn(u) \/ (pc[h] = "eraseOnline" /\ req[h].user = u)
    BY <1>1 DEF OnlineInv, LoggingOut
  <1> QED
    BY <1>1, <1>2, <1>3, <1>4 DEF OnlineInv

(* A step of a handler that runs alone keeps OnlineInv if its own progress *)
(* and the sessions of the users online are kept.                          *)
LEMMA OnlineKept ==
  ASSUME TypeInv, NEW h \in Handlers, \A g \in Handlers \ {h} : pc'[g] = "idle",
         expired' = {}, LoginProgress(h)',
         \A u \in onlineUsers_' :
            \/ \E i \in sessions_' : isLoggedIn'[i] /\ userId'[i] = u
            \/ pc'[h] = "eraseOnline" /\ req'[h].user = u
  PROVE  OnlineInv'
  <1>1. \A g, k \in Busy' : g = k
    BY DEF Busy
  <1>2. ASSUME NEW g \in Handlers PROVE LoginProgress(g)'
    BY DEF LoginProgress
  <1>3. \A u \in onlineUsers_' :
           \/ \E i \in sessions_' : isLoggedIn'[i] /\ userId'[i] = u
           \/ \E g \in Handlers : pc'[g] = "eraseOnline" /\ req'[g].user = u
    OBVIOUS
  <1> QED
    BY <1>1, <1>2, <1>3 DEF OnlineInv, FoundLoggedIn, LoggingOut

LEMMA OnlineInvNext == TypeInv /\ OnlineInv /\ [Next]_vars => OnlineInv'
  <1> SUFFICES ASSUME TypeInv, OnlineInv, [Next]_vars, ~disturbed' PROVE OnlineInv'
    BY DEF OnlineInv
  <1> USE DEF Goto, sessionVars, history
  <1>0. ~disturbed
    BY DEF Next, Handler, Receive, LoadSession, SaveSession, SetUserId, SetUsername, SetLoggedIn,
           CheckOnline, MarkOnline, NobodyToLogOut, DestroySession, EraseOnline, LogoutThrows,
           Page, ActAsUser, Respond, Expire, vars
  <1>t. /\ pc \in [Handlers -> Starts \union Login \union Logout \union Pages \union Ends]
        /\ \A h \in Handlers : DOMAIN pc = Handlers
    BY DEF TypeInv
  <1>1. ASSUME NEW h \in Handlers, NEW b \in Browsers, NEW u, NEW k, Receive(h, b, k, u)
        PROVE  OnlineInv'
    <2>1. Busy = {} /\ expired = {}
      BY <1>0, <1>1 DEF Receive, OnlineInv
    <2>2. \A g \in Handlers \ {h} : pc'[g] = "idle"
      BY <1>1, <1>t, <2>1 DEF Receive, Busy
    <2>3. LoginProgress(h)' /\ expired' = {}
      BY <1>1, <1>t, <2>1 DEF Receive, LoginProgress
    <2>4. \A w \in onlineUsers_ : FoundLoggedIn(w)
      BY <1>0, <2>1 DEF OnlineInv, LoggingOut, Busy
    <2>5. \A w \in onlineUsers_' : \E i \in sessions_' : isLoggedIn'[i] /\ userId'[i] = w
      BY <1>1, <2>4 DEF Receive, FoundLoggedIn
    <2> QED
      BY <2>2, <2>3, <2>5, OnlineKept
  <1>2. ASSUME NEW h \in Handlers, LoadSession(h) \/ SaveSession(h) PROVE OnlineInv'
    <2>1. pc[h] \in {"getSession", "saveSession"}
          /\ \E p \in Kinds \union {"saveSession"} : pc' = [pc EXCEPT ![h] = p]
          /\ UNCHANGED <<userId, isLoggedIn, onlineUsers_>>
      BY <1>2 DEF LoadSession, SaveSession, TypeInv
    <2>2. expired' = {} /\ sessions_ \subseteq sessions_'
      BY <1>0, <1>2, <2>1, Alone DEF LoadSession, SaveSession, Lapsed, Store, Storage, Written
    <2>3. LoginProgress(h)'
      BY <1>t, <2>1 DEF LoginProgress, Kinds
    <2>4. \A g \in Handlers \ {h} : pc'[g] = "idle"
      BY <1>0, <1>t, <2>1, Alone
    <2>5. \A u \in onlineUsers_' : \E i \in sessions_' : isLoggedIn'[i] /\ userId'[i] = u
      BY <1>0, <2>1, <2>2, Alone DEF FoundLoggedIn
    <2> QED
      BY <2>2, <2>3, <2>4, <2>5, OnlineKept
  <1>3. ASSUME NEW h \in Handlers, SetUserId(h) PROVE OnlineInv'
    <2>1. pc[h] = "login" /\ pc' = [pc EXCEPT ![h] = "setUsername"]
          /\ UNCHANGED <<expired, isLoggedIn, onlineUsers_, req, sid>>
          /\ userId[sid[h]] \in {None, req[h].user}
      BY <1>0, <1>3 DEF SetUserId
    <2>2. userId' = [userId EXCEPT ![sid[h]] = req[h].user]
      BY <1>0, <1>3, <2>1, Alone DEF SetUserId, Data, Written
    <2>3. sessions_' = sessions_ \union {sid[h]}
      BY <1>0, <1>3, <2>1, Alone DEF SetUserId, Store, Storage, Written
    <2>4. sid[h] \in Ids /\ userId \in [Ids -> Users \union {None}] /\ onlineUsers_ \subseteq Users
      BY <2>1 DEF TypeInv, TypeOK, Starts
    <2>5. LoginProgress(h)'
      BY <1>t, <2>1, <2>2, <2>3, <2>4 DEF LoginProgress
    <2>6. \A g \in Handlers \ {h} : pc'[g] = "idle"
      BY <1>0, <1>t, <2>1, Alone
    <2>7. ASSUME NEW u \in onlineUsers_
          PROVE  \E i \in sessions_' : isLoggedIn'[i] /\ userId'[i] = u
      <3>1. PICK i \in sessions_ : isLoggedIn[i] /\ userId[i] = u
        BY <1>0, <2>1, Alone DEF FoundLoggedIn
      <3>2. userId'[i] = u
        BY <2>1, <2>2, <2>4, <3>1, SessionAssumption
      <3> QED
        BY <2>1, <2>3, <3>1, <3>2
    <2> QED
      BY <1>0, <2>1, <2>5, <2>6, <2>7, Alone, OnlineKept
  <1>3a. ASSUME NEW h \in Handlers, SetUsername(h) PROVE OnlineInv'
    <2>1. pc[h] = "setUsername" /\ pc' = [pc EXCEPT ![h] = "setLoggedIn"]
          /\ UNCHANGED <<expired, userId, isLoggedIn, onlineUsers_, req, sid>>
      BY <1>3a DEF SetUsername
    <2>2. sessions_' = sessions_ \union {sid[h]}
      BY <1>0, <1>3a, <2>1, Alone DEF SetUsername, Store, Storage, Written
    <2>3. LoginProgress(h)'
      BY <1>0, <1>t, <2>1, <2>2, Alone DEF LoginProgress
    <2>4. \A g \in Handlers \ {h} : pc'[g] = "idle"
      BY <1>0, <1>t, <2>1, Alone
    <2>5. \A u \in onlineUsers_' : \E i \in sessions_' : isLoggedIn'[i] /\ userId'[i] = u
      BY <1>0, <2>1, <2>2, Alone DEF FoundLoggedIn
    <2> QED
      BY <1>0, <2>1, <2>3, <2>4, <2>5, Alone, OnlineKept
  <1>4. ASSUME NEW h \in Handlers, SetLoggedIn(h) PROVE OnlineInv'
    <2>1. pc[h] = "setLoggedIn" /\ pc' = [pc EXCEPT ![h] = "checkOnline"]
          /\ UNCHANGED <<expired, userId, onlineUsers_, req, sid>>
      BY <1>4 DEF SetLoggedIn
    <2>2. isLoggedIn' = [isLoggedIn EXCEPT ![sid[h]] = TRUE]
      BY <1>0, <1>4, <2>1, Alone DEF SetLoggedIn, Data, Written
    <2>3. sessions_' = sessions_ \union {sid[h]}
      BY <1>0, <1>4, <2>1, Alone DEF SetLoggedIn, Store, Storage, Written
    <2>4. sid[h] \in Ids /\ isLoggedIn \in [Ids -> BOOLEAN]
      BY <2>1 DEF TypeInv, TypeOK, Starts
    <2>5. LoginProgress(h)'
      <3>1. LoginProgress(h)
        BY <1>0, <2>1, Alone
      <3>2. isLoggedIn'[sid[h]]
        BY <2>2, <2>4, Zenon
      <3> QED
        BY <1>t, <2>1, <2>3, <3>1, <3>2 DEF LoginProgress
    <2>6. \A g \in Handlers \ {h} : pc'[g] = "idle"
      BY <1>0, <1>t, <2>1, Alone
    <2>7. ASSUME NEW u \in onlineUsers_
          PROVE  \E i \in sessions_' : isLoggedIn'[i] /\ userId'[i] = u
      <3>1. PICK i \in sessions_ : isLoggedIn[i] /\ userId[i] = u
        BY <1>0, <2>1, Alone DEF FoundLoggedIn
      <3>2. isLoggedIn'[i]
        BY <2>2, <2>4, <3>1, Zenon DEF TypeInv, TypeOK
      <3> QED
        BY <2>1, <2>3, <3>1, <3>2
    <2> QED
      BY <1>0, <2>1, <2>5, <2>6, <2>7, Alone, OnlineKept
  <1>5. ASSUME NEW h \in Handlers, MarkOnline(h) PROVE OnlineInv'
    <2>1. pc[h] = "markOnline" /\ pc' = [pc EXCEPT ![h] = "ok"]
          /\ UNCHANGED <<expired, sessions_, userId, isLoggedIn, req, sid>>
          /\ onlineUsers_' = onlineUsers_ \union {req[h].user}
      BY <1>5 DEF MarkOnline
    <2>2. sid[h] \in sessions_ /\ isLoggedIn[sid[h]] /\ userId[sid[h]] = req[h].user
      BY <1>0, <2>1, Alone DEF LoginProgress
    <2>3. LoginProgress(h)'
      BY <1>t, <2>1 DEF LoginProgress
    <2>4. \A g \in Handlers \ {h} : pc'[g] = "idle"
      BY <1>0, <1>t, <2>1, Alone
    <2>5. \A u \in onlineUsers_' : \E i \in sessions_' : isLoggedIn'[i] /\ userId'[i] = u
      BY <1>0, <2>1, <2>2, Alone DEF FoundLoggedIn
    <2> QED
      BY <1>0, <2>1, <2>3, <2>4, <2>5, Alone, OnlineKept
  <1>6. ASSUME NEW h \in Handlers, DestroySession(h) PROVE OnlineInv'
    <2>1. pc[h] = "logout" /\ pc' = [pc EXCEPT ![h] = "eraseOnline"]
          /\ UNCHANGED <<expired, onlineUsers_, sid>>
          /\ req' = [req EXCEPT ![h].user = userId[sid[h]]]
      BY <1>6 DEF DestroySession
    <2>2. /\ userId' = [userId EXCEPT ![sid[h]] = None]
          /\ isLoggedIn' = [isLoggedIn EXCEPT ![sid[h]] = FALSE]
          /\ sessions_' = sessions_ \ {sid[h]}
      BY <1>0, <1>6, <2>1, Alone DEF DestroySession, Data, Storage, Written
    <2>3. sid[h] \in Ids /\ DOMAIN req = Handlers /\ req'[h].user = userId[sid[h]]
      BY <2>1 DEF TypeInv, TypeOK, Starts
    <2>4. LoginProgress(h)'
      BY <1>t, <2>1 DEF LoginProgress
    <2>5. \A g \in Handlers \ {h} : pc'[g] = "idle"
      BY <1>0, <1>t, <2>1, Alone
    <2>6. ASSUME NEW u \in onlineUsers_
          PROVE  \/ \E i \in sessions_' : isLoggedIn'[i] /\ userId'[i] = u
                 \/ pc'[h] = "eraseOnline" /\ req'[h].user = u
      <3>1. PICK i \in sessions_ : isLoggedIn[i] /\ userId[i] = u
        BY <1>0, <2>1, Alone DEF FoundLoggedIn
      <3>2. CASE i = sid[h]
        BY <1>t, <2>1, <2>3, <3>1, <3>2
      <3>3. CASE i # sid[h]
        <4>1. userId'[i] = u
          BY <2>2, <3>1, <3>3 DEF TypeInv, TypeOK
        <4>2. isLoggedIn'[i]
          BY <2>2, <3>1, <3>3, Zenon DEF TypeInv, TypeOK
        <4> QED
          BY <2>2, <3>1, <3>3, <4>1, <4>2
      <3> QED
        BY <3>2, <3>3
    <2> QED
      BY <1>0, <2>1, <2>4, <2>5, <2>6, Alone, OnlineKept
  <1>7. ASSUME NEW h \in Handlers, EraseOnline(h) PROVE OnlineInv'
    <2>1. pc[h] = "eraseOnline" /\ pc' = [pc EXCEPT ![h] = "ok"]
          /\ UNCHANGED <<expired, sessions_, userId, isLoggedIn, req, sid>>
          /\ onlineUsers_' = onlineUsers_ \ {req[h].user}
      BY <1>7 DEF EraseOnline
    <2>2. LoginProgress(h)'
      BY <1>t, <2>1 DEF LoginProgress
    <2>3. \A g \in Handlers \ {h} : pc'[g] = "idle"
      BY <1>0, <1>t, <2>1, Alone
    <2>4. \A u \in onlineUsers_' : \E i \in sessions_' : isLoggedIn'[i] /\ userId'[i] = u
      BY <1>0, <2>1, Alone DEF FoundLoggedIn
    <2> QED
      BY <1>0, <2>1, <2>2, <2>3, <2>4, Alone, OnlineKept
  <1>8. ASSUME NEW h \in Handlers,
               \/ CheckOnline(h) \/ NobodyToLogOut(h) \/ Page(h) \/ ActAsUser(h) \/ Respond(h)
        PROVE  OnlineInv'
    <2>1. /\ pc[h] \notin {"idle", "eraseOnline"}
          /\ UNCHANGED <<expired, sessions_, userId, isLoggedIn, onlineUsers_>>
          /\ \E p : pc' = [pc EXCEPT ![h] = p]
      BY <1>8 DEF CheckOnline, NobodyToLogOut, Page, ActAsUser, Respond
    <2>2. LoginProgress(h)'
      <3>1. LoginProgress(h)
        BY <1>0, <2>1, Alone
      <3> QED
        BY <1>8, <1>t, <3>1
           DEF CheckOnline, NobodyToLogOut, Page, ActAsUser, Respond, LoginProgress
    <2>3. \A g \in Handlers \ {h} : pc'[g] = "idle"
      BY <1>0, <1>t, <2>1, Alone
    <2>4. \A u \in onlineUsers_' : \E i \in sessions_' : isLoggedIn'[i] /\ userId'[i] = u
      BY <1>0, <2>1, Alone DEF FoundLoggedIn
    <2> QED
      BY <1>0, <2>1, <2>2, <2>3, <2>4, Alone, OnlineKept
  <1>9. ASSUME NEW h \in Handlers, LogoutThrows(h) PROVE FALSE
    BY <1>9 DEF LogoutThrows
  <1>10. ASSUME NEW i \in Ids, Expire(i) PROVE FALSE
    BY <1>10 DEF Expire
  <1>11. CASE UNCHANGED vars
    BY <1>11 DEF vars, OnlineInv, Busy, LoginProgress, FoundLoggedIn, LoggingOut
  <1> QED
    BY <1>1, <1>2, <1>3, <1>3a, <1>4, <1>5, <1>6, <1>7, <1>8, <1>9, <1>10, <1>11
       DEF Next, Handler

(* As long as requests come one after the other, no session expires or     *)
(* changes its user and no logout fails half-way, a user marked online can *)
(* be found logged in: only then does the refusal of a second login make   *)
(* sense.                                                                  *)
THEOREM OnlineTheorem == Spec => []OnlineIsLoggedIn
  <1>1. Init => OnlineInv
    BY DEF Init, OnlineInv, Busy, LoginProgress
  <1>2. OnlineInv => OnlineIsLoggedIn
    BY DEF OnlineInv, OnlineIsLoggedIn, FoundLoggedIn, LoggingOut, Busy
  <1> QED
    BY TypeInvInit, TypeInvNext, OnlineInvNext, <1>1, <1>2, PTL DEF Spec

-----------------------------------------------------------------------------
(* Registration. *)

(* RegisterTypeOK, and what a request that has begun carries with it. *)
RegisterInv ==
    /\ RegisterTypeOK
    /\ \A r \in Requests :
          /\ step[r] # "ready" => username[r] \in Names /\ password[r] \in Passwords
          /\ step[r] \in {"ready", "isUserExist", "insert", "select"} => newId[r] = 0

(* An INSERT keeps the table finite and its rows well-formed. *)
LEMMA NewRow ==
  ASSUME RegisterInv, NEW r \in Requests, step[r] # "ready"
  PROVE  /\ users \union {NewUser(r)} \subseteq
               [id : Nat \ {0}, username : Names, password : Passwords]
         /\ IsFiniteSet(users \union {NewUser(r)})
  <1>1. IsFiniteSet(users) /\ Cardinality(users) \in Nat
    BY FS_CardinalityType DEF RegisterInv, RegisterTypeOK
  <1>2. NewUser(r) \in [id : Nat \ {0}, username : Names, password : Passwords]
    BY <1>1 DEF RegisterInv, NewUser
  <1>3. IsFiniteSet(users \union {NewUser(r)})
    BY <1>1, FS_AddElement
  <1> QED
    BY <1>2, <1>3 DEF RegisterInv, RegisterTypeOK

LEMMA RegisterInvInit == RegisterInit => RegisterInv
  BY RegistrationAssumption, FS_EmptySet DEF RegisterInit, RegisterInv, RegisterTypeOK

LEMMA RegisterInvNext == RegisterInv /\ [RegisterNext]_registerVars => RegisterInv'
  <1> SUFFICES ASSUME RegisterInv, [RegisterNext]_registerVars PROVE RegisterInv'
    OBVIOUS
  <1> USE DEF RegisterInv, RegisterTypeOK, Continue, inputs
  <1>1. ASSUME NEW r \in Requests, NEW name \in Names, NEW word \in Passwords,
               Handle(r, name, word)
        PROVE  RegisterInv'
    BY <1>1 DEF Handle
  <1>2. ASSUME NEW r \in Requests, IsUserExist(r) PROVE RegisterInv'
    BY <1>2 DEF IsUserExist
  <1>3. ASSUME NEW r \in Requests, Insert(r) PROVE RegisterInv'
    <2>1. CASE UniqueNames /\ Taken(username[r])
      BY <1>3, <2>1 DEF Insert
    <2>2. CASE ~(UniqueNames /\ Taken(username[r]))
      BY <1>3, <2>2, NewRow DEF Insert
    <2> QED
      BY <2>1, <2>2
  <1>4. ASSUME NEW r \in Requests, Select(r) PROVE RegisterInv'
    BY <1>4 DEF Select, Named
  <1>5. ASSUME NEW r \in Requests, StatementFails(r) PROVE RegisterInv'
    <2>1. CASE UNCHANGED users
      BY <1>5, <2>1, RegistrationAssumption DEF StatementFails
    <2>2. CASE users' = users \union {NewUser(r)}
      BY <1>5, <2>2, NewRow, RegistrationAssumption DEF StatementFails
    <2> QED
      BY <1>5, <2>1, <2>2 DEF StatementFails
  <1>6. ASSUME NEW r \in Requests, Answer(r) PROVE RegisterInv'
    BY <1>6, RegistrationAssumption DEF Answer
  <1>7. ASSUME NEW r \in Requests, Caught(r) PROVE RegisterInv'
    BY <1>7, RegistrationAssumption DEF Caught
  <1>8. CASE UNCHANGED registerVars
    BY <1>8 DEF registerVars
  <1> QED
    BY <1>1, <1>2, <1>3, <1>4, <1>5, <1>6, <1>7, <1>8 DEF RegisterNext

(* The variables keep their types, and a request that is done has an       *)
(* answer, whatever the database does.                                     *)
THEOREM RegistrationTypeCorrect == RegisterSpec => []RegisterTypeOK
  <1>1. RegisterInv => RegisterTypeOK
    BY DEF RegisterInv
  <1> QED
    BY <1>1, RegisterInvInit, RegisterInvNext, PTL DEF RegisterSpec

-----------------------------------------------------------------------------
(* A request answers without an id only after it has found the name taken. *)
ConflictInv ==
    \A r \in Requests :
       /\ step[r] = "answer" /\ newId[r] = 0 => Taken(username[r])
       /\ status[r] = "409" => Taken(username[r])

LEMMA ConflictInvNext ==
  RegisterInv /\ ConflictInv /\ [RegisterNext]_registerVars => ConflictInv'
  <1> SUFFICES ASSUME RegisterInv, ConflictInv, [RegisterNext]_registerVars PROVE ConflictInv'
    OBVIOUS
  <1> USE DEF RegisterInv, RegisterTypeOK, ConflictInv, Taken, Named, Continue, inputs
  <1>1. ASSUME NEW r \in Requests, NEW name \in Names, NEW word \in Passwords,
               Handle(r, name, word)
        PROVE  ConflictInv'
    BY <1>1, RegistrationAssumption DEF Handle
  <1>2. ASSUME NEW r \in Requests, IsUserExist(r) PROVE ConflictInv'
    BY <1>2 DEF IsUserExist
  <1>3. ASSUME NEW r \in Requests, Insert(r) PROVE ConflictInv'
    BY <1>3 DEF Insert
  <1>4. ASSUME NEW r \in Requests, Select(r) PROVE ConflictInv'
    BY <1>4 DEF Select
  <1>5. ASSUME NEW r \in Requests, StatementFails(r) PROVE ConflictInv'
    BY <1>5 DEF StatementFails
  <1>6. ASSUME NEW r \in Requests, Answer(r) PROVE ConflictInv'
    BY <1>6 DEF Answer
  <1>7. ASSUME NEW r \in Requests, Caught(r) PROVE ConflictInv'
    BY <1>7 DEF Caught
  <1>8. CASE UNCHANGED registerVars
    BY <1>8 DEF registerVars
  <1> QED
    BY <1>1, <1>2, <1>3, <1>4, <1>5, <1>6, <1>7, <1>8 DEF RegisterNext

(* A conflict is reported only of a name that has an account, with or      *)
(* without a unique key and whatever statements fail.                      *)
THEOREM ConflictIsRealTheorem == RegisterSpec => []ConflictIsReal
  <1>1. RegisterInit => ConflictInv
    BY RegistrationAssumption DEF RegisterInit, ConflictInv
  <1>2. ConflictInv => ConflictIsReal
    BY DEF ConflictInv, ConflictIsReal
  <1> QED
    BY <1>1, <1>2, RegisterInvInit, RegisterInvNext, ConflictInvNext, PTL DEF RegisterSpec

-----------------------------------------------------------------------------
(* r has made an account: between its INSERT and its id, or with the id.   *)
Holds(r) == step[r] = "select" \/ newId[r] # 0

(* With a unique key: a name has one row, a request that has made an       *)
(* account finds it in the table with its own name and password, and no    *)
(* two requests made an account of one name.                               *)
OwnInv ==
    /\ \A u, v \in users : u.username = v.username => u = v
    /\ \A r \in Requests : Holds(r) =>
          \E u \in users : /\ u.username = username[r]
                           /\ u.password = password[r]
                           /\ newId[r] # 0 => u.id = newId[r]
    /\ \A r, s \in Requests :
          Holds(r) /\ Holds(s) /\ r # s => username[r] # username[s]
    /\ \A r \in Requests : status[r] = "200" => newId[r] # 0

(* A row with a name that no row has keeps every account as it was.        *)
LEMMA NewName ==
  ASSUME RegisterInv, OwnInv, NEW r \in Requests, step[r] = "insert", ~Taken(username[r]),
         users' = users \union {NewUser(r)},
         UNCHANGED <<inputs, newId, status>>,
         \A s \in Requests : step'[s] = "select" => s = r \/ step[s] = "select"
  PROVE  OwnInv'
  <1> USE DEF RegisterInv, RegisterTypeOK, inputs, OwnInv, Holds
  <1>1. NewUser(r).username = username[r] /\ NewUser(r).password = password[r]
    BY DEF NewUser
  <1>2. \A u \in users : u.username # username[r]
    BY DEF Taken, Named
  <1>3. (\A u, v \in users : u.username = v.username => u = v)'
    BY <1>1, <1>2
  <1>4. \A s \in Requests : Holds(s)' => s = r \/ Holds(s)
    OBVIOUS
  <1>5. \A s \in Requests : Holds(s) => username[s] # username[r]
    BY <1>2
  <1>6. (\A s, t \in Requests : Holds(s) /\ Holds(t) /\ s # t => username[s] # username[t])'
    BY <1>4, <1>5
  <1>7. ASSUME NEW s \in Requests, Holds(s)'
        PROVE  \E u \in users' : /\ u.username = username'[s]
                                 /\ u.password = password'[s]
                                 /\ newId'[s] # 0 => u.id = newId'[s]
    <2>1. CASE s = r
      BY <2>1, <1>1
    <2>2. CASE Holds(s)
      BY <2>2
    <2> QED
      BY <2>1, <2>2, <1>4, <1>7
  <1> QED
    BY <1>3, <1>6, <1>7

LEMMA OwnInvNext ==
  ASSUME UniqueNames
  PROVE  RegisterInv /\ OwnInv /\ [RegisterNext]_registerVars => OwnInv'
  <1> SUFFICES ASSUME RegisterInv, OwnInv, [RegisterNext]_registerVars PROVE OwnInv'
    OBVIOUS
  <1> USE DEF RegisterInv, RegisterTypeOK, Continue, inputs
  <1>1. ASSUME NEW r \in Requests, NEW name \in Names, NEW word \in Passwords,
               Handle(r, name, word)
        PROVE  OwnInv'
    <2>1. \A s \in Requests : Holds(s)' => s # r /\ Holds(s)
      BY <1>1 DEF Handle, Holds
    <2> QED
      BY <1>1, <2>1 DEF Handle, OwnInv
  <1>2. ASSUME NEW r \in Requests, IsUserExist(r) PROVE OwnInv'
    BY <1>2 DEF IsUserExist, OwnInv, Holds
  <1>3. ASSUME NEW r \in Requests, Insert(r) PROVE OwnInv'
    <2>1. CASE Taken(username[r])
      BY <1>3, <2>1 DEF Insert, OwnInv, Holds
    <2>2. CASE ~Taken(username[r])
      BY <1>3, <2>2, NewName DEF Insert
    <2> QED
      BY <2>1, <2>2
  <1>4. ASSUME NEW r \in Requests, Select(r) PROVE OwnInv'
    <2>1. PICK u \in users : /\ u.username = username[r]
                             /\ newId' = [newId EXCEPT ![r] = u.id]
      BY <1>4 DEF Select, Named
    <2>2. u.password = password[r]
      BY <1>4, <2>1 DEF Select, OwnInv, Holds
    <2>3. \A s \in Requests : Holds(s)' => Holds(s)
      BY <1>4, <2>1 DEF Select, Holds
    <2>4. u.id \in Nat \ {0}
      BY <2>1
    <2> QED
      BY <1>4, <2>1, <2>2, <2>3, <2>4 DEF Select, OwnInv, Holds
  <1>5. ASSUME NEW r \in Requests, StatementFails(r) PROVE OwnInv'
    <2>1. CASE UNCHANGED users
      BY <1>5, <2>1 DEF StatementFails, OwnInv, Holds
    <2>2. CASE step[r] = "insert" /\ ~Taken(username[r]) /\ users' = users \union {NewUser(r)}
      BY <1>5, <2>2, NewName DEF StatementFails
    <2> QED
      BY <1>5, <2>1, <2>2 DEF StatementFails
  <1>6. ASSUME NEW r \in Requests, Answer(r) PROVE OwnInv'
    BY <1>6 DEF Answer, OwnInv, Holds
  <1>7. ASSUME NEW r \in Requests, Caught(r) PROVE OwnInv'
    BY <1>7 DEF Caught, OwnInv, Holds
  <1>8. CASE UNCHANGED registerVars
    BY <1>8 DEF registerVars, OwnInv, Holds
  <1> QED
    BY <1>1, <1>2, <1>3, <1>4, <1>5, <1>6, <1>7, <1>8 DEF RegisterNext

LEMMA OwnInvInit == RegisterInit => OwnInv
  BY RegistrationAssumption DEF RegisterInit, OwnInv, Holds

(* With a unique key, the id a request is answered is that of the account  *)
(* it made, with its own name and password, for any interleaving of the    *)
(* three statements and any failures.                                      *)
THEOREM RegisteredIsOwnTheorem ==
  ASSUME UniqueNames PROVE RegisterSpec => []RegisteredIsOwn
  <1>1. OwnInv => RegisteredIsOwn
    BY DEF OwnInv, RegisteredIsOwn, Holds
  <1> QED
    BY <1>1, RegisterInvInit, RegisterInvNext, OwnInvInit, OwnInvNext, PTL DEF RegisterSpec

(* ... and of the requests for one name at most one succeeds.              *)
THEOREM OneWinnerTheorem ==
  ASSUME UniqueNames PROVE RegisterSpec => []OneWinner
  <1>1. OwnInv => OneWinner
    BY DEF OwnInv, OneWinner, Holds
  <1> QED
    BY <1>1, RegisterInvInit, RegisterInvNext, OwnInvInit, OwnInvNext, PTL DEF RegisterSpec
=============================================================================
