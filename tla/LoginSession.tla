---------------------------- MODULE LoginSession ----------------------------
(***************************************************************************)
(* HTTP sessions and the login state of ChatServer: SessionManager,        *)
(* Session and MemorySessionStorage (HttpServer/src/session), the login    *)
(* and logout handlers, any handler that asks isLoggedIn, and onlineUsers_ *)
(* (AIApps/ChatServer/src/handlers).                                       *)
(*                                                                         *)
(* Handlers run on several I/O threads.  The storage and the sessions have *)
(* no lock; onlineUsers_ has one, which the login handler takes for the    *)
(* write and not for the read before it.  Each access to shared state is a *)
(* step, and of two writes that race one may be lost; the builds in which  *)
(* the race crashes have no further states.  A handler keeps its           *)
(* shared_ptr to a session that has left the storage, and setValue puts    *)
(* that session back.  Ids are assumed never to repeat, so that an id      *)
(* names one Session object.                                               *)
(***************************************************************************)
EXTENDS Naturals, FiniteSets

CONSTANTS Browsers,       \* clients, each with a cookie jar
          Users,          \* accounts
          Ids,            \* session ids
          Handlers,       \* I/O threads
          None,           \* no id, no user
          MaxRequests     \* bound: requests in all

ASSUME SessionAssumption ==
    /\ None \notin Ids \union Users
    /\ MaxRequests \in Nat

VARIABLES
    sessions_,      \* ids in MemorySessionStorage
    expired,        \* ids whose expiryTime_ is past
    generated,      \* ids generateSessionId has returned
    userId,         \* data_["userId"] of each session, or None
    isLoggedIn,     \* data_["isLoggedIn"] = "true"
    onlineUsers_,   \* users mapped to true
    cookie,         \* the sessionId cookie of each browser, or None
    pc,             \* where each I/O thread is
    req,            \* the request it handles: browser, kind, user, cookie
    sid,            \* the session its handler holds
    requests,       \* requests so far
    credentials,    \* <<browser, user>>: who has given whose password (history)
    gone,           \* sessions destroyed while no other request was under way
                    \* (history)
    disturbed       \* handlers overlapped, a session expired, changed its
                    \* user, or a logout failed half-way (history)

sessionVars == <<sessions_, expired, generated, userId, isLoggedIn>>
history     == <<credentials, gone, disturbed>>
vars == <<sessionVars, onlineUsers_, cookie, pc, req, sid, requests, history>>

Kinds == {"login", "logout", "page"}
Idle == [browser |-> None, kind |-> "none", user |-> None, cookie |-> None]

Busy == {h \in Handlers : pc[h] # "idle"}
Goto(h, p) == pc' = [pc EXCEPT ![h] = p]

(* What load() of the request's cookie erases: a session that has expired. *)
Lapsed(h) == {req[h].cookie} \intersect sessions_ \intersect expired

(* Handlers that may be writing the storage, or a session's data_.         *)
StorageWriters ==
    {h \in Handlers :
        \/ pc[h] = "getSession" /\ Lapsed(h) # {}
        \/ pc[h] \in {"saveSession", "login", "setUsername", "setLoggedIn", "logout"}}
DataWriters(i) ==
    {h \in Handlers :
        sid[h] = i /\ pc[h] \in {"login", "setUsername", "setLoggedIn", "logout"}}

(* What a write that makes old new may leave: old, if another one races it.*)
Written(new, old, racing) == IF racing = {} THEN {new} ELSE {new, old}

(* The storage after handler h has put, or taken, a session.               *)
Storage(h, new) == Written(new, sessions_, StorageWriters \ {h})

(* storage_->save() of i. *)
Store(h, i) == sessions_' \in Storage(h, sessions_ \union {i})

(* data_[key] = value in h's session; d is the function for the key.       *)
Data(h, d, value) ==
    Written([d EXCEPT ![sid[h]] = value], d, DataWriters(sid[h]) \ {h})

Init ==
    /\ sessions_ = {}
    /\ expired = {}
    /\ generated = {}
    /\ userId = [i \in Ids |-> None]
    /\ isLoggedIn = [i \in Ids |-> FALSE]
    /\ onlineUsers_ = {}
    /\ cookie = [b \in Browsers |-> None]
    /\ pc = [h \in Handlers |-> "idle"]
    /\ req = [h \in Handlers |-> Idle]
    /\ sid = [h \in Handlers |-> None]
    /\ requests = 0
    /\ credentials = {}
    /\ gone = {}
    /\ disturbed = FALSE

-----------------------------------------------------------------------------
(* A request comes in on a thread.  A wrong password makes the login       *)
(* handler answer 401 and touch nothing: such requests are left out.       *)
Receive(h, b, k, u) ==
    /\ pc[h] = "idle"
    /\ requests < MaxRequests
    /\ requests' = requests + 1
    /\ req' = [req EXCEPT ![h] = [browser |-> b, kind |-> k, user |-> u,
                                  cookie |-> cookie[b]]]
    /\ credentials' = IF k = "login" THEN credentials \union {<<b, u>>} ELSE credentials
    /\ disturbed' = (disturbed \/ Busy # {})
    /\ Goto(h, "getSession")
    /\ UNCHANGED <<sessionVars, onlineUsers_, cookie, sid, gone>>

(* Fault: any id this server has once given out is accepted. *)
LoadableAny(i) == i \in generated \ expired

(* storage_->load(): only a stored session that has not expired. *)
Loadable(i) == i \in sessions_ \ expired

(* getSession(): the session of the cookie, or none; an expired one leaves *)
(* the storage.                                                            *)
LoadSession(h) ==
    /\ pc[h] = "getSession"
    /\ sid' = [sid EXCEPT ![h] = IF Loadable(req[h].cookie) THEN req[h].cookie ELSE None]
    /\ sessions_' \in Storage(h, sessions_ \ Lapsed(h))
    /\ Goto(h, "saveSession")
    /\ UNCHANGED <<expired, generated, userId, isLoggedIn, onlineUsers_, cookie, req, requests,
                   history>>

(* Fault: ids that may repeat. *)
SaveSessionAnyId(h) ==
    /\ pc[h] = "saveSession"
    /\ \E i \in Ids :
          /\ sid[h] \notin expired \union {None} => i = sid[h]
          /\ generated' = generated \union {i}
          /\ sid' = [sid EXCEPT ![h] = i]
          /\ Store(h, i)
          /\ expired' = expired \ {i}
    /\ Goto(h, req[h].kind)
    /\ UNCHANGED <<userId, isLoggedIn, onlineUsers_, cookie, req, requests, history>>

(* What was loaded, or a new session if nothing was or it has expired      *)
(* since, is refreshed and saved: a session that a logout has destroyed in *)
(* between is put back.                                                    *)
SaveSession(h) ==
    /\ pc[h] = "saveSession"
    /\ \E i \in Ids :
          /\ IF sid[h] \notin expired \union {None}
             THEN i = sid[h] /\ UNCHANGED generated
             ELSE i \notin generated /\ generated' = generated \union {i}
          /\ sid' = [sid EXCEPT ![h] = i]
          /\ Store(h, i)
          /\ expired' = expired \ {i}
    /\ Goto(h, req[h].kind)
    /\ UNCHANGED <<userId, isLoggedIn, onlineUsers_, cookie, req, requests, history>>

(* The answer goes out; a new session is in its Set-Cookie header. *)
Respond(h) ==
    /\ pc[h] \in {"ok", "forbidden", "failed"}
    /\ cookie' = IF sid[h] = req[h].cookie THEN cookie
                 ELSE [cookie EXCEPT ![req[h].browser] = sid[h]]
    /\ Goto(h, "idle")
    /\ req' = [req EXCEPT ![h] = Idle]
    /\ sid' = [sid EXCEPT ![h] = None]
    /\ UNCHANGED <<sessionVars, onlineUsers_, requests, history>>

-----------------------------------------------------------------------------
(* ChatLoginHandler: setValue of "userId", "username" and "isLoggedIn",    *)
(* each of which saves the session, before onlineUsers_ is looked at.      *)

SetUserId(h) ==
    /\ pc[h] = "login"
    /\ userId' \in Data(h, userId, req[h].user)
    /\ Store(h, sid[h])
    /\ disturbed' = (disturbed \/ userId[sid[h]] \notin {None, req[h].user})
    /\ Goto(h, "setUsername")
    /\ UNCHANGED <<expired, generated, isLoggedIn, onlineUsers_, cookie, req, sid, requests,
                   credentials, gone>>

(* The name itself is left out: only the save matters here.                *)
SetUsername(h) ==
    /\ pc[h] = "setUsername"
    /\ Store(h, sid[h])
    /\ Goto(h, "setLoggedIn")
    /\ UNCHANGED <<expired, generated, userId, isLoggedIn, onlineUsers_, cookie, req, sid,
                   requests, history>>

SetLoggedIn(h) ==
    /\ pc[h] = "setLoggedIn"
    /\ isLoggedIn' \in Data(h, isLoggedIn, TRUE)
    /\ Store(h, sid[h])
    /\ Goto(h, "checkOnline")
    /\ UNCHANGED <<expired, generated, userId, onlineUsers_, cookie, req, sid, requests, history>>

(* The read of onlineUsers_, without the mutex; 403 if already online.     *)
CheckOnline(h) ==
    /\ pc[h] = "checkOnline"
    /\ Goto(h, IF req[h].user \in onlineUsers_ THEN "forbidden" ELSE "markOnline")
    /\ UNCHANGED <<sessionVars, onlineUsers_, cookie, req, sid, requests, history>>

MarkOnline(h) ==
    /\ pc[h] = "markOnline"
    /\ onlineUsers_' = onlineUsers_ \union {req[h].user}
    /\ Goto(h, "ok")
    /\ UNCHANGED <<sessionVars, cookie, req, sid, requests, history>>

-----------------------------------------------------------------------------
(* ChatLogoutHandler. *)

(* stoi of a missing userId throws: 400. *)
NobodyToLogOut(h) ==
    /\ pc[h] = "logout"
    /\ userId[sid[h]] = None
    /\ Goto(h, "failed")
    /\ UNCHANGED <<sessionVars, onlineUsers_, cookie, req, sid, requests, history>>

(* clear() and destroySession(), the user being remembered in a local.     *)
DestroySession(h) ==
    /\ pc[h] = "logout"
    /\ userId[sid[h]] # None
    /\ req' = [req EXCEPT ![h].user = userId[sid[h]]]
    /\ userId' \in Data(h, userId, None)
    /\ isLoggedIn' \in Data(h, isLoggedIn, FALSE)
    /\ sessions_' \in Storage(h, sessions_ \ {sid[h]})
    /\ gone' = IF Busy = {h} THEN gone \union {sid[h]} ELSE gone
    /\ Goto(h, "eraseOnline")
    /\ UNCHANGED <<expired, generated, onlineUsers_, cookie, sid, requests, credentials,
                   disturbed>>

(* Fault: the user is read from the session, which has been cleared. *)
EraseOnlineFromSession(h) ==
    /\ pc[h] = "eraseOnline"
    /\ onlineUsers_' = onlineUsers_ \ {userId[sid[h]]}
    /\ Goto(h, "ok")
    /\ UNCHANGED <<sessionVars, cookie, req, sid, requests, history>>

EraseOnline(h) ==
    /\ pc[h] = "eraseOnline"
    /\ onlineUsers_' = onlineUsers_ \ {req[h].user}
    /\ Goto(h, "ok")
    /\ UNCHANGED <<sessionVars, cookie, req, sid, requests, history>>

(* The body is not JSON: json::parse throws after the session is gone and  *)
(* before the user is taken off onlineUsers_.                              *)
LogoutThrows(h) ==
    /\ pc[h] = "eraseOnline"
    /\ disturbed' = TRUE
    /\ Goto(h, "failed")
    /\ UNCHANGED <<sessionVars, onlineUsers_, cookie, req, sid, requests, credentials, gone>>

(* Any other handler: 401 unless the session says isLoggedIn, then it acts *)
(* for the session's userId.                                               *)
Page(h) ==
    /\ pc[h] = "page"
    /\ Goto(h, IF isLoggedIn[sid[h]] THEN "acting" ELSE "failed")
    /\ UNCHANGED <<sessionVars, onlineUsers_, cookie, req, sid, requests, history>>

(* stoi(getValue("userId")) throws if a logout came in between. *)
ActAsUser(h) ==
    /\ pc[h] = "acting"
    /\ Goto(h, IF userId[sid[h]] = None THEN "failed" ELSE "ok")
    /\ UNCHANGED <<sessionVars, onlineUsers_, cookie, req, sid, requests, history>>

(* An hour without a refresh. *)
Expire(i) ==
    /\ i \in sessions_ \ expired
    /\ expired' = expired \union {i}
    /\ disturbed' = TRUE
    /\ UNCHANGED <<sessions_, generated, userId, isLoggedIn, onlineUsers_, cookie, pc, req,
                   sid, requests, credentials, gone>>

-----------------------------------------------------------------------------
Handler(h) ==
    \/ \E b \in Browsers, u \in Users : Receive(h, b, "login", u)
    \/ \E b \in Browsers, k \in {"logout", "page"} : Receive(h, b, k, None)
    \/ LoadSession(h)
    \/ SaveSession(h)
    \/ SetUserId(h)
    \/ SetUsername(h)
    \/ SetLoggedIn(h)
    \/ CheckOnline(h)
    \/ MarkOnline(h)
    \/ NobodyToLogOut(h)
    \/ DestroySession(h)
    \/ EraseOnline(h)
    \/ LogoutThrows(h)
    \/ Page(h)
    \/ ActAsUser(h)
    \/ Respond(h)

Next ==
    \/ \E h \in Handlers : Handler(h)
    \/ \E i \in Ids : Expire(i)

Spec == Init /\ [][Next]_vars

-----------------------------------------------------------------------------
TypeOK ==
    /\ sessions_ \subseteq generated
    /\ expired \subseteq generated
    /\ generated \subseteq Ids
    /\ userId \in [Ids -> Users \union {None}]
    /\ isLoggedIn \in [Ids -> BOOLEAN]
    /\ onlineUsers_ \subseteq Users
    /\ cookie \in [Browsers -> generated \union {None}]
    /\ sid \in [Handlers -> generated \union {None}]
    /\ requests \in 0..MaxRequests
    /\ credentials \subseteq Browsers \X Users
    /\ gone \subseteq generated
    /\ disturbed \in BOOLEAN

(* However requests interleave and sessions expire, a handler acts for a   *)
(* user only in a browser that has given that user's password.             *)
ActsForItsUser ==
    \A h \in Handlers :
       pc[h] = "acting" /\ userId[sid[h]] # None =>
          <<req[h].browser, userId[sid[h]]>> \in credentials

(* A session that was logged out while no other request was under way      *)
(* never comes back, though requests with its id go on coming, overlapping *)
(* and in any order.                                                       *)
LoggedOutForGood == gone \intersect sessions_ = {}

(* As long as requests come one after the other, no session expires or     *)
(* changes its user and no logout fails half-way, a user marked online can *)
(* be found logged in: nobody is locked out for nothing.                   *)
OnlineIsLoggedIn ==
    ~disturbed /\ Busy = {} =>
       \A u \in onlineUsers_ : \E i \in sessions_ : isLoggedIn[i] /\ userId[i] = u
=============================================================================
