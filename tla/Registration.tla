---------------------------- MODULE Registration ----------------------------
(***************************************************************************)
(* Registration of accounts (ChatRegisterHandler.cpp): the handler looks   *)
(* whether the name is taken, inserts the account and looks its id up, in  *)
(* three statements that each borrow a connection of the pool, on as many  *)
(* I/O threads as requests come in.  It catches nothing: an exception of   *)
(* the database ends in HttpServer::handleRequest, which answers 500.      *)
(*                                                                         *)
(* The table is not part of the repository.  UniqueNames says whether it   *)
(* has a unique key on username.                                           *)
(***************************************************************************)
EXTENDS Naturals, FiniteSets

CONSTANTS Requests,       \* registrations under way or done
          Names, Passwords,
          UniqueNames,    \* the table has a unique key on username
          Nothing,        \* no answer, name or password
          MaxFaults       \* bound: statements that fail

ASSUME RegistrationAssumption ==
    /\ Nothing \notin Names \union Passwords \union {"200", "409", "500"}
    /\ UniqueNames \in BOOLEAN
    /\ MaxFaults \in Nat

VARIABLES users,          \* the table: rows with an AUTO_INCREMENT id
          step,           \* the handler of each request
          username, password,
          newId,          \* insertUser's result, 0 for -1
          status,         \* the answer
          faults

inputs == <<username, password>>
registerVars == <<users, step, inputs, newId, status, faults>>

RegisterInit ==
    /\ users = {}
    /\ step = [r \in Requests |-> "ready"]
    /\ username = [r \in Requests |-> Nothing]
    /\ password = [r \in Requests |-> Nothing]
    /\ newId = [r \in Requests |-> 0]
    /\ status = [r \in Requests |-> Nothing]
    /\ faults = 0

Continue(r, p) == step' = [step EXCEPT ![r] = p]
Named(name) == {u \in users : u.username = name}
Taken(name) == Named(name) # {}

(* The row of an INSERT. *)
NewUser(r) ==
    [id |-> Cardinality(users) + 1, username |-> username[r], password |-> password[r]]

Handle(r, name, word) ==
    /\ step[r] = "ready"
    /\ username' = [username EXCEPT ![r] = name]
    /\ password' = [password EXCEPT ![r] = word]
    /\ Continue(r, "isUserExist")
    /\ UNCHANGED <<users, newId, status, faults>>

IsUserExist(r) ==
    /\ step[r] = "isUserExist"
    /\ Continue(r, IF Taken(username[r]) THEN "answer" ELSE "insert")
    /\ UNCHANGED <<users, inputs, newId, status, faults>>

(* Fault: INSERT ... ON DUPLICATE KEY UPDATE. *)
InsertOrUpdate(r) ==
    /\ step[r] = "insert"
    /\ users' = IF UniqueNames /\ Taken(username[r])
                THEN {IF u.username = username[r] THEN [u EXCEPT !.password = password[r]]
                                                  ELSE u : u \in users}
                ELSE users \union {NewUser(r)}
    /\ Continue(r, "select")
    /\ UNCHANGED <<inputs, newId, status, faults>>

(* INSERT; with a unique key a second row of one name is an exception.     *)
Insert(r) ==
    /\ step[r] = "insert"
    /\ IF UniqueNames /\ Taken(username[r])
       THEN Continue(r, "thrown") /\ UNCHANGED users
       ELSE /\ users' = users \union {NewUser(r)}
            /\ Continue(r, "select")
    /\ UNCHANGED <<inputs, newId, status, faults>>

(* SELECT id: without an ORDER BY, any row of the name is the first. *)
Select(r) ==
    /\ step[r] = "select"
    /\ \E u \in Named(username[r]) : newId' = [newId EXCEPT ![r] = u.id]
    /\ Continue(r, "answer")
    /\ UNCHANGED <<users, inputs, status, faults>>

(* DbConnection throws: the statement was not executed, or the INSERT was  *)
(* and its reply is lost.                                                  *)
StatementFails(r) ==
    /\ step[r] \in {"isUserExist", "insert", "select"}
    /\ faults < MaxFaults
    /\ faults' = faults + 1
    /\ Continue(r, "thrown")
    /\ \/ UNCHANGED users
       \/ /\ step[r] = "insert"
          /\ UniqueNames => ~Taken(username[r])
          /\ users' = users \union {NewUser(r)}
    /\ UNCHANGED <<inputs, newId, status>>

Answer(r) ==
    /\ step[r] = "answer"
    /\ status' = [status EXCEPT ![r] = IF newId[r] # 0 THEN "200" ELSE "409"]
    /\ Continue(r, "done")
    /\ UNCHANGED <<users, inputs, newId, faults>>

(* Fault: insertUser catches everything and returns -1. *)
CaughtInside(r) ==
    /\ step[r] = "thrown"
    /\ status' = [status EXCEPT ![r] = "409"]
    /\ Continue(r, "done")
    /\ UNCHANGED <<users, inputs, newId, faults>>

(* handleRequest's catch. *)
Caught(r) ==
    /\ step[r] = "thrown"
    /\ status' = [status EXCEPT ![r] = "500"]
    /\ Continue(r, "done")
    /\ UNCHANGED <<users, inputs, newId, faults>>

RegisterNext ==
    \E r \in Requests :
       \/ \E name \in Names, word \in Passwords : Handle(r, name, word)
       \/ IsUserExist(r)
       \/ Insert(r)
       \/ Select(r)
       \/ StatementFails(r)
       \/ Answer(r)
       \/ Caught(r)

RegisterSpec == RegisterInit /\ [][RegisterNext]_registerVars

-----------------------------------------------------------------------------
(* Types of the variables; a request that is done has been answered. *)
RegisterTypeOK ==
    /\ users \subseteq [id : Nat \ {0}, username : Names, password : Passwords]
    /\ IsFiniteSet(users)
    /\ step \in [Requests -> {"ready", "isUserExist", "insert", "select", "answer",
                            "thrown", "done"}]
    /\ username \in [Requests -> Names \union {Nothing}]
    /\ password \in [Requests -> Passwords \union {Nothing}]
    /\ newId \in [Requests -> Nat]
    /\ status \in [Requests -> {Nothing, "200", "409", "500"}]
    /\ \A r \in Requests : status[r] = Nothing <=> step[r] # "done"
    /\ faults \in Nat

(* With the unique key: however the three statements of several requests   *)
(* interleave, the id a browser is given is that of the account it made,   *)
(* with its own name and password.                                         *)
RegisteredIsOwn ==
    \A r \in Requests : status[r] = "200" =>
       \E u \in users : /\ u.id = newId[r]
                        /\ u.username = username[r]
                        /\ u.password = password[r]

(* ... and of the requests for one name at most one succeeds. *)
OneWinner ==
    \A r, s \in Requests :
       status[r] = "200" /\ status[s] = "200" /\ r # s => username[r] # username[s]

(* "Taken" is said only of a name that has an account; a database failure  *)
(* is never reported as a name that is taken.                              *)
ConflictIsReal ==
    \A r \in Requests : status[r] = "409" => Taken(username[r])
=============================================================================
