----------------------------- MODULE RouteTable -----------------------------
(***************************************************************************)
(* The router of HttpServer (HttpServer/include/router/Router.h,           *)
(* src/router/Router.cpp): four tables, filled by the registration calls   *)
(* in any order, and route(), which searches them.                         *)
(*                                                                         *)
(* A path is a sequence of segments; a segment of a pattern is Param where *)
(* the code has ":name", which convertToRegex turns into a group for one   *)
(* non-empty segment.  The log of all registrations is what the documents  *)
(* speak of; Expected reads the answer off that log.                       *)
(***************************************************************************)
EXTENDS Naturals, Sequences, FiniteSets

CONSTANTS Methods,
          Paths,              \* what clients ask for
          Patterns,           \* what routes are registered for
          Targets,            \* handlers and callbacks
          Param,              \* a ":name" segment
          Blank,              \* the empty segment, as in "/users/"
          NotFound,           \* no target
          MaxRegistrations    \* bound

ASSUME RouteAssumption ==
    /\ Param # Blank
    /\ NotFound \notin Targets
    /\ MaxRegistrations \in Nat
    /\ \A p \in Paths \union Patterns : p \in Seq({p[i] : i \in 1..Len(p)})

Kinds == <<"handler", "callback", "regexHandler", "regexCallback">>

VARIABLES handlers_, callbacks_,             \* keys to targets
          regexHandlers_, regexCallbacks_,   \* routes in order
          registered                         \* all registrations (history)

tables == <<handlers_, callbacks_, regexHandlers_, regexCallbacks_>>
routing == <<tables, registered>>

Routes == [method : Methods, path : Patterns, target : Targets]

NoRoutes ==
    /\ handlers_ = <<>>
    /\ callbacks_ = <<>>
    /\ regexHandlers_ = <<>>
    /\ regexCallbacks_ = <<>>
    /\ registered = <<>>

Log(kind, route) ==
    /\ Len(registered) < MaxRegistrations
    /\ registered' = Append(registered, [kind |-> kind, route |-> route])

Key(route) == <<route.method, route.path>>

(* table[key] = target: the last registration of a key stands. *)
Put(table, route) ==
    [k \in DOMAIN table \union {Key(route)} |->
        IF k = Key(route) THEN route.target ELSE table[k]]

RegisterHandler(route) ==
    /\ Log("handler", route)
    /\ handlers_' = Put(handlers_, route)
    /\ UNCHANGED <<callbacks_, regexHandlers_, regexCallbacks_>>

RegisterCallback(route) ==
    /\ Log("callback", route)
    /\ callbacks_' = Put(callbacks_, route)
    /\ UNCHANGED <<handlers_, regexHandlers_, regexCallbacks_>>

AddRegexHandler(route) ==
    /\ Log("regexHandler", route)
    /\ regexHandlers_' = Append(regexHandlers_, route)
    /\ UNCHANGED <<handlers_, callbacks_, regexCallbacks_>>

AddRegexCallback(route) ==
    /\ Log("regexCallback", route)
    /\ regexCallbacks_' = Append(regexCallbacks_, route)
    /\ UNCHANGED <<handlers_, callbacks_, regexHandlers_>>

Register ==
    \E route \in Routes :
       \/ RegisterHandler(route)
       \/ RegisterCallback(route)
       \/ AddRegexHandler(route)
       \/ AddRegexCallback(route)

-----------------------------------------------------------------------------
(* regex_match of convertToRegex(pattern). *)
Matches(pattern, path) ==
    /\ Len(pattern) = Len(path)
    /\ \A i \in 1..Len(path) :
          IF pattern[i] = Param THEN path[i] # Blank ELSE pattern[i] = path[i]

(* extractPathParameters: param1, param2, ... are the groups, in order.    *)
Parameters(pattern, path) ==
    LET groups == {i \in 1..Len(path) : pattern[i] = Param}
        nth(n) == CHOOSE i \in groups : Cardinality({j \in groups : j <= i}) = n IN
    [n \in 1..Cardinality(groups) |-> path[nth(n)]]

Answer(target, parameters) == [target |-> target, parameters |-> parameters]

(* The first route of a vector that matches. *)
Fits(routes, i, method, path) ==
    i \in 1..Len(routes) /\ routes[i].method = method /\ Matches(routes[i].path, path)

FirstFit(routes, method, path) ==
    CHOOSE i \in 1..Len(routes) :
       /\ Fits(routes, i, method, path)
       /\ \A j \in 1..(i - 1) : ~Fits(routes, j, method, path)

Search(routes, method, path, otherwise) ==
    IF \E i \in 1..Len(routes) : Fits(routes, i, method, path)
    THEN LET route == routes[FirstFit(routes, method, path)] IN
         Answer(route.target, Parameters(route.path, path))
    ELSE otherwise

(* Fault: patterns are searched before the exact callbacks. *)
RouteToPatternsFirst(method, path) ==
    CASE <<method, path>> \in DOMAIN handlers_ -> Answer(handlers_[<<method, path>>], <<>>)
      [] <<method, path>> \notin DOMAIN handlers_ ->
            Search(regexHandlers_, method, path,
               IF <<method, path>> \in DOMAIN callbacks_
               THEN Answer(callbacks_[<<method, path>>], <<>>)
               ELSE Search(regexCallbacks_, method, path, Answer(NotFound, <<>>)))

(* route() *)
RouteTo(method, path) ==
    CASE <<method, path>> \in DOMAIN handlers_ -> Answer(handlers_[<<method, path>>], <<>>)
      [] /\ <<method, path>> \notin DOMAIN handlers_
         /\ <<method, path>> \in DOMAIN callbacks_ -> Answer(callbacks_[<<method, path>>], <<>>)
      [] OTHER ->
            Search(regexHandlers_, method, path,
               Search(regexCallbacks_, method, path, Answer(NotFound, <<>>)))

-----------------------------------------------------------------------------
(* The documents' words for it (prj_interview.md:504): exact handlers, then*)
(* exact callbacks, then dynamic handlers, then dynamic callbacks; of two  *)
(* exact ones the later registration, of two dynamic ones the earlier.     *)
Rank(i) == CHOOSE n \in 1..4 : Kinds[n] = registered[i].kind

Serves(i, method, path) ==
    LET route == registered[i].route IN
    /\ route.method = method
    /\ IF Rank(i) <= 2 THEN route.path = path ELSE Matches(route.path, path)

Precedes(i, j) ==
    \/ Rank(i) < Rank(j)
    \/ Rank(i) = Rank(j) /\ IF Rank(i) <= 2 THEN i >= j ELSE i <= j

Expected(method, path) ==
    LET serving == {i \in 1..Len(registered) : Serves(i, method, path)} IN
    IF serving = {} THEN Answer(NotFound, <<>>)
    ELSE LET best  == CHOOSE i \in serving : \A j \in serving : Precedes(i, j)
             route == registered[best].route IN
         Answer(route.target, IF Rank(best) <= 2 THEN <<>> ELSE Parameters(route.path, path))

(* Whatever was registered, in whatever order and however often, every     *)
(* request is routed to the target the documents promise, with the values  *)
(* of its path parameters, or not found if nothing serves it.              *)
RoutedAsDocumented ==
    \A method \in Methods, path \in Paths : RouteTo(method, path) = Expected(method, path)
=============================================================================
