------------------------------ MODULE Dispatch ------------------------------
(***************************************************************************)
(* RequestPath and RouteTable together: an HttpServer whose application    *)
(* fills the router and the chain in its constructor and then starts it    *)
(* (ChatServer.cpp:32-39 and 99-146).  Once the server runs, neither       *)
(* changes, and whether a request has a route is what the tables say.      *)
(*                                                                         *)
(* addMiddleware touches the chain and the registrations touch the router, *)
(* so they commute: the whole chain is added in the step that starts the   *)
(* server.                                                                 *)
(***************************************************************************)
EXTENDS RequestPath, RouteTable

CONSTANT StartedWith      \* bound: logs of registrations servers start with

ASSUME DispatchAssumption == \A log \in StartedWith : Len(log) <= MaxRegistrations

VARIABLE started          \* HttpServer::start has been called

dispatchVars == <<vars, routing, started>>

DispatchInit ==
    /\ NoRoutes
    /\ Connected
    /\ chain = <<>>
    /\ allowedOrigins = <<>>
    /\ started = FALSE

(* initializeRouter: one more route. *)
AddRoute ==
    /\ ~started
    /\ Register
    /\ UNCHANGED <<vars, started>>

(* The constructor is done; start() *)
Start ==
    /\ ~started
    /\ registered \in StartedWith
    /\ chain' \in Chains
    /\ allowedOrigins' \in ConfigsOf(chain')
    /\ started' = TRUE
    /\ UNCHANGED <<routing, open, pc, req, next, resp, inward, outward, answers>>

(* A request for path, "get" being any method but OPTIONS: it has no route *)
(* exactly if route() finds none.                                          *)
Arrive(method, path, r) ==
    /\ started
    /\ r.method = "get" =>
          (r.outcome = "unrouted" <=> RouteTo(method, path).target = NotFound)
    /\ OnRequest(r)
    /\ UNCHANGED <<routing, started>>

(* The rest of the request's way, in RequestPath. *)
Serve ==
    /\ started
    /\ Before \/ Preflight \/ Route \/ After \/ AfterEnds \/ Send
    /\ UNCHANGED <<routing, started>>

DispatchNext ==
    \/ AddRoute
    \/ Start
    \/ \E method \in Methods, path \in Paths, r \in Requests : Arrive(method, path, r)
    \/ Serve

DispatchSpec == DispatchInit /\ [][DispatchNext]_dispatchVars
=============================================================================
