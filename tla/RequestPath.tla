----------------------------- MODULE RequestPath ----------------------------
(***************************************************************************)
(* What happens to one request between the parser and the wire:            *)
(* HttpServer::onRequest and handleRequest, the middleware chain, the CORS *)
(* middleware and the fields of HttpResponse the client depends on         *)
(* (HttpServer.cpp, MiddlewareChain.cpp, CorsMiddleware.cpp).              *)
(*                                                                         *)
(* The client sends its requests one after the other on one connection.    *)
(* The router and the handler behind it are an outcome of the request: no  *)
(* route, an exception before anything is set, an answer that keeps the    *)
(* connection or one that closes it, whatever the client asked for.        *)
(***************************************************************************)
EXTENDS Naturals, Sequences, SequencesExt

CONSTANTS Origins,        \* origins of web pages
          Configs,        \* lists of allowed origins, Star is "*"
          Star, None,      \* None: no header, or not set
          MaxChain,       \* bound: middlewares added to the server
          MaxRequests     \* bound: requests on the connection

ASSUME PathAssumption ==
    /\ Star # None
    /\ {Star, None} \intersect Origins = {}
    /\ \A c \in Configs : c \in Seq(Origins \union {Star})
    /\ MaxChain \in Nat /\ MaxRequests \in Nat

VARIABLES chain,          \* middlewares_, in the order they were added
          allowedOrigins, \* config_.allowedOrigins of each; <<>> if not CORS
          open,           \* the server has not shut the connection down
          pc,             \* where the request is
          req,            \* the request
          next,           \* the loop variable of the chain
          resp,           \* onRequest's response
          inward,         \* middlewares whose before() has returned
          outward,        \* middlewares whose after() has run
          answers         \* what went onto the wire (history)

setup == <<chain, allowedOrigins>>
vars == <<setup, open, pc, req, next, resp, inward, outward, answers>>

Requests == [method : {"get", "options"}, origin : Origins \union {None},
             wantsClose : BOOLEAN,
             outcome : {"keeps", "closes", "throws", "unrouted"}]

Responses == [status : {"unknown", "200", "204", "400", "403", "404", "500"},
              close : BOOLEAN, length : BOOLEAN, body : BOOLEAN,
              allow : Origins \union {Star, None}]

(* HttpResponse(close) *)
NewResponse(close) ==
    [status |-> "unknown", close |-> close, length |-> FALSE, body |-> FALSE, allow |-> None]

(* What addMiddleware makes of any calls. *)
Chains == UNION {[1..n -> {"plain", "cors"}] : n \in 0..MaxChain}

(* What their constructors were given: every CORS middleware has its own.  *)
ConfigsOf(c) ==
    {a \in [DOMAIN c -> Configs \union {<<>>}] :
        \A m \in DOMAIN c : IF c[m] = "cors" THEN a[m] \in Configs ELSE a[m] = <<>>}

(* A new connection. *)
Connected ==
    /\ open = TRUE
    /\ pc = "await"
    /\ req = None
    /\ next = 1
    /\ resp = NewResponse(TRUE)
    /\ inward = <<>>
    /\ outward = <<>>
    /\ answers = <<>>

Init == chain \in Chains /\ allowedOrigins \in ConfigsOf(chain) /\ Connected

(* onRequest down to httpCallback_; the handler of OPTIONS has no route.   *)
OnRequest(r) ==
    /\ pc = "await"
    /\ open
    /\ Len(answers) < MaxRequests
    /\ r.method = "options" => r.outcome = "unrouted"
    /\ req' = r
    /\ resp' = NewResponse(r.wantsClose)
    /\ next' = 1
    /\ inward' = <<>>
    /\ outward' = <<>>
    /\ pc' = "before"
    /\ UNCHANGED <<setup, open, answers>>

-----------------------------------------------------------------------------
(* Of middleware m, as everything below. *)
IsOriginAllowed(m, origin) ==
    \/ allowedOrigins[m] = <<>>
    \/ Contains(allowedOrigins[m], Star)
    \/ Contains(allowedOrigins[m], origin)

(* handlePreflightRequest, on a response of its own *)
HandlePreflightRequest(m) ==
    IF IsOriginAllowed(m, req.origin)
    THEN [NewResponse(TRUE) EXCEPT !.status = "204", !.allow = req.origin]
    ELSE [NewResponse(TRUE) EXCEPT !.status = "403"]

IsPreflight(m) == chain[m] = "cors" /\ req.method = "options"

(* before() of the next middleware returns. *)
Before ==
    /\ pc = "before"
    /\ next <= Len(chain)
    /\ ~IsPreflight(next)
    /\ inward' = Append(inward, next)
    /\ next' = next + 1
    /\ UNCHANGED <<setup, open, pc, req, resp, outward, answers>>

(* before() throws the response; handleRequest catches it: *resp = res. *)
Preflight ==
    /\ pc = "before"
    /\ next <= Len(chain)
    /\ IsPreflight(next)
    /\ resp' = HandlePreflightRequest(next)
    /\ pc' = "send"
    /\ UNCHANGED <<setup, open, req, next, inward, outward, answers>>

(* Fault: the 404 leaves closeConnection_ alone. *)
HandledKeeping404 ==
    CASE req.outcome = "keeps" ->
            [resp EXCEPT !.status = "200", !.close = FALSE, !.length = TRUE, !.body = TRUE]
      [] req.outcome = "closes" ->
            [resp EXCEPT !.status = "400", !.close = TRUE, !.length = TRUE, !.body = TRUE]
      [] req.outcome = "throws" -> [resp EXCEPT !.status = "500", !.body = TRUE]
      [] req.outcome = "unrouted" -> [resp EXCEPT !.status = "404"]

(* What the routed handler, the 404 branch or the catch of std::exception  *)
(* leave in resp.                                                          *)
Handled ==
    CASE req.outcome = "keeps" ->
            [resp EXCEPT !.status = "200", !.close = FALSE, !.length = TRUE, !.body = TRUE]
      [] req.outcome = "closes" ->
            [resp EXCEPT !.status = "400", !.close = TRUE, !.length = TRUE, !.body = TRUE]
      [] req.outcome = "throws" -> [resp EXCEPT !.status = "500", !.body = TRUE]
      [] req.outcome = "unrouted" -> [resp EXCEPT !.status = "404", !.close = TRUE]

(* Fault: the way out starts where the way in started. *)
RouteThenForward ==
    /\ pc = "before"
    /\ next = Len(chain) + 1
    /\ resp' = Handled
    /\ pc' = IF req.outcome = "throws" THEN "send" ELSE "after"
    /\ next' = IF chain = <<>> THEN 0 ELSE 1
    /\ UNCHANGED <<setup, open, req, inward, outward, answers>>

(* Fault: a request without a route returns at once. *)
RouteReturnsOn404 ==
    /\ pc = "before"
    /\ next = Len(chain) + 1
    /\ resp' = Handled
    /\ pc' = IF req.outcome \in {"throws", "unrouted"} THEN "send" ELSE "after"
    /\ next' = Len(chain)
    /\ UNCHANGED <<setup, open, req, inward, outward, answers>>

(* router_.route; an exception skips the way out. *)
Route ==
    /\ pc = "before"
    /\ next = Len(chain) + 1
    /\ resp' = Handled
    /\ pc' = IF req.outcome = "throws" THEN "send" ELSE "after"
    /\ next' = Len(chain)
    /\ UNCHANGED <<setup, open, req, inward, outward, answers>>

(* CorsMiddleware::after *)
CorsAfter(m, r) ==
    IF allowedOrigins[m] = <<>> THEN r
    ELSE [r EXCEPT !.allow =
            IF Contains(allowedOrigins[m], Star) THEN Star ELSE Head(allowedOrigins[m])]

(* One turn of processAfter's reverse loop. *)
After ==
    /\ pc = "after"
    /\ next \in 1..Len(chain)
    /\ resp' = IF chain[next] = "cors" THEN CorsAfter(next, resp) ELSE resp
    /\ outward' = Append(outward, next)
    /\ next' = next - 1
    /\ UNCHANGED <<setup, open, pc, req, inward, answers>>

AfterEnds ==
    /\ pc = "after"
    /\ next \notin 1..Len(chain)
    /\ pc' = "send"
    /\ UNCHANGED <<setup, open, req, next, resp, inward, outward, answers>>

(* conn->send, and shutdown if closeConnection_ *)
Send ==
    /\ pc = "send"
    /\ answers' = Append(answers, [req |-> req, resp |-> resp, inward |-> inward,
                                   outward |-> outward])
    /\ open' = ~resp.close
    /\ pc' = "await"
    /\ UNCHANGED <<setup, req, next, resp, inward, outward>>

Next ==
    \/ \E r \in Requests : OnRequest(r)
    \/ Before
    \/ Preflight
    \/ Route
    \/ After
    \/ AfterEnds
    \/ Send

Spec == Init /\ [][Next]_vars

-----------------------------------------------------------------------------
Answers == Range(answers)
HasCors == Contains(chain, "cors")

(* The first CORS middleware, where preflights end. *)
IsGate(m) == chain[m] = "cors" /\ \A k \in 1..(m - 1) : chain[k] # "cors"

(* Types of the variables; no response is sent without a status. *)
TypeOK ==
    /\ pc \in {"await", "before", "after", "send"}
    /\ req \in Requests \union {None}
    /\ resp \in Responses
    /\ next \in 0..(Len(chain) + 1)
    /\ inward \in Seq(DOMAIN chain)
    /\ outward \in Seq(DOMAIN chain)
    /\ \A a \in Answers : a.resp \in Responses /\ a.resp.status # "unknown"

(* The onion (notes/route.md:922): a request that comes back from its      *)
(* handler has passed every middleware, and its response passes the same   *)
(* ones in the opposite order; one that a preflight stopped passes none on *)
(* the way out.                                                            *)
OnionOrder ==
    \A a \in Answers :
       /\ a.inward = [m \in 1..Len(a.inward) |-> m]
       /\ IF a.resp.status \in {"200", "400", "404"}
          THEN Len(a.inward) = Len(chain) /\ a.outward = Reverse(a.inward)
          ELSE a.outward = <<>>

(* A preflight ends at the first CORS middleware and never reaches the     *)
(* router, whatever stands before or behind it in the chain.               *)
PreflightStopsAtGate ==
    HasCors => \A a \in Answers :
       a.req.method = "options" <=> a.resp.status \in {"204", "403"}

(* A request goes through the chain as the notes say, whichever way it     *)
(* leaves it: the onion, cut short by a preflight or an exception.         *)
ChainOrder == OnionOrder /\ PreflightStopsAtGate

(* No response tells a browser that a page may read it, or may send the    *)
(* real request, unless the gate allows that page's origin, whatever the   *)
(* CORS middlewares behind it allow.                                       *)
NoForeignOrigin ==
    \A a \in Answers :
       a.resp.allow \in Origins =>
          \E m \in DOMAIN chain : IsGate(m) /\ IsOriginAllowed(m, a.resp.allow)

(* If the gate allows one origin, or "*", every page whose preflight passes*)
(* it can also read the real response, refusals and 404s included, unless  *)
(* the handler threw.                                                      *)
AllowedPageCanRead ==
    \A m \in DOMAIN chain, a \in Answers :
       /\ IsGate(m) /\ Len(allowedOrigins[m]) = 1
       /\ a.req.origin # None /\ a.resp.status # "500"
       /\ allowedOrigins[m][1] \in {Star, a.req.origin}
       => a.resp.allow \in {Star, a.req.origin}

(* The pages that may read a response are those the gate allows: no other, *)
(* and with one allowed origin all of them, though before() and after()    *)
(* decide it apart, and every CORS middleware of the chain has its say.    *)
CrossOrigin == NoForeignOrigin /\ AllowedPageCanRead

(* A client that keeps the connection always finds the end of a response:  *)
(* unless the server shuts the connection down after it, it states its     *)
(* length.  A 500 does neither if the client did not ask to close.         *)
KeptOpenIsDelimited ==
    \A i \in DOMAIN answers :
       /\ open \/ i < Len(answers)
       /\ answers[i].resp.status # "500"
       => answers[i].resp.length
=============================================================================
