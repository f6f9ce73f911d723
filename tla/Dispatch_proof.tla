---------------------------- MODULE Dispatch_proof --------------------------
(***************************************************************************)
(* Proofs about RequestPath, for a chain of any length, any configuration  *)
(* of origins and any number of requests: the onion, the preflight, and    *)
(* what CORS headers and connection lengths a client can rely on; and      *)
(* about Dispatch, for any registrations: the same of a server whose       *)
(* application fills router and chain before it starts, and the target     *)
(* the router finds.                                                       *)
(***************************************************************************)
EXTENDS Dispatch, SequenceTheorems, WellFoundedInduction, TLAPS

(* What middleware m names on the way out, if it is a CORS middleware with *)
(* a configuration, and the first CORS middleware from n on.               *)
Named(m) == IF Contains(allowedOrigins[m], Star) THEN Star ELSE Head(allowedOrigins[m])
FirstFrom(n, m) ==
    m \in n..Len(chain) /\ chain[m] = "cors" /\ \A k \in n..(m - 1) : chain[k] # "cors"

(* What makes an answer right, one property at a time. *)
OnionGood(a) ==
    /\ a.inward = [m \in 1..Len(a.inward) |-> m]
    /\ IF a.resp.status \in {"200", "400", "404"}
       THEN Len(a.inward) = Len(chain) /\ a.outward = Reverse(a.inward)
       ELSE a.outward = <<>>

PreflightGood(a) ==
    HasCors => (a.req.method = "options" <=> a.resp.status \in {"204", "403"})

OriginGood(a) ==
    a.resp.allow \in Origins =>
       \E m \in DOMAIN chain : FirstFrom(1, m) /\ IsOriginAllowed(m, a.resp.allow)

ReadableGood(a) ==
    \A m \in DOMAIN chain :
       /\ FirstFrom(1, m) /\ Len(allowedOrigins[m]) = 1
       /\ a.req.origin # None /\ a.resp.status # "500"
       /\ allowedOrigins[m][1] \in {Star, a.req.origin}
       => a.resp.allow \in {Star, a.req.origin}

EndGood(a) == a.resp.status # "500" /\ ~a.resp.length => a.resp.close

Good(a) ==
    /\ a.resp \in Responses /\ a.resp.status # "unknown"
    /\ OnionGood(a)
    /\ PreflightGood(a)
    /\ OriginGood(a)
    /\ ReadableGood(a)
    /\ EndGood(a)

(* The answer Send would put on the wire now. *)
Pending == [req |-> req, resp |-> resp, inward |-> inward, outward |-> outward]

Passed == [m \in 1..Len(chain) |-> m]

TypeInv ==
    /\ chain \in Seq({"plain", "cors"})
    /\ allowedOrigins \in [DOMAIN chain -> Seq(Origins \union {Star})]
    /\ open \in BOOLEAN
    /\ pc \in {"await", "before", "after", "send"}
    /\ req \in Requests \union {None}
    /\ pc # "await" => req \in Requests
    /\ resp \in Responses
    /\ next \in 0..(Len(chain) + 1)
    /\ pc = "before" => next >= 1
    /\ inward \in Seq(DOMAIN chain)
    /\ outward \in Seq(DOMAIN chain)
    /\ answers \in Seq([req : Requests, resp : Responses,
                        inward : Seq(DOMAIN chain), outward : Seq(DOMAIN chain)])

(* Where a request is determines what it has passed and what its response  *)
(* has so far; a request is taken only while the connection is open.       *)
PathInv ==
    /\ pc = "before" =>
          /\ inward = [m \in 1..(next - 1) |-> m]
          /\ outward = <<>>
          /\ resp = NewResponse(req.wantsClose)
          /\ \A m \in 1..(next - 1) : ~IsPreflight(m)
    /\ pc = "after" =>
          /\ next <= Len(chain)
          /\ inward = Passed
          /\ outward = [i \in 1..(Len(chain) - next) |-> Len(chain) + 1 - i]
          /\ resp.status \in {"200", "400", "404"}
          /\ \A m \in 1..Len(chain) : ~IsPreflight(m)
          /\ resp.allow \in Origins => \E m \in DOMAIN chain : FirstFrom(next + 1, m)
          /\ \A m \in DOMAIN chain :
                FirstFrom(next + 1, m) /\ allowedOrigins[m] # <<>> => resp.allow = Named(m)
          /\ EndGood(Pending)
    /\ pc = "send" => Good(Pending)
    /\ pc # "await" => open
    /\ open => \A i \in 1..Len(answers) : ~answers[i].resp.close
    /\ \A i \in 1..Len(answers) :
          /\ Good(answers[i])
          /\ i < Len(answers) => ~answers[i].resp.close

(* A new connection, whatever the server has been given so far. *)
LEMMA ConnectedTypes ==
  ASSUME Connected, chain \in Seq({"plain", "cors"}),
         allowedOrigins \in [DOMAIN chain -> Seq(Origins \union {Star})]
  PROVE  TypeInv
  <1>1. resp \in Responses
    BY DEF Connected, NewResponse, Responses
  <1>2. next \in 0..(Len(chain) + 1) /\ next >= 1
    BY LenProperties DEF Connected
  <1> QED
    BY <1>1, <1>2, EmptySeq DEF Connected, TypeInv

LEMMA SetupTypes ==
  ASSUME NEW c \in Chains, NEW a \in ConfigsOf(c)
  PROVE  c \in Seq({"plain", "cors"}) /\ a \in [DOMAIN c -> Seq(Origins \union {Star})]
  <1>1. PICK n \in 0..MaxChain : c \in [1..n -> {"plain", "cors"}]
    BY DEF Chains
  <1>2. <<>> \in Seq(Origins \union {Star})
    OBVIOUS
  <1>3. c \in Seq({"plain", "cors"})
    BY <1>1, PathAssumption
  <1>4. a \in [DOMAIN c -> Configs \union {<<>>}]
    BY DEF ConfigsOf
  <1>5. Configs \union {<<>>} \subseteq Seq(Origins \union {Star})
    BY <1>2, PathAssumption
  <1> QED
    BY <1>3, <1>4, <1>5

LEMMA TypeInvInit == Init => TypeInv
  BY ConnectedTypes, SetupTypes DEF Init

LEMMA TypeInvNext == TypeInv /\ [Next]_vars => TypeInv'
  <1> SUFFICES ASSUME TypeInv, [Next]_vars PROVE TypeInv'
    OBVIOUS
  <1> USE DEF TypeInv, setup
  <1>1. ASSUME NEW r \in Requests, OnRequest(r) PROVE TypeInv'
    BY <1>1 DEF OnRequest, NewResponse, Responses, Requests
  <1>2. CASE Before
    <2>1. next \in DOMAIN chain
      BY <1>2, LenProperties DEF Before
    <2>2. next' \in 0..(Len(chain) + 1) /\ next' >= 1
      BY <1>2, LenProperties DEF Before
    <2> QED
      BY <1>2, <2>1, <2>2 DEF Before
  <1>3. CASE Preflight
    <2>1. HandlePreflightRequest(next) \in Responses
      BY <1>3 DEF Preflight, HandlePreflightRequest, NewResponse, Responses, Requests
    <2> QED
      BY <1>3, <2>1 DEF Preflight
  <1>4. CASE Route
    <2>1. Handled \in Responses
      BY <1>4 DEF Route, Handled, Responses, Requests
    <2> QED
      BY <1>4, <2>1 DEF Route
  <1>5. CASE After
    <2>1. next \in DOMAIN chain
      BY <1>5, LenProperties DEF After
    <2>2. CorsAfter(next, resp) \in Responses
      <3>1. allowedOrigins[next] # <<>> => Head(allowedOrigins[next]) \in Origins \union {Star}
        BY <2>1
      <3> QED
        BY <3>1 DEF CorsAfter, Responses
    <2> QED
      BY <1>5, <2>1, <2>2 DEF After
  <1>6. CASE AfterEnds
    BY <1>6 DEF AfterEnds
  <1>7. CASE Send
    BY <1>7 DEF Send
  <1>8. CASE UNCHANGED vars
    BY <1>8 DEF vars
  <1> QED
    BY <1>1, <1>2, <1>3, <1>4, <1>5, <1>6, <1>7, <1>8 DEF Next

-----------------------------------------------------------------------------
(* Handled and CorsAfter leave what the client depends on in order.        *)
LEMMA HandledGood ==
  ASSUME TypeInv, req \in Requests, resp = NewResponse(req.wantsClose)
  PROVE  /\ Handled.status = IF req.outcome = "keeps" THEN "200"
                             ELSE IF req.outcome = "closes" THEN "400"
                             ELSE IF req.outcome = "throws" THEN "500" ELSE "404"
         /\ Handled.allow = None
         /\ Handled.length \/ Handled.close \/ Handled.status = "500"
         /\ Handled \in Responses
  BY DEF Handled, NewResponse, Requests, Responses

LEMMA CorsAfterKeeps ==
  ASSUME TypeInv, NEW m \in DOMAIN chain
  PROVE  /\ CorsAfter(m, resp) \in Responses
         /\ CorsAfter(m, resp).status = resp.status
         /\ CorsAfter(m, resp).length = resp.length
         /\ CorsAfter(m, resp).close = resp.close
         /\ allowedOrigins[m] # <<>> => CorsAfter(m, resp).allow = Named(m)
  <1>1. allowedOrigins[m] # <<>> => Head(allowedOrigins[m]) \in Origins \union {Star}
    BY DEF TypeInv
  <1> QED
    BY <1>1 DEF TypeInv, CorsAfter, Responses, Named

LEMMA PreflightAnswerGood ==
  ASSUME TypeInv, PathInv, Preflight
  PROVE  Good(Pending)'
  <1>1. /\ req \in Requests /\ req.method = "options" /\ HasCors
        /\ resp' = HandlePreflightRequest(next)
        /\ UNCHANGED <<setup, req, inward, outward>>
        /\ next \in DOMAIN chain /\ FirstFrom(1, next)
    BY LenProperties DEF Preflight, PathInv, IsPreflight, TypeInv, HasCors, Contains, FirstFrom
  <1>2. /\ inward = [m \in 1..Len(inward) |-> m]
        /\ outward = <<>>
    <2>1. inward = [m \in 1..(next - 1) |-> m] /\ outward = <<>> /\ next \in Nat
      BY LenProperties DEF Preflight, PathInv, TypeInv
    <2>2. Len(inward) = next - 1
      BY <2>1, LenProperties DEF TypeInv, Preflight
    <2> QED
      BY <2>1, <2>2
  <1>3. /\ resp'.status \in {"204", "403"}
        /\ resp' \in Responses
        /\ resp'.close
        /\ resp'.status = "204" => IsOriginAllowed(next, req.origin) /\ resp'.allow = req.origin
        /\ resp'.status = "403" => ~IsOriginAllowed(next, req.origin) /\ resp'.allow = None
    BY <1>1 DEF HandlePreflightRequest, NewResponse, Responses, Requests
  <1>4. OnionGood(Pending)'
    BY <1>1, <1>2, <1>3 DEF OnionGood, Pending
  <1>5. PreflightGood(Pending)'
    BY <1>1, <1>3 DEF PreflightGood, Pending
  <1>6. OriginGood(Pending)'
    BY <1>1, <1>3, PathAssumption DEF OriginGood, Pending, IsOriginAllowed, FirstFrom, setup
  <1>7. ReadableGood(Pending)'
    <2>1. Len(allowedOrigins[next]) = 1 /\ allowedOrigins[next][1] \in {Star, req.origin}
             => IsOriginAllowed(next, req.origin)
      BY DEF IsOriginAllowed, Contains
    <2>2. \A m : FirstFrom(1, m) => m = next
      BY <1>1, LenProperties DEF FirstFrom, TypeInv
    <2> QED
      BY <1>1, <1>3, <2>1, <2>2 DEF ReadableGood, Pending, FirstFrom, setup
  <1>8. EndGood(Pending)'
    BY <1>1, <1>3 DEF EndGood, Pending
  <1> QED
    BY <1>3, <1>4, <1>5, <1>6, <1>7, <1>8 DEF Good, Pending

(* The catch of std::exception: no way out, and no promises but the type.  *)
LEMMA ThrownAnswerGood ==
  ASSUME TypeInv, PathInv, Route, req.outcome = "throws"
  PROVE  Good(Pending)'
  <1>1. /\ req \in Requests /\ resp' = Handled
        /\ resp = NewResponse(req.wantsClose)
        /\ UNCHANGED <<setup, req, inward, outward>>
        /\ next = Len(chain) + 1
    BY DEF Route, TypeInv, PathInv
  <1>2. resp'.status = "500" /\ resp'.allow = None /\ resp' \in Responses
    BY <1>1, HandledGood
  <1>3. inward = Passed /\ Len(inward) = Len(chain) /\ outward = <<>>
    <2>1. inward = Passed /\ outward = <<>> /\ Len(chain) \in Nat
      BY <1>1, LenProperties DEF PathInv, Passed, Route, TypeInv
    <2> QED
      BY <2>1, LenProperties DEF Passed, TypeInv
  <1>4. HasCors => req.method # "options"
    BY <1>1 DEF HasCors, Contains, IsPreflight, Route, PathInv, TypeInv
  <1>5. OnionGood(Pending)'
    BY <1>1, <1>2, <1>3 DEF OnionGood, Pending, Passed
  <1>6. PreflightGood(Pending)'
    BY <1>1, <1>2, <1>4 DEF PreflightGood, Pending, HasCors, setup
  <1>7. OriginGood(Pending)'
    BY <1>2, PathAssumption DEF OriginGood, Pending
  <1>8. ReadableGood(Pending)' /\ EndGood(Pending)'
    BY <1>2 DEF ReadableGood, EndGood, Pending
  <1> QED
    BY <1>2, <1>5, <1>6, <1>7, <1>8 DEF Good, Pending

(* An answer that has come all the way back. *)
LEMMA ReturnedAnswerGood ==
  ASSUME TypeInv, PathInv, AfterEnds
  PROVE  Good(Pending)'
  <1>1. /\ req \in Requests /\ next = 0 /\ Len(chain) \in Nat
        /\ UNCHANGED <<setup, req, resp, inward, outward>>
        /\ resp.status \in {"200", "400", "404"} /\ resp \in Responses
        /\ inward = Passed
        /\ outward = [i \in 1..Len(chain) |-> Len(chain) + 1 - i]
        /\ \A m \in 1..Len(chain) : ~IsPreflight(m)
        /\ resp.allow \in Origins => \E m \in DOMAIN chain : FirstFrom(1, m)
        /\ \A m \in DOMAIN chain :
              FirstFrom(1, m) /\ allowedOrigins[m] # <<>> => resp.allow = Named(m)
        /\ EndGood(Pending)
    BY LenProperties DEF AfterEnds, TypeInv, PathInv
  <1>2. OnionGood(Pending)'
    <2>1. Len(inward) = Len(chain)
      BY <1>1, LenProperties DEF Passed, TypeInv
    <2>2. Reverse(inward) = outward
      BY <1>1, <2>1 DEF Reverse, Passed
    <2> QED
      BY <1>1, <2>1, <2>2 DEF OnionGood, Pending, Passed, setup
  <1>3. PreflightGood(Pending)'
    BY <1>1 DEF PreflightGood, Pending, HasCors, Contains, IsPreflight, setup
  <1>4. OriginGood(Pending)'
    <2> SUFFICES ASSUME resp.allow \in Origins
                 PROVE  \E m \in DOMAIN chain : FirstFrom(1, m) /\ IsOriginAllowed(m, resp.allow)
      BY <1>1 DEF OriginGood, Pending, setup, FirstFrom, IsOriginAllowed
    <2>1. PICK m \in DOMAIN chain : FirstFrom(1, m)
      BY <1>1
    <2>2. CASE allowedOrigins[m] # <<>>
      <3>1. resp.allow = Head(allowedOrigins[m])
        BY <1>1, <2>1, <2>2, PathAssumption DEF Named
      <3>2. /\ Len(allowedOrigins[m]) \in Nat /\ Len(allowedOrigins[m]) >= 1
            /\ Head(allowedOrigins[m]) = allowedOrigins[m][1]
        BY <2>2, EmptySeq DEF TypeInv
      <3> QED
        BY <2>1, <3>1, <3>2 DEF IsOriginAllowed, Contains
    <2> QED
      BY <2>1, <2>2 DEF IsOriginAllowed
  <1>5. ReadableGood(Pending)'
    <2> SUFFICES ASSUME NEW m \in DOMAIN chain, FirstFrom(1, m), Len(allowedOrigins[m]) = 1,
                        allowedOrigins[m][1] \in {Star, req.origin}
                 PROVE  resp.allow \in {Star, req.origin}
      BY <1>1 DEF ReadableGood, Pending, setup, FirstFrom
    <2>1. Len(<<>>) # 1
      OBVIOUS
    <2>2. allowedOrigins[m] # <<>>
      BY <2>1
    <2>3. Head(allowedOrigins[m]) = allowedOrigins[m][1]
      BY <2>2 DEF TypeInv
    <2> QED
      BY <1>1, <2>2, <2>3 DEF Named
  <1>6. EndGood(Pending)'
    BY <1>1 DEF EndGood, Pending
  <1> QED
    BY <1>1, <1>2, <1>3, <1>4, <1>5, <1>6 DEF Good, Pending

(* The turns of the two loops. *)
LEMMA RouteInward ==
  ASSUME TypeInv, PathInv, Route, req.outcome # "throws"
  PROVE  PathInv'
  <1>1. /\ req \in Requests /\ resp' = Handled
        /\ resp = NewResponse(req.wantsClose)
        /\ UNCHANGED <<setup, open, req, inward, outward, answers>>
        /\ pc' = "after" /\ next' = Len(chain) /\ Len(chain) \in Nat
        /\ inward = Passed /\ outward = <<>>
        /\ \A m \in 1..Len(chain) : ~IsPreflight(m)
        /\ open
    BY LenProperties DEF Route, TypeInv, PathInv, Passed
  <1>2. /\ Handled.status \in {"200", "400", "404"}
        /\ Handled.allow = None
        /\ Handled.length \/ Handled.close
    BY <1>1, HandledGood DEF Requests
  <1>3. outward' = [i \in 1..(Len(chain') - next') |-> Len(chain') + 1 - i]
    BY <1>1 DEF setup
  <1>4. EndGood(Pending)'
    BY <1>1, <1>2 DEF EndGood, Pending
  <1>5. resp'.allow \notin Origins /\ \A m \in DOMAIN chain' : ~FirstFrom(next + 1, m)'
    <2>1. \A m : m \notin (Len(chain) + 1)..Len(chain)
      BY <1>1
    <2> QED
      BY <1>1, <1>2, <2>1, PathAssumption DEF FirstFrom, setup
  <1>6. (\A i \in 1..Len(answers) : Good(answers[i]))'
    BY <1>1 DEF PathInv, Good, OnionGood, PreflightGood, OriginGood, ReadableGood, EndGood,
       HasCors, FirstFrom, IsOriginAllowed, setup
  <1> QED
    BY <1>1, <1>2, <1>3, <1>4, <1>5, <1>6 DEF PathInv, IsPreflight, Passed, setup

LEMMA AfterOutward ==
  ASSUME TypeInv, PathInv, After
  PROVE  PathInv'
  <1>1. /\ req \in Requests /\ Len(chain) \in Nat
        /\ next \in 1..Len(chain) /\ next' = next - 1
        /\ UNCHANGED <<setup, open, pc, req, inward, answers>>
        /\ resp' = IF chain[next] = "cors" THEN CorsAfter(next, resp) ELSE resp
        /\ outward' = Append(outward, next)
        /\ pc = "after" /\ open
    BY LenProperties DEF After, TypeInv, PathInv
  <1>2. /\ resp'.status = resp.status /\ resp'.length = resp.length /\ resp'.close = resp.close
    BY <1>1, CorsAfterKeeps, LenProperties DEF TypeInv
  <1>3. outward' = [i \in 1..(Len(chain) - next') |-> Len(chain) + 1 - i]
    <2>1. /\ outward = [i \in 1..(Len(chain) - next) |-> Len(chain) + 1 - i]
          /\ Len(outward) = Len(chain) - next
      BY <1>1, LenProperties DEF PathInv, TypeInv
    <2> QED
      BY <1>1, <2>1 DEF TypeInv
  <1>4. resp'.allow \in Origins => \E m \in DOMAIN chain : FirstFrom(next, m)
    <2>1. CASE chain[next] = "cors"
      <3>1. next \in DOMAIN chain /\ next \in next..Len(chain)
        BY <1>1, LenProperties DEF TypeInv
      <3>2. FirstFrom(next, next)
        BY <1>1, <2>1, <3>1 DEF FirstFrom
      <3> QED
        BY <3>1, <3>2
    <2>2. CASE chain[next] # "cors"
      <3>1. ASSUME NEW m \in DOMAIN chain, FirstFrom(next + 1, m) PROVE FirstFrom(next, m)
        BY <1>1, <2>2, <3>1 DEF FirstFrom
      <3> QED
        BY <1>1, <2>2, <3>1 DEF PathInv
    <2> QED
      BY <2>1, <2>2
  <1>5. \A m \in DOMAIN chain :
           FirstFrom(next, m) /\ allowedOrigins[m] # <<>> => resp'.allow = Named(m)
    <2> SUFFICES ASSUME NEW m \in DOMAIN chain, FirstFrom(next, m), allowedOrigins[m] # <<>>
                 PROVE  resp'.allow = Named(m)
      OBVIOUS
    <2>1. CASE m = next
      BY <1>1, <2>1, CorsAfterKeeps DEF FirstFrom
    <2>2. CASE m # next
      <3>1. chain[next] # "cors" /\ FirstFrom(next + 1, m)
        BY <1>1, <2>2 DEF FirstFrom
      <3> QED
        BY <1>1, <3>1 DEF PathInv
    <2> QED
      BY <2>1, <2>2
  <1>6. EndGood(Pending)'
    BY <1>1, <1>2 DEF EndGood, Pending, PathInv
  <1>7. (\A i \in 1..Len(answers) : Good(answers[i]))'
    BY <1>1 DEF PathInv, Good, OnionGood, PreflightGood, OriginGood, ReadableGood, EndGood,
       HasCors, FirstFrom, IsOriginAllowed, setup
  <1> QED
    BY <1>1, <1>2, <1>3, <1>4, <1>5, <1>6, <1>7 DEF PathInv, IsPreflight, Passed, FirstFrom, Named, setup

LEMMA SendAnswer ==
  ASSUME TypeInv, PathInv, Send
  PROVE  PathInv'
  <1>1. /\ answers' = Append(answers, Pending)
        /\ UNCHANGED setup
        /\ open' = ~resp.close /\ pc' = "await"
        /\ Good(Pending) /\ open
    BY DEF Send, Pending, PathInv
  <1>2. /\ Len(answers) \in Nat /\ Len(answers') = Len(answers) + 1
        /\ \A i \in 1..Len(answers) : answers'[i] = answers[i]
        /\ answers'[Len(answers) + 1] = Pending
    <2>1. answers \in Seq([req : Requests, resp : Responses,
                           inward : Seq(DOMAIN chain), outward : Seq(DOMAIN chain)])
      BY DEF TypeInv
    <2>2. Pending \in [req : Requests, resp : Responses,
                       inward : Seq(DOMAIN chain), outward : Seq(DOMAIN chain)]
      BY DEF TypeInv, Pending, Send
    <2> QED
      BY <1>1, <2>1, <2>2, LenProperties, AppendProperties
  <1>3. ASSUME NEW i \in 1..Len(answers')
        PROVE  /\ Good(answers'[i])
               /\ i < Len(answers') => ~answers'[i].resp.close
               /\ i = Len(answers') => answers'[i].resp = resp
    BY <1>1, <1>2 DEF PathInv, Pending
  <1>4. ASSUME NEW i \in 1..Len(answers') PROVE Good(answers[i])' 
    BY <1>1, <1>3 DEF Good, OnionGood, PreflightGood, OriginGood, ReadableGood, EndGood,
       HasCors, FirstFrom, IsOriginAllowed, setup
  <1>5. open' => \A i \in 1..Len(answers') : ~answers'[i].resp.close
    <2>1. \A i \in 1..Len(answers') : i < Len(answers') \/ i = Len(answers')
      BY <1>2
    <2>2. open' => ~resp.close
      BY <1>1
    <2> QED
      BY <1>3, <2>1, <2>2
  <1> QED
    BY <1>1, <1>3, <1>4, <1>5 DEF PathInv

LEMMA ConnectedPath == Connected => PathInv
  BY DEF Connected, PathInv

LEMMA PathInvInit == Init => PathInv
  BY ConnectedPath DEF Init

LEMMA PathInvNext == TypeInv /\ PathInv /\ [Next]_vars => PathInv'
  <1> SUFFICES ASSUME TypeInv, PathInv, [Next]_vars PROVE PathInv'
    OBVIOUS
  <1>a. ASSUME UNCHANGED <<setup, answers>>
        PROVE  (\A i \in 1..Len(answers) : Good(answers[i]))'
    BY <1>a DEF PathInv, Good, OnionGood, PreflightGood, OriginGood, ReadableGood, EndGood,
       HasCors, FirstFrom, IsOriginAllowed, setup
  <1>1. ASSUME NEW r \in Requests, OnRequest(r) PROVE PathInv'
    <2>1. inward' = [m \in 1..(next' - 1) |-> m]
      BY <1>1 DEF OnRequest
    <2> QED
      BY <1>1, <1>a, <2>1 DEF OnRequest, PathInv
  <1>2. CASE Before
    <2>1. /\ inward = [m \in 1..(next - 1) |-> m] /\ next \in Nat /\ next >= 1
          /\ next' = next + 1
          /\ Len(inward) = next - 1
      BY <1>2, LenProperties DEF Before, PathInv, TypeInv
    <2>2. inward' = [m \in 1..(next' - 1) |-> m]
      BY <1>2, <2>1 DEF Before, TypeInv
    <2>3. \A m \in 1..(next' - 1) : ~IsPreflight(m)'
      BY <1>2, <2>1 DEF Before, PathInv, IsPreflight, setup
    <2> QED
      BY <1>2, <1>a, <2>1, <2>2, <2>3 DEF Before, PathInv
  <1>3. CASE Preflight
    BY <1>3, <1>a, PreflightAnswerGood DEF Preflight, PathInv
  <1>4. CASE Route
    <2>1. CASE req.outcome = "throws"
      BY <1>4, <1>a, <2>1, ThrownAnswerGood DEF Route, PathInv
    <2> QED
      BY <1>4, <2>1, RouteInward
  <1>5. CASE After
    BY <1>5, AfterOutward
  <1>6. CASE AfterEnds
    BY <1>6, <1>a, ReturnedAnswerGood DEF AfterEnds, PathInv
  <1>7. CASE Send
    BY <1>7, SendAnswer
  <1>8. CASE UNCHANGED vars
    BY <1>8, <1>a DEF vars, setup, PathInv, Passed, IsPreflight, FirstFrom, Named, IsOriginAllowed,
       Pending, Good, OnionGood, PreflightGood, OriginGood, ReadableGood, EndGood, HasCors
  <1> QED
    BY <1>1, <1>2, <1>3, <1>4, <1>5, <1>6, <1>7, <1>8 DEF Next

LEMMA AnswersGood ==
  ASSUME TypeInv, PathInv
  PROVE  /\ \A a \in Answers : Good(a)
         /\ Answers = {answers[i] : i \in 1..Len(answers)}
  <1>1. DOMAIN answers = 1..Len(answers)
    BY LenProperties DEF TypeInv
  <1>2. Answers = {answers[i] : i \in 1..Len(answers)}
    BY <1>1 DEF Answers, Range
  <1> QED
    BY <1>2 DEF PathInv

(* Types, and that no response is sent without a status. *)
THEOREM TypeCorrect == Spec => []TypeOK
  <1>1. TypeInv /\ PathInv => TypeOK
    BY AnswersGood DEF TypeInv, TypeOK, Good
  <1> QED
    BY <1>1, TypeInvInit, TypeInvNext, PathInvInit, PathInvNext, PTL DEF Spec

(* The invariants make the answers right. *)
LEMMA ChainOrderHolds == TypeInv /\ PathInv => ChainOrder
  <1>1. TypeInv /\ PathInv => OnionOrder
    BY AnswersGood DEF OnionOrder, Good, OnionGood
  <1>2. TypeInv /\ PathInv => PreflightStopsAtGate
    BY AnswersGood DEF PreflightStopsAtGate, Good, PreflightGood
  <1> QED
    BY <1>1, <1>2 DEF ChainOrder

LEMMA CrossOriginHolds == TypeInv /\ PathInv => CrossOrigin
  <1>g. TypeInv => \A m \in DOMAIN chain : FirstFrom(1, m) <=> IsGate(m)
    BY LenProperties DEF TypeInv, FirstFrom, IsGate
  <1>1. TypeInv /\ PathInv => NoForeignOrigin
    BY AnswersGood, <1>g DEF NoForeignOrigin, Good, OriginGood
  <1>2. TypeInv /\ PathInv => AllowedPageCanRead
    BY AnswersGood, <1>g DEF AllowedPageCanRead, Good, ReadableGood
  <1> QED
    BY <1>1, <1>2 DEF CrossOrigin

LEMMA DelimitedHolds == TypeInv /\ PathInv => KeptOpenIsDelimited
  <1> SUFFICES ASSUME TypeInv, PathInv PROVE KeptOpenIsDelimited
    OBVIOUS
  <1>1. DOMAIN answers = 1..Len(answers) /\ Len(answers) \in Nat
    BY LenProperties DEF TypeInv
  <1> QED
    BY <1>1 DEF KeptOpenIsDelimited, PathInv, Good, EndGood

(* The onion for a chain of any length, and the preflight that ends at the *)
(* first CORS middleware, wherever it stands.                              *)
THEOREM ChainOrderTheorem == Spec => []ChainOrder
  BY ChainOrderHolds, TypeInvInit, TypeInvNext, PathInvInit, PathInvNext, PTL DEF Spec

(* No response names an origin that the configuration does not allow, and  *)
(* with one allowed origin an allowed page can read every response but one *)
(* to a request whose handler threw.                                       *)
THEOREM CrossOriginTheorem == Spec => []CrossOrigin
  BY CrossOriginHolds, TypeInvInit, TypeInvNext, PathInvInit, PathInvNext, PTL DEF Spec

(* A response that neither states its length nor closes the connection is  *)
(* the 500 of a thrown exception.                                          *)
THEOREM DelimitedTheorem == Spec => []KeptOpenIsDelimited
  BY DelimitedHolds, TypeInvInit, TypeInvNext, PathInvInit, PathInvNext, PTL DEF Spec

-----------------------------------------------------------------------------
(* The least and the greatest of some naturals.  The library's induction   *)
(* theorems take an operator; WFMin takes a set.                           *)
LEMMA Least ==
  ASSUME NEW T \in SUBSET Nat, T # {}
  PROVE  \E x \in T : \A y \in T : x <= y
  <1> DEFINE R == OpToRel(<, Nat)
  <1>1. IsWellFoundedOn(R, Nat)
    BY NatLessThanWellFounded
  <1>2. PICK x \in T : \A y \in T : ~ (<<y, x>> \in R)
    <2> HIDE DEF R
    <2> QED
      BY <1>1, WFMin
  <1>3. \A y \in T : ~ (y < x)
    BY <1>2 DEF OpToRel
  <1> QED
    BY <1>3

LEMMA Greatest ==
  ASSUME NEW n \in Nat, NEW T \in SUBSET (0..n), T # {}
  PROVE  \E x \in T : \A y \in T : y <= x
  <1> DEFINE U == {n - t : t \in T}
  <1>1. U \in SUBSET Nat /\ U # {}
    <2>1. PICK t \in T : TRUE
      OBVIOUS
    <2>2. n - t \in U
      BY <2>1
    <2> QED
      BY <2>2
  <1>2. PICK u \in U : \A v \in U : u <= v
    <2> HIDE DEF U
    <2> QED
      BY <1>1, Least
  <1>3. PICK x \in T : u = n - x
    BY <1>2
  <1>4. ASSUME NEW y \in T PROVE y <= x
    <2>1. n - x <= n - y
      BY <1>2, <1>3
    <2> QED
      BY <2>1
  <1> QED
    BY <1>3, <1>4

-----------------------------------------------------------------------------
(* The tables of the router as what the log of registrations says of them: *)
(* an exact table holds the last registration of each key, a vector of     *)
(* routes those of its kind in the order in which they were made.          *)
Entries == [kind : {"handler", "callback", "regexHandler", "regexCallback"}, route : Routes]

IsOf(entry, kind, key) == entry.kind = kind /\ Key(entry.route) = key

HoldsLast(log, table, kind) ==
    /\ \A key : key \in DOMAIN table <=> \E i \in 1..Len(log) : IsOf(log[i], kind, key)
    /\ \A key : \A i \in 1..Len(log) :
          IsOf(log[i], kind, key) /\ (\A j \in (i + 1)..Len(log) : ~IsOf(log[j], kind, key)) =>
             table[key] = log[i].route.target

InOrder(log, routes, kind) ==
    \E at \in [1..Len(routes) -> 1..Len(log)] :
       /\ \A m, n \in 1..Len(routes) : m < n => at[m] < at[n]
       /\ \A i \in 1..Len(log) : log[i].kind = kind <=> \E n \in 1..Len(routes) : at[n] = i
       /\ \A n \in 1..Len(routes) : routes[n] = log[at[n]].route

RouteInv ==
    /\ registered \in Seq(Entries)
    /\ regexHandlers_ \in Seq(Routes)
    /\ regexCallbacks_ \in Seq(Routes)
    /\ HoldsLast(registered, handlers_, "handler")
    /\ HoldsLast(registered, callbacks_, "callback")
    /\ InOrder(registered, regexHandlers_, "regexHandler")
    /\ InOrder(registered, regexCallbacks_, "regexCallback")

(* One more entry. *)
LEMMA Grown ==
  ASSUME NEW S, NEW log \in Seq(S), NEW e \in S
  PROVE  LET new == Append(log, e) IN
         /\ Len(log) \in Nat
         /\ Len(new) = Len(log) + 1
         /\ new[Len(log) + 1] = e
         /\ \A i \in 1..Len(log) : new[i] = log[i]
         /\ new \in Seq(S)
  BY AppendProperties, LenProperties

(* A registration of another kind leaves what a table holds alone; one of  *)
(* its kind is Put into it.                                                *)
LEMMA OtherTable ==
  ASSUME NEW log \in Seq(Entries), NEW e \in Entries, NEW table, NEW kind, kind # e.kind,
         HoldsLast(log, table, kind)
  PROVE  HoldsLast(Append(log, e), table, kind)
  <1> DEFINE new == Append(log, e)
  <1>1. PICK n \in Nat : n = Len(log)
    BY LenProperties
  <1>2. /\ Len(new) = n + 1 /\ new[n + 1] = e
        /\ \A i \in 1..n : new[i] = log[i]
    BY <1>1, Grown
  <1> HIDE DEF new
  <1>3. \A key : ~IsOf(new[n + 1], kind, key)
    BY <1>2 DEF IsOf
  <1>4. \A key : key \in DOMAIN table <=> \E i \in 1..(n + 1) : IsOf(new[i], kind, key)
    BY <1>1, <1>2, <1>3 DEF HoldsLast
  <1>5. ASSUME NEW key, NEW i \in 1..(n + 1), IsOf(new[i], kind, key),
               \A j \in (i + 1)..(n + 1) : ~IsOf(new[j], kind, key)
        PROVE  table[key] = new[i].route.target
    <2>1. i \in 1..n
      BY <1>3, <1>5
    <2>2. \A j \in (i + 1)..n : ~IsOf(log[j], kind, key)
      BY <1>2, <1>5, <2>1
    <2> QED
      BY <1>1, <1>2, <1>5, <2>1, <2>2 DEF HoldsLast
  <1> QED
    BY <1>2, <1>4, <1>5 DEF HoldsLast, new

LEMMA PutTable ==
  ASSUME NEW log \in Seq(Entries), NEW e \in Entries, NEW table,
         HoldsLast(log, table, e.kind)
  PROVE  HoldsLast(Append(log, e), Put(table, e.route), e.kind)
  <1> DEFINE new == Append(log, e)
             put == Put(table, e.route)
  <1>1. PICK n \in Nat : n = Len(log)
    BY LenProperties
  <1>2. /\ Len(new) = n + 1 /\ new[n + 1] = e
        /\ \A i \in 1..n : new[i] = log[i]
    BY <1>1, Grown
  <1>p. /\ DOMAIN put = DOMAIN table \union {Key(e.route)}
        /\ put[Key(e.route)] = e.route.target
        /\ \A key \in DOMAIN table : key # Key(e.route) => put[key] = table[key]
    BY DEF Put
  <1> HIDE DEF new, put
  <1>3. \A key : IsOf(new[n + 1], e.kind, key) <=> key = Key(e.route)
    BY <1>2 DEF IsOf
  <1>4. \A key : key \in DOMAIN put <=> \E i \in 1..(n + 1) : IsOf(new[i], e.kind, key)
    <2> TAKE key
    <2>1. key \in DOMAIN table <=> \E i \in 1..n : IsOf(new[i], e.kind, key)
      BY <1>1, <1>2 DEF HoldsLast
    <2>2. (\E i \in 1..(n + 1) : IsOf(new[i], e.kind, key))
             <=> (\E i \in 1..n : IsOf(new[i], e.kind, key)) \/ IsOf(new[n + 1], e.kind, key)
      OBVIOUS
    <2> QED
      BY <1>3, <1>p, <2>1, <2>2
  <1>5. ASSUME NEW key, NEW i \in 1..(n + 1), IsOf(new[i], e.kind, key),
               \A j \in (i + 1)..(n + 1) : ~IsOf(new[j], e.kind, key)
        PROVE  put[key] = new[i].route.target
    <2>1. CASE i = n + 1
      BY <1>2, <1>3, <1>5, <1>p, <2>1
    <2>2. CASE i \in 1..n
      <3>1. key # Key(e.route)
        BY <1>3, <1>5, <2>2
      <3>2. \A j \in (i + 1)..n : ~IsOf(log[j], e.kind, key)
        BY <1>2, <1>5, <2>2
      <3>3. table[key] = new[i].route.target /\ key \in DOMAIN table
        BY <1>1, <1>2, <1>5, <2>2, <3>2 DEF HoldsLast
      <3> QED
        BY <1>p, <3>1, <3>3
    <2> QED
      BY <2>1, <2>2
  <1> QED
    BY <1>2, <1>4, <1>5 DEF HoldsLast, new, put

(* The same for the vectors of dynamic routes. *)
LEMMA OtherVector ==
  ASSUME NEW log \in Seq(Entries), NEW e \in Entries, NEW routes \in Seq(Routes), NEW kind,
         kind # e.kind, InOrder(log, routes, kind)
  PROVE  InOrder(Append(log, e), routes, kind)
  <1> DEFINE new == Append(log, e)
  <1>1. PICK n \in Nat : n = Len(log)
    BY LenProperties
  <1>2. /\ Len(new) = n + 1 /\ new[n + 1] = e
        /\ \A i \in 1..n : new[i] = log[i]
    BY <1>1, Grown
  <1> HIDE DEF new
  <1>3. PICK at \in [1..Len(routes) -> 1..n] :
           /\ \A k, l \in 1..Len(routes) : k < l => at[k] < at[l]
           /\ \A i \in 1..n : log[i].kind = kind <=> \E k \in 1..Len(routes) : at[k] = i
           /\ \A k \in 1..Len(routes) : routes[k] = log[at[k]].route
    BY <1>1 DEF InOrder
  <1>4. at \in [1..Len(routes) -> 1..(n + 1)]
    BY <1>3
  <1>5. \A i \in 1..(n + 1) : new[i].kind = kind <=> \E k \in 1..Len(routes) : at[k] = i
    <2> TAKE i \in 1..(n + 1)
    <2>1. CASE i \in 1..n
      BY <1>2, <1>3, <2>1
    <2>2. CASE i = n + 1
      BY <1>2, <1>3, <2>2
    <2> QED
      BY <2>1, <2>2
  <1>6. \A k \in 1..Len(routes) : routes[k] = new[at[k]].route
    BY <1>2, <1>3
  <1> QED
    BY <1>2, <1>3, <1>4, <1>5, <1>6 DEF InOrder, new

LEMMA AppendVector ==
  ASSUME NEW log \in Seq(Entries), NEW e \in Entries, NEW routes \in Seq(Routes),
         InOrder(log, routes, e.kind)
  PROVE  InOrder(Append(log, e), Append(routes, e.route), e.kind)
  <1> DEFINE new == Append(log, e)
             more == Append(routes, e.route)
  <1>1. PICK n \in Nat, m \in Nat : n = Len(log) /\ m = Len(routes)
    BY LenProperties
  <1>2. /\ Len(new) = n + 1 /\ new[n + 1] = e
        /\ \A i \in 1..n : new[i] = log[i]
    BY <1>1, Grown
  <1>3. /\ Len(more) = m + 1 /\ more[m + 1] = e.route
        /\ \A i \in 1..m : more[i] = routes[i]
    <2>1. e.route \in Routes
      BY DEF Entries
    <2> QED
      BY <1>1, <2>1, Grown
  <1> HIDE DEF new, more
  <1>4. PICK at \in [1..m -> 1..n] :
           /\ \A k, l \in 1..m : k < l => at[k] < at[l]
           /\ \A i \in 1..n : log[i].kind = e.kind <=> \E k \in 1..m : at[k] = i
           /\ \A k \in 1..m : routes[k] = log[at[k]].route
    BY <1>1 DEF InOrder
  <1> DEFINE at2 == [k \in 1..(m + 1) |-> IF k = m + 1 THEN n + 1 ELSE at[k]]
  <1>5. /\ at2 \in [1..(m + 1) -> 1..(n + 1)]
        /\ at2[m + 1] = n + 1
        /\ \A k \in 1..m : at2[k] = at[k] /\ at2[k] \in 1..n
    OBVIOUS
  <1> HIDE DEF at2
  <1>6. ASSUME NEW k \in 1..(m + 1), NEW l \in 1..(m + 1), k < l PROVE at2[k] < at2[l]
    <2>1. k \in 1..m /\ at2[k] \in 1..n /\ at2[k] = at[k]
      BY <1>5, <1>6
    <2>2. CASE l = m + 1
      BY <1>5, <2>1, <2>2
    <2>3. CASE l \in 1..m
      BY <1>4, <1>5, <1>6, <2>1, <2>3
    <2> QED
      BY <2>2, <2>3
  <1>7. ASSUME NEW i \in 1..(n + 1)
        PROVE  new[i].kind = e.kind <=> \E k \in 1..(m + 1) : at2[k] = i
    <2>1. CASE i = n + 1
      BY <1>2, <1>5, <2>1
    <2>2. CASE i \in 1..n
      <3>1. (\E k \in 1..(m + 1) : at2[k] = i) <=> (\E k \in 1..m : at[k] = i)
        BY <1>5, <2>2
      <3> QED
        BY <1>2, <1>4, <2>2, <3>1
    <2> QED
      BY <2>1, <2>2
  <1>8. ASSUME NEW k \in 1..(m + 1) PROVE more[k] = new[at2[k]].route
    <2>1. CASE k = m + 1
      BY <1>2, <1>3, <1>5, <2>1
    <2>2. CASE k \in 1..m
      <3>1. more[k] = log[at[k]].route
        BY <1>3, <1>4, <2>2
      <3>2. new[at2[k]] = log[at[k]]
        BY <1>2, <1>5, <2>2
      <3> QED
        BY <3>1, <3>2
    <2> QED
      BY <2>1, <2>2
  <1>9. /\ at2 \in [1..Len(more) -> 1..Len(new)]
        /\ \A k, l \in 1..Len(more) : k < l => at2[k] < at2[l]
        /\ \A i \in 1..Len(new) :
              new[i].kind = e.kind <=> \E k \in 1..Len(more) : at2[k] = i
        /\ \A k \in 1..Len(more) : more[k] = new[at2[k]].route
    BY <1>2, <1>3, <1>5, <1>6, <1>7, <1>8
  <1>10. InOrder(new, more, e.kind)
    BY <1>9, Zenon DEF InOrder
  <1> QED
    BY <1>10 DEF new, more


(* A router without routes. *)
LEMMA RouteInvInit == NoRoutes => RouteInv
  <1> SUFFICES ASSUME NoRoutes PROVE RouteInv
    OBVIOUS
  <1>1. /\ registered = <<>> /\ handlers_ = <<>> /\ callbacks_ = <<>>
        /\ regexHandlers_ = <<>> /\ regexCallbacks_ = <<>>
        /\ Len(<<>>) = 0 /\ 1..0 = {}
    BY DEF NoRoutes
  <1>2. DOMAIN <<>> = {}
    OBVIOUS
  <1>3. \A kind : HoldsLast(<<>>, <<>>, kind)
    BY <1>1, <1>2 DEF HoldsLast
  <1>4. \A kind : InOrder(<<>>, <<>>, kind)
    <2> TAKE kind
    <2> DEFINE at == [n \in {} |-> 0]
    <2>1. at \in [1..Len(<<>>) -> 1..Len(<<>>)]
      BY <1>1
    <2> QED
      BY <1>1, <2>1 DEF InOrder
  <1>5. <<>> \in Seq(Entries) /\ <<>> \in Seq(Routes)
    BY EmptySeq
  <1> QED
    BY <1>1, <1>3, <1>4, <1>5 DEF RouteInv

(* Every registration keeps tables and log in step. *)
LEMMA RouteInvNext == RouteInv /\ (Register \/ UNCHANGED routing) => RouteInv'
  <1> SUFFICES ASSUME RouteInv, Register \/ UNCHANGED routing PROVE RouteInv'
    OBVIOUS
  <1>1. CASE UNCHANGED routing
    BY <1>1 DEF RouteInv, routing, tables
  <1>2. ASSUME NEW route \in Routes, NEW kind \in {"handler", "callback", "regexHandler", "regexCallback"},
               Log(kind, route)
        PROVE  LET e == [kind |-> kind, route |-> route] IN
               /\ e \in Entries /\ e.kind = kind /\ e.route = route
               /\ registered' = Append(registered, e)
               /\ registered' \in Seq(Entries)
    <2>1. [kind |-> kind, route |-> route] \in Entries
      BY <1>2 DEF Entries
    <2> QED
      BY <1>2, <2>1, Grown DEF Log, RouteInv
  <1>3. ASSUME NEW route \in Routes, RegisterHandler(route) PROVE RouteInv'
    <2> DEFINE e == [kind |-> "handler", route |-> route]
    <2>1. /\ e \in Entries /\ e.kind = "handler" /\ e.route = route
          /\ registered' = Append(registered, e) /\ registered' \in Seq(Entries)
      BY <1>2, <1>3 DEF RegisterHandler
    <2> HIDE DEF e
    <2>2. HoldsLast(registered', handlers_', "handler")
      BY <1>3, <2>1, PutTable DEF RegisterHandler, RouteInv
    <2> QED
      BY <1>3, <2>1, <2>2, OtherTable, OtherVector DEF RegisterHandler, RouteInv
  <1>4. ASSUME NEW route \in Routes, RegisterCallback(route) PROVE RouteInv'
    <2> DEFINE e == [kind |-> "callback", route |-> route]
    <2>1. /\ e \in Entries /\ e.kind = "callback" /\ e.route = route
          /\ registered' = Append(registered, e) /\ registered' \in Seq(Entries)
      BY <1>2, <1>4 DEF RegisterCallback
    <2> HIDE DEF e
    <2>2. HoldsLast(registered', callbacks_', "callback")
      BY <1>4, <2>1, PutTable DEF RegisterCallback, RouteInv
    <2> QED
      BY <1>4, <2>1, <2>2, OtherTable, OtherVector DEF RegisterCallback, RouteInv
  <1>5. ASSUME NEW route \in Routes, AddRegexHandler(route) PROVE RouteInv'
    <2> DEFINE e == [kind |-> "regexHandler", route |-> route]
    <2>1. /\ e \in Entries /\ e.kind = "regexHandler" /\ e.route = route
          /\ registered' = Append(registered, e) /\ registered' \in Seq(Entries)
      BY <1>2, <1>5 DEF AddRegexHandler
    <2> HIDE DEF e
    <2>2. InOrder(registered', regexHandlers_', "regexHandler") /\ regexHandlers_' \in Seq(Routes)
      BY <1>5, <2>1, AppendVector, Grown DEF AddRegexHandler, RouteInv
    <2> QED
      BY <1>5, <2>1, <2>2, OtherTable, OtherVector DEF AddRegexHandler, RouteInv
  <1>6. ASSUME NEW route \in Routes, AddRegexCallback(route) PROVE RouteInv'
    <2> DEFINE e == [kind |-> "regexCallback", route |-> route]
    <2>1. /\ e \in Entries /\ e.kind = "regexCallback" /\ e.route = route
          /\ registered' = Append(registered, e) /\ registered' \in Seq(Entries)
      BY <1>2, <1>6 DEF AddRegexCallback
    <2> HIDE DEF e
    <2>2. InOrder(registered', regexCallbacks_', "regexCallback") /\ regexCallbacks_' \in Seq(Routes)
      BY <1>6, <2>1, AppendVector, Grown DEF AddRegexCallback, RouteInv
    <2> QED
      BY <1>6, <2>1, <2>2, OtherTable, OtherVector DEF AddRegexCallback, RouteInv
  <1> QED
    BY <1>1, <1>3, <1>4, <1>5, <1>6 DEF Register

-----------------------------------------------------------------------------
(* What the documents promise, read off the log. *)
LEMMA Ranks ==
  ASSUME RouteInv, NEW i \in 1..Len(registered)
  PROVE  /\ registered[i] \in Entries
         /\ Rank(i) \in 1..4
         /\ Rank(i) = 1 <=> registered[i].kind = "handler"
         /\ Rank(i) = 2 <=> registered[i].kind = "callback"
         /\ Rank(i) = 3 <=> registered[i].kind = "regexHandler"
         /\ Rank(i) = 4 <=> registered[i].kind = "regexCallback"
  <1>1. registered[i] \in Entries
    BY ElementOfSeq DEF RouteInv
  <1>2. /\ Kinds[1] = "handler" /\ Kinds[2] = "callback"
        /\ Kinds[3] = "regexHandler" /\ Kinds[4] = "regexCallback"
    BY DEF Kinds
  <1>3. \E n \in 1..4 : Kinds[n] = registered[i].kind
    BY <1>1, <1>2 DEF Entries
  <1>4. Rank(i) \in 1..4 /\ Kinds[Rank(i)] = registered[i].kind
    BY <1>3 DEF Rank
  <1> QED
    BY <1>1, <1>2, <1>4

(* The entry that precedes all that serve is the one Expected answers with.*)
LEMMA ExpectedIs ==
  ASSUME RouteInv, NEW method, NEW path,
         NEW i \in 1..Len(registered), Serves(i, method, path),
         \A j \in 1..Len(registered) : Serves(j, method, path) => Precedes(i, j)
  PROVE  Expected(method, path) =
            Answer(registered[i].route.target,
                   IF Rank(i) <= 2 THEN <<>> ELSE Parameters(registered[i].route.path, path))
  <1> DEFINE serving == {k \in 1..Len(registered) : Serves(k, method, path)}
             best == CHOOSE k \in serving : \A j \in serving : Precedes(k, j)
  <1>1. i \in serving /\ \A j \in serving : Precedes(i, j)
    OBVIOUS
  <1>2. best \in serving /\ \A j \in serving : Precedes(best, j)
    <2> HIDE DEF serving
    <2> QED
      BY <1>1
  <1>3. best = i
    <2>1. best \in 1..Len(registered) /\ Precedes(best, i) /\ Precedes(i, best)
      BY <1>1, <1>2
    <2> HIDE DEF best
    <2>2. Rank(i) \in Int /\ Rank(best) \in Int
      BY <2>1, Ranks
    <2>3. Rank(i) = Rank(best)
      BY <2>1, <2>2 DEF Precedes
    <2> QED
      BY <2>1, <2>2, <2>3 DEF Precedes
  <1> QED
    BY <1>1, <1>3 DEF Expected

(* What an exact table holds is the last registration of its key. *)
LEMMA LastOf ==
  ASSUME RouteInv, NEW table, NEW kind, HoldsLast(registered, table, kind),
         NEW key, key \in DOMAIN table
  PROVE  \E i \in 1..Len(registered) :
            /\ IsOf(registered[i], kind, key)
            /\ \A j \in 1..Len(registered) : IsOf(registered[j], kind, key) => j <= i
            /\ table[key] = registered[i].route.target
  <1> DEFINE T == {j \in 1..Len(registered) : IsOf(registered[j], kind, key)}
  <1>1. Len(registered) \in Nat
    BY LenProperties DEF RouteInv
  <1>2. T \in SUBSET (0..Len(registered)) /\ T # {}
    BY <1>1 DEF HoldsLast
  <1>3. PICK i \in T : \A j \in T : j <= i
    <2> HIDE DEF T
    <2> QED
      BY <1>1, <1>2, Greatest
  <1>4. \A j \in (i + 1)..Len(registered) : ~IsOf(registered[j], kind, key)
    BY <1>1, <1>3
  <1>5. table[key] = registered[i].route.target
    BY <1>3, <1>4 DEF HoldsLast
  <1> QED
    BY <1>3, <1>5

(* What a search of a vector finds is the first registration that fits. *)
Suits(i, kind, method, path) ==
    /\ registered[i].kind = kind
    /\ registered[i].route.method = method
    /\ Matches(registered[i].route.path, path)

LEMMA FirstOf ==
  ASSUME RouteInv, NEW routes \in Seq(Routes), NEW kind, InOrder(registered, routes, kind),
         NEW method, NEW path, NEW otherwise
  PROVE  \/ /\ \A i \in 1..Len(registered) : ~Suits(i, kind, method, path)
            /\ Search(routes, method, path, otherwise) = otherwise
         \/ \E i \in 1..Len(registered) :
               /\ Suits(i, kind, method, path)
               /\ \A j \in 1..Len(registered) : Suits(j, kind, method, path) => i <= j
               /\ Search(routes, method, path, otherwise) =
                     Answer(registered[i].route.target,
                            Parameters(registered[i].route.path, path))
  <1>1. PICK n \in Nat, m \in Nat : n = Len(registered) /\ m = Len(routes)
    BY LenProperties DEF RouteInv
  <1>2. PICK at \in [1..m -> 1..n] :
           /\ \A k, l \in 1..m : k < l => at[k] < at[l]
           /\ \A i \in 1..n : registered[i].kind = kind <=> \E k \in 1..m : at[k] = i
           /\ \A k \in 1..m : routes[k] = registered[at[k]].route
    BY <1>1 DEF InOrder
  <1>3. \A k \in 1..m : Fits(routes, k, method, path) <=> Suits(at[k], kind, method, path)
    BY <1>1, <1>2 DEF Fits, Suits
  <1>4. \A i \in 1..n : Suits(i, kind, method, path) => \E k \in 1..m : at[k] = i
    BY <1>2 DEF Suits
  <1>5. CASE \A k \in 1..m : ~Fits(routes, k, method, path)
    <2>1. \A i \in 1..n : ~Suits(i, kind, method, path)
      BY <1>3, <1>4, <1>5
    <2>2. Search(routes, method, path, otherwise) = otherwise
      BY <1>1, <1>5 DEF Search
    <2> QED
      BY <1>1, <2>1, <2>2
  <1>6. CASE \E k \in 1..m : Fits(routes, k, method, path)
    <2> DEFINE T == {k \in 1..m : Fits(routes, k, method, path)}
    <2>1. T \in SUBSET Nat /\ T # {}
      BY <1>6
    <2>2. PICK k \in T : \A l \in T : k <= l
      <3> HIDE DEF T
      <3> QED
        BY <2>1, Least
    <2>3. \A l \in 1..(k - 1) : ~Fits(routes, l, method, path)
      BY <2>2
    <2>4. FirstFit(routes, method, path) = k
      <3> DEFINE First(l) == /\ Fits(routes, l, method, path)
                             /\ \A j \in 1..(l - 1) : ~Fits(routes, j, method, path)
      <3>1. k \in 1..m /\ First(k)
        BY <2>2, <2>3
      <3>2. \A l \in 1..m : First(l) => l = k
        BY <2>2, <3>1
      <3>3. FirstFit(routes, method, path) = CHOOSE l \in 1..m : First(l)
        BY <1>1 DEF FirstFit
      <3> HIDE DEF First
      <3> QED
        BY <3>1, <3>2, <3>3
    <2>5. Search(routes, method, path, otherwise) =
             Answer(routes[k].target, Parameters(routes[k].path, path))
      BY <1>1, <1>6, <2>4 DEF Search
    <2>6. at[k] \in 1..n /\ Suits(at[k], kind, method, path) /\ routes[k] = registered[at[k]].route
      BY <1>2, <1>3, <2>2
    <2>7. ASSUME NEW j \in 1..n, Suits(j, kind, method, path) PROVE at[k] <= j
      <3>1. PICK l \in 1..m : at[l] = j
        BY <1>4, <2>7
      <3>2. l \in T
        BY <1>3, <2>7, <3>1
      <3>3. k <= l /\ k \in 1..m
        BY <2>2, <3>2
      <3>4. CASE k = l
        BY <3>1, <3>4
      <3>5. CASE k < l
        BY <1>2, <3>1, <3>3, <3>5
      <3> QED
        BY <3>3, <3>4, <3>5
    <2> QED
      BY <1>1, <2>5, <2>6, <2>7
  <1> QED
    BY <1>5, <1>6

(* The router's search and the documents' rule agree. *)
LEMMA RoutedRight ==
  ASSUME RouteInv, NEW method \in Methods, NEW path \in Paths
  PROVE  RouteTo(method, path) = Expected(method, path)
  <1> DEFINE key == <<method, path>>
             N == Len(registered)
  <1>1. \A i \in 1..N : /\ Rank(i) \in 1..4
                        /\ Rank(i) = 1 <=> registered[i].kind = "handler"
                        /\ Rank(i) = 2 <=> registered[i].kind = "callback"
                        /\ Rank(i) = 3 <=> registered[i].kind = "regexHandler"
                        /\ Rank(i) = 4 <=> registered[i].kind = "regexCallback"
    BY Ranks
  <1>2. \A i \in 1..N :
           /\ Rank(i) = 1 => (Serves(i, method, path) <=> IsOf(registered[i], "handler", key))
           /\ Rank(i) = 2 => (Serves(i, method, path) <=> IsOf(registered[i], "callback", key))
           /\ Rank(i) = 3 => (Serves(i, method, path) <=> Suits(i, "regexHandler", method, path))
           /\ Rank(i) = 4 => (Serves(i, method, path) <=> Suits(i, "regexCallback", method, path))
    <2> TAKE i \in 1..N
    <2>1. Serves(i, method, path) <=>
             /\ registered[i].route.method = method
             /\ IF Rank(i) <= 2 THEN registered[i].route.path = path
                                 ELSE Matches(registered[i].route.path, path)
      BY DEF Serves
    <2>2. \A kind : IsOf(registered[i], kind, key) <=>
             /\ registered[i].kind = kind
             /\ registered[i].route.method = method /\ registered[i].route.path = path
      BY DEF IsOf, Key
    <2>3. Rank(i) \in 1..4 /\ (Rank(i) <= 2 <=> Rank(i) \in {1, 2})
      BY <1>1
    <2> HIDE DEF key
    <2>4. /\ Rank(i) = 1 => (Serves(i, method, path) <=> IsOf(registered[i], "handler", key))
          /\ Rank(i) = 2 => (Serves(i, method, path) <=> IsOf(registered[i], "callback", key))
      BY <1>1, <2>1, <2>2, <2>3
    <2>5. /\ Rank(i) = 3 => (Serves(i, method, path) <=> Suits(i, "regexHandler", method, path))
          /\ Rank(i) = 4 => (Serves(i, method, path) <=> Suits(i, "regexCallback", method, path))
      BY <1>1, <2>1, <2>3 DEF Suits
    <2> QED
      BY <2>4, <2>5
  <1>3. \A i \in 1..N : /\ IsOf(registered[i], "handler", key) => Rank(i) = 1
                        /\ IsOf(registered[i], "callback", key) => Rank(i) = 2
                        /\ Suits(i, "regexHandler", method, path) => Rank(i) = 3
                        /\ Suits(i, "regexCallback", method, path) => Rank(i) = 4
    BY <1>1 DEF IsOf, Suits
  <1>4. /\ key \in DOMAIN handlers_ <=> \E i \in 1..N : IsOf(registered[i], "handler", key)
        /\ key \in DOMAIN callbacks_ <=> \E i \in 1..N : IsOf(registered[i], "callback", key)
    BY DEF RouteInv, HoldsLast
  <1> HIDE DEF key
  <1>5. CASE key \in DOMAIN handlers_
    <2>1. PICK i \in 1..N : /\ IsOf(registered[i], "handler", key)
                            /\ \A j \in 1..N : IsOf(registered[j], "handler", key) => j <= i
                            /\ handlers_[key] = registered[i].route.target
      BY <1>5, LastOf DEF RouteInv
    <2>2. Rank(i) = 1 /\ Serves(i, method, path)
      BY <1>2, <1>3, <2>1
    <2>3. \A j \in 1..N : Serves(j, method, path) => Precedes(i, j)
      BY <1>1, <1>2, <2>1, <2>2 DEF Precedes
    <2>4. Expected(method, path) = Answer(handlers_[key], <<>>)
      BY <2>1, <2>2, <2>3, ExpectedIs
    <2> QED
      BY <1>5, <2>4 DEF RouteTo, key
  <1>6. CASE key \notin DOMAIN handlers_ /\ key \in DOMAIN callbacks_
    <2>1. PICK i \in 1..N : /\ IsOf(registered[i], "callback", key)
                            /\ \A j \in 1..N : IsOf(registered[j], "callback", key) => j <= i
                            /\ callbacks_[key] = registered[i].route.target
      BY <1>6, LastOf DEF RouteInv
    <2>2. Rank(i) = 2 /\ Serves(i, method, path)
      BY <1>2, <1>3, <2>1
    <2>3. \A j \in 1..N : Serves(j, method, path) => Precedes(i, j)
      BY <1>1, <1>2, <1>4, <1>6, <2>1, <2>2 DEF Precedes
    <2>4. Expected(method, path) = Answer(callbacks_[key], <<>>)
      BY <2>1, <2>2, <2>3, ExpectedIs
    <2> QED
      BY <1>6, <2>4 DEF RouteTo, key
  <1>7. CASE key \notin DOMAIN handlers_ /\ key \notin DOMAIN callbacks_
    <2> DEFINE lost == Answer(NotFound, <<>>)
               inner == Search(regexCallbacks_, method, path, lost)
    <2>1. RouteTo(method, path) = Search(regexHandlers_, method, path, inner)
      BY <1>7 DEF RouteTo, key
    <2> HIDE DEF lost, inner
    <2>2. CASE \E i \in 1..N : Suits(i, "regexHandler", method, path)
      <3>1. PICK i \in 1..N :
               /\ Suits(i, "regexHandler", method, path)
               /\ \A j \in 1..N : Suits(j, "regexHandler", method, path) => i <= j
               /\ RouteTo(method, path) = Answer(registered[i].route.target,
                                                 Parameters(registered[i].route.path, path))
        BY <2>1, <2>2, FirstOf DEF RouteInv
      <3>2. Rank(i) = 3 /\ Serves(i, method, path)
        BY <1>2, <1>3, <3>1
      <3>3. \A j \in 1..N : Serves(j, method, path) => Precedes(i, j)
        BY <1>1, <1>2, <1>4, <1>7, <3>1, <3>2 DEF Precedes
      <3> QED
        BY <3>1, <3>2, <3>3, ExpectedIs
    <2>3. CASE \A i \in 1..N : ~Suits(i, "regexHandler", method, path)
      <3>1. RouteTo(method, path) = inner
        BY <2>1, <2>3, FirstOf DEF RouteInv
      <3>2. CASE \E i \in 1..N : Suits(i, "regexCallback", method, path)
        <4>1. PICK i \in 1..N :
                 /\ Suits(i, "regexCallback", method, path)
                 /\ \A j \in 1..N : Suits(j, "regexCallback", method, path) => i <= j
                 /\ inner = Answer(registered[i].route.target,
                                   Parameters(registered[i].route.path, path))
          BY <3>2, FirstOf DEF RouteInv, inner
        <4>2. Rank(i) = 4 /\ Serves(i, method, path)
          BY <1>2, <1>3, <4>1
        <4>3. \A j \in 1..N : Serves(j, method, path) => Precedes(i, j)
          BY <1>1, <1>2, <1>4, <1>7, <2>3, <4>1, <4>2 DEF Precedes
        <4> QED
          BY <3>1, <4>1, <4>2, <4>3, ExpectedIs
      <3>3. CASE \A i \in 1..N : ~Suits(i, "regexCallback", method, path)
        <4>1. inner = lost
          BY <3>3, FirstOf DEF RouteInv, inner
        <4>2. \A i \in 1..N : ~Serves(i, method, path)
          BY <1>1, <1>2, <1>4, <1>7, <2>3, <3>3
        <4> QED
          BY <3>1, <4>1, <4>2 DEF Expected, lost
      <3> QED
        BY <3>2, <3>3
    <2> QED
      BY <2>2, <2>3
  <1> QED
    BY <1>5, <1>6, <1>7

-----------------------------------------------------------------------------
(* The whole server: nothing arrives before start(), and from then on      *)
(* neither chain nor tables change.                                        *)
DispatchInv ==
    /\ TypeInv
    /\ PathInv
    /\ RouteInv
    /\ started \in BOOLEAN
    /\ ~started => Connected

LEMMA DispatchInvInit == DispatchInit => DispatchInv
  <1> SUFFICES ASSUME DispatchInit PROVE DispatchInv
    OBVIOUS
  <1>1. Connected /\ chain = <<>> /\ allowedOrigins = <<>> /\ NoRoutes /\ started = FALSE
    BY Zenon DEF DispatchInit
  <1>2. /\ chain \in Seq({"plain", "cors"})
        /\ allowedOrigins \in [DOMAIN chain -> Seq(Origins \union {Star})]
    BY <1>1, EmptySeq
  <1> QED
    BY <1>1, <1>2, ConnectedTypes, ConnectedPath, RouteInvInit DEF DispatchInv

(* Registrations, start() and every step of a request keep it. *)
LEMMA DispatchInvNext == DispatchInv /\ [DispatchNext]_dispatchVars => DispatchInv'
  <1> SUFFICES ASSUME DispatchInv, [DispatchNext]_dispatchVars PROVE DispatchInv'
    OBVIOUS
  <1>1. CASE AddRoute
    <2>1. TypeInv' /\ PathInv'
      BY <1>1, TypeInvNext, PathInvNext DEF AddRoute, DispatchInv
    <2>2. RouteInv'
      BY <1>1, RouteInvNext DEF AddRoute, DispatchInv
    <2> QED
      BY <1>1, <2>1, <2>2 DEF AddRoute, DispatchInv, vars, setup, Connected
  <1>2. CASE Start
    <2>1. Connected' /\ chain' \in Chains /\ allowedOrigins' \in ConfigsOf(chain')
      BY <1>2 DEF Start, DispatchInv, Connected
    <2>2. Init'
      BY <2>1 DEF Init
    <2>3. TypeInv' /\ PathInv'
      BY <2>2, TypeInvInit, PathInvInit, PTL
    <2>4. RouteInv'
      BY <1>2, RouteInvNext DEF Start, DispatchInv
    <2> QED
      BY <1>2, <2>3, <2>4 DEF Start, DispatchInv
  <1>3. CASE (\E method \in Methods, path \in Paths, r \in Requests : Arrive(method, path, r)) \/ Serve
    <2>1. started /\ Next /\ UNCHANGED <<routing, started>>
      BY <1>3 DEF Arrive, Serve, Next
    <2>2. TypeInv' /\ PathInv'
      BY <2>1, TypeInvNext, PathInvNext DEF DispatchInv
    <2>3. RouteInv'
      BY <2>1, RouteInvNext DEF DispatchInv
    <2> QED
      BY <2>1, <2>2, <2>3 DEF DispatchInv
  <1>4. CASE UNCHANGED dispatchVars
    <2>1. TypeInv' /\ PathInv' /\ RouteInv'
      BY <1>4, TypeInvNext, PathInvNext, RouteInvNext DEF dispatchVars, DispatchInv
    <2> QED
      BY <1>4, <2>1 DEF dispatchVars, DispatchInv, vars, setup, Connected
  <1> QED
    BY <1>1, <1>2, <1>3, <1>4 DEF DispatchNext

(* Whatever the application registered, in whatever order and however      *)
(* often, the four tables answer every request with the target that the    *)
(* documents promise and the values of its path parameters: for any        *)
(* routes, paths and targets.                                              *)
THEOREM RoutedTheorem == DispatchSpec => []RoutedAsDocumented
  <1>1. DispatchInv => RoutedAsDocumented
    BY RoutedRight DEF DispatchInv, RoutedAsDocumented
  <1> QED
    BY DispatchInvInit, DispatchInvNext, <1>1, PTL DEF DispatchSpec

(* What RequestPath promises of a request holds behind the router too,     *)
(* where the tables decide which requests are unrouted: the onion and the  *)
(* preflight, the CORS headers, the end of every response.                 *)
THEOREM ServerTheorem == DispatchSpec => [](ChainOrder /\ CrossOrigin /\ KeptOpenIsDelimited)
  <1>1. DispatchInv => ChainOrder /\ CrossOrigin /\ KeptOpenIsDelimited
    BY ChainOrderHolds, CrossOriginHolds, DelimitedHolds DEF DispatchInv
  <1> QED
    BY DispatchInvInit, DispatchInvNext, <1>1, PTL DEF DispatchSpec

=============================================================================
