--------------------------- MODULE HttpConnection ---------------------------
(***************************************************************************)
(* One plaintext connection of HttpServer: the byte stream of a client,    *)
(* muduo's input buffer, HttpContext's incremental parser and onMessage /  *)
(* onRequest (HttpServer/src/http/HttpContext.cpp, HttpServer.cpp,         *)
(* HttpRequest.cpp).                                                       *)
(*                                                                         *)
(* The stream is a sequence of atoms: the text of one line, a CRLF, or one *)
(* byte of a body.  The network may cut it between any two atoms, so a cut *)
(* falls inside a line (before its CRLF), between two lines, inside a body *)
(* or between two requests.  One iteration of parseRequest's loop is one   *)
(* step, which is how a loop that never ends can be seen at all.           *)
(*                                                                         *)
(* The handlers behind httpCallback_ are abstract: each returns, and may   *)
(* ask for the connection to be closed.                                    *)
(***************************************************************************)
EXTENDS Integers, Sequences, FiniteSets, SequencesExt

CONSTANTS Kinds,          \* kinds of request the client may send
          MaxRequests     \* bound: requests sent on the connection

ASSUME HttpAssumption ==
    /\ Kinds \subseteq {"get", "getBody", "post", "postEmpty", "postNegative",
                        "postNoLength", "badLine", "badHeader"}
    /\ MaxRequests \in Nat

VARIABLES
    serial,       \* the client awaits each answer before it sends again
    wholeHeads,   \* the network never cuts a request's head
    sent,         \* kinds of the requests sent, in order
    net,          \* atoms sent and not yet delivered
    buf,          \* conn's input buffer
    pc,           \* "poll": in the event loop; "parsing": in parseRequest;
                  \* "parsed": parseRequest has returned
    ok,           \* parseRequest's local and then its result
    state_,       \* HttpContext::state_
    request_,     \* HttpContext::request_
    tcp,          \* muduo's connection state
    dispatched,   \* requests handed to onRequest, in order
    wire,         \* responses on the wire: a request number, or 0 for a 400
    rejected      \* some parse has failed (history)

environment == <<serial, wholeHeads>>
vars == <<environment, sent, net, buf, pc, ok, state_, request_, tcp, dispatched,
          wire, rejected>>

-----------------------------------------------------------------------------
(* The client's requests as atoms. *)

CRLF      == [t |-> "crlf", id |-> 0]
Line(t, i) == <<[t |-> t, id |-> i], CRLF>>
Bytes(i)  == <<[t |-> "byte", id |-> i], [t |-> "byte", id |-> i]>>
BodySize  == 2

(* Head and body of request number i of kind k. *)
Head_(k, i) ==
    CASE k = "get"          -> Line("GET", i) \o Line("Host:", i) \o <<CRLF>>
      [] k = "getBody"      -> Line("GET", i) \o Line("Content-Length:2", i) \o <<CRLF>>
      [] k = "post"         -> Line("POST", i) \o Line("Content-Length:2", i) \o <<CRLF>>
      [] k = "postEmpty"    -> Line("POST", i) \o Line("Content-Length:0", i) \o <<CRLF>>
      [] k = "postNegative" -> Line("POST", i) \o Line("Content-Length:-1", i) \o <<CRLF>>
      [] k = "postNoLength" -> Line("POST", i) \o <<CRLF>>
      [] k = "badLine"      -> Line("GET HTTP/9", i) \o Line("Host:", i) \o <<CRLF>>
      [] k = "badHeader"    -> Line("GET", i) \o Line("no colon", i) \o <<CRLF>>

Body(k, i) == IF k \in {"getBody", "post"} THEN Bytes(i) ELSE <<>>

(* The undelivered rest does not start in the middle of a head. *)
AtBoundary(rest) ==
    rest # <<>> => rest[1].t \in {"GET", "POST", "GET HTTP/9", "byte"}

-----------------------------------------------------------------------------
(* A default-constructed HttpRequest; id is the request line it came from  *)
(* and headers holds <<name, id>> of the lines addHeader was called with.  *)
NewRequest ==
    [id |-> 0, method_ |-> "Invalid", headers_ |-> {}, contentLength_ |-> 0,
     content_ |-> <<>>]

(* Fault: the headers stay, as content_ does. *)
ResetKeepsHeaders ==
    /\ state_' = "ExpectRequestLine"
    /\ request_' = [request_ EXCEPT !.id = 0, !.method_ = "Invalid"]

(* HttpContext::reset(): swap with a dummy.  HttpRequest::swap leaves      *)
(* content_ and contentLength_ where they are (HttpRequest.cpp:137-146).   *)
Reset ==
    /\ state_' = "ExpectRequestLine"
    /\ request_' = [NewRequest EXCEPT !.contentLength_ = request_.contentLength_,
                                      !.content_ = request_.content_]

LengthHeaders == {"Content-Length:2", "Content-Length:0", "Content-Length:-1"}
HeaderNames == {"Host:"} \union LengthHeaders

(* getHeader("Content-Length") *)
ContentLengths(req) == {h[1] : h \in req.headers_} \intersect LengthHeaders

(* What -1 is in the uint64_t contentLength_: 2^64 - 1, more than zero and *)
(* more than ever arrives.                                                 *)
Wrapped == -1
Lengths == Nat \union {Wrapped}

(* setContentLength(atoi(...)); a value that is no number reads as 0.      *)
LengthRead(cl) ==
    CASE cl = "Content-Length:2"  -> BodySize
      [] cl = "Content-Length:0"  -> 0
      [] cl = "Content-Length:-1" -> Wrapped

(* buf->readableBytes() < request_.contentLength() *)
BodyLacks == request_.contentLength_ = Wrapped \/ Len(buf) < request_.contentLength_

(* Position of the first CRLF of the buffer, 0 if findCRLF returns null.   *)
FindCRLF == SelectInSeq(buf, LAMBDA a : a.t = "crlf")

LineText == SubSeq(buf, 1, FindCRLF - 1)
RestOfBuffer == SubSeq(buf, FindCRLF + 1, Len(buf))

(* serial and wholeHeads describe the client and its network for good. *)
Init ==
    /\ serial \in BOOLEAN
    /\ wholeHeads \in BOOLEAN
    /\ sent = <<>>
    /\ net = <<>>
    /\ buf = <<>>
    /\ pc = "poll"
    /\ ok = TRUE
    /\ state_ = "ExpectRequestLine"
    /\ request_ = NewRequest
    /\ tcp = "connected"
    /\ dispatched = <<>>
    /\ wire = <<>>
    /\ rejected = FALSE

(* The client sends its next request; a serial one has had all its answers.*)
ClientSends(k) ==
    /\ Len(sent) < MaxRequests
    /\ serial => Len(wire) = Len(sent)
    /\ tcp = "connected"
    /\ sent' = Append(sent, k)
    /\ net' = net \o Head_(k, Len(sent) + 1) \o Body(k, Len(sent) + 1)
    /\ UNCHANGED <<environment, buf, pc, ok, state_, request_, tcp, dispatched, wire, rejected>>

(* muduo reads what has arrived into the buffer and calls onMessage, which *)
(* calls parseRequest.                                                     *)
OnMessage ==
    /\ pc = "poll"
    /\ \E n \in 1..Len(net) :
          LET rest == SubSeq(net, n + 1, Len(net)) IN
          /\ wholeHeads => AtBoundary(rest)
          /\ buf' = buf \o SubSeq(net, 1, n)
          /\ net' = rest
    /\ pc' = "parsing"
    /\ ok' = TRUE
    /\ UNCHANGED <<environment, sent, state_, request_, tcp, dispatched, wire, rejected>>

-----------------------------------------------------------------------------
(* parseRequest's loop, one iteration per step. *)

(* A complete request line.  Text that is not one is not consumed.         *)
ParseRequestLine ==
    /\ pc = "parsing"
    /\ state_ = "ExpectRequestLine"
    /\ FindCRLF # 0
    /\ LET isLine == Len(LineText) = 1
           succeed == isLine /\ LineText[1].t \in {"GET", "POST"}
       IN /\ ok' = succeed
          /\ pc' = IF succeed THEN "parsing" ELSE "parsed"
          /\ state_' = IF succeed THEN "ExpectHeaders" ELSE state_
          /\ buf' = IF succeed THEN RestOfBuffer ELSE buf
          /\ request_' =
                IF succeed
                THEN [request_ EXCEPT !.id = LineText[1].id, !.method_ = LineText[1].t]
                ELSE IF isLine /\ LineText[1].t = "GET HTTP/9"
                THEN [request_ EXCEPT !.id = LineText[1].id, !.method_ = "GET"]
                ELSE [request_ EXCEPT !.method_ = "Invalid"]
    /\ UNCHANGED <<environment, sent, net, tcp, dispatched, wire, rejected>>

(* A header line: addHeader if it has a colon, else the parse fails.  Text *)
(* run together with leftover body bytes is a header of another name.      *)
ParseHeader ==
    /\ pc = "parsing"
    /\ state_ = "ExpectHeaders"
    /\ FindCRLF > 1
    /\ LET Colon(a) == a.t \in HeaderNames
           hasColon == \E i \in 1..Len(LineText) : Colon(LineText[i])
       IN /\ ok' = hasColon
          /\ pc' = IF hasColon THEN "parsing" ELSE "parsed"
          /\ request_' =
                IF hasColon /\ Len(LineText) = 1
                THEN [request_ EXCEPT !.headers_ = @ \union {<<LineText[1].t, LineText[1].id>>}]
                ELSE request_
    /\ buf' = RestOfBuffer
    /\ UNCHANGED <<environment, sent, net, state_, tcp, dispatched, wire, rejected>>

(* The blank line: what follows depends on the method and Content-Length.  *)
ParseBlankLine ==
    /\ pc = "parsing"
    /\ state_ = "ExpectHeaders"
    /\ FindCRLF = 1
    /\ buf' = RestOfBuffer
    /\ \/ /\ request_.method_ # "POST"
          /\ state_' = "GotAll"
          /\ pc' = "parsed"
          /\ UNCHANGED <<ok, request_>>
       \/ /\ request_.method_ = "POST"
          /\ ContentLengths(request_) = {}
          /\ ok' = FALSE
          /\ pc' = "parsed"
          /\ UNCHANGED <<state_, request_>>
       \/ /\ request_.method_ = "POST"
          /\ \E cl \in ContentLengths(request_) :
                LET n == LengthRead(cl) IN
                /\ request_' = [request_ EXCEPT !.contentLength_ = n]
                /\ state_' = IF n # 0 THEN "ExpectBody" ELSE "GotAll"
                /\ pc' = IF n # 0 THEN "parsing" ELSE "parsed"
          /\ UNCHANGED ok
    /\ UNCHANGED <<environment, sent, net, tcp, dispatched, wire, rejected>>

(* Fault: off by one, the last byte of a body is not enough. *)
ParseBodyOffByOne ==
    /\ pc = "parsing"
    /\ state_ = "ExpectBody"
    /\ pc' = "parsed"
    /\ \/ /\ BodyLacks \/ Len(buf) = request_.contentLength_
          /\ ok' = TRUE
          /\ UNCHANGED <<buf, state_, request_>>
       \/ /\ ~ BodyLacks /\ Len(buf) # request_.contentLength_
          /\ request_' = [request_ EXCEPT
                             !.content_ = SubSeq(buf, 1, request_.contentLength_)]
          /\ buf' = SubSeq(buf, request_.contentLength_ + 1, Len(buf))
          /\ state_' = "GotAll"
          /\ UNCHANGED ok
    /\ UNCHANGED <<environment, sent, net, tcp, dispatched, wire, rejected>>

(* The body is all there, or parseRequest returns true and waits for it.   *)
ParseBody ==
    /\ pc = "parsing"
    /\ state_ = "ExpectBody"
    /\ pc' = "parsed"
    /\ \/ /\ BodyLacks
          /\ ok' = TRUE
          /\ UNCHANGED <<buf, state_, request_>>
       \/ /\ ~ BodyLacks
          /\ request_' = [request_ EXCEPT
                             !.content_ = SubSeq(buf, 1, request_.contentLength_)]
          /\ buf' = SubSeq(buf, request_.contentLength_ + 1, Len(buf))
          /\ state_' = "GotAll"
          /\ UNCHANGED ok
    /\ UNCHANGED <<environment, sent, net, tcp, dispatched, wire, rejected>>

(* No CRLF in the buffer: `if (crlf)` has no else, hasMore stays true and  *)
(* the loop turns with nothing changed (HttpContext.cpp:17-29, 33-74).     *)
SpinWithoutCRLF ==
    /\ pc = "parsing"
    /\ state_ \in {"ExpectRequestLine", "ExpectHeaders"}
    /\ FindCRLF = 0
    /\ UNCHANGED vars

-----------------------------------------------------------------------------
(* onMessage after parseRequest. *)

(* muduo's send: dropped unless the connection is connected. *)
Send(r) == wire' = IF tcp = "connected" THEN Append(wire, r) ELSE wire

(* Fault: the 400 is sent and the connection stays open. *)
RejectKeepsOpen ==
    /\ pc = "parsed"
    /\ ~ok
    /\ Send(0)
    /\ pc' = "poll"
    /\ rejected' = TRUE
    /\ UNCHANGED <<environment, sent, net, buf, ok, state_, request_, tcp, dispatched>>

(* The parse failed: 400 and half-close.  The context is not reset.        *)
Reject ==
    /\ pc = "parsed"
    /\ ~ok
    /\ Send(0)
    /\ tcp' = "disconnecting"
    /\ pc' = "poll"
    /\ rejected' = TRUE
    /\ UNCHANGED <<environment, sent, net, buf, ok, state_, request_, dispatched>>

(* Fault: the connection is half-closed before the answer is sent. *)
OnRequestClosesFirst ==
    /\ pc = "parsed"
    /\ ok
    /\ state_ = "GotAll"
    /\ dispatched' = Append(dispatched, request_)
    /\ \E closes \in BOOLEAN :
          /\ tcp' = IF closes THEN "disconnecting" ELSE tcp
          /\ wire' = IF tcp = "connected" /\ ~closes THEN Append(wire, request_.id) ELSE wire
    /\ Reset
    /\ pc' = "poll"
    /\ UNCHANGED <<environment, sent, net, buf, ok, rejected>>

(* gotAll(): onRequest runs the handler, sends the answer, half-closes if  *)
(* the response says so, and the context is reset.  The client's           *)
(* Connection header is only the response's first value: a handler may set *)
(* closeConnection either way (HttpServer.cpp:134-152).  What is left in   *)
(* the buffer waits for the next onMessage.                                *)
OnRequest ==
    /\ pc = "parsed"
    /\ ok
    /\ state_ = "GotAll"
    /\ dispatched' = Append(dispatched, request_)
    /\ Send(request_.id)
    /\ \E closes \in BOOLEAN : tcp' = IF closes THEN "disconnecting" ELSE tcp
    /\ Reset
    /\ pc' = "poll"
    /\ UNCHANGED <<environment, sent, net, buf, ok, rejected>>

(* The request is not complete: back to the event loop. *)
AwaitMore ==
    /\ pc = "parsed"
    /\ ok
    /\ state_ # "GotAll"
    /\ pc' = "poll"
    /\ UNCHANGED <<environment, sent, net, buf, ok, state_, request_, tcp, dispatched, wire, rejected>>

ParseStep ==
    \/ ParseRequestLine
    \/ ParseHeader
    \/ ParseBlankLine
    \/ ParseBody
    \/ SpinWithoutCRLF

Server ==
    \/ OnMessage
    \/ ParseStep
    \/ Reject
    \/ OnRequest
    \/ AwaitMore

Next ==
    \/ \E k \in Kinds : ClientSends(k)
    \/ Server

(* The I/O thread runs, and TCP delivers what was sent. *)
Spec == Init /\ [][Next]_vars /\ WF_vars(Server)

-----------------------------------------------------------------------------
Atoms == [t : {"crlf", "byte", "GET", "POST", "GET HTTP/9", "Host:", "no colon"}
                 \union LengthHeaders, id : 0..MaxRequests]

TypeOK ==
    /\ serial \in BOOLEAN
    /\ wholeHeads \in BOOLEAN
    /\ sent \in Seq(Kinds)
    /\ net \in Seq(Atoms)
    /\ buf \in Seq(Atoms)
    /\ pc \in {"poll", "parsing", "parsed"}
    /\ ok \in BOOLEAN
    /\ state_ \in {"ExpectRequestLine", "ExpectHeaders", "ExpectBody", "GotAll"}
    /\ request_.contentLength_ \in Lengths
    /\ request_.content_ \in Seq(Atoms)
    /\ tcp \in {"connected", "disconnecting"}
    /\ wire \in Seq(0..MaxRequests)
    /\ rejected \in BOOLEAN

(* The body of the last of the first i requests that came with one; empty  *)
(* if none did.                                                            *)
LastBody(ks, i, content) ==
    \/ /\ content = <<>>
       /\ \A j \in 1..i : ks[j] # "post"
    \/ \E j \in 1..i :
          /\ ks[j] = "post"
          /\ content = Bytes(j)
          /\ \A l \in j + 1..i : ks[l] # "post"

(* What the handlers get, however the stream is cut and pipelined and as   *)
(* long as nothing was rejected: the client's requests, each once, in      *)
(* order, with the headers of that request only.  content_ is another      *)
(* matter: HttpRequest::swap leaves it behind, so a request that comes     *)
(* with a body has its own, whole, and one that comes without finds there  *)
(* the body of the last request that had one, never part of one, nor an    *)
(* older one.                                                              *)
Framing ==
    ~rejected =>
       \A i \in 1..Len(dispatched) :
          LET req == dispatched[i] IN
          /\ req.id = i
          /\ \A h \in req.headers_ : h[2] = i
          /\ LastBody(sent, i, req.content_)

(* A client pairs answers with requests by position: the i-th answer on    *)
(* the wire is the i-th request's, or a 400.                               *)
ResponsePairing ==
    \A i \in 1..Len(wire) : wire[i] \in {0, i}

(* No request is handed to a handler twice, not even after a rejection.    *)
DispatchedOnce ==
    \A i, j \in 1..Len(dispatched) : dispatched[i].id = dispatched[j].id => i = j

(* Answers and dispatches keep in step with the requests, whatever was     *)
(* pipelined, cut or rejected before.                                      *)
AnsweredInStep == ResponsePairing /\ DispatchedOnce

(* To its client the connection is RequestServer, which knows no bytes and *)
(* no parser: requests are handled one by one, in the order they were sent,*)
(* and answered as long as the connection is open; after a 400 nothing is  *)
(* answered, and what may still be handled was not handled before.         *)
Service == INSTANCE RequestServer WITH
              asked <- Len(sent),
              handled <- [d \in 1..Len(dispatched) |-> dispatched[d].id],
              answers <- wire,
              open <- (tcp = "connected"),
              refused <- rejected

ServiceSpec == Service!Spec

(* A client that waits for its answers, whose heads arrive in one piece    *)
(* (bodies may be cut) and which sends no body with GET and no negative    *)
(* length, is answered, or its connection is closed.                       *)
Served ==
    \A i \in 1..MaxRequests :
       /\ serial /\ wholeHeads /\ Len(sent) = i
       /\ \A j \in 1..i : sent[j] \notin {"getBody", "postNegative"}
       ~> Len(wire) >= i \/ tcp = "disconnecting"

(* What the docs say of half packets (prj_interview.md:760): an incomplete *)
(* request makes parseRequest return and wait for more.  Checked to fail.  *)
HalfPacketWaits == pc = "parsing" ~> pc = "poll"
=============================================================================
