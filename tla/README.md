# A TLA+ model of AiAssistant_inCpp

The repository holds a small HTTP framework on muduo (`HttpServer/`) and two
applications on it: **ChatServer** (`AIApps/ChatServer`, `aiappmain/`), a chat with several
language-model providers, tools, sessions and an asynchronous path to MySQL, and
**GomokuServer** (`AIApps/GomokuServer`, `src/Gomoku.cpp`), a board game against a language
model. This directory models the parts that keep state across steps or threads, checks
them with TLC on small instances, and proves the most important facts for every size.

## 1. Inventory

| Component | State | Operations | Interacts with | What is hard | What makes it correct |
|---|---|---|---|---|---|
| MySQL pool (`DbConnectionPool`, `DbConnection`, `MysqlUtil`) | queue of idle connections, mutex, condition variable, `initialized_`, the health thread's copy of the queue | `init`, `getConnection` (wait, pop, ping, replace), deleter, catch branch, `checkConnections` | all handlers and the queue's workers borrow | wait/notify, connections that die, a replacement that fails, a nap with the mutex held | one owner per connection, none leaks, no lost wake-up, calls end |
| HTTP connection (`HttpContext`, `HttpRequest`, `HttpServer::onMessage/onRequest`) | parser state, request under construction, muduo's buffers | one iteration of `parseRequest`, 400, dispatch, `reset` | router and handlers through `httpCallback_` | the stream cut anywhere, pipelining, what a reset or a failed parse leaves behind | handlers get the client's requests in order, with their own line and headers and, if they have one, their own body; answers pair with requests, each handled once, complete requests answered |
| HTTP response (`HttpResponse`) | status, `closeConnection_`, headers, body | set by handlers, middlewares, the 404 branch and the catches; `appendToBuffer` | `onRequest` sends it and shuts down or keeps the connection | who decides on closing: client, handler, 404, preflight | a client on a kept connection finds the end of a response |
| Router (`Router`) | `handlers_`, `callbacks_`, `regexHandlers_`, `regexCallbacks_` | `registerHandler`, `registerCallback`, `addRegexHandler`, `addRegexCallback`, `route` | called by `handleRequest` | keys registered twice, exact and pattern routes that overlap, any order | a request goes where the documented precedence says |
| Middleware and CORS (`MiddlewareChain`, `CorsMiddleware`) | `middlewares_`, `CorsConfig` | `processBefore`, `processAfter`, `before`, `after`, preflight | around `router_.route` in `handleRequest` | a preflight thrown as a response, exceptions that skip the way out, two origins | the onion; preflights stop at the gate; no foreign origin is named; an allowed page can read |
| TLS (`SslContext`, `SslConnection`) | per-connection OpenSSL state | handshake, read, write | would sit before `onMessage` | no execution reaches it (section 5) | - |
| Sessions (`SessionManager`, `Session`, `MemorySessionStorage`) | map of sessions, their data and expiry | `getSession`, `setValue`, `clear`, `destroySession` | every handler | no lock at all, sessions kept over a logout, expiry, a session that expires between two looks | see next row |
| Login and logout handlers | `onlineUsers_` | check and mark online, erase | sessions | check outside the mutex, steps that fail half-way | nobody acts for a user whose password was not given; logged out stays out; nobody is locked out for nothing |
| Conversation (`AIHelper`) | `messages`, `strategy` | `chat` with two rounds of a tool protocol, `addMessage`, `GetMessages` | providers (curl), the SQL queue | chats of two tabs on one object without a lock, exceptions between push and pop | history alternates, the log agrees with it, no prompt is published, the chosen model is asked |
| SQL queue (`MQManager`, `RabbitMQThreadPool`, `executeMysql`) | channel pool, `counter_`, `stop_`, the broker's queue and unacknowledged messages | `publish`, worker loop, `shutdown` | AIHelper publishes, workers borrow MySQL connections | redelivery, workers that die, outages | at least once, one holder, duplicates bounded by redeliveries, stored in the end |
| Session lists, history, restore (`ChatServer`, handlers) | `chatInformation`, `sessionsIdsMap` | `ChatSendHandler`, `ChatCreateAndSendHandler`, `ChatHistoryHandler`, `ChatSessionsHandler`, `readDataFromMySQL` at start | AIHelper, SQL queue, MySQL, over several processes | two mutexes for one list, helpers made without listing them, rows that come late, twice or with one timestamp | lists name each conversation once and only what exists; conversations do not mix; what is stored is listed and comes back as it was |
| Registration (`ChatRegisterHandler`) | table `users` | `isUserExist`, INSERT, SELECT id, answer | pool, one borrow per statement | three statements that interleave, a statement that fails, a reply that is lost | the id told belongs to the account made; one winner per name; 409 only for a taken name |
| Event loops and blocking handlers (`HttpServer::onMessage`, speech, image upload) | connections of each loop, `ImageRecognizerMap` and its mutex, `synthesize`'s poll counter | handlers that wait for a provider, a polled task, a model loaded under a mutex | every connection of the same loop waits | no timeout anywhere, a load that throws | everyone is answered while providers answer; a silent provider stops only its loops; one model per user |
| Chat page (`AI.html`) | `currentSessionId`, `tempSession`, `sessions`, bubbles | new chat, submit, click on a session, sync | chat handlers, by fetch | continuations after an `await` read the page's variables as they are then | who waits for each answer sees the chats the server holds |
| Gomoku game (`GomokuGame`, four handlers, `GomokuAI`) | `board_`, `currentPlayer_` per session | move, AI move, reset, state | page | requests in any order, nobody checks `gameOver` | turns alternate, the winner is right, a verdict stands |
| Gomoku page (`gomoku.js`) | board, turn, verdict, `aiThinking` | click, AI button, reset, replies | game server | replies lost, failed, overtaken | the page finds back to the server's game, the AI button comes back |

ChatServer runs four I/O threads (a connection stays on one), two queue workers and the detached health thread
of the pool; GomokuServer runs three I/O threads. The threads share the maps of sessions, users and helpers,
the pools and the channels. A request passes parser (`HttpConnection`), event loop (`IoThreads`), middleware
chain (`RequestPath`), router (`RouteTable`; `Dispatch` composes the two) and handler (`LoginSession`,
`Registration`, `ChatPipeline`, `IoThreads`, `GomokuGame`); a chat continues into `AIHelper` and from there
through `MessageQueue` and `DbConnectionPool` into MySQL, from where the next process restores it
(`ChatPipeline`).

## 2. Modules and how they correspond to the code

One module per component; an action is one access of a thread to shared state, or one
critical section that does no I/O, and its name is the source's name where there is one.
`PROJECT.json` maps each definition to its lines.

* **`DbConnectionPool`** - `connections_`, `initialized_` and `mutex_` are the code's;
  `pc[t]` is the point a thread has reached in `getConnection` or the deleter, `conn[t]`
  its local. `dead` is the outside world: objects whose next ping fails. The health
  thread is `Checker`; `mutex_` is a variable because of `CheckerNap`. Replacing a dead
  connection takes a fresh identity (`Conns \ Live`), as `make_shared` does. `init` that
  throws ends the process and has no successor.
* **`ResourcePool`** - what the pool promises: `Capacity` permits, taken and given back.
  `DbConnectionPool` implements it with `free <- Len(connections_)`, `holders <- Holders`.
* **`HttpConnection`** - the stream is a sequence of atoms (a line's text, a CRLF, a body byte), so every cut
  that matters is a cut between atoms; one iteration of the parse loop is one step, and a loop that never ends
  is `SpinWithoutCRLF`. `request_` keeps what `HttpRequest::swap` does not swap: `content_` and
  `contentLength_` outlive a `reset()`, so a request without a body reaches its handler with the last body
  there was. Handlers return, and keep or close the connection whatever the client asked for. A negative
  `Content-Length` wraps to a number no stream reaches. (`assert(method_ == Invalid)` in `setMethod` is
  compiled out: `CMakeLists.txt:14` builds Release.)
* **`RequestServer`** - what a connection promises its client, with no bytes and no parser: requests
  are handled one by one in the order they were sent and answered as long as the connection is
  open; a refusal ends the answers. `HttpConnection` implements it (`ServiceSpec`) with
  `handled` the ids in `dispatched`, `answers <- wire`, `open` a connection that is not half-closed.
* **`AIHelper`** - `chat()` step by step with the shared `messages` and `strategy`; two
  vector writes that overlap may lose one (`Write`). A text is a role and the request it
  belongs to; whether the model asks for a tool, and whether a call or a publish throws,
  is a choice.
* **`MessageQueue`** - `MQManager::publish` with its locks, the worker loop, and the broker from how
  SimpleAmqpClient is called: prefetch 1, explicit acknowledgement, redelivery at the head when a channel
  goes. It may go while the worker executes its statement (`TakenBack`): the broker delivers the message to
  the other worker, and the first one still executes what it has (`orphan`, `OrphanEnds`) and notices at its
  `BasicAck`. (The comment at `MQManager.cpp:64` speaks of automatic acknowledgement, but `true` is the
  library's `no_local`; `no_ack` is `false`.)
* **`SqlLog`** - an at-least-once log: accepted statements wait until they are stored.
  `MessageQueue` implements it.
* **`LoginSession`** - the storage, the sessions' data, `onlineUsers_`, the two handlers
  step by step, and any other handler as a page request that checks `isLoggedIn` and then
  acts for `userId`. Storage and data have no lock: of two racing writes one may be lost.
  `getSession` is two steps, `LoadSession` and `SaveSession`, between which another thread may destroy
  the session; a login writes `userId`, `username` and `isLoggedIn` one by one. A session may expire
  between any two looks at it. An id names one session object: ids are drawn from 2^128,
  and the generator, which the I/O threads share without a lock (`SessionManager.cpp:50`), is
  assumed not to repeat one.
* **`GomokuGame`** - board and turn; a handler holds `boardMapMutex` throughout, the AI
  handler even over its calls of the model, so a handler is one step.
* **`GomokuPage`** extends it with the page, requests and replies that are lost (`FetchThrows` is what the
  page then does), and replies that overtake each other.
* **`Registration`** - the handler's three statements as three actions of a request; a statement
  may throw, and an INSERT may be executed and its reply lost. Whether `users.username` has
  a unique key is the constant `UniqueNames`, as the table is not in the repository; the
  handler is written as if it had one.
* **`ChatPipeline`** - composes `chatInformation`, `sessionsIdsMap`, the four handlers, `addMessage`,
  the write path as its abstract specification `SqlLog`, and any number of processes: a
  restart forgets the process, keeps MySQL, the broker and the page, and reads the rows
  back one by one in the order of `ORDER BY ts ASC, id ASC` (`id` being the user's, ties come in
  any order). The mutex that protects a creation is held over the step that lists it, and
  the list is copied under another one, so a copy made during a push may miss any id (`ListSessions`).
  `create()` may throw out of `chat()` before anything is said (`CreateThrows`) and leaves the
  conversation listed and empty. `said`, `cut`, `disturbed`, `tied`, `missing` and `unsaid` are
  history variables.
* **`RouteTable`** - the four tables as functions and sequences of routes, with the log of all
  registrations; `route` against `Expected`, which reads the documented precedence off the log.
  `:name` segments match one non-empty segment.
* **`RequestPath`** - `onRequest`, `handleRequest`, both loops of the chain and `CorsMiddleware`, for the
  requests of one connection. Each CORS middleware of the chain has its own `CorsConfig`; the first is the
  gate (`IsGate`): it sees requests first and responses last. Router and handler are the outcome of a request:
  an answer that keeps or closes the connection, an exception, no route.
* **`Dispatch`** - composes the two as a server: the application registers its routes and fills the
  chain in its constructor, `start()` fixes both, and a request has a route exactly when the
  tables have one for its method and path.
* **`IoThreads`** - event loops that run the handlers of their connections one after the other;
  `poll` collects the readable connections and the loop serves each before it polls again.
  Handlers that wait: chat, `synthesize` with its bounded polling, image upload with its mutex.
* **`ChatPage`** - each asynchronous function up to its `await` and from it on as two actions; the server's
  log of each session; fetches that fail or overtake each other; a provider that fails when the question is
  already in the log (`ServerFails`).
* **`MC*`** modules give TLC's constants and symmetry sets; **`*_proof`** modules hold the
  theorems of the modules they extend, which for that keep their names apart (`PageSpec`,
  `RegisterSpec`, `ThreadsSpec`, `DispatchSpec` beside `Spec`).

A definition commented `Fault:` stands before the definition it varies. It is a plausible
wrong version of it, is used by no specification, and documents what the property named
in `PROJECT.json` "mutants" guards against: with it in place of the right one, TLC finds
the property violated.

### External code

muduo delivers bytes of a connection in order on one thread, and drops what is sent after a half-close; its
loops serve every readable connection before they poll again; RabbitMQ does not restart; MySQL may go down,
come back, reject a statement, or commit and lose the reply; a provider answers or its call fails. Builds in
which a data race crashes the process end there and have no further states.

## 3. Runs

| Run | Instance | Shows |
|---|---|---|
| `pool` | 3 threads, 3 connection identities, pool of 1, 2 calls each, fairness, no symmetry | `SingleOwner`, `NoLostWakeup` and the refinement `PoolSpec` whatever dies and whenever; `CallsEnd`: the nap with the mutex held delays but does not stop callers |
| `http` | 3 requests of 8 kinds (bodies, empty bodies, missing and negative lengths, malformed lines), handlers that keep or close the connection, any cuts, serial or pipelined client | `Framing`, `AnsweredInStep` (each answer is that of the next request of the stream, and each request is handled once), the refinement `ServiceSpec`, `Served` |
| `httpHalfPacket` (violated) | 1 request | a head cut before a CRLF makes `parseRequest` spin: finding against `prj_interview.md:760` |
| `aihelper` | 3 chats, one plain and one MCP model and an unknown one, one overlap, failures anywhere, symmetry | `PublishedOnceInOrder` always; for chats that do not overlap `SerialChats` (memory alternates until one fails, and the log agrees with it until a publish fails) and `RequestIntegrity` |
| `mq` | 3 publishers, 1 channel, 2 workers, a rejected statement, 1 fault, 1 outage | `ChannelLocked`, the refinement `LogSpec` (also when two workers execute one statement), `EventuallyStored` |
| `login` | 2 browsers, 2 users, 4 ids, 2 threads, 4 requests, symmetry | `ActsForItsUser`, `LoggedOutForGood`, `OnlineIsLoggedIn` |
| `registration` | 3 requests, 2 names, 2 passwords, unique key, 1 failing statement, symmetry | `RegisteredIsOwn`, `ConflictIsReal` |
| `chatPipeline` | 2 users, 2 session ids (which collide), 2 chats, 2 restarts, 3 points in time, 1 fault, symmetry | `ListsAreRight`, `NoCrossTalk`, `StoredIsListed`, `RestoreFaithful`, `ShownRoles` |
| `dispatch` | up to 3 registrations of 4 kinds, 2 methods, 3 targets, exact and pattern paths that overlap, symmetry; chains of 0 to 3 middlewares, 2 origins, 4 configurations chosen anew for each CORS middleware, 2 requests | `RoutedAsDocumented`, `ChainOrder` (the onion, and preflights that end at the gate), `CrossOrigin` (the pages that may read a response are those the gate allows), `KeptOpenIsDelimited` |
| `ioThreads` | 2 loops, 3 connections, 2 users, 2 polls, providers that may stay silent | `OneModelPerUser`, `EveryoneAnswered` if providers answer, `OtherLoopsGoOn` if they do not |
| `chatPage` | 3 sessions of which 1 exists, 2 questions, 3 clicks, 1 lost message or failing provider, symmetry | `PatientUser` (who waits for each answer sees and keeps the chats the server holds), `NewChatStartsEmpty` |
| `gomoku` | 3x3 board, 3 in a row, 2 messages under way, 1 reset or lost session, fairness | `RulesKept` (turns alternate and the winner is the one who has a row), `ViewInSync`, `ThinkingEnds` |

A run named "violated" is expected to end in a counterexample; all others finish without
an error. `aihelper`, `chatPage`, `ioThreads` and `gomoku` also check the type invariant of their
module; for the other modules it is proved only (section 4).

**Why the bounds are enough.** Pool: with one connection and two calls each, a thread that returns it can be
the overtaker of the waiter it woke while the third thread waits too; what the health thread copied may be
lent, replaced and replaced again (three identities). The theorems of the pool are for any size. HTTP: three
requests are one that leaves its body or its headers behind, one that has none, and one that meets either.
Chats: one overlap already gives every pair of interleaved calls, and a third chat follows to see what they
left. Queue: three publishers on the one channel, where all contend (`ChannelsExclusive` is proved for any
number of channels), and a second worker to redeliver to; one fault, one outage and one rejected statement can
kill both workers; the fault may be a connection lost during an INSERT, when the second worker gets the same
statement. Login: login, logout, and two more requests that overlap with them. Registration: three requests
are two rivals and one of another name. `ChatPipeline`: two restarts show that what one misses the next one
finds; two milliseconds apart are enough to order rows, and one fault is a chat cut off, a doubled row or a
restore that fails. Dispatch: a third registration meets both an equal key and an overlapping pattern; chains
of three have a CORS middleware before, behind and between plain ones; the servers that are started
(`StartedWith`) have the one route `/users/:x`, which some requests meet and some miss, since what a request
may do on the way depends on the tables only through that. Chat page: an old session and new ones, and a click
that comes while an answer is awaited. Gomoku: two messages in flight can overtake each other; on a 3x3 board
with three in a row Black wins, White wins and the board fills up without a winner. Messages overlap while the
board is empty but for one corner, and from there the game is played to its end one request at a time
(`MCBounds`); the theorems hold for a board of any size and messages that overlap at any time. `MaxCalls`,
`MaxRequests`, `MaxOverlaps`, `MaxFaults`, `MaxOutages`, `MaxPending`, `MaxResets`, `MaxTime`, `MaxRestarts`,
`MaxRegistrations`, `MaxChain`, `MaxQuestions` and `MaxVisits` are bounds of the model, not of the code;
`MaxLoops` (60) is the code's, made small. Deadlock checking is off where the system may stop: bounded clients
that have nothing left to send, workers that have ended, a process that is shut down. It is on in `pool`,
where the health thread never stops, and in `ioThreads`, where a client can always send again.

**Conditional properties.** `SerialChats` and `RequestIntegrity` hold for chats that do not overlap, their
parts on roles and alternation until one has failed (`failed`), the log's agreement until a publish has thrown
(`unpublished`), `OnlineIsLoggedIn` while nothing overlaps, expires or fails half-way, `ViewInSync` unless a
reply was overtaken or a fetch of the state failed, and `Framing` until a parse fails. `RestoreFaithful`,
`StoredIsListed` and `ShownRoles` exempt conversations that were `cut` (a chat failed, overlapped or was ended
by a restart), `disturbed` (a message MySQL will never have, or has twice), `tied` (two messages of one
millisecond), `missing` (rows not there at the start) or `unsaid` (known to a page at the start, though
nothing had been said: `ChatSendHandler` then continues it without listing it); `PatientUser` asks for a user
who waits (`undisturbed`), excepts the questions that were answered by an error (`unanswered`) and is silent
on the roles in a session whose log has a question without its answer (`halved`), because the history goes by
position; `KeptOpenIsDelimited` exempts a 500, which states no length. `RegisteredIsOwn` assumes the unique
key. In each case the code does not give more: the history variables (`overlaps`, `disturbed`, `stale` and
those just named) say exactly where the guarantee ends, and the runs reach states on both sides of the
condition.

**Fairness.** A running thread goes on (weak fairness of its steps); a lock that is free
again and again is eventually got by a thread that keeps asking, which the pool
needs since the health thread re-takes the mutex right after its nap: in `DbConnectionPool` the steps that
take the mutex (`TakesMutex`) are strongly fair and those that talk to MySQL (`Connects`) weakly; the broker
delivers; an outage of MySQL ends; the I/O thread of a connection goes on reading; requests
of the page are handled and their replies arrive or are found lost. In `IoThreads` the loops' steps
are strongly fair, because the recognisers' mutex is contended and every waiter gets it in the end;
providers are obliged to nothing, and `EveryoneAnswered` has the fairness of their answers as its
premise. No client is obliged to
send anything, no fault is obliged to happen, and `cv_.wait` need not wake by itself.

**Where code and documents disagree.** `httpHalfPacket` is the disagreement the project checks. Others are
visible in the model, where the history variables or the excuses of the properties above record them:

* A request without a body reaches its handler with the body of the last request that had one, because `reset()`
  swaps with `HttpRequest::swap`, which leaves `content_` and `contentLength_` (`HttpRequest.cpp:137-146`;
  `prj_interview.md:185` draws `GotAll --> ExpectRequestLine: reset()`). `Framing` states what handlers do get.
* A provider that fails after the question was stored (`AIHelper.cpp:43-47`) leaves a lone question, and the
  history page, which goes by position, shows every later text of that session in the wrong role.
* A conversation whose first chat throws in `create()` (`AIHelper.cpp:40`) is listed with nothing said; after a
  restart a page that knows it continues it, and it is stored without being listed.
* An exception of a model call leaves the intermediate prompt in the history (`AIHelper.cpp:57-63`;
  `prj_interview.md:282` says it never stays).
* An outage of MySQL ends both queue workers, because the `try` is around their loop (`MQManager.cpp:52`;
  `prj_interview.md:800` says an outage is buffered).
* A login answered 403 has already marked its session as logged in (`ChatLoginHandler.cpp:32-35`); two logins of
  one account that overlap both pass; an expired session keeps its account refused (`entry.html:198` takes the
  403 for "logged in elsewhere").
* The loser of two registrations of one name is answered 500, not the 409 that `entry.html:230` expects.
* Messages of one millisecond come back in either order (`ChatServer.cpp:49`), and rows still in the queue at
  a start are missing until the next one (`AiApp.cpp:47`; `learning_route.md:558`).
* A handler that keeps the connection overrides a client that asked to close it (`HttpServer.cpp:148`), and with
  two allowed origins the second passes the preflight only (`CorsMiddleware.cpp:43`).
* An answer that arrives after another session was opened is kept under that one (`AI.html:398`).
* A page on the loop of a chat whose provider is silent waits as long as the chat (`AIHelper.cpp:153`;
  `prj_interview.md:827` says the loop is not blocked).

## 4. Proofs

All proofs are for arbitrary constants under the modules' named assumptions.

* **`DbConnectionPool_proof`** (assumption `PoolAssumption`). `TypeInv` (types, and a thread has a connection
  exactly between pop and push) is inductive. `SingleOwner` is inductive relative to it: a popped connection
  leaves the queue, a replacement is fresh because it is not `Live`; before `init` the queue is empty
  (`EmptyBeforeInit`). `Conservation` counts: each action moves one unit between queue and holders, by the
  cardinality lemmas for adding and removing one holder. `NoLostWakeup` follows by counting woken threads: a
  notify adds one for the connection it announces, a pop by another thread takes one away from both or only
  from the queue. `PoolRefinement` maps pop to `Take`, push to `Give`, `init` to `Open`, and the rest to
  stuttering; it uses `TypeInv` and `SingleOwner`.
* **`MessageQueue_proof`** (assumption `QueueAssumption`). The inductive invariant `QueueInv` adds to `NoLoss`
  and `OneCopy` (the broker's one copy: a statement is queued, or unacknowledged with one consumer): a
  publisher past its first step has a statement left to send and a worker past its take has a message in hand,
  nothing travels that was not accepted, what is accepted was sent (so a publisher never sends the same
  statement twice), a worker that acknowledges has stored its message (so an acknowledgement loses nothing),
  and rows are bounded by one plus the redeliveries, minus one while the statement still waits to be executed
  and minus one for each worker that still executes it without being its consumer (`Orphans`). That a channel
  has one publisher at a time needs only the types and is proved apart. `WritePathRefinesLog` maps a publish
  to `Accept`, an insert to `Store`, an acknowledgement to `Forget`, and everything else, redelivery included,
  to stuttering.
* **`Gomoku_proof`** (assumption `GomokuAssumption`), for any board size and length of row.
  The invariant `OnlyTheMoverWins` (only the current player can have a row, because the
  turn is not passed on after a win) is what makes checkWin's view of one player enough;
  lemma `RowIsWin` shows that its four directions find the rows of all eight. With it:
  `WinnerIsRight`, `AlternateMoves`, and `VerdictStands` as an action property. The page plays
  the same game whatever happens to messages (`PagePlaysTheGame`: `PageSpec => Spec`), so they hold behind it
  too (`PageRulesKept`). `Settled` gives
  `ViewInSync`: unless a reply was overtaken, requests are still under way, or the last reply
  under way shows the game as it is, or the page does.

* **`ChatPipeline_proof`** (assumption `PipelineAssumption`). `TypeInv` types a conversation's messages as its
  own, which is `NoCrossTalk`. `ListInv` (a name goes on a list under the mutex, by the one request that has
  just made the helper, and never twice) gives `ListedOnce` and `ListedHaveHelpers`, together `ListsAreRight`.
  `CompleteInv` gives `StoredIsListed`: outside the excuses, what was accepted, has a helper or is known to a
  page is on the list, about to be, or among the rows still to be read; and what was said in has an accepted
  statement. The second half is what carries the first over a restart, when all lists are empty: a known
  conversation then has a row, or nothing was said in it and it is `unsaid`. What is said in a conversation
  needs three more: `SaidInv` (outside `disturbed` one chat runs in it at a time, and what was said is what
  was accepted, in the order of its time), `MemoryInv` (while the server serves, memory without prompts is
  what was said; during a restore it is the beginning of it and the rest is in the rows, each once) and
  `RolesInv` (while every chat runs to its end, question and answer take turns, and a prompt is last and about
  to be popped). They give `RestoreFaithful` and `ShownRoles`. `PipelineKeepsToLog` closes the composition
  with the write path: every step is one of `SqlLog` or leaves it alone, and, since no request says the same
  twice (`FreshInv`), the log never refuses what a chat publishes, so its guard takes no behaviour from
  `addMessage`.
* **`Dispatch_proof`** (assumption `PathAssumption`), for a chain and tables of any length. `PathInv` says for
  each place in the two loops what has been passed and what the response has so far; each answer on the wire
  satisfies `Good`, one conjunct per property: `ChainOrder`, `CrossOrigin` and `KeptOpenIsDelimited`. The way
  out ends at the gate, so what it writes stands, whatever the others allow. `RouteInv` relates the tables to
  the log of registrations: an exact table holds the last entry of each key, a pattern vector holds all
  entries in the order they came. With it `route` finds what the documented precedence says
  (`RoutedAsDocumented`), for any registrations before `start()`.
* **`Accounts_proof`**, for any browsers, users, ids, names and threads. Sessions (assumption
  `SessionAssumption`): `TypeInv` adds to the types that a handler has a session exactly between `getSession`
  and its answer. `GoneInv` gives `LoggedOutForGood`: a session logged out alone is out of the storage, and no
  handler that would save it has it. `CredInv` gives `ActsForItsUser`: an id is had (`Has`: in a cookie jar,
  or on its way to or from it) by one browser, every user written to a session is one whose password its
  browser has given, and an id that was never generated has no user. It needs nothing of the order of
  requests, so lost writes and expiry change nothing. `OnlineInv` gives `OnlineIsLoggedIn`: while nothing is
  disturbed, one handler runs, and who is online is found logged in or is being logged out. Registration
  (assumption `RegistrationAssumption`): `ConflictInv`: a request comes to its answer without an id only when
  it found the name taken, and names are never freed. `OwnInv`, under `UniqueNames`: a name has one row, a
  request between its INSERT and its answer (`Holds`) has a row with its own name and password, and two
  requests that hold have different names. It is what makes the unordered `SELECT id` find the right row, also
  when an INSERT was executed and its reply lost.
* **`Chat_proof`** (assumptions of `AIHelper` and `ChatPage`). *One conversation* (`ModelAssumption`), for any
  number of chats and models. `SoleInv` says, while no chat has overlapped another: one chat runs at a time
  (so no write is lost), the strategy is the one it asked for, the texts its request is built from end with
  its own, and, until a chat has failed, the number of messages is odd exactly while its text waits for an
  answer (`Parity`). It is what makes `buildRequest`, which takes the roles from the parity of the index, say
  the user's text in the user's role: `RequestIntegrity`. `PublishInv` needs nothing of this and gives
  `PublishedOnceInOrder` under any overlap: an answer is in the log only when its chat is done, and a chat
  that is about to answer has its question there. `HistoryInv` says which message may stand at which place of
  the history, `LogInv` that the log is the history without prompts, less at most one text that is about to be
  published; together they are `SerialChats`. *The page* (`PageAssumption`), for any sessions, questions,
  clicks and losses. `PageInv` types the page and what each fetch carries. `PatientInv` is about a user who is
  still `undisturbed`: at most one fetch is under way; every session but the one it is about has a log of
  whole exchanges, unless it is `halved`, and is on the page as its log is (`Kept`); and the fetch itself says
  how far the exchange it waits for has come (`FetchInv`, one conjunct for each kind): the page shows what it
  showed before plus the question, the log what it had before, plus the question, plus the answer. Page and
  log are compared by ranks (`Rank`, `Agree`), so that an error the page shows in place of an answer takes
  away only its question; bubbles are compared with their roles unless the log is `halved` (`Same`). From it
  `PatientUser` and `NewChatStartsEmpty`.
* **`Connections_proof`** (assumptions of `HttpConnection` and `IoThreads`). *The parser*, for any number of
  requests, cut and pipelined in any way. `StreamInv` is the heart: there is a labelling of the unread atoms
  (`Labels`) that gives each its request and its place in it, consecutive ones labelled with consecutive
  places; and the parser's state agrees with the first label (`Phase`): in the headers of request *i* it has
  the request line of *i* and exactly the headers before its place, in the body it expects as many bytes as
  are left, after the last atom it has line and headers of *i* and of no other; behind a negative length it is
  stuck in the body (`Stuck`). `Ordered` holds also after a rejected request: the ids handed over increase.
  `ContentInv` says of `content_` that it is the body of the last request that had one. From them `FramingInv`
  (`Framing`: who gets which request with which body) and `AnsweredInv` (`AnsweredInStep`: as many answers as
  requests handled, each that of the next request of the stream). `ConnectionServes` puts them together as a
  refinement: `OnRequest` is `Handle` or, after a 400, `HandleUnanswered`, for which `NumberedInv` adds that
  what is handled late is a request that was sent; `ClientSends` is `Ask`, `Reject` is `Refuse`, and the rest
  of the parser stutters. *The event loops*: `ThreadsInv` (a loop that is in a handler has its connection
  among the readable ones still to serve) gives the types, `LoadInv` (who loads the model holds the mutex and
  found none) gives `OneModelPerUser`.

**Induction.** The library's induction theorems take an operator as a parameter and cannot be used here. Where a
fact about data is needed for all lengths, the proofs take a least counterexample (lemma
`Least`, from the well-foundedness of `<` on the naturals), or count with `Cardinality` over
intervals, as `Said`, `Place` and `Rank` do.

**Only model-checked**: liveness (`CallsEnd`, `Served`, `EventuallyStored`, `ThinkingEnds`,
`EveryoneAnswered`, `OtherLoopsGoOn`), which TLAPS does not reach under fairness. Every invariant and every
refinement that a run checks is also stated by a theorem. `SelectSeq` cannot be expanded by the
provers; the modules compare sequences that leave something out by ranks instead (`Said`, `Place`,
`Rank`: how many of the first *i* stay).

## 5. What is not modelled

* **TLS.** No execution reaches it: both servers are constructed with `useSSL` false and nobody
  calls `enableSSL`; if somebody did, `SslContext::loadCertificates` would refuse the context,
  because it checks a private key that nothing loads, and `SslConnection::handleHandshake` never
  sends what OpenSSL writes to `writeBio_`. There is no behaviour of the program to check.
* **Code without callers**: `cleanExpiredSessions`, `Session::remove` and `AISpeechProcessor::recognize`.
* **The base 64 codec**: a pure function of the image upload, with no state and no interleaving.
* **`ResultSet` lifetime** (`MysqlUtil.h:26`): the result outlives its borrow, but the rows are
  buffered in the client by the driver's default, so what another borrower does to the
  connection is not seen. It depends on the driver's configuration, which is not in the repository.
* **Providers, libraries, services**: what the models, the speech service, OpenCV and ONNX compute. Their
  calls return, throw or stay away.
* **Data that no property is about**: formatting and parsing of JSON and headers, SQL text, the wording of
  answers, drawing, static files, wrong passwords and other requests that change nothing.

## 6. Plan

1. *(done)* The pool, the HTTP connection, the conversation, the SQL queue, sessions and
   login, the board game and its page; theorems of pool, queue and game.
2. *(done)* Conversations over several processes, registration, router, middleware chain,
   CORS and their composition, event loops, the chat page; theorems of registration, conversations, chain,
   sessions and single chats.
3. *(done)* **Proofs** of the parser, the router, the conversation's log, the page of the game, the event
   loops, and who is online.
4. *(done)* **Proofs** of what restarts bring back, of the chat page, of the connection as an
   implementation of `RequestServer`, and of conversations and their log.
5. **Proofs** that would add most: that `LoginSession` implements an abstract access control, and that
   chats that do not overlap let `AIHelper` implement the chats of `ChatPipeline`.
6. TLS, if the servers come to enable it.
