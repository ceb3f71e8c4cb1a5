# A TLA+ verification of the chat service

The repository is an HTTP chat server in C++: an epoll-driven HTTP framework
(`HttpServer/`) and a chat application on it (`AIApps/ChatServer/`) that keeps login
sessions, calls remote or local language models, and stores each question/answer pair
in MySQL through a RabbitMQ queue. This directory models the parts of it that are hard
to test, checks them with TLC on small instances, and proves the most important facts
with TLAPS for every value of the parameters.

## 1. The system

| Component | State | Operations | Talks to |
|---|---|---|---|
| Persistence queue: `MQManager`, `executeMysql`, `ChatExchange` | `pending_`, `inflight_`, `outstanding_`, `generation_`, recovery flags, timers | `publish` (HTTP threads); loop functors, timers and AMQP callbacks (event loop); `start`, `shutdown` | RabbitMQ, the MySQL pool, the chat helper |
| MySQL connection pool: `DbConnectionPool`, `DbConnection` | `idle`, `allocated`, `target`, `stopping` | `init`, `getConnection`, the lease's deleter, the destructor | MySQL, every handler |
| Login sessions: `SessionManager`, `MemorySessionStorage`, `Session` | `sessions_`, expiry times, values | `getSession`, `setValue`, `clear`, `destroySession`, sweep, destructor | every handler, the cleanup thread |
| Chat helper: `AIHelper` | message history of one user's chat | `chat`, `chatStream`, `restoreMessage`, snapshot, commit | models, the persistence queue |
| Chat handlers, `ChatServer` | map of helpers, session lists, online users | send, create-and-send, history, sessions; restore at start | helpers, sessions |
| Local inference: `GemmaInferencePool` | cached sessions with transcripts, LRU order | `generate`, `clearSession`, `shutdown` | the engine |
| Model streams: `executeCurlStream`, `AIStrategy` | the line buffer of one transfer | curl's write callback, the end of a stream | remote models, the chat helper |
| Image limits: `ImageResource`, `ImageRecognizer` | a counter of permits, a map of recognizers | preflight, permit, predict | the upload handler, OpenCV |
| Accounts: register and login handlers, `PasswordUtil` | the `users` table | insert, check, upgrade of a plaintext | MySQL, login sessions |
| HTTP: `HttpServer`, `HttpContext`, `HttpRequest`, router, CORS | parser state of each connection | `onMessage`, `onRequest`, streams | handlers |
| TLS: `SslConnection` | two memory BIOs, `state_` | `onRead`, `handleHandshake`, `send` | OpenSSL, the TCP connection |

What is hard:

* *Concurrency.* Four handler threads, one event loop, one cleanup thread and detached
  streaming threads share the pool, the sessions, the helpers and the outbox.
* *Failure.* Connections to RabbitMQ and MySQL break at any point; a publish is
  ambiguous until it is confirmed; the process may die between any two steps.
* *Ordering.* Delivery and publish tags restart with each connection, functors and timers
  of an old one are still queued, an unroutable publish is returned *and* confirmed.
* *Framing.* Reads and curl's writes cut requests and events at any byte; requests are
  pipelined; a streaming thread writes to a connection the event loop still reads from.
* *Time.* Sessions expire while they are used; waits end by notification, spuriously or by
  their limit; retries are delayed.

What makes each part correct: the queue loses nothing it has admitted while the process
lives and nothing confirmed ever, settles each delivery exactly once, and keeps moving;
the pool neither leaks nor exceeds its capacity, never shares a connection and never
forgets a waiter; the session store keeps its capacity, never revives a removed session
and never drops a live one; a chat's history grows by whole exchanges in the context they
were answered in, shows what was accepted and nothing else, and is restored in order; the
requests an application sees are the messages the client sent and every response answers
its own; a model's answer enters a history only if it arrived whole, and the local engine
answers in the history it was given; image work stays within its limits; a password check
or upgrade never undoes a newer password.
`PROJECT.json` lists the hazards line by line, with the
properties that cover them.

## 2. Modules

| Module | Models |
|---|---|
| `Amqp` | RabbitMQ and the TCP connection, as `MQManager.cpp` uses them (external) |
| `MQManager` | `MQManager::Handler`, `executeMysql`; extends `Amqp` |
| `DbConnectionPool` | the pool, the health check, the lease; MySQL is external |
| `ConnectionLeases` | abstract: what `DbConnectionPool` promises, exclusive leases |
| `SessionManager` | the session manager and storage, login after the password check, logout |
| `ExchangeQueue` | abstract: what `MQManager` promises, a queue that delivers at least once |
| `ChatHistory` | `AIHelper`, the send handlers, `executeMysql`'s INSERT and the restore at start; extends `ExchangeQueue` |
| `ModelStream` | `executeCurlStream`, the event readers of `AIStrategy.cpp`, the commit decision of `chatStream` |
| `GemmaInferencePool` | the local inference pool with its KV caches; the engine is external |
| `Accounts` | registration, password check and upgrade; MySQL is external |
| `ImageUpload` | the upload handler, the image limits, the permit; OpenCV is external |
| `HttpConnection` | one connection: reads, parser, dispatch, middleware and routes, responses, streams |
| `SslConnection` | the TLS handshake between the connection and OpenSSL |
| `*Proofs` | theorems about the module they are named after; `HttpConnectionProofs` also about `ModelStream` |
| `MC*` | model values and symmetry for TLC |

### MQManager

One action per callback: `PublishLoad`, `PublishReserve`, `PublishEnqueue` are
`schedulePublish` on an HTTP thread, split at the load and the compare-and-swap, since the
event loop changes `outstanding_` without the mutex. `RunSubmitted`, `RunCompletion`,
`RunRecover`, `RetryTimerFires`, `ReconnectTimerFires` are functors and timers of the loop;
`OnConnected` to `ConsumerStarted` are the callbacks of the connection set-up; `Persisted`,
`PersistFails`, `ParseFails`, `OnAck`, `OnNackOrReturn` are what a frame from the broker
causes. `drainPending` is an operator, and every caller of it is an action that includes it,
but for the socket's write callback, which finds nothing to drain: every step that adds to
`pending_`, frees a place of the window or makes the producer ready has drained already.

Abstractions: a body is a job and an attempt number; JSON that `ChatExchange::parse`
refuses is a `Legacy` job. The loop's functor queue is one FIFO per kind and the loop may
take any kind next, which allows more orders than the code. Delays are arbitrary. A failed
INSERT may have taken effect. A fault is any of: cut connection, failed connect, nack,
refused publish, failed INSERT, deleted quarantine queue, shutdown, crash; `MaxFaults`
bounds them together.

### DbConnectionPool and ConnectionLeases

Each section under the mutex is one step, and each call to MySQL is one step. A thread's
place (`create`, `ping`, `reconnect`, ...) is the line of `getConnection` it is at. A
condition-variable wait has three ends: notified (`Resume`), unnotified with the predicate
true (`ResumeUnnotified`: spurious or at the limit), and the limit with the predicate false
(`TimeOut`). A notification after the mutex is released is a step of its own (`Notify`,
`StopNotify`), so that other threads can come between.

`ConnectionLeases` is the pool without its queue, its reservations and its waiting: a thread
is admitted while there is room, is granted a connection that is in no other lease, and
keeps that one until it returns it; closing admits nobody any more, and takes away nothing
that was promised. The pool is shown to implement it (`ImplementsLeases`): a thread is
admitted while it holds a place, and has a lease while it is past its health check.

### SessionManager

Each section under the storage mutex or the session mutex is one step. `setValue` is a
write and then an update of the storage; the values of `username` and `isLoggedIn` are not
kept, since no step depends on them, but their updates of the storage are. `LoadMisses`
constructs the new object and `Admitted`/`Refused` follow as separate steps, so several
requests can be between the two. An id may be drawn again after its first session is gone.
A refused object is destroyed; any other object is used once.

### ExchangeQueue and ChatHistory

`ExchangeQueue` has four sets of exchanges: in the process's memory, in `sql_queue`, in
quarantine, stored. Its steps say when an exchange may enter and leave each: memory is
freed only for what the broker or the table holds, and `sql_queue` only for what is stored
or quarantined. `MQManager` is shown to implement it (`ImplementsQueue`; the sets are
computed from the outbox, the broker's queues and the table), and `ChatHistory` uses it in
place of `MQManager`, so that the chat handlers are checked against every behaviour of the
queue at a fraction of the states.

In `ChatHistory` a helper is a pair of user and chat id. `Send` and `CreateAndSend` are the
two handlers up to the call of `chat` or `chatStream`; from there handler threads and
detached streaming threads are alike. `Lock` is the entry of both functions: the mutex, the
canonical-history test and the snapshot for the model; with a tool-calling model
`chatStream` gives the mutex back and goes through `Lock` once more. `ModelFails` is every
failure up to the commit. `commitExchange` is split in `Publish` (or `PublishRefused`) and
`Swap`, since the consumer may store the exchange, or the process may end, between them.
`Shown` and `ShownChats` are what the history and sessions handlers answer.
`Persist` is the INSERT of two rows with its unique message id, `Restore` is
`readDataFromMySQL`: the query returns the rows in any of `Orders`, sorted by time and
otherwise free, and `ReadRows` is the loop that makes helpers, lists and histories of them.
Each read of the system clock
gives any time. `log` is a history variable with what was accepted for each chat, in order,
and `incomplete` marks chats that were restored while one of their exchanges was not stored.

### ModelStream

`Write` is one call of curl's write callback with the next bytes of the body, cut anywhere;
each line it finds is a step (`SkipLine`, `DoneLine`, `ErrorLine`, `TokenLine`,
`ChunkThrows`), `Performed` is the end of the transfer and `Conclude` the decision of
`chatStream`. A symbol stands for the text of a whole line and `EventOf` for what the JSON
in it means to the strategy, so the model is about framing and order, not about JSON. The
two families of strategies differ in one thing, whether an event can carry the end of the
answer (`application`). The property is stated over the body as a whole (`WholeAnswer`,
`Sound`), without buffer and callback. `BodyAssumption` says what an event is here: a line
that is empty or one symbol. `ChatHistory` takes the result as one step: an
answer or `ModelFails`.

### GemmaInferencePool

`inference_mutex_` is held through a generation, so operations are atomic but for the
generation itself: `Generate` runs up to the call of the engine, `Finish` and `Fail` follow.
The KV cache of a session is the list of messages its positions encode; the code never
sees it and decides by the transcript it remembers, so that `ContextIsHistory` relates the
two. Tokens are counted, the two capacity checks (the policy's and the allocated cache's)
are kept apart, since the second can be smaller.

### Accounts

Each SQL statement is one step and may fail, with or without its effect; requests interleave
between them. `users.password` is a plaintext of an earlier release or a salted hash, which
is fresh each time. `ResetPassword` is the operator's reset of
`deploy/auth-password-migration.md`, the writer that an upgrade may race. `latest` and
`seen` are history variables: the password set last, and the credentials a request
could have met.

### ImageUpload

`Upload` is everything up to the recognizer: the text length, base64, the limits on bytes,
header and shape. `LoadActive`, `Acquire`, `CasFails`, `Busy` are the permit's loop, split
at the load and the weak compare-and-swap; each way out of the guarded part releases it.
An image is its size, the soundness and the shape of its header, and what the decoder makes
of it: the same shape, exchanged sides, another shape, nothing.

### HttpConnection

The peer's messages are encoded to bytes, and `Deliver` hands over any number of them.
`WaitForMore`, `Reject`, `ProcessRequestLine`, `AddHeader`, `EndHeaders` and `ReadBody` are
the turns of `parseRequest`; `PreflightRequest`, `NotFound`, `HandlerReturns`,
`HandlerThrows`, `CallbackThrows`, `TakeOver` and `TakeOverFails` are the ways `onRequest`
can end, with the response, the close and the rest of the loop included. One symbol stands
for the text of a line; lengths keep their digits, since their overflow check, leading
zeros and repetition matter; a body may look like a request. `StreamToken` and `StreamEnd`
are the detached thread, which may run between any two steps; the event with the session id
that `ChatCreateAndSendHandler` writes behind the head is part of the head. `RequestsAsSent` is stated
over the messages, not over the parser (`WellFormed`, `Matches`). `PlanAssumption` says what
a message is: behind a well-formed head comes a body of the length the head gives, since
nothing else ends a message on the wire; behind a head that is refused anything may follow.

### SslConnection

OpenSSL's state machine is reduced to the flights of a handshake and what is in the two
BIOs; `OnRead` and `Drain` (the end of `send`) are the code's steps.

## 3. What TLC checks

| Run | Bounds | Shows |
|---|---|---|
| `mq_outbox` | 2 jobs, 1 backlog item, 2 places, window 2, 1 retry, 2 faults, 3 deliveries per connection | the handler implements `ExchangeQueue`; no loss, exact counter, one settler per delivery, current acknowledgements, quarantine only when exhausted |
| `mq_liveness` | 1 job, 1 backlog item, window 1, 2 faults | everything admitted or confirmed is settled, the backlog is quarantined, the producer recovers |
| `db_pool` | 3 threads, pool sizes 0 to 2, 3 connections, 2 faults, any number of calls | exact capacity, one owner, no lost wake-up, the pool implements `ConnectionLeases`; who waits is served or overtaken for ever, calls end by their limit, a stopped pool drains |
| `session` | 2 threads, 2 ids, 2 objects, capacity 1, lifetime 2, time 3 | capacity, no resurrection, drops and refusals only for their reasons; expired sessions are reclaimed, the destructor's join returns |
| `chat` | 2 users with the same chat id, 2 threads, 2 exchanges, 3 tables of an earlier release, clock 0 to 1, largest timestamp 9, any number of process ends | answers in context, truthful replies, only canonical histories continued; ordered restore, genuine, whole, unduplicated histories; isolation of users, list of chats agrees with the helpers |
| `model_stream` | all bodies of three events of nine kinds, cut at any byte | the committed text is the answer of a sound, whole response; failures have a cause |
| `gemma` | 3 chats, 2 caches of 6 positions, histories up to 3 messages of 2 kinds, 4 turns, 2 ticks | the engine's context is the caller's history, caches and positions within their limits, longest idle evicted |
| `accounts` | 3 requests for 1 name, 2 passwords, 1 reset | the newest password survives, answers are true |
| `image_upload` | 3 uploads, 2 permits, 16 images on both sides of each limit | permits exact, work within limits, statuses true |
| `http` | up to 2 of 20 messages (12 well-formed) or 3 of 4, any cut | requests as sent, responses in order, a stopped connection has a reason |
| `http_takeover` | the same | *violated*: see Findings |
| `ssl_handshake` | flights in 2 reads | *violated*: see Findings |

Why the bounds are enough to be interesting. With two places and three messages the outbox
fills, and a retry or a replacement competes with a publisher; a window of one (in
`mq_liveness`) makes `pending_` non-empty with the producer ready, a window of two lets
confirms come out of order; two faults allow a reconnect during the recovery from another,
and a crash after a confirm. The code's retry budget is five: one retry has both sides of
the boundary. A full outbox of replacements lets the broker deliver and redeliver without
end; `MaxDeliveries` bounds that loop. Three threads on a pool of one or two give a holder,
a sleeper and a newcomer, who calls again and again and can overtake the sleeper for ever.
A lifetime of two ticks separates a session that was refreshed
from one that was not; one place and two ids have both a full storage and a taken id. A
stored exchange of an earlier release, one still queued and one accepted after a restart
are the least that makes a gap; a clock with two values can stand still, go on and be set
back, and the old tables are ahead of it. Three events are a text, an end and what may
follow it. Two caches and three chats evict; a cache of six positions is smaller than the
policy's seven, and is filled by two turns. Three requests for one name are two racing
registrations or upgrades and a third that meets their result. Three uploads and two
permits leave one without. Two messages show what a read leaves for the next parse, the
third what follows a stream or a refusal. What the bounds leave out is what the proofs below
cover, where there are any: they hold for all sizes.

Symmetry (jobs, threads of the chat, chats of the pool, requests) is used only in runs
without liveness.

The runs say `CHECK_DEADLOCK FALSE` because the systems may stop: all calls made, all
faults used, the pool or the manager gone, all requests answered.

Fairness. In `mq_liveness` the event loop runs what is queued and fires timers that are set
(muduo's loop is FIFO), a thread inside `publish` runs on, the broker handles frames,
confirms and delivers, and the process is started again
(`restart: always` in `deploy/docker-compose.yml`). No fault is fair. In
`db_pool` threads inside `getConnection` run on and leases end with the statement
that holds them; nobody has to call. The 30 second limit is *not* fair: the notifications
alone must be enough for `ServedOrOvertaken`. They are not enough for every call to end,
because the pool is not first come, first served: a thread that was notified has yet to get
the mutex, and one that calls meanwhile takes the connection. `CallsEnd` therefore has the
limit as its hypothesis (`TimeLimit`, fair for each thread): a call ends within it, perhaps
with an exception. In `session` the cleanup thread runs and `join` returns when it can. In `ssl_handshake` the client goes on when it can and the event
loop hands over what arrives, so the counterexample is not a matter of scheduling.

Each property has a mutant: a plausible bug in the code (a dropped guard, a missing
notification, an off-by-one) under which TLC finds it violated.

### Findings

* `http_takeover`. A streaming handler sends the head of the response, marks it as a stream
  and starts a detached thread. If `std::thread` throws, the handler's `catch` fills in a
  400, but `onRequest` skips a response marked as a stream, and the loop has stopped the
  connection: it takes no more requests, and nobody answers or closes it, against
  "closing or handed to a streaming handler" (`HttpContext.h:53`). Nothing else stops a
  connection without closing it (`StopsForAReason` in `http`).
* `ssl_handshake`. `handleHandshake` leaves the server's messages in `writeBio_`; only
  `send` moves them to the connection, and only after the handshake. With `useSSL_` no
  client that keeps to the protocol gets past its hello. The chat server does not use TLS.

## 4. What is proved

All theorems are for arbitrary sets of threads, jobs, connections, ids, users and objects,
and arbitrary limits. They rest on the named `ASSUME`s only: limits are natural numbers,
positive where the code's are; sets that are counted are finite; model values are distinct;
a legacy item or row is no exchange; line ends are no text, the peer's messages are framed
and the lines of a model's response are symbols (section 2). Every proof has the form `Init => Inv`,
`Inv /\ [Next]_vars => Inv'`, `Inv => property`, with one lemma per action.

**`MQManagerProofs`**, in layers, each resting on those before it.

* *Types and the counter* (`TypeCorrect`, `OutstandingCorrect`). `OutstandingExact` is
  inductive together with the types, which have to say that the keys of `inflight_` are
  below `nextPublishTag_`: then `drainPending` gives fresh tags and moves publications
  without losing one, `disconnect` puts back as many as it removes, and the counter falls by
  the number of tags a confirm erases. A thread between its load and its compare-and-swap
  holds nothing; one after it holds one place.
* *Deliveries* (`DeliveryInvCorrect`; `QuarantineCorrect`, `SettlerCorrect`, `AcksCorrect`).
  `LinkShape`: nothing is on the wire of a connection that is not up. `BodiesKnown`: a body
  is only where its attempts allow it, each attempt being a persist call that failed.
  `SettlersExact`: frames, completions, timers and replacements that would settle a tag of
  this connection number exactly one if the broker waits for that tag, and none otherwise.
  `OneSettler` itself is not inductive: it says nothing of functors of earlier connections,
  which `NoFuture` shows can never be taken for those of the present one.
* *No loss* (`LossInvCorrect`, `NoLossCorrect`). `Carries`: whoever settles a delivery has
  that delivery's exchange. `Numbered`: the publishes on the wire can be numbered from what
  the broker has counted so that each meets its key in `inflight_`; without it a confirm
  could erase another publication than the broker meant. `Confirmed`: a confirm the handler
  takes notice of covers only publications whose exchange is ready in `sql_queue`,
  quarantined or stored, and a replacement's only if another copy than the delivery it will
  acknowledge is; an unroutable publish, returned *and* confirmed, is the case that makes
  the clause about warnings necessary. `Accounted` is then the sum of it.
* *Refinement* (`QueueCorrect`). Under `LossInv` each step of handler, broker and consumer
  is a step of `ExchangeQueue` or leaves its four sets alone. This is what allows
  `ChatHistory` to use `ExchangeQueue` in place of `MQManager`.

**`DbConnectionPoolProofs`**: `TypeCorrect`, `AllocatedCorrect`, `ExclusiveCorrect`,
`AwakeCorrect`, `LeasesCorrect`. The count is inductive with two facts: a thread past `create` owns a
connection, and nothing is allocated before `init`. `NoLostWakeUp` is a count as well: when
somebody sleeps, the threads that were woken or are about to notify are at least as many as
the things there are to take. `AwakeCorrect` also proves that a stopped pool keeps nothing
and leaves nobody asleep. `LeasesCorrect` is the refinement: the exact count makes every
admission one within the limit, and exclusive ownership makes every successful ping a
grant; all other steps of a health check do not show.

**`SessionManagerProofs`**: `TypeCorrect`, `CapacityCorrect`, `ResurrectionCorrect`,
`EvictionCorrect`, `RefusalCorrect`. The invariant adds that a new object is known to its
own request only until it is admitted (so what is filed was never removed), that an object
without an id is nowhere, and that an object's expiry is its last use plus the lifetime.
Every step either shrinks the storage or files such an object under a free id.

**`ChatHistoryProofs`**, in layers as well.

* `ReadRows` is a loop over the rows of the result, and what it computes for any rows is
  shown first (`RowsAreRead`): each history consists of its chat's rows in the order of the
  result, each chat is listed once. The induction is over a set of numbers
  (`InductionOnSet`, from the least element of its complement), since the library's
  induction theorems take an operator. `OrdersAre` shows that what the query may return is a
  permutation of the table.
* `Base` (`BaseCorrect`, `TypeCorrect`): types, and of the log that each exchange is in it
  once and whole, under the chat its request was for, and that everything queued is in it.
  No timestamp passes `MaxTime`, because `commitExchange` tests the last one first.
* `Inv` (`ContextCorrect`): a thread past its snapshot holds its helper's mutex, and the
  snapshot is still the history; so no two threads are past their snapshots in one helper,
  and the swap appends to what the model saw.
* `ContinueInv` (`ContinuesCorrect`): what was sent to a model is canonical, and the
  exchange that will extend it is later than all of it.
* `TableInv` (`TableInvCorrect`): rows are messages of the log, none twice, and what is
  stored has its rows, through any number of redeliveries.
* `MemoryInv` (`ReplyCorrect`, `GenuineCorrect`): a history has only messages of its log,
  each once and in pairs; an exchange between publish and swap is in the log and not yet in
  memory; an error reply names an exchange that was never filed.
* `OrderInv` (`RestoresCorrect`): the log of a chat without a gap increases in time, and its
  history is the log, or lacks the one exchange whose thread is still before its swap.
  At a restore both are strictly ordered and have the same messages, and so are equal
  (`SortedEqual`).
* `ListInv` (`ListsCorrect`): lists and helpers agree.

**`AccountsProofs`**: `CredentialCorrect`, `AnswersCorrect`. Where a request is tells what it
relies on: a login about to upgrade has read a credential of the password it was given, so
its conditional UPDATE either replaces that very credential or nothing.

**`ImageUploadProofs`**: `WorkBoundedCorrect`, `StatusCorrect`. The counter is the number of
requests between `Permit` and `~Permit`, and a request that has read a full counter met one.
The division by which the code avoids an overflow is shown to be the product it stands for.

**`GemmaInferencePoolProofs`**: `ContextCorrect`, `CacheCorrect`, `EvictionCorrect`. The
transcript of every session that no generation is writing to is what its cache encodes, and
its positions are the sum of the messages' sizes; sums over histories, which are recursive
functions, are handled by the same induction over sets of numbers. `access_order_` agrees
with the times of last use.

**`HttpConnectionProofs`**, in three parts.

* *Responses* (`AnswersCorrect`, `StopsCorrect`). While requests are taken each has been
  answered and no answer announced a close; the loop runs only on an open connection that no
  stream has; a stream finds its own head or token last.
* *Requests* (`RequestsCorrect`), for messages of any number and length. `PlaceInv` says
  where on the wire the parser is: before a request line, before a header line, in a body or
  behind the last message. The buffer is what was delivered behind that place, and the
  request under construction is what the lines before it say (`ReadHead`). So a line the
  parser finds is the line that was sent, a body that looks like a request is never read as
  one, and the parser waits exactly when the next line or body is not complete. That the
  digits of a length are read as their number or refused as too large, whatever their
  leading zeros, is `DecimalIs`.
* *The model's stream* (`WholeAnswersCorrect`, about `ModelStream`, in this module because the
  program's two readers of bytes that arrive in pieces share the argument and its lemmas;
  the specifications have no variable in common). `StreamInv`: the buffer is what was
  received behind the start of a line, the text is the answer up to there, `completed` and
  `error` are set exactly when an end, or something that spoils the answer, has been read.

The bytes on the wire, the answer of a body and the value of digits are recursive functions;
what they compute for every length is shown by induction over sets of numbers, as above.

Only model-checked. The liveness properties `AdmittedIsSettled`, `LegacyIsQuarantined`,
`Reconnects`, `ServedOrOvertaken`, `CallsEnd`, `StopDrains`, `ExpiredIsReclaimed` and `StopJoins`: temporal reasoning
under fairness and ENABLED is out of the prover's reach. Every other property of a passing
run is stated by a theorem.

### What the restore does not promise

`main` restores from MySQL before the consumer starts, so an exchange that was accepted and
is still in `sql_queue` is missing from the restored history. The chat goes on without it
and it appears at the next restart. `RestoresInOrder` therefore speaks only of chats
without such a gap. Past a gap the new exchange's timestamp is later than what was
restored, not than what is still queued: if the clock was set back, or did not advance, the
two exchanges can share their milliseconds, and the next restore may interleave them. Such
a history stays readable and `validateCanonicalHistory` refuses to continue it.

## 5. Not modelled

* Speech: a token, one request, then up to 60 polls, in the thread of one request; nothing
  is kept or shared between requests.
* base64, the tool registry, the requests the strategies build, configuration: pure
  conversions of data. The length base64 gives is in `ImageUpload`.
* Statement execution on a lease: one prepared statement under the connection's mutex; what
  a lease may do to the pool is in `DbConnectionPool`, what statements do to the tables is
  in `Accounts` and `ChatHistory`.
* Routes with patterns and callbacks, which the chat server does not register; response
  headers; page handlers, which send a file.
* Exceptions inside `parseRequest` for want of memory; those of the callback are modelled.
* TLS after the handshake, which no connection reaches; its configuration is plain data.
* The cookie syntax, and the compatibility defaults of `SessionStorage`.
* `main`'s options and its wait for MySQL and RabbitMQ.
* A time limit of model requests: the code has none, so nothing can be promised about a
  model that never answers.
