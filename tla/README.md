# A verification project for qjs-net

qjs-net is a C module for the QuickJS engine that wraps libwebsockets: HTTP and
WebSocket servers and clients, `fetch`, generators that carry bodies and
messages, and, in JavaScript, an RPC layer on top of sockets. Everything runs on
one thread. A call from libwebsockets or from a script runs to its end before
the next one starts, so an action of a model is a whole handler; what makes the
program hard is the *order* in which those calls come, and the state they leave
for each other. The models therefore keep every branch and state change of a
handler, and abstract data: a byte is its number in the order of sending, a
message or a chunk is a number, a promise is its index and its state.

Paths below are relative to the repository (`lib/`, `src/`, `js/`).

## 1. Inventory

| Component | State it keeps | Operations | Hard behaviour | What makes it correct |
|---|---|---|---|---|
| **AsyncIterator** `lib/asynciterator.c`, `src/minnet-asynciterator.c` | list of waiting reads, `closed`, `closing` | next, yield, emplace, throw, stop, cancel | several reads waiting; values pushed late; stop with and without readers | promises settle in order, once; nothing after the end; nobody waits on a stopped iterator |
| **Queue** `lib/queue.c` | list of items (block, `done`, deferred callback), `continuous` | add, put, write, append, putline, next, read, close, continuous | an end item that stays; gathering in the last chunk | no byte lost, repeated or reordered; nothing behind the end |
| **Generator** `lib/generator.c`, `src/minnet-generator.c` | an AsyncIterator, a queue, modes `buffering` and `continuous`, an executor, a callback shared with a push's resolve function | next, return, throw, push, yield, write, enqueue, continuous, buffering, stop, finish | two ways to a reader (direct, queue); mode changes; ends in several ways | every byte reaches a reader or the callback once, in order; a reader is served when there is data; ends leave no reader |
| **HTTP server transaction** `src/minnet-server-http.c`, `lib/session.c` | session: send queue, `want_write`, `wait_resolve`, the handler's iterator; the connection | request, body, body completion, writable event, promise resolved or rejected | writable events against promise jobs; completion | the response is written in order, marked final once, at its end; never stuck |
| **WebSocket** `src/minnet-server-ws.c`, `src/minnet-client.c`, `src/minnet-websocket.c`, `lib/ws.c`, `lib/opaque.c` | `status`, `writable`, the socket's pointer to its connection, send queue, receive queue, the client's promise | created, established, writable, received, the ways to end, send, close | send against writable events; fragments; several close events; sockets that outlive the connection | order of messages; promises of send(); told of the close once; no pointer to a destroyed connection |
| **Request / Response** `lib/request.c`, `lib/response.c`, `src/minnet-request.c`, `src/minnet-response.c` | fields, headers, a body that is a Generator | accessors, text(), json(), arrayBuffer() | text() before, between and after chunks | the callback gets the whole body once |
| **HTTP client, fetch** `src/minnet-client-http.c`, `src/minnet-fetch.c` | response, its promise, the request's body | connect, redirect, established, read, writable, completed, closed | failure at each step; the body pulled while the response comes; end told in several ways | promise settles; body in order; a blocking fetch returns the whole response |
| **Client** `src/minnet-client.c` | context, callbacks, recvq, SyncFetch's poll descriptors | connect, blocking loop | the loop and the poll array it changes | the loop ends when, and only when, the connection is gone |
| **Server, routes, mounts** `src/minnet-server.c` | timer, chain of handlers, list of mounts | construct, listen, timer, use, get, post, onrequest, mount | a second listen(); `next` of a closure survives the request; the session started anew between filter and request | one timer; handlers in order of registration, none behind a gate; the right mount |
| **Event loop, contexts** `src/minnet.c`, `lib/context.c`, `lib/opaque.c`, `lib/ws.c` | handlers set with `os.setReadHandler`, opaque data, sockets with reference counts | add, change, delete, turn of the loop, create, wrap, finalize, destroy | a descriptor closed and used again; objects freed in any order | handlers match the descriptors; what is pointed to is there |
| **RPC** `js/rpc.js` | handlers of pending calls, `fdlist`, instances | call, respond, new, methods, invoke, delete, connect, close | several sockets of one service; answers in any order; close with calls pending | each call is answered, with its own answer; numbers of objects are not given twice |
| **Headers** `lib/headers.c`, `src/minnet-headers.c` | one text | get, set, append, delete, entries, from and to objects | splicing at an index | the text answers as the list of headers would |
| **URLs, queries** `lib/url.c`, `lib/query.c`, `lib/lws-utils.c`, `src/minnet-url.c`, `lib/request.c` | protocol, host, port, path with query and hash | parse, format, setters, from an object or a connection | parts that are missing; three parts in one string; a request put together from tokens | the text says all parts; a setter changes its own; the server's request is the client's |
| **Ring buffer, form parser, hashes, buffers** `lib/*.c`, `src/minnet-*.c` | buffers | wrappers mostly | boundaries | the result is the library's |
| **Proxy, plugin broker, event emitter, debugger client** | | | | examples, not part of the server's own path |

How they interact: libwebsockets calls the protocol callbacks (`http_server_callback`,
`ws_server_callback`, `client_callback`, `http_client_callback`), which change the
`session_data` of the connection and the `wsi_opaque_user_data` that ties it to the
script's objects. Scripts call methods of those objects. A writable event is asked
for with `session_want_write` and arrives as a callback. Promises of a handler call
the closures of `serve_promise` back from the job queue. Bodies are Generators,
filled by the callbacks and read by scripts, or the other way round.

## 2. Modules

| Module | Models | Kind |
|---|---|---|
| `AsyncStream` | what any async iterator promises its consumers: results in the order of the requests, each settled once, no value after an end | abstract specification |
| `AsyncIteratorOps` | the functions of `lib/asynciterator.c` as operators on a record | operators |
| `AsyncIterator` | one iterator and the calls on it in any order | state machine |
| `QueueOps` | the functions of `lib/queue.c` as operators on a record | operators |
| `GeneratorOps` | the functions of `lib/generator.c` as operators; uses `AsyncIteratorOps` and `QueueOps` the way the C struct embeds the one and points to the other | operators |
| `Generator` | one generator between whoever fills and whoever reads it | state machine |
| `GeneratorProofs` | theorems about `Generator`, for seven kinds of caller, any chunk size and any bounds, and about `AsyncIterator` | proofs |
| `HttpServer` | one transaction: session, handler, promises, connection | state machine |
| `HttpServerProofs` | theorems about `HttpServer`, for any outcomes of a handler and any number of chunks | proofs |
| `WebSocket` | one connection on the server's or the client's side | state machine |
| `WebSocketProofs` | theorems about `WebSocket`, for either side and any bounds | proofs |
| `MountOps` | mounts and how one is found for a path | operators |
| `Server`, `MCServer` | one server: set-up, timer, mounts, the chain of handlers, requests one after the other; `MCServer` gives it paths | state machine |
| `ServerProofs` | theorems about `Server`, for any handlers, mounts and paths | proofs |
| `HttpClient` | one `client()` or `fetch()` over HTTP with its connection; uses `GeneratorOps` for the body of the response | state machine |
| `HttpClientProofs` | theorems about `HttpClient`, for any body and any bounds | proofs |
| `EventLoop` | connections, descriptors and handlers; opaque data, sockets and the script's objects | state machine |
| `EventLoopProofs` | theorems about `EventLoop`, for any connections and descriptors | proofs |
| `Rpc` | clients and a service, over ordered channels | state machine |
| `RpcProofs` | theorems about `Rpc`, for any clients and any number of calls | proofs |
| `Headers` | the text of the headers of a request or a response | state machine over operators |
| `UrlOps` | `url.c`, `query.c`, the URL parts of `lws-utils.c` and `request.c` | operators |
| `Url` | a URL that is set part by part, a request for it, and what a server makes of the connection | state machine |
| `UrlProofs` | theorems about `Url`, for any protocols, methods, ports and number of calls | proofs |

Names are those of the source: `generator_write` is `generator_write`, the field
`h.wait_resolve` is `session->wait_resolve`. History variables that the code does
not have are named as such where they are declared (`settled`, `called`, `notified`,
`wire`, `told`, `returned`).

An operator whose comment begins with *Mutant:* is not part of a model. It is a
plausible bug in the definition after it, kept to show that the property it is
listed for in `PROJECT.json` notices that bug.

### AsyncIterator
`it.reads` is the list of pending reads, `it.issued` and `it.settled` are history.
`IteratorRead`, `IteratorPush`, `IteratorStop`, `IteratorThrow` and `IteratorCancel` are the entry points of
`minnet_asynciterator_method` and those C callers use. `asynciterator_next`'s
`assert(list_empty(&it->reads))` is `asynciterator_next_assert`; the calls in
`AsyncIterator` are guarded only by the bound on the number of calls, and
`StoppedLeavesNoReader` shows the assert never fails.

### Generator
The record `g` of `GeneratorOps` has the fields of `Generator` that decide anything;
counters such as `bytes_written` are left out. `caller` picks one kind of client
code (`Uses`): an executor as in `tests/test-generator.js`, a script that writes, one
that enqueues, the WebSocket client's messages, request and response bodies with
text(), a reader of a response, a script that sets a chunk size. `Calls(op)` limits the
operations to those that client uses. Asserts and null pointers that would stop the
process put the place into `g.aborted`, after which nothing happens.

### HttpServer
`h` is the session, `conn` the connection. `Request`, `BodyCompletion` and `Writeable`
are cases of `http_server_callback`; `Settle` is a promise calling `serve_resolved` or
`serve_rejected`; `Disconnect` is the connection lost or timed out, at any time.
A writable event may also come when `want_write` is not set (libwebsockets may give
one on its own): the handler's own test decides what it does.
`handler` chooses between a plain, an async, a generator and an async generator
function, and `Outcomes` and `Results` what a step of them gives: also a value that is no
buffer ("nothing") and something that is no Response ("other"), which the code passes over
(`h.ignored`). `FileCompletion` is the case that the writable event calls itself (l. 1207): it
completes the transaction again that `http_server_writeable` has completed (l. 810), and an
empty queue completes it a third time (l. 1210); `h.completed` counts them.

### WebSocket
`link` is the phase of the connection as libwebsockets sees it, `ws` the socket with its
`session` and `opaque` data. `Create` to `Destroy` are the cases of
`ws_server_callback` and `client_callback`; where the two differ the action says how.
`Send` and `Close` are the script's, at any time it has a socket, the time after the
connection was destroyed included. `ReceivePart` keeps the client's `recvq`.

### Server
`server` is the `MinnetServer`, `chain` every `ServerMatchClosure` made, `timers` how often
each timer waits, `req` the request. `Construct`, `Listen`, `TimerFires`, `Register`,
`SetOnrequest` and `Mount` are the script's and the loop's calls; `Filter`, `Bind` and `Http`
the cases of `http_server_callback` that come before a response; `CallBase`,
`CallHandler` and `Finish` the calls of the nested closures, innermost first, which is
the order of registration. A closure's `next` may be called while its handler runs or at any later
time (`NextLater`), and stays set. Requests come one at a time, as HTTP/1 gives them to
one connection; handlers and mounts may be added between.

### HttpClient
`o` are the options of the call, chosen at the start, `c` the `MinnetClient` with its session,
response and `SyncFetch`, `net` the connection as libwebsockets and the server know it.
`Fail`, `Refuse`, `Connect` and `Return` are the parts of `minnet_client_closure`; the others are
the cases of `http_client_callback`, each with the handlers it calls. For a
blocking fetch they can happen only while the descriptor is in its list (`Serviced`).
`End` gives the order in which libwebsockets tells of the end: the callback, the
descriptor's removal, or both. Asserts and null pointers put the place into `c.died`.

### EventLoop
`wsi` holds a connection with its opaque data and socket, `handlers` what the loop was
given, `ready` what the kernel has. `Add`, `Change` and `Delete` are `wsi_handle_poll`;
`Turn` calls the first function of a ready descriptor, as QuickJS does, and
`served` keeps what libwebsockets was told. A function is only made where there is an event
to wait for, and only then the connection's opaque data (`minnet_io_handler`). `Create`, `Wrap`, `Finalize` and `Destroy` count
references as `ws_new`, `minnet_ws_wrap`, `ws_free` and `opaque_free` do.

### Rpc
The parties are put together as in `test-rpc.js`. `New` and `Request` send a call,
`Register` enters its handler after the awaited send, `ServerReceive` and `Answer` are the
two halves of `processMessage` of the service, between which a method may
take time, `ClientReceive` is that of the client, and `Close` loses what is on its way.
`Prompt` says whether the promise jobs of a client run before its next message.

### Headers
`buf` is the text, character by character, because what can go wrong is where it is cut,
and `behind` the rest of its memory, from `write` to `end`: what a text that was assigned before left
there, zeros where `headers_unsetb` and `headers_appendb` clear it, and bytes nobody wrote
(`Unwritten`: zeros, or an old header again and again, in place of any bytes). It matters because
the getter of a response's headers reads up to `end` (`src/minnet-response.c:287`) and its setter only
puts `write` back (l. 351). `entries` is the history of what was set, the reference. Each method of
the `Headers` object of a request and the header methods of a response is an action.

### UrlOps, Url
A host, a number and a name are one symbol each, the delimiters are symbols of their own, so
a URL is a sequence of at most a dozen. `Url` sets parts in any order, prints, makes a request of
the text or of the object, and lets a server receive it: `Received` is what libwebsockets gives
of it token by token, `FilterHttpConnection` and `ConfirmUpgrade` how the server puts
it together again. Where the text has neither host nor path there is no Request (`url_valid`).

## 3. Runs

| Run | Module and cfg | Shows |
|---|---|---|
| `iterator` | `AsyncIterator`, `MCAsyncIterator.cfg` | the properties of the iterator; it implements `AsyncStream` (`IteratorStreamSpec`) |
| `generator` | `Generator`, `Generator.cfg` | for seven kinds of caller: nothing lost, order, readers served, chunk sizes, write callbacks after delivery, text() gets the whole body once, no assert fails, implements `AsyncStream` |
| `http_server` | `HttpServer`, `HttpServer.cfg` | GET and POST with every kind of handler and all they may give; `Answered` under fairness |
| `websocket` | `WebSocket`, `WebSocket.cfg` | both sides of a connection, in every order of sends, events and ends |
| `server` | `MCServer`, `Server.cfg` | the timer over several listen(), the order of handlers and their gates, the mount of a request |
| `rpc` | `Rpc`, `Rpc.cfg` | answers and objects of two clients; `Answered` under fairness |
| `client` | `HttpClient`, `HttpClient.cfg` | the promise, the body sent, what a blocking fetch returns and when |
| `event_loop` | `EventLoop`, `EventLoop.cfg` | handlers follow descriptors; what is pointed to is there |
| `headers` | `Headers`, `Headers.cfg` | the text, and the memory behind it, against a list of headers |
| `url` | `Url`, `Url.cfg` | text, setters, and the way of a URL from client to server |
| `http_twice` | `HttpServer`, `HttpServerTwice.cfg` | a disagreement, see section 6: `NoPromiseAtATurn` is violated by Request, BodyCompletion and Settle, in this order |
| `fetch_status` | `HttpClient`, `HttpClientStatus.cfg` | a disagreement, see section 6 |

Five more configurations are kept beside the code they show something about, see section 6:
`GeneratorPendingReader`, `GeneratorEmptyFinish`, `GeneratorLateText` and `GeneratorAwaitPush` of `Generator`,
`WebSocketClientClosed` of `WebSocket`. Each checks one property and finds it violated.

Bounds, and why they are enough:

* `MCAsyncIterator.cfg`: four calls of `next()` and two values. Three waiting reads
  tell the oldest from the newest and both from one in between; the fourth call is
  the one after an end.
* `Generator.cfg`: five bytes (`MaxBytes`), chunks of at most two (`MaxChunk`), a
  chunk size of two. A chunk may be smaller than, equal to and, gathered, larger than
  the chunk size, with a short rest; three chunks wait while a reader is served. Four
  `next()` calls allow two readers to wait, be served and ask again after the end. Two
  callbacks (`MaxContinuous`) let one replace the other.
* `HttpServer.cfg`: four chunks made. A chunk may be written, queued, promised and
  not yet made at the same time. There is one connection: sessions share nothing
  but the list of mounts.
* `WebSocket.cfg`: three messages sent (one being written, one behind it, one sent
  later), two received in up to three fragments (a first, a middle and a last one).
* `Server.cfg`: three steps of set-up (`MaxSetup`) among mounts, handlers and listen(), at most two
  of each kind. Two handlers are one before and one behind a gate; two mounts one
  that is the beginning of the other or not, in both orders; two listen() calls one timer that
  was replaced. The paths of `MCServer` are the root, one name, a name below it, and one whose
  text begins with the other's. The number of requests has no bound.
* `Rpc.cfg`: two clients, three calls in all: one client with two calls on their way, or two
  with one each while an object is made; `invoke` and `delete` next to `new` are the methods that
  change or need instances.
* `HttpClient.cfg`: a body of two values, so that one follows another; three
  pieces written, the last behind both; two chunks of response.
* `EventLoop.cfg`: two connections and two descriptors, so that one descriptor passes from one
  to the other while the second has its own; one object (`MaxWraps`) beside those of the socket.
* `Headers.cfg`: three names, two characters of value, two headers to begin with and three
  calls: the first, a middle and the last header can be set again or deleted. What libwebsockets
  received leaves seven bytes behind the text (`Room`), in which a whole header can be left; the code has
  1024. No call is made of a text that was spliced wrong (`plain`), of which nothing is said.
* `Url.cfg`: four protocols (plain, TLS, WebSocket, one that is unknown), the default port and
  another, two setters one after the other. What a setter does depends on which
  delimiters are there, and all combinations are among the initial URLs.

`CHECK_DEADLOCK FALSE` is set where the system really stops: a generator that ended and
used up its calls, a completed transaction, a destroyed connection, a server that crashed, the
bound on the calls. The iterator's run checks for deadlock: `IteratorPush` is always
possible.

Fairness. `HttpServer` assumes that libwebsockets gives a writable event that was asked
for (`h.armed`) and that the promises of a handler settle: the former is its contract for
`lws_callback_on_writable`, the latter a condition on the script without which no
response could be promised. `Rpc` assumes that messages on an open connection arrive, that the job
after an awaited send runs, and that the methods of objects finish. `WebSocket` assumes only
the first. Nothing else is fair: a connection may be lost at any time, and a peer may
send nothing for ever.

Asserts are taken to be compiled in; a build with `NDEBUG` would go on past them.

### Properties worth reading first

* `NothingLost`, `DeliveredInOrder` (Generator): `generator_yield` answers a waiting reader
  without a look at the queue. That is right only because a reader never waits
  while the queue has something for it, which is part of `ReaderServed`.
* `CallbackGetsAll` (Generator): text() of a request whose body comes in
  is called with all bytes, once, whichever chunks came before and after the call.
* `WaitsForItsPromises` (HttpServer): `wait_resolve` equals the number of promises that
  will call back, for every method. `NeverStuck` depends on it.
* `NeverStuck` (HttpServer): something is coming for a response that is not complete, a promise or
  a writable event, unless the last thing its handler gave was passed over. The exception
  is real: nothing is queued, no event is asked for (section 6).
* `FinalIsLast` (HttpServer): whether a chunk is marked final is decided by what is queued behind it at
  that time; the chunk that was marked must be the last the handler ever makes.
* `ResolvedWhenWritten` (WebSocket): the promise of send() belongs to its own message.
* `ServerClosedOnce` and `CloseIsTold` (WebSocket): the two together say that a script
  hears of an end exactly once, unless it is the server's own close().
* `GateHolds`, `HandlersInOrder` (Server): the chain is nested closures that know of each other only
  by a returned number; a handler runs only if each gate before it was opened once.
* `MostSpecific` (Server): the longest mountpoint answers, which `mount_find` gives only if
  shorter ones come first, and only while the session of the filter is that of the request.
* `OwnAnswer` (Rpc): the service has one socket for all its connections. A call gets
  its own answer while its client has had the service to itself; with
  two it may get another's or none, so the property says `alone`.
* `LoopFollows` (HttpClient): the list of descriptors of a blocking fetch is empty just when its
  connection is gone, whichever of the two ways of telling it libwebsockets takes.
* `HandlersFollow` (EventLoop): a descriptor that is used again has no function of its
  former connection.
* `OnlyItsPart` (Url): path, query and hash are one string, and the hash has no setter. The property
  says what becomes of it: one behind the query is kept, replaced or removed with the query; one
  before the query stays, and takes in a query that is set.
* `AgreesWithList` (Headers): every way to read the headers gives the list that was set, in order.
  The object of a response's headers gets, after them, whatever lines are left behind the text.
* `TextSaysAll`, `ServedAsAsked` (Url): a URL survives being printed and read, and
  being taken apart into tokens and put together by a server.

## 4. What is proved

The last part of `GeneratorProofs` is about `AsyncIterator`, for any set of values and any number of
calls of `next()`:

* `IteratorInvariance`: `IteratorSpec => []IteratorInv`, where `IteratorInv` is
  `IteratorTypeOK /\ PromisesInOrder /\ StoppedLeavesNoReader /\ NoValueAfterEnd /\ EndMeansStopped`.
* `PromisesSettleInOrder`, `NobodyWaitsOnStopped`, `NothingAfterEnd`: its conjuncts.
* `IteratorImplementsStream`: `IteratorSpec => IteratorStreamSpec`, the iterator refines
  `AsyncStream` under the mapping of `AsyncIterator!IteratorStream`.

No conjunct is inductive alone, which is why they are proved together.
`NoValueAfterEnd` needs that a settled end left the iterator stopped
(`EndMeansStopped`) and that a stopped iterator has no reader a late value could go to
(`StoppedLeavesNoReader`). `PromisesInOrder` needs `IteratorTypeOK` to speak of the reads as a
sequence, and `StoppedLeavesNoReader` because `asynciterator_next` settles at once on a
stopped iterator, which is in order only if nobody waits. The proof takes the actions
one at a time, over lemmas that say what each operator of `AsyncIteratorOps` does to
the reads and the settled promises. For the refinement each action either settles the
oldest requests or adds one, which are the steps of `AsyncStream`.

The rest of `GeneratorProofs` holds for any chunk size and number of bytes, calls and callbacks, of the seven
callers of the run (`Usual`). Of the other three, each breaks a property (section 6), so
`Callers \subseteq Usual` is a hypothesis of its theorems:

* `NothingIsLost`, `InOrder`, `ReadersAreServed`, `CallbackIsGivenAll`: the four invariants of the run.
* `ImplementsStream`: `Spec => StreamSpec`. With a queue in front of its iterator a generator refines
  the same `AsyncStream`; the bytes of a chunk become the value of a result.

The invariant says which of four states a generator is in. It is read (`Reading`), or asked
for its text and untouched (`TextUnused`), gathering (`TextOpen`) or given (`TextDone`).

* Who reads has `Ready`: what the results carry, with what the queue holds behind it, is in order, and
  until the end nothing is missing (`Flow`). `Flow` bounds each byte by what was sent, or the
  next chunk would not be behind all others. `Queue` says where an end item can stand,
  because `queue_add` drops what comes behind it.
* While buffering no chunk in the queue is longer than the size (`Filled`), and a reader is given one
  only if it is not shorter. `enqueue_block` gathers in the last chunk and cuts it up again;
  that its pieces are the block is `CutOpen`, and `CutClosed` if the queue was closed before.
* The loops of `generator_update` and `generator_write` serve as many readers as wait. A turn gives
  the front to the oldest reader (`TurnGives`) or does nothing (`TurnWaits`). After `m` turns nobody
  can be served, or `m` were (`Served`); so after as many turns as there were readers nobody can be,
  which is `ReaderServed`. The turns are a function on `0 .. n`, and the proof is by the least turn
  that would fail (`Counting`).
* A text's queue holds one chunk, that gathers (`One`), and no reader: a callback that is
  attached late gets it all, and one that replaces another is the only one called.

`WebSocketProofs` holds for either side and any number of messages and fragments:

* `Invariance`: `Spec => []IInv`, where `IInv` is the type of the connection with
  `SendInv`, `LifeInv` and four of the checked invariants.
* `SentInOrderHolds` and `ResolvedWhenWrittenHolds` follow from `SendInv`: what was
  written or waits in the queue has been sent (`Recorded`), a promise is pending only
  while its message is queued and resolved only once it is written (`Accounted`), and the
  queue is in order behind what was written from it (`Ordered`). Each operation on the
  queue has a lemma of its own that says it keeps the three (`SendsNothing`,
  `SendsDirectly`, `SendsLater`, `WritesFront`); the actions only pick one of them.
* `NoDanglingSocketHolds`, `ServerClosedOnceHolds`, `CloseIsToldHolds` and
  `PromiseSettledHolds` follow from `LifeInv`, which says in each phase of a connection
  what the script has been told and what the status stands for. It is needed because the
  server tells the script of a close by looking at the status alone: that is right only
  if a status below CLOSING means it has not been told, and CLOSING that it has.
* `NeverStuckHolds`: `want_write` is set only together with a request for a writable
  event, and every way a message gets into the queue sets it (`ArmedInv`).
* `MessagesWholeHolds` follows from `ReceiveInv`: what the script was given, joined, with what
  waits in `recvq` behind it, is every part that came, each next to the one before it of its
  message (`Chained`, `Ends`); on the client the queue is one chunk with what there is of the
  message that goes on, and what was given is whole messages (`Gathered`). The property says
  nothing of the queue of a client between messages; the proof needs that it is empty then.

`ServerProofs` holds for any handlers, mounts and paths, and any number of calls:

* `TimerOnceHolds` from `TimerInv`: the server's timer is the last that was made, and it waits
  once, also after a second listen() and one that failed.
* `HandlersInOrderHolds` and `GateHoldsAlways` from `ChainInv` and `RunInv`: the closures of a
  request are in the order of their registration, those that ran come before those that did not,
  and a gate that has not called `next()` has made the chain's value "one", after which
  nothing runs. `next` can be set at any time (`NextLater`), which is why the invariant speaks of
  the closure's `next` now and not of the time it ran.
* `MostSpecificHolds` from `FindInv`: the mount the filter found is the last of those it knew
  whose mountpoint begins the path. That it is the longest follows where no mount comes after a
  longer one it begins, which is the property's own condition.

`EventLoopProofs` holds for any connections, descriptors and number of objects:

* `HandlersFollowHolds` from `PollInv`: a descriptor is that of one open connection, and while
  `on.fd` is there the loop has for it the functions of that connection and of no other.
* `SocketsKeptHolds` from `RefInv` and `ListInv`. A socket's references are one for each object,
  one while the connection's data points to it, *and one more that is never given back*
  (`lib/ws.c:23`): this is what keeps the property, and why a socket is never freed.

`RpcProofs` holds for any clients and any number of calls:

* `ListsOpenHolds` by itself; `OwnObjectHolds` from `NumberInv`: the numbers on their way were given
  to the objects made for the requests they answer, and a number is not given again, also after the
  object is deleted. `OwnAnswerHolds` from `AloneInv` and `IdInv`: while a client is alone the
  service's socket is its own and every answer, pending or on its way, is to one of its requests.

`HttpServerProofs` holds for any methods, kinds of handlers, outcomes and number of chunks:

* `WaitsForItsPromisesHolds` from `Sound`, for GET and POST: `wait_resolve` is the number of
  promises.
* `NeverStuckHolds`, `WireInOrderHolds` and `FinalIsLastHolds` from `On` and `Over`, the states a
  response to a GET goes through. `On` says what the code relies on without saying it: the
  queue never has more than one chunk and the end, because a handler is asked for the next chunk
  only when the one before has left. Neither is about how often the transaction was completed:
  `Over` holds from the first time, and nothing is done to a response after the event in which that was.
  `NeverStuckHolds` has no hypothesis on what a handler gives: the exception is in the property.

`HttpClientProofs` holds for any body and any bounds:

* `SettledHolds` from `PhaseInv` and `PromiseInv`: the promise of a call is pending until its connection
  is established or gone.
* `LoopFollowsHolds` from `LoopInv`: a blocking fetch has one descriptor in its list, that of
  its connection, until that is destroyed.
* `ReturnsWholeHolds` from `BodyInv`: the response's generator, which nobody reads before the call
  returns, has in its queue one chunk with all bytes that came, in order.
* `BodyInOrderHolds` from `WireInv`, with the other parts for what kind of call it is: until the
  last piece the values on the wire are exactly those read from the iterator (`WireOk`), also
  across a redirect, which does not begin the body again; a write that fails has read a
  value that is never written, and this is sound only because the connection closes with it, so the
  equality is asked of the phases that may still write (`Writes`). Every other handler has a lemma
  that it reads nothing of the body (`ReadAlike`).

`UrlProofs` holds for any protocols but "NULL", which stands for the pointer, any methods and ports
the model knows, and any number of calls. The parts a script can set, hosts, paths, queries and the
entries of a query object, are the fixed sets of `Url`: the theorems are for all orders and numbers of
calls with them. The lemmas below are about any text, that is any sequence of pieces.

* `UrlIsUrl`: `Spec => [](url \in Urls)`. A path in `Urls` is clean, it does not end in "?".
* `TextsSayAll`: `TextSaysAll` follows from this alone. Before a host there is nothing or a
  protocol and "://", behind it nothing or a port, behind that nothing or what begins with "/"; a text
  written of such parts is read as these parts (`ParseParts`). Where no protocol is written the
  mark must not be found further behind (`NoMark`), which is what `Sayable` asks.
* `PartsAreSetAlone`: `OnlyItsPart`, by what `url_set_path_len` and `url_set_query_len` make of any path
  (`SetPath`, `SetQueryIs`): a text that is cut at a delimiter and put together with another one has
  its first delimiter where the cut was (`Cut`), so path and query can be told apart again. The hash
  of two texts is that of the first, or of the second if the first has none (`HashOfTwo`).
* `ServesWhatWasAsked`: `ServedAsAsked`, from `ServedInv`, which adds that the URL of a Request has a
  clean path and that the method is GET unless the connection is HTTP (`ReqInv`). Both are needed:
  the server puts "?" between two tokens and leaves it out when there is no query, so a path that ends
  in "?" would come back without it; and a WebSocket's Request is always a GET. That no query is set
  to an empty text is a limit of the model (`Queries`, `Paths`), not of the code.

All assumptions on the constants are named and stand in the modules: the sets of methods,
outcomes and sides have the members the code knows, `None`, `NoConn` and `Undefined` are not one of
the things they stand beside, bounds are numbers, and the names and paths of `Server` are sequences of
strings. TLC evaluates each of them in a run.

Sequences of sequences (what a queue or a script was given, joined) are defined by recursion in the
community module. The proofs that speak of them derive from the well-foundedness of `<` on the natural
numbers that `FlattenSeq` of a sequence with one element more is what it was with that
element behind it (`FlattenAppend`), and use nothing else of it. These lemmas are in each module
that needs them.

Left to TLC:

* liveness (`Answered` of `HttpServer` and `Rpc`) and ENABLED, which the prover does not reach;
* `AgreesWithList` of `Headers`, which is about what folds over the characters of a text compute: an
  induction over data.

## 5. What is not modelled

* libwebsockets and QuickJS themselves. What they do is in guards and fairness:
  one callback at a time, an event after it was asked for, jobs between callbacks.
* Allocation failure, and who frees what, except sockets and opaque data (`EventLoop`). The
  life of a session after its connection is gone is outside `HttpServer`: its promises are
  no longer followed.
* In `HttpServer`: what a file mount sends, the form parser, HTTP/2's splitting
  of chunks, a second request on a kept-alive connection, and what libwebsockets does when a
  transaction is completed again: nothing is told to the session after the first time. An
  async function that gives an object with `value` and `done` is left out, too.
* In `Server`: requests of several connections at once (they share the chain, whose only
  state that outlives a request is `next`, which `NextLater` sets at any time), and virtual hosts.
* In `WebSocket`: ping and pong, raw sockets, `onWriteable`, `lineBuffered`, failures of
  `lws_write`, calls of close() from inside a callback, and the client's iterator.
* In `HttpClient`: TLS, `onHttp` of a user that throws, several requests on one connection.
* In `Rpc`: the codecs, and the methods that only read (`get`, `list`) in the run.
* In `Url`: the number of bytes that `url_format` asks for, computed apart from the text it then
  prints (`lib/url.c:200`): a text is a sequence of pieces, which have no length.
* In `Headers`: the end of the 1024 bytes that received headers are printed to, where a line that just
  fits loses its last character (`lib/buffer.c:170`), and headers that are cloned.
* In `Headers` and `Url`: percent encoding and characters other than delimiters, which no operation
  tells apart; names are compared without case, which is left to the names.
* `Generator`: a generator on which both push() and continuous() are called, whose
  callback and resolve function share storage, which no code in the repository does;
  `buffering(0)`, which does not return; queues whose end item is followed by
  `continuous()` (`lib/queue.c:345`).
* The components without a module: the form parser and the ring buffer hand on what `lws_spa` and
  `lws_ring` do, which are not in the repository; the hashes likewise; the proxy is not registered;
  the broker, the debugger client and the event emitter are examples; `lib/poll.c` is gnulib's
  and used where there is no poll(); `remove-functions.c` is not compiled.

## 6. Findings

With a run that shows it:

| Run | Code | Says otherwise |
|---|---|---|
| `http_twice` | `src/minnet-server-http.c:982`: a POST handler is called twice; when the first of an async one's two promises gives its Response, `serve_generator` finds the second pending and its assert fails | `src/minnet-server-http.c:529` |
| `fetch_status` | `src/minnet-client.c:1095`: a blocking fetch presets the response, so status and headers of the answer are never read (`src/minnet-client-http.c:180-188`) | `README.md:146-147` |

With a configuration that shows it, to be run by hand:

| Configuration | Code | Says otherwise |
|---|---|---|
| `GeneratorPendingReader` | `src/minnet-client-http.c:413`: a response ends, the reader that waits is not answered, the next `next()` fails its assert | `lib/asynciterator.c:68` |
| `GeneratorEmptyFinish` | `lib/generator.c:609`: a response without a body has no queue to close | `lib/generator.c:592` |
| `GeneratorLateText` | `lib/generator.c:601`: text() called between chunks gets only the first | `lib/generator.c:587-588` |
| `GeneratorAwaitPush` | `lib/generator.c:272`: only the first push is ever resolved | `lib/generator.c:384`, `tests/test-generator.js:12-28` |
| `WebSocketClientClosed` | `src/minnet-client.c:251`: `onClose` for the close frame and again for the closed connection | `README.md:105-106`, `src/minnet-server-ws.c:195` |

Met while modelling, where a property is stated only for what does hold:

* Bodies: `queue_continuous` puts a chunk behind the end of a closed queue (`lib/queue.c:345`), after
  which a second stop fails an assert; in continuous mode a waiting reader may get more than the one
  final value that `lib/generator.c:552-553` announces; for POST, `NeverStuck` and `WireInOrder` do
  not hold either, since the handler runs twice.
* Transaction: a GET whose async handler resolves to anything but a Response
  (`src/minnet-server-http.c:437-481`), or whose iterator yields what is no buffer (l. 557), is never
  answered; a completed transaction is completed again, two or three times in one event (l. 810,
  1207 by way of 1251, 1210); a writable event that finds no queue may read through the NULL pointer,
  because how much it had is never set then (l. 1213-1214; `AskAgain` with `garbage`).
* Server: a handler that called `next()` once no longer ends the chain for any later request
  (`src/minnet-server.c:224`); LWS_CALLBACK_HTTP_BIND_PROTOCOL loses the mount the filter found
  (`src/minnet-server-http.c:910`); a mountpoint `/a` also answers `/ab`; a request with a query
  matches no registered path (`lib/request.c:150`); when a second listen() fails to make its
  context the first one's timer goes on with none.
* RPC: a service with two clients answers the last to connect (`js/rpc.js:576`); an answer that
  is an error never settles its call (`js/rpc.js:444`); a client has no `cleanup()`, so its `onclose`
  throws (`js/rpc.js:239`); `onError` names a variable that does not exist (`js/rpc.js:596`);
  an answer that arrives before its handler is entered is dropped (`js/rpc.js:457`; with
  `Prompt = FALSE`, `Answered` does not hold).
* Client: the promise of a fetch that does not block stays pending when the connection fails
  (`src/minnet-client.c:1087`); a `text/` response without a body generator, and a chunk before text(), use
  a null pointer (`src/minnet-client-http.c:192`, `401`); an iterator that throws ends the
  body as if it were complete; a POST without a body writes empty pieces for ever.
* Event loop: `client.onfd = null` leaves the handlers that were set (`src/minnet-client.c:691`), so
  `HandlersFollow` asks for `onfd`; the second of a socket's two first references
  is never given back (`lib/ws.c:23`).
* Headers: the number of an item is used as a byte offset (`lib/headers.c:213`, `251`), so setting
  again or deleting any but the first header splices the wrong place; an appended value goes behind the
  delimiter; an empty value makes a length wrap around (`lib/headers.c:148`). These are the calls
  that `plain` of `AgreesWithList` leaves out. Headers assigned to a response do not clear
  those of before: what the new text does not reach shows again in `response.headers`
  (`src/minnet-response.c:287`, `351`).
* URLs: a WebSocket's request has an empty path, because the token that is asked for first is never NULL
  (`lib/lws-utils.c:119`); the query of a URL without a path dereferences NULL (`lib/url.c:376`);
  without a protocol a port of -1 is printed as 4294967295 (`lib/url.c:200`); a query object of two
  entries is written without `&` (`lib/query.c:62`); a query set on a path with a hash lands in the hash,
  and one that is set or removed takes the hash behind the old one with it (`lib/url.c:307`).

## 7. Plan

Done: the iterator, queue and generator operators, the generator, the server's transaction, the
WebSocket, the server with its routes and mounts, the RPC layer, the HTTP client and fetch, the
event loop, headers, URLs; and the proofs of the iterator, the generator, the WebSocket, the server, the event
loop, the RPC layer, the transaction and the client (section 4). What is left, most useful first:

1. A composition of `HttpClient` and `HttpServer` over one connection: request and response
   bodies from generator to generator.
2. `queue_putline` and `lineBuffered`, `lib/buffer.c`; raw sockets.
3. The form parser and the ring buffer, over abstract specifications of `lws_spa` and `lws_ring`.
