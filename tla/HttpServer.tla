------------------------------ MODULE HttpServer ------------------------------
(***************************************************************************)
(* One transaction of the HTTP server: http_server_callback and the serve_ *)
(* functions of src/minnet-server-http.c with the session of               *)
(* lib/session.c.  libwebsockets delivers the request and the writable     *)
(* events, and the mount's handler (a plain, async or generator function)  *)
(* produces the response; promises it returns settle between the events,   *)
(* in any order with them.                                                 *)
(*                                                                         *)
(* The chunks a handler produces are numbered.  libwebsockets is not under *)
(* the program's control: it calls back when it was asked to and also when *)
(* it was not, and loses the connection at any time.                       *)
(***************************************************************************)
EXTENDS Naturals, FiniteSets, QueueOps

CONSTANTS
  Methods,   \* the methods clients use, of {"GET", "POST"}
  Handlers,  \* the kinds of handler mounted
  Outcomes,  \* what a step of a handler's iterator may give
  Results,   \* what an async function may give
  MaxMade    \* bound: chunks the handler makes

AllHandlers == {"sync", "async", "generator", "async_generator"}
AllOutcomes == {"data", "last", "end", "throw", "nothing"}
AllResults == {"response", "bodyless", "other", "throw"}

ASSUME ConstantsAssumption ==
  /\ Methods \subseteq {"GET", "POST"}
  /\ Handlers \subseteq AllHandlers
  /\ Outcomes \subseteq AllOutcomes
  /\ Results \subseteq AllResults
  /\ MaxMade \in Nat

VARIABLES
  h,      \* the session and what it did, see session_zero
  conn,   \* the connection: "idle", "body" (the request's body is coming in),
          \* "open" (the request is in), "completed", "closed"
  method, \* the request's method
  handler \* the mount's handler for the request

vars == <<h, conn, method, handler>>

\* The session's fields, of which `generator' is what the response is made by:
\*   "none"     no object
\*   "promise"  an async function's promise
\*   "sync"     a sync iterator, "ended" once it is at its end
\*   "async"    an async iterator
\*   "text"     the body of a Response made from a text, "read" once it is read
\* and `body' says whether the response has a body whose queue holds its end.
\* Beyond the fields: armed, whether libwebsockets has been asked for a writable
\* event; promises, those a closure waits for, and serial, to number them; runs,
\* how often the handler was called; made, how many chunks it made; ignored, whether
\* the last thing it gave was passed over; wire, the chunks written and whether as
\* the final one; completed, how often lws_http_transaction_completed was called;
\* aborted, where the process stopped.
session_zero ==
  [sendq |-> queue_zero, generator |-> "none", body |-> FALSE,
   want_write |-> FALSE, wait_resolve |-> 0, response_sent |-> FALSE,
   armed |-> FALSE, promises |-> {}, serial |-> 0,
   runs |-> 0, made |-> 0, ignored |-> FALSE, wire |-> <<>>, completed |-> 0, aborted |-> ""]

Abort(s, where) == [s EXCEPT !.aborted = IF @ = "" THEN where ELSE @]

-----------------------------------------------------------------------------

\* Where the response is read from: the send queue unless it is empty, else the
\* queue of the Response's body, else nowhere.
session_queue(s) ==
  CASE ~queue_empty(s.sendq) -> "sendq"
    [] queue_empty(s.sendq) /\ s.body -> "body"
    [] OTHER -> "none"

\* The queue found holds its end.
QueueComplete(s, q) == q = "body" \/ (q = "sendq" /\ queue_complete(s.sendq))

\* Mutant: libwebsockets is not asked.
session_want_write_unasked(s) == [s EXCEPT !.want_write = TRUE]

session_want_write(s) ==
  IF s.want_write THEN s ELSE [s EXCEPT !.want_write = TRUE, !.armed = TRUE]

\* What is passed over: a value that is no buffer and not the end of an iterator,
\* and what is not a Response from an async function.
Ignored(given) == given \in {"nothing", "other"}

\* The handler makes a chunk, and it is put into the send queue.
Enqueue(s) ==
  [s EXCEPT !.made = @ + 1, !.sendq = queue_write(@, <<s.made + 1>>)]

Close(s) ==
  IF queue_close_assert(s.sendq) THEN [s EXCEPT !.sendq = queue_close(@)]
                                 ELSE Abort(s, "queue_close")

\* Mutant: wait_resolve is a flag.
serve_promise_flag(s, kind) ==
  [s EXCEPT !.wait_resolve = 1, !.serial = @ + 1,
            !.promises = @ \cup {[id |-> s.serial + 1, kind |-> kind]}]

serve_promise(s, kind) ==
  [s EXCEPT !.wait_resolve = @ + 1, !.serial = @ + 1,
            !.promises = @ \cup {[id |-> s.serial + 1, kind |-> kind]}]

\* js_iterator_next on the response's iterator, and what is done with its
\* result; `done' and `failed' say that it ended and that it threw.  A promise
\* is an object without a method `next'.
IteratorTurn(s, outcome) ==
  LET is(t, done, failed) == [s |-> t, done |-> done, failed |-> failed]
  IN  CASE s.generator = "none" -> is(s, TRUE, FALSE)
        [] s.generator = "promise" -> is(s, TRUE, TRUE)
        [] s.generator = "ended" -> is(s, TRUE, FALSE)
        [] s.generator = "async" -> is(serve_promise(s, "iteration"), FALSE, FALSE)
        [] s.generator = "text" ->
             is(serve_promise([s EXCEPT !.generator = "read"], "text"), FALSE, FALSE)
        [] s.generator = "read" -> is(serve_promise(s, "end"), FALSE, FALSE)
        [] s.generator = "sync" ->
             LET done == outcome \in {"last", "end", "throw"}
             IN  is([IF outcome \in {"data", "last"} THEN Enqueue(s) ELSE s
                       EXCEPT !.generator = IF done THEN "ended" ELSE @,
                              !.ignored = Ignored(outcome)],
                    done, outcome = "throw")

\* It asserts that no promise is waited for and that the queue is not complete.
serve_generator(s, outcome) ==
  IF s.wait_resolve # 0 \/ queue_complete(s.sendq)
  THEN [s |-> Abort(s, IF s.wait_resolve # 0 THEN "serve_generator" ELSE "complete queue"),
        done |-> FALSE, failed |-> FALSE]
  ELSE LET turn == IteratorTurn(s, outcome)
           wants == turn.s.wait_resolve = 0 /\ (turn.done \/ queue_bytes(turn.s.sendq) > 0)
       IN  [turn EXCEPT !.s = IF wants THEN session_want_write(@) ELSE @]

\* Calls the handler; what kind of function it is decides what the response is
\* made by.  What a plain function returns is replaced by the body of the
\* response, which does not exist yet.
session_callback(s, kind) ==
  [s EXCEPT !.runs = @ + 1,
            !.generator = CASE kind = "generator" -> "sync"
                            [] kind = "async_generator" -> "async"
                            [] kind = "async" -> "promise"
                            [] kind = "sync" -> "none"]

serve_callback(s, kind, outcome) ==
  LET called == session_callback(s, kind)
      started(t) == [s |-> t, done |-> FALSE, failed |-> FALSE]
  IN  CASE kind \in {"generator", "async_generator"} -> serve_generator(called, outcome)
        [] kind = "async" -> started(serve_promise(called, "function"))
        [] kind = "sync" -> started(session_want_write(called))

Settled(s, p, given) ==
  [s EXCEPT !.promises = @ \ {p}, !.wait_resolve = @ - 1, !.ignored = Ignored(given)]

\* The promise of an async function gives a Response, with a body or without
\* one; anything else is ignored.  (An object with value and done would be taken for
\* what an iterator gives: not modelled.)
ResolvedFunction(s, result) ==
  CASE result = "response" ->
         serve_generator([s EXCEPT !.body = TRUE, !.generator = "text"], "end").s
    [] result = "bodyless" ->
         serve_generator([s EXCEPT !.body = FALSE, !.generator = "none"], "end").s
    [] OTHER -> s

\* Mutants: the queue is closed before the value is put in; no writable event is
\* asked for.
ResolvedIteration_closes(s, outcome) ==
  LET closed == IF outcome \in {"last", "end"} THEN session_want_write(Close(s)) ELSE s
  IN  IF outcome \in {"data", "last"} THEN session_want_write(Enqueue(closed)) ELSE closed
ResolvedIteration_silent(s, outcome) ==
  LET sent == IF outcome \in {"data", "last"} THEN Enqueue(s) ELSE s
  IN  IF outcome \in {"last", "end"} THEN Close(sent) ELSE sent

\* The promise of an iterator gives {value, done}.
ResolvedIteration(s, outcome) ==
  LET sent == IF outcome \in {"data", "last"} THEN session_want_write(Enqueue(s)) ELSE s
  IN  IF outcome \in {"last", "end"} THEN session_want_write(Close(sent)) ELSE sent

serve_resolved(s, p, given) ==
  CASE s.wait_resolve = 0 -> Abort(s, "serve_resolved")
    [] s.wait_resolve > 0 /\ p.kind = "function" -> ResolvedFunction(Settled(s, p, given), given)
    [] OTHER -> ResolvedIteration(Settled(s, p, given), given)

\* The text of the error is put behind what there is of the body, and the
\* response is replaced by one without a body.
serve_rejected(s, p) ==
  IF s.wait_resolve = 0
  THEN Abort(s, "serve_rejected")
  ELSE session_want_write(Close(Enqueue([Settled(s, p, "throw") EXCEPT !.body = FALSE])))

-----------------------------------------------------------------------------

\* Mutant: any chunk that leaves the queue empty is marked as the final one.
http_server_writeable_final(s) ==
  LET next == [s EXCEPT !.sendq = queue_next(@)]
      written == [next EXCEPT !.wire =
                    Append(@, [chunk |-> queue_front(s.sendq).block[1],
                               final |-> Len(next.sendq.items) =< 1])]
      complete(t) == [t EXCEPT !.completed = @ + 1]
  IN  IF session_queue(s) = "sendq" /\ queue_bytes(s.sendq) > 0
      THEN IF queue_closed(written.sendq) THEN complete(written) ELSE written
      ELSE complete(s)

\* Writes one chunk of the send queue.  The transaction is complete when the
\* end is at the front, or when there was nothing to write.
http_server_writeable(s) ==
  LET next == [s EXCEPT !.sendq = queue_next(@)]
      final == queue_complete(next.sendq) \/ queue_closed(s.sendq)
      written == [next EXCEPT !.wire =
                    Append(@, [chunk |-> queue_front(s.sendq).block[1], final |-> final])]
      complete(t) == [t EXCEPT !.completed = @ + 1]
  IN  IF session_queue(s) = "sendq" /\ queue_bytes(s.sendq) > 0
      THEN IF queue_closed(written.sendq) THEN complete(written) ELSE written
      ELSE complete(s)

\* LWS_CALLBACK_HTTP_WRITEABLE once want_write was found set, in three steps.
\* A record goes through them: the session, the queue that is read from, and
\* whether the iterator threw.

\* A turn of the iterator when there is no queue to read from; the queue is
\* looked up again only when the iterator is done.
AfterTurn(turn) ==
  LET q == IF turn.done THEN session_queue(turn.s) ELSE "none"
  IN  [s |-> IF q = "sendq" THEN Close(turn.s) ELSE turn.s,
       q |-> q, failed |-> q = "none" /\ turn.failed]

FillQueue(s, outcome) ==
  IF session_queue(s) = "none" /\ s.wait_resolve = 0
  THEN AfterTurn(serve_generator(s, outcome))
  ELSE [s |-> s, q |-> session_queue(s), failed |-> FALSE]

\* LWS_CALLBACK_HTTP_FILE_COMPLETION, which the event calls itself once
\* http_server_writeable has completed the transaction: lws_callback_http_dummy
\* completes it again.  A send queue left empty completes it another time.
FileCompletion(s, q) ==
  [s EXCEPT !.completed = @ + IF q = "sendq" /\ queue_empty(s.sendq) THEN 2 ELSE 1]

\* A chunk is written.
WriteChunk(t) ==
  LET written == http_server_writeable(t.s)
  IN  CASE t.q = "none" -> t
        [] t.q # "none" /\ written.completed = t.s.completed -> [t EXCEPT !.s = written]
        [] OTHER -> [t EXCEPT !.s = FileCompletion(written, t.q)]

\* A turn of the iterator when there was something to write (`had').  What there
\* was is not initialized when there was no queue: `garbage' is whether it is
\* taken for something.
CloseWhenDone(turn) ==
  [s |-> IF turn.done THEN Close(turn.s) ELSE turn.s, failed |-> turn.failed]

AskAgain(t, had, outcome, garbage) ==
  CASE /\ had /\ ~t.s.want_write /\ t.s.wait_resolve = 0
       /\ ~queue_closed(t.s.sendq) /\ ~queue_complete(t.s.sendq) ->
         CloseWhenDone(serve_generator(t.s, outcome))
    [] t.q = "none" /\ garbage /\ ~t.s.want_write ->
         [s |-> Abort(t.s, "null queue"), failed |-> FALSE]
    [] OTHER -> [s |-> t.s, failed |-> t.failed]

WriteResponse(asked, outcome, garbage) ==
  LET s == [asked EXCEPT !.want_write = FALSE, !.response_sent = TRUE]
      had == session_queue(s) = "sendq" /\ queue_bytes(s.sendq) > 0
  IN  AskAgain(WriteChunk(FillQueue(s, outcome)), had, outcome, garbage)

-----------------------------------------------------------------------------

Init ==
  /\ h = session_zero
  /\ conn = "idle"
  /\ method = "GET"
  /\ handler = "sync"

\* What is left to an iterator that may make MaxMade chunks.
Allowed == IF h.made < MaxMade THEN Outcomes ELSE Outcomes \ {"data", "last"}

Running == h.aborted = ""

\* LWS_CALLBACK_HTTP_BIND_PROTOCOL, _FILTER_HTTP_CONNECTION and _HTTP.
Request ==
  /\ conn = "idle"
  /\ \E m \in Methods, kind \in Handlers, outcome \in Allowed :
       LET r == serve_callback(h, kind, outcome)
       IN  /\ method' = m
           /\ handler' = kind
           /\ h' = r.s
           /\ conn' = CASE r.failed -> "closed"
                        [] ~r.failed /\ m = "POST" -> "body"
                        [] OTHER -> "open"

\* LWS_CALLBACK_HTTP_BODY_COMPLETION (LWS_CALLBACK_HTTP_BODY fills the request's
\* generator, module Generator).  What serve_callback returns is not looked at.
BodyCompletion ==
  /\ Running
  /\ conn = "body"
  /\ conn' = "open"
  /\ \E outcome \in Allowed :
       h' = session_want_write(serve_callback(h, handler, outcome).s)
  /\ UNCHANGED <<method, handler>>

\* LWS_CALLBACK_HTTP_WRITEABLE
Writeable ==
  /\ Running
  /\ conn \in {"body", "open"}
  /\ LET asked == [h EXCEPT !.armed = FALSE]
     IN  IF h.want_write \/ QueueComplete(h, session_queue(h))
         THEN \E outcome \in Allowed, garbage \in BOOLEAN :
                LET r == WriteResponse(session_want_write(asked), outcome, garbage)
                IN  /\ h' = r.s
                    /\ conn' = CASE r.s.completed > 0 -> "completed"
                                 [] r.s.completed = 0 /\ r.failed -> "closed"
                                 [] OTHER -> conn
         ELSE h' = asked /\ UNCHANGED conn
  /\ UNCHANGED <<method, handler>>

\* What a promise may give, by its kind.
Given(p) ==
  CASE p.kind = "function" -> Results
    [] p.kind = "iteration" -> Allowed
    [] p.kind = "text" -> {"data"}
    [] p.kind = "end" -> {"end"}

\* A promise settles.  (After the connection is gone its closure points to a
\* session that no longer exists; what happens then is not modelled.)
Settle ==
  /\ Running
  /\ conn \in {"body", "open"}
  /\ \E p \in h.promises, given \in AllOutcomes \cup AllResults :
       /\ given \in Given(p)
       /\ h' = IF given = "throw" THEN serve_rejected(h, p) ELSE serve_resolved(h, p, given)
  /\ UNCHANGED <<conn, method, handler>>

\* The client goes away, or the 30 seconds of lws_set_timeout are over.
Disconnect ==
  /\ Running
  /\ conn \in {"body", "open"}
  /\ conn' = "closed"
  /\ UNCHANGED <<h, method, handler>>

Next == Request \/ BodyCompletion \/ Writeable \/ Settle \/ Disconnect

Spec == Init /\ [][Next]_vars

\* libwebsockets gives the writable event it was asked for, and the promises of
\* the handler settle.
Fairness == WF_vars(h.armed /\ Writeable) /\ WF_vars(Settle)

FairSpec == Spec /\ Fairness

-----------------------------------------------------------------------------

\* What is stated for GET does not hold for POST, whose handler is called twice
\* (run http_twice).

\* wait_resolve is the number of promises that will still call back: what
\* serve_generator and the writable event decide by, so that an iterator is never
\* asked for its next chunk while a promise of it is pending.
WaitsForItsPromises ==
  /\ h.wait_resolve = Cardinality(h.promises)
  /\ method = "GET" /\ Running => ~(h.want_write /\ h.promises # {}) /\ h.wait_resolve =< 1

\* The next step of a response that is not complete is coming: a writable event
\* it asked for, or a promise.  It has neither, and is left to its client's patience,
\* in one case only: the last thing its handler gave was passed over, because an
\* iterator gave a value that is no buffer, or an async function anything but a
\* Response.  And no assert of the serve_ functions or of queue_close stops the
\* process.
NeverStuck ==
  method = "GET" =>
    /\ Running
    /\ conn = "open" => (h.want_write /\ h.armed) \/ h.promises # {} \/ h.ignored

\* What is on the wire and in the queue is what the handler made, in that
\* order, and a completed response has all of it.
WireInOrder ==
  LET chunks == [i \in 1 .. Len(h.wire) |-> h.wire[i].chunk]
  IN  method = "GET" =>
        /\ chunks \o queue_data(h.sendq) = [i \in 1 .. h.made |-> i]
        /\ h.completed > 0 => Len(chunks) = h.made

\* The chunk that was marked as the final one (LWS_WRITE_HTTP_FINAL) is the last
\* that the handler made, nothing is written after it, and its response is over.
FinalIsLast ==
  method = "GET" =>
    \A i \in 1 .. Len(h.wire) :
      h.wire[i].final => i = Len(h.wire) /\ i = h.made /\ h.completed > 0

\* serve_generator's first assert, wait_resolve == 0, holds for every method.
NoPromiseAtATurn == h.aborted # "serve_generator"

\* A response of which there is a chunk is completed, or its connection is lost, or
\* what its handler gave was passed over.  (One without a chunk asks for writable
\* events for ever.)
Answered == method = "GET" /\ h.made > 0 ~> conn \in {"completed", "closed"} \/ h.ignored
=============================================================================
