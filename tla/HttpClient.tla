------------------------------ MODULE HttpClient ------------------------------
(***************************************************************************)
(* One HTTP request made by client() or fetch(): minnet_client_closure of  *)
(* src/minnet-client.c, which connects and, for a blocking fetch, polls    *)
(* until its list of descriptors is empty; http_client_callback of         *)
(* src/minnet-client-http.c, which libwebsockets calls about the           *)
(* connection; and the handlers src/minnet-fetch.c installs.  The body of  *)
(* the response is a generator (GeneratorOps).                             *)
(*                                                                         *)
(* The actions are what libwebsockets, the server and the script do; each  *)
(* takes the whole of the handler it calls.  A blocking fetch is serviced  *)
(* only through its own list, one action a turn of its loop.  How the end  *)
(* of a connection is told depends on libwebsockets: by the callback that  *)
(* it closed, by LWS_CALLBACK_DEL_POLL_FD, or by both in either order.     *)
(***************************************************************************)
EXTENDS GeneratorOps

CONSTANTS
  Kinds,       \* of body: "none", "text", "iterator", "async"
  MaxValues,   \* bound: values the iterator of a body gives
  MaxChunks,   \* bound: chunks of a response
  MaxWrites    \* bound: pieces of body written

ASSUME ConstantsAssumption ==
  /\ Kinds \subseteq {"none", "text", "iterator", "async"}
  /\ {MaxValues, MaxChunks, MaxWrites} \subseteq Nat

VARIABLES
  o,   \* the options of the call
  c,   \* the MinnetClient, its call, session, response and SyncFetch
  net  \* the connection, as libwebsockets and the server know it

vars == <<o, c, net>>

Options ==
  [fetch : BOOLEAN, block : BOOLEAN, post : BOOLEAN, body : Kinds,
   values : 0 .. MaxValues, onClose : BOOLEAN,
   onResponse : {"none", "user", "terminate"}, onWriteable : BOOLEAN]

\* call and ret are how far the call is and what it gave; promise is
\* client->promise and answer the promise of a fetch that does not block; close
\* and http whom on.close and on.http call; fds the descriptors of the SyncFetch;
\* hasbody and body the response's generator; ws whether opaque->ws is set and
\* knows its descriptor; died where the process stopped.
client_new ==
  [call |-> "none", ret |-> "none", promise |-> "none", answer |-> "none",
   close |-> "none", closes |-> 0, http |-> "none", writeable |-> FALSE,
   lwsret |-> 0, fds |-> <<>>, error |-> FALSE, preset |-> FALSE, resp |-> FALSE,
   status |-> 0, hasbody |-> FALSE, body |-> generator_zero, respobj |-> FALSE,
   ws |-> "none", next |-> 0, threw |-> FALSE, died |-> ""]

NoConnection ==
  [phase |-> "none", fd |-> 0, asked |-> FALSE, toGet |-> FALSE, est |-> FALSE,
   status |-> 0, sent |-> <<>>, completed |-> FALSE, wire |-> <<>>]

Live == c.died = "" /\ net.phase \notin {"none", "destroyed"}

\* libwebsockets is called about the connection's descriptor.
Serviced == Live /\ (o.block => c.call = "running" /\ \E i \in DOMAIN c.fds : c.fds[i] = net.fd)

-----------------------------------------------------------------------------
(* The promise, and the descriptors of a blocking fetch *)

Settle(d, how) == IF d.promise = "pending" THEN [d EXCEPT !.promise = how] ELSE d

Dies(d, where) == [d EXCEPT !.died = where]

synchfetch_setevents(d, fd) ==
  IF \E i \in DOMAIN d.fds : d.fds[i] = fd THEN d ELSE [d EXCEPT !.fds = Append(@, fd)]

\* Asserts that the descriptor is there.
synchfetch_removefd(d, fd) ==
  IF \E i \in DOMAIN d.fds : d.fds[i] = fd
  THEN [d EXCEPT !.fds = RemoveFirst(@, fd)]
  ELSE Dies(d, "synchfetch_removefd")

\* on.fd, when it is minnet_client_pollfd: any is whether any event is waited for.
minnet_client_pollfd(p, d, fd, any) ==
  CASE ~p.block -> d
    [] p.block /\ any -> synchfetch_setevents(d, fd)
    [] p.block /\ ~any -> synchfetch_removefd(d, fd)

\* The argument is the socket, whose descriptor may not be known and is then read
\* from the object, which gives 0; or else opaque->fd, which is not known.
minnet_client_onclose(d, fd, error) ==
  LET e == [d EXCEPT !.error = @ \/ error]
  IN  CASE d.ws = "known" -> synchfetch_removefd(e, fd)
        [] d.ws = "unknown" -> synchfetch_removefd(e, 0)
        [] d.ws = "none" -> e

\* callback_emit of on.close.  A fetch's handler (ON_CLOSE) rejects, and so does
\* the promise's own function.
EmitClose(d, fd, error) ==
  CASE d.close = "none" -> d
    [] d.close = "user" -> [d EXCEPT !.closes = @ + 1]
    [] d.close \in {"reject", "fetch"} -> Settle([d EXCEPT !.closes = @ + 1], "rejected")
    [] d.close = "sync" -> minnet_client_onclose([d EXCEPT !.closes = @ + 1], fd, error)

-----------------------------------------------------------------------------
(* The call *)

\* The callbacks: a fetch gives its own onClose, and onHttp and onError, which are
\* not read; a blocking call puts its own over them.
Callbacks(p) ==
  [client_new EXCEPT
     !.close = CASE p.block -> "sync" [] ~p.block /\ p.fetch -> "fetch"
                 [] OTHER -> IF p.onClose THEN "user" ELSE "reject",
     !.http = IF p.onResponse = "none" THEN "none" ELSE p.onResponse,
     !.writeable = p.onWriteable,
     !.promise = IF p.block THEN "none" ELSE "pending"]

\* Mutant: the response's body gathers in chunks of its own.
BlockingBody_pieces(d) ==
  [d EXCEPT !.resp = TRUE, !.preset = TRUE, !.hasbody = TRUE, !.body = create_queue(@)]

\* The response of a blocking fetch is there before the connection's.
BlockingBody(d) ==
  [d EXCEPT !.resp = TRUE, !.preset = TRUE, !.hasbody = TRUE,
            !.body = generator_continuous(@, NoFunction)]

\* What is returned, by minnet_client or minnet_fetch, once the connection is
\* begun (ok) or was refused.
minnet_client_closure(p, d, fd, ok) ==
  LET refused == IF p.block THEN d ELSE Settle(d, "rejected")
      e == IF ok THEN d ELSE refused
  IN  CASE ~p.fetch ->
             [e EXCEPT !.call = "returned", !.ret = IF p.block THEN "client" ELSE "promise"]
        [] p.fetch /\ ~p.block ->
             [e EXCEPT !.call = "returned", !.ret = "answer",
                       !.answer = "pending", !.http = "answer"]
        [] p.fetch /\ p.block /\ ~ok ->
             [e EXCEPT !.call = "returned", !.ret = IF e.error THEN "throw" ELSE "undefined"]
        [] p.fetch /\ p.block /\ ok ->
             [BlockingBody(synchfetch_setevents(e, fd)) EXCEPT !.call = "running"]

\* The call fails before it connects: no URL, and the client is freed though
\* the caller still has it; or no context.  client() wraps what it has.
Fail(why) ==
  /\ c.call = "none"
  /\ c' = [client_new EXCEPT !.call = "returned",
             !.died = IF why = "request" THEN "client_free" ELSE "",
             !.ret = IF o.fetch THEN "throw" ELSE "client"]
  /\ UNCHANGED <<o, net>>

\* Mutant: the error is left to on.close.
ConnectionError_unsettled(d, fd) == EmitClose(d, fd, TRUE)

\* LWS_CALLBACK_CLIENT_CONNECTION_ERROR, as http_client_callback gets it.
ConnectionError(d, fd) == EmitClose(Settle(d, "rejected"), fd, TRUE)

\* The connection cannot be begun; libwebsockets says so or not.
Refuse(told) ==
  /\ c.call = "none"
  /\ LET d == Callbacks(o)
     IN  c' = minnet_client_closure(o, IF told THEN ConnectionError(d, 0) ELSE d, 0, FALSE)
  /\ UNCHANGED <<o, net>>

\* It is begun: LWS_CALLBACK_WSI_CREATE came before there was a socket, or did
\* not come, and LWS_CALLBACK_ADD_POLL_FD.
Connect(created) ==
  /\ c.call = "none"
  /\ LET d == [Callbacks(o) EXCEPT !.ws = IF created THEN "unknown" ELSE "none"]
     IN  c' = minnet_client_closure(o, minnet_client_pollfd(o, d, 1, TRUE), 1, TRUE)
  /\ net' = [net EXCEPT !.phase = "connecting", !.fd = 1]
  /\ UNCHANGED o

\* Mutant: the loop ends with its first turn.
Return_early ==
  /\ c.call = "running" /\ c.died = "" /\ net.phase # "connecting"
  /\ c' = [c EXCEPT !.call = "returned",
             !.ret = CASE c.error -> "throw" [] ~c.error /\ c.respobj -> "response"
                       [] OTHER -> "null"]
  /\ UNCHANGED <<o, net>>

\* No descriptor is left: the call gives session.resp_obj, or throws.
Return ==
  /\ c.call = "running" /\ c.died = "" /\ c.fds = <<>>
  /\ c' = [c EXCEPT !.call = "returned",
             !.ret = CASE c.error -> "throw" [] ~c.error /\ c.respobj -> "response"
                       [] OTHER -> "null"]
  /\ UNCHANGED <<o, net>>

-----------------------------------------------------------------------------
(* http_client_callback *)

\* LWS_CALLBACK_CLIENT_HTTP_BIND_PROTOCOL: a descriptor that is known is closed.
Bind ==
  /\ Serviced /\ net.phase = "connecting"
  /\ c' = [(IF c.ws = "known" THEN EmitClose(c, net.fd, FALSE) ELSE c) EXCEPT !.respobj = FALSE]
  /\ net' = [net EXCEPT !.phase = "bound"]
  /\ UNCHANGED o

\* LWS_CALLBACK_CLIENT_APPEND_HANDSHAKE_HEADER.
Handshake ==
  /\ Serviced /\ net.phase = "bound"
  /\ net' = [net EXCEPT !.phase = "sent", !.asked = o.post /\ ~net.toGet]
  /\ UNCHANGED <<o, c>>

\* LWS_CALLBACK_CLIENT_HTTP_REDIRECT: the connection is begun again.
Redirect(toGet) ==
  /\ Serviced /\ net.phase = "sent" /\ net.fd = 1
  /\ LET gone == minnet_client_pollfd(o, [c EXCEPT !.lwsret = 1], 1, FALSE)
     IN  c' = minnet_client_pollfd(o, gone, 2, TRUE)
  /\ net' = [net EXCEPT !.phase = "connecting", !.fd = 2, !.asked = FALSE, !.toGet = toGet]
  /\ UNCHANGED o

\* The connection ends: LWS_CALLBACK_CLOSED_CLIENT_HTTP or, when it was never
\* established, LWS_CALLBACK_CLIENT_CONNECTION_ERROR; then LWS_CALLBACK_WSI_DESTROY.
Ended(p, d, est, fd, del) ==
  LET before == IF del = "before" THEN minnet_client_pollfd(p, d, fd, FALSE) ELSE d
      told == IF est THEN EmitClose(before, fd, FALSE) ELSE ConnectionError(before, fd)
      after == IF del = "after" THEN minnet_client_pollfd(p, told, fd, FALSE) ELSE told
  IN  IF after.died # "" THEN after ELSE Settle(after, "resolved")

\* on.http is called with the response: a user's handler may ask for the text at
\* once, and a value that is true ends the connection after the response.
EmitHttp(d, asks) ==
  LET e == IF asks /\ d.http \in {"user", "terminate"} /\ ~d.hasbody
           THEN [d EXCEPT !.hasbody = TRUE, !.body = generator_continuous(@, Continuation(1))]
           ELSE d
  IN  CASE d.http = "none" -> d
        [] d.http = "user" -> e
        [] d.http = "terminate" -> [e EXCEPT !.lwsret = 1]
        [] d.http = "answer" -> [d EXCEPT !.answer = "resolved", !.lwsret = 1]

\* LWS_CALLBACK_ESTABLISHED_CLIENT_HTTP.  A response made here has no body yet,
\* though one of type text/ is expected to; one that is an error closes.
Established(status, text, asks) ==
  /\ Serviced /\ net.phase = "sent" /\ (asks => c.http \in {"user", "terminate"})
  /\ LET d == [c EXCEPT !.resp = TRUE, !.ws = IF @ = "none" THEN "known" ELSE @,
                        !.status = IF c.preset THEN @ ELSE status,
                        !.respobj = @ \/ ~c.preset]
         e == EmitHttp(Settle(d, "resolved"), asks)
         closes == e.status >= 400
     IN  IF text /\ ~c.preset
         THEN c' = Dies(d, "body->block_fn") /\ UNCHANGED net
         ELSE /\ c' = IF closes
                      THEN LET f == Ended(o, e, TRUE, net.fd, "none")
                           IN  IF o.post THEN Dies(f, "lws_client_http_body_pending") ELSE f
                      ELSE e
              /\ net' = [net EXCEPT !.phase = IF closes THEN "destroyed" ELSE "established",
                           !.est = TRUE, !.status = status, !.asked = @ \/ o.post]
  /\ UNCHANGED o

\* The script calls text() of the response.
Text ==
  /\ Live /\ ~o.block /\ c.respobj /\ ~c.hasbody
  /\ c' = [c EXCEPT !.hasbody = TRUE, !.body = generator_continuous(@, Continuation(1))]
  /\ UNCHANGED <<o, net>>

\* LWS_CALLBACK_RECEIVE_CLIENT_HTTP and the LWS_CALLBACK_RECEIVE_CLIENT_HTTP_READ
\* it gets from lws_http_client_read.
Receive(chunk) ==
  /\ Serviced /\ net.phase = "established" /\ Len(net.sent) < MaxChunks
  /\ c' = IF c.hasbody
          THEN [c EXCEPT !.respobj = TRUE, !.body = generator_write(@, chunk, 0)]
          ELSE Dies([c EXCEPT !.respobj = TRUE], "generator_write")
  /\ net' = [net EXCEPT !.sent = Append(@, chunk)]
  /\ UNCHANGED o

\* LWS_CALLBACK_COMPLETED_CLIENT_HTTP.
Completed ==
  /\ Serviced /\ net.phase = "established"
  /\ c' = IF c.hasbody THEN [c EXCEPT !.body = generator_finish(@)]
                       ELSE Dies(c, "generator_finish")
  /\ net' = [net EXCEPT !.completed = TRUE,
                        !.phase = IF c.lwsret = 1 THEN "closing" ELSE "completed"]
  /\ UNCHANGED o

\* Mutant: every piece is written as the last one.
Piece_final(p, d, outcome) ==
  CASE p.body = "none" -> [data |-> 0, final |-> FALSE]
    [] p.body = "text" -> [data |-> 1, final |-> TRUE]
    [] p.body = "async" -> [data |-> 0, final |-> FALSE]
    [] p.body = "iterator" ->
         [data |-> IF outcome = "next" /\ d.next < p.values THEN d.next + 1 ELSE 0,
          final |-> outcome = "next"]

\* What one LWS_CALLBACK_CLIENT_HTTP_WRITEABLE writes of the body.  An iterator
\* that threw is done; one that gives promises is never seen to be.
Piece(p, d, outcome) ==
  CASE p.body = "none" -> [data |-> 0, final |-> FALSE]
    [] p.body = "text" -> [data |-> 1, final |-> TRUE]
    [] p.body = "async" -> [data |-> 0, final |-> FALSE]
    [] p.body = "iterator" ->
         [data |-> IF outcome = "next" /\ ~d.threw /\ d.next < p.values THEN d.next + 1 ELSE 0,
          final |-> outcome = "next" /\ (d.threw \/ d.next >= p.values)]

\* LWS_CALLBACK_CLIENT_HTTP_WRITEABLE with no on.writeable: it asks for the next
\* unless that was the last piece; `fails' is that of lws_write.
WriteBody(outcome, fails) ==
  /\ Serviced /\ net.asked /\ net.phase \in {"sent", "established"} /\ ~c.writeable
  /\ Len(net.wire) < MaxWrites
  /\ outcome = "throw" => o.body = "iterator" /\ ~c.threw /\ c.next < o.values
  /\ LET p == Piece(o, c, outcome)
     IN  IF o.post /\ ~net.toGet
         THEN /\ c' = [c EXCEPT !.next = IF p.data > 0 THEN p.data ELSE @,
                                !.threw = @ \/ outcome = "throw"]
              /\ net' = IF fails THEN [net EXCEPT !.phase = "closing"]
                        ELSE [net EXCEPT !.asked = ~p.final, !.wire = Append(@, p)]
         ELSE net' = [net EXCEPT !.asked = FALSE] /\ UNCHANGED c
  /\ UNCHANGED o

\* The same with on.writeable, which FALSE ends: the body is not sent until then.
EmitWriteable(goesOn) ==
  /\ Serviced /\ net.asked /\ net.phase \in {"sent", "established"} /\ c.writeable
  /\ c' = [c EXCEPT !.writeable = goesOn]
  /\ net' = [net EXCEPT !.asked = goesOn]
  /\ UNCHANGED o

\* onwriteable = a function.
SetWriteable ==
  /\ Live /\ ~o.block /\ c.promise = "resolved" /\ ~c.writeable
  /\ c' = [c EXCEPT !.writeable = TRUE]
  /\ net' = [net EXCEPT !.asked = TRUE]
  /\ UNCHANGED o

\* The end.  LWS_CALLBACK_DEL_POLL_FD is needed where no close is told of.
End(del) ==
  /\ Serviced /\ (del = "none" => net.est)
  /\ c' = Ended(o, c, net.est, net.fd, del)
  /\ net' = [net EXCEPT !.phase = "destroyed"]
  /\ UNCHANGED o

-----------------------------------------------------------------------------

Init == o \in Options /\ c = client_new /\ net = NoConnection

Next ==
  \/ \E why \in {"request", "context"} : Fail(why)
  \/ \E told \in BOOLEAN : Refuse(told)
  \/ \E created \in BOOLEAN : Connect(created)
  \/ Return
  \/ Bind
  \/ Handshake
  \/ \E toGet \in BOOLEAN : Redirect(toGet)
  \/ \E status \in {200, 404}, text, asks \in BOOLEAN : Established(status, text, asks)
  \/ Text
  \/ Receive(<<Len(net.sent) + 1>>)
  \/ Completed
  \/ \E outcome \in {"next", "throw"}, fails \in BOOLEAN : WriteBody(outcome, fails)
  \/ \E goesOn \in BOOLEAN : EmitWriteable(goesOn)
  \/ SetWriteable
  \/ \E del \in {"none", "before", "after"} : End(del)

Spec == Init /\ [][Next]_vars

-----------------------------------------------------------------------------
(* Properties *)

\* A promise of client() never outlives the connection, and tells how it went:
\* once that is gone, it was resolved if the connection was established and
\* rejected if not, whatever other functions the close is told to
\* (LWS_CALLBACK_CLIENT_CONNECTION_ERROR, ESTABLISHED and WSI_DESTROY).
Settled ==
  net.phase = "destroyed" /\ c.died = "" /\ ~o.block =>
    c.promise = IF net.est THEN "resolved" ELSE "rejected"

\* The pieces with a value that were written up to the first that was the last.
Valued(wire) ==
  {i \in DOMAIN wire : wire[i].data # 0 /\ \A j \in 1 .. i - 1 : ~wire[j].final}

\* They are the first n values, in order and each once.
InOrder(wire, n) ==
  /\ \A i, j \in Valued(wire) : i < j => wire[i].data < wire[j].data
  /\ {wire[i].data : i \in Valued(wire)} = 1 .. n

Closed(wire) == \E i \in DOMAIN wire : wire[i].final

\* Up to the piece written as the last, a POST writes the values of its body in
\* order and each once, and the last piece follows all of them, unless the
\* iterator threw (LWS_CALLBACK_CLIENT_HTTP_WRITEABLE).
BodyInOrder ==
  \E n \in 0 .. Len(net.wire) :
    /\ InOrder(net.wire, n)
    /\ Closed(net.wire) /\ o.body = "iterator" /\ ~c.threw => n = o.values

\* What a blocking fetch returns has the whole response: all the chunks, in order,
\* in the one block its text() takes (minnet_client_closure, READ and COMPLETED).
ReturnsWhole ==
  c.call = "returned" /\ c.ret = "response" /\ net.sent # <<>> =>
    queue_front(c.body.q).block = FlattenSeq(net.sent)

\* A blocking fetch does not wait for a connection that is gone, and does not
\* return while its connection is there (minnet_client_pollfd, minnet_client_onclose).
LoopFollows ==
  o.fetch /\ o.block /\ c.died = "" =>
    /\ c.call = "running" /\ net.phase = "destroyed" => c.fds = <<>>
    /\ c.call = "returned" => net.phase \in {"none", "destroyed"}

\* The status of a fetched response is the server's (README.md:146).
StatusIsTheServers == c.call = "returned" /\ c.ret = "response" => c.status = net.status
=============================================================================
