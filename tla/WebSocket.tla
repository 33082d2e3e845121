------------------------------ MODULE WebSocket ------------------------------
(***************************************************************************)
(* One WebSocket connection, on the side of the server                     *)
(* (ws_server_callback, src/minnet-server-ws.c) or of the client           *)
(* (client_callback, src/minnet-client.c), with the socket object scripts  *)
(* hold (src/minnet-websocket.c) and the queue of messages to be sent      *)
(* (lib/ws.c, lib/session.c).  libwebsockets calls back in the order of    *)
(* the phases of `link'; the script's calls come at any time between.      *)
(*                                                                         *)
(* Messages to be sent and messages received are numbered.  The client     *)
(* has neither an onWriteable callback nor lineBuffered set, and its       *)
(* promise is the one net.client() returns.                                *)
(***************************************************************************)
EXTENDS Naturals, QueueOps

CONSTANTS
  Sides,        \* of {"server", "client"}
  MaxSends,     \* bound: messages the script sends
  MaxMessages,  \* bound: messages the peer sends
  MaxParts      \* bound: fragments in one of them

ASSUME SidesAssumption == Sides \subseteq {"server", "client"}
ASSUME BoundAssumption ==
  {MaxSends, MaxMessages} \subseteq Nat /\ MaxParts \in Nat \ {0}

\* The values of opaque->status, in order.
CONNECTING == 0
OPEN == 1
CLOSING == 2
CLOSED == 3

VARIABLES
  side,   \* which side this is
  link,   \* the connection: "none", "created", "open", "peer_closed" (the peer's
          \* close frame is in), "local_closed" (close() was called), "failed" (it
          \* was not established), "closed", "destroyed"
  ws,     \* the socket and its session, see ws_new
  recv,   \* messages: the received parts, and what the script was given
  told    \* history: the callbacks of the script, in order

vars == <<side, link, ws, recv, told>>

\* status, writable: of the opaque data.  lwsi: whether the socket still points
\* to the connection.  sendq, want_write: of the session.  armed: whether
\* libwebsockets has been asked for a writable event.  promise: of the
\* connection, the client's.  sent: how many messages send() has been given;
\* returned: what it returned for each, "pending" and "resolved" of a promise,
\* "number" for what lws_write returned, "undefined".  wire: messages written.
ws_new ==
  [status |-> CONNECTING, writable |-> FALSE, lwsi |-> TRUE,
   sendq |-> queue_zero, want_write |-> FALSE, armed |-> FALSE,
   promise |-> "none", sent |-> 0, returned |-> <<>>, wire |-> <<>>]

session_want_write(w) ==
  IF w.want_write THEN w ELSE [w EXCEPT !.want_write = TRUE, !.armed = TRUE]

-----------------------------------------------------------------------------
\* Sending.

\* Message i; an empty one has no bytes.
Message(i, empty) == [Item(IF empty THEN <<>> ELSE <<i>>) EXCEPT !.unref = i]

\* Mutant: the newest message is written first.
ws_enqueue_front(w, i, empty) ==
  session_want_write([w EXCEPT !.sendq.items = <<Message(i, empty)>> \o @])

\* queue_add, and the promise's resolve function is attached to the item.
ws_enqueue(w, i, empty) ==
  session_want_write([w EXCEPT !.sendq.items = Append(@, Message(i, empty))])

minnet_ws_send(w, empty) ==
  LET i == w.sent + 1
      given(v, result) == [v EXCEPT !.sent = i, !.returned = Append(@, result)]
  IN  CASE ~w.lwsi -> given(w, "undefined")
        [] w.lwsi /\ w.writable -> given([w EXCEPT !.wire = Append(@, i)], "number")
        [] OTHER -> given(ws_enqueue(w, i, empty), "pending")

\* Calling the resolve function that is attached to the item taken.
Resolve(returned, calls) ==
  [i \in 1 .. Len(returned) |-> IF i \in ToSet(calls) THEN "resolved" ELSE returned[i]]

\* Mutants: no further writable event is asked for; all promises are resolved.
session_writable_once(w) ==
  IF queue_empty(w.sendq)
  THEN [w EXCEPT !.want_write = FALSE]
  ELSE [w EXCEPT !.want_write = FALSE, !.sendq = queue_next(@),
                 !.returned = Resolve(@, queue_next_calls(w.sendq)),
                 !.wire = Append(@, queue_front(w.sendq).unref)]
session_writable_all(w) ==
  [w EXCEPT !.want_write = FALSE,
            !.returned = Resolve(@, [i \in 1 .. Len(w.sendq.items) |-> w.sendq.items[i].unref]),
            !.sendq = queue_next(@),
            !.wire = IF queue_empty(w.sendq) THEN @ ELSE Append(@, queue_front(w.sendq).unref)]

\* Writes one message, and asks again while there are bytes.
session_writable(w) ==
  LET written == IF queue_empty(w.sendq)
                 THEN w
                 ELSE [w EXCEPT !.sendq = queue_next(@),
                                !.returned = Resolve(@, queue_next_calls(w.sendq)),
                                !.wire = Append(@, queue_front(w.sendq).unref)]
      done == [written EXCEPT !.want_write = FALSE]
  IN  IF queue_bytes(done.sendq) > 0 THEN session_want_write(done) ELSE done

-----------------------------------------------------------------------------
\* Receiving.

NoMessages == [recvq |-> queue_zero, message |-> 0, parts |-> 0, given |-> <<>>]

\* The client's recvq.  A message in one part does not go through it; the parts
\* of others are put together in its last item, and all of it is given to the
\* script after the last.
ReceivePart(r, part, first, final) ==
  LET put == IF first THEN queue_write(r.recvq, <<part>>) ELSE queue_append(r.recvq, <<part>>)
      got == [i \in 1 .. Len(put.items) |-> put.items[i].block]
  IN  CASE first /\ final -> [r EXCEPT !.given = Append(@, <<part>>)]
        [] ~(first /\ final) /\ final -> [r EXCEPT !.given = @ \o got, !.recvq = queue_zero]
        [] OTHER -> [r EXCEPT !.recvq = put]

-----------------------------------------------------------------------------
\* The callbacks of libwebsockets.

Init ==
  /\ side \in Sides
  /\ link = "none"
  /\ ws = [ws_new EXCEPT !.lwsi = FALSE]
  /\ recv = NoMessages
  /\ told = <<>>

Emit(event) == told' = Append(told, event)

\* LWS_CALLBACK_WSI_CREATE.  The client's promise exists before.
Create ==
  /\ link = "none"
  /\ link' = "created"
  /\ ws' = [ws_new EXCEPT !.promise = IF side = "client" THEN "pending" ELSE "none"]
  /\ UNCHANGED <<side, recv, told>>

\* LWS_CALLBACK_ESTABLISHED and _CLIENT_ESTABLISHED.
Established ==
  /\ link = "created"
  /\ link' = "open"
  /\ ws' = [ws EXCEPT !.status = OPEN,
                      !.promise = IF @ = "pending" THEN "resolved" ELSE @]
  /\ Emit("connect")
  /\ UNCHANGED <<side, recv>>

\* LWS_CALLBACK_SERVER_WRITEABLE and _CLIENT_WRITEABLE.  A connection whose
\* status is CLOSING or more is closed by what the callback returns.
Writeable ==
  /\ link = "open"
  /\ ws.armed
  /\ ws' = session_writable([ws EXCEPT !.armed = FALSE,
                                       !.writable = @ \/ side = "client"])
  /\ UNCHANGED <<side, link, recv, told>>

\* LWS_CALLBACK_RECEIVE and LWS_CALLBACK_CLIENT_RECEIVE.  The server gives each
\* part to the script.
Receive ==
  /\ link = "open"
  /\ \E final \in BOOLEAN :
       LET first == recv.parts = 0
           message == recv.message + IF first THEN 1 ELSE 0
           part == [message |-> message, number |-> recv.parts + 1, final |-> final]
           r == [recv EXCEPT !.message = message, !.parts = IF final THEN 0 ELSE @ + 1]
       IN  /\ message =< MaxMessages
           /\ part.number = MaxParts => final
           /\ recv' = IF side = "server"
                      THEN [r EXCEPT !.given = Append(@, <<part>>)]
                      ELSE ReceivePart(r, part, first, final)
           /\ IF side = "server" \/ final THEN Emit("message") ELSE UNCHANGED told
  /\ UNCHANGED <<side, link, ws>>

\* Mutants: the server does not look at the status; does not set it.
server_closed_always(w) ==
  [w |-> [w EXCEPT !.status = CLOSING], events |-> <<"close">>]
server_closed_open(w) ==
  [w |-> w, events |-> IF w.status < OPEN THEN <<"close">> ELSE <<>>]

\* The server tells the script of the first close only, and not of its own.
server_closed(w) ==
  IF w.status < CLOSING
  THEN [w |-> [w EXCEPT !.status = CLOSING], events |-> <<"close">>]
  ELSE [w |-> w, events |-> <<>>]

\* Mutant: the promise is forgotten.
client_closed_pending(w, event) ==
  [w |-> [w EXCEPT !.status = CLOSING], events |-> <<event>>]

\* The client tells the script each time.
client_closed(w, event) ==
  [w |-> [w EXCEPT !.status = CLOSING, !.promise = IF @ = "pending" THEN "rejected" ELSE @],
   events |-> <<event>>]

Closes(event) ==
  LET r == IF side = "server" THEN server_closed(ws) ELSE client_closed(ws, event)
  IN  /\ ws' = r.w
      /\ told' = told \o r.events
      /\ UNCHANGED <<side, recv>>

\* LWS_CALLBACK_CLIENT_CONNECTION_ERROR.
ConnectionError ==
  /\ side = "client"
  /\ link = "created"
  /\ link' = "failed"
  /\ Closes("error")

\* LWS_CALLBACK_WS_PEER_INITIATED_CLOSE
PeerInitiatedClose ==
  /\ link = "open"
  /\ link' = "peer_closed"
  /\ Closes("close")

\* LWS_CALLBACK_CLOSED and LWS_CALLBACK_CLIENT_CLOSED, when the close is through
\* or the connection is lost.
Closed ==
  /\ link \in {"open", "peer_closed", "local_closed"}
  /\ link' = "closed"
  /\ Closes("close")

\* Mutant: the socket goes on pointing to the connection.
Detached_not(w) ==
  [w EXCEPT !.promise = IF @ = "pending" THEN "rejected" ELSE @]

\* The socket no longer points to the connection; a promise that is pending is
\* settled, with null or with undefined.
Detached(w) ==
  [w EXCEPT !.lwsi = FALSE, !.promise = IF @ = "pending" THEN "resolved" ELSE @]

\* LWS_CALLBACK_WSI_DESTROY
Destroy ==
  /\ link \in {"created", "failed", "closed"}
  /\ link' = "destroyed"
  /\ ws' = Detached(ws)
  /\ UNCHANGED <<side, recv, told>>

-----------------------------------------------------------------------------
\* The script, which has a socket once it was told of the connection.

HasSocket ==
  link \in {"open", "peer_closed", "local_closed"} \/ (link = "destroyed" /\ \E i \in 1 .. Len(told) : told[i] = "connect")

Send ==
  /\ HasSocket
  /\ ws.sent < MaxSends
  /\ \E empty \in BOOLEAN : ws' = minnet_ws_send(ws, empty)
  /\ UNCHANGED <<side, link, recv, told>>

\* close(): libwebsockets sends the close frame, and closes when the peer's is in.
Close ==
  /\ HasSocket
  /\ ws.lwsi
  /\ link' = "local_closed"
  /\ ws' = [ws EXCEPT !.status = CLOSED, !.lwsi = FALSE]
  /\ UNCHANGED <<side, recv, told>>

Next ==
  \/ Create \/ Established \/ Writeable \/ Receive
  \/ ConnectionError \/ PeerInitiatedClose \/ Closed \/ Destroy
  \/ Send \/ Close

\* libwebsockets gives the writable event it was asked for.
Spec == Init /\ [][Next]_vars /\ WF_vars(Writeable)

-----------------------------------------------------------------------------

Told(event) == event \in ToSet(told)

Queued == [i \in 1 .. Len(ws.sendq.items) |-> ws.sendq.items[i].unref]

Links ==
  {"none", "created", "open", "peer_closed", "local_closed", "failed", "closed", "destroyed"}

Sockets ==
  [status : {CONNECTING, OPEN, CLOSING, CLOSED}, writable : BOOLEAN, lwsi : BOOLEAN,
   sendq : [items : Seq([block : Seq(Nat), done : {FALSE}, unref : Nat]),
            continuous : {FALSE}],
   want_write : BOOLEAN, armed : BOOLEAN,
   promise : {"none", "pending", "resolved", "rejected"}, sent : Nat,
   returned : Seq({"pending", "resolved", "number", "undefined"}), wire : Seq(Nat)]

ConnectionOK ==
  /\ side \in Sides /\ side \in {"server", "client"}
  /\ link \in Links
  /\ ws \in Sockets
  /\ told \in Seq({"connect", "message", "close", "error"})
  /\ Len(ws.returned) = ws.sent

\* The variables have their types.
TypeOK ==
  /\ ConnectionOK
  /\ recv.message \in 0 .. MaxMessages /\ recv.parts \in 0 .. MaxParts - 1
  /\ \A i \in 1 .. Len(recv.recvq.items) : ~recv.recvq.items[i].done

\* The messages send() queued are written in the order they were sent, each
\* once: what is written and then what is queued is increasing.  (A client's
\* send() writes at once after the first writable event; those messages, of
\* which send() returns a number, may overtake.)
SentInOrder ==
  LET written == {k \in 1 .. Len(ws.wire) : ws.returned[ws.wire[k]] # "number"}
  IN  /\ \A j, k \in written : j < k => ws.wire[j] < ws.wire[k]
      /\ \A k \in written, i \in 1 .. Len(Queued) : ws.wire[k] < Queued[i]
      /\ \A i, j \in 1 .. Len(Queued) : i < j => Queued[i] < Queued[j]

\* The promise of send() is resolved when its message is written, and not
\* before; nobody waits for a message that is written.
ResolvedWhenWritten ==
  \A i \in 1 .. ws.sent :
    /\ ws.returned[i] = "resolved" => i \in ToSet(ws.wire)
    /\ ws.returned[i] = "pending" <=> i \in ToSet(Queued)

\* While there are bytes to be sent, a writable event is coming: want_write must
\* not be set without libwebsockets having been asked, as nobody would ask again.
NeverStuck ==
  link = "open" =>
    /\ queue_bytes(ws.sendq) > 0 => ws.want_write
    /\ ws.want_write => ws.armed

\* The socket never points to a connection that was destroyed: send() and
\* close() go by it.
NoDanglingSocket == ws.lwsi => link # "destroyed"

\* What the script is given is what the peer sent, in order; on the client in
\* whole messages, however many parts they come in.
MessagesWhole ==
  /\ side = "client" =>
       \A i \in 1 .. Len(recv.given) :
         LET m == recv.given[i]
         IN  \A k \in 1 .. Len(m) :
               m[k].message = i /\ m[k].number = k /\ (m[k].final <=> k = Len(m))
  /\ LET parts == FlattenSeq(recv.given) \o queue_data(recv.recvq)
     IN  \A k \in 1 .. Len(parts) :
           parts[k].number > 1 =>
             k > 1 /\ parts[k - 1].message = parts[k].message
                   /\ parts[k - 1].number = parts[k].number - 1

\* The server's script is told of the close at most once, for the peer's close
\* frame or for the closed connection, after which nothing comes.
ServerClosedOnce ==
  side = "server" => \A i \in 1 .. Len(told) : told[i] = "close" => i = Len(told)

\* A script that was told of the connection is told of its end, unless it is the
\* server's and ended it.
CloseIsTold ==
  link = "destroyed" /\ Told("connect") =>
    Told("close") \/ (side = "server" /\ ws.status = CLOSED)

\* The client's promise is resolved once it is connected and rejected when that
\* fails, and does not stay pending when the connection is gone.
PromiseSettled ==
  side = "client" =>
    /\ link \notin {"none", "created"} => ws.promise # "pending"
    /\ ws.promise = "rejected" => ~Told("connect")

\* The client's script is told of the end once.  It does not hold: see the README,
\* "Findings".
ClientClosedOnce ==
  side = "client" =>
    \A i, j \in 1 .. Len(told) : told[i] = "close" /\ told[j] = "close" => i = j
=============================================================================
