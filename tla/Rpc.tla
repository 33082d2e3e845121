---------------------------------- MODULE Rpc ----------------------------------
(***************************************************************************)
(* Remote calls, src/js/rpc.js, put together as in src/test-rpc.js: one    *)
(* RPCSocket listens with one RPCServer over a FactoryEndpoint, which is   *)
(* the service of all its connections, and every client is an RPCSocket    *)
(* with a FactoryClient of its own.  Requests and responses are numbered   *)
(* messages; the methods of objects may be asynchronous, so responses      *)
(* leave in any order.  Connections keep the order of messages, and lose   *)
(* those on their way when they close.                                     *)
(***************************************************************************)
EXTENDS Naturals, Sequences, FiniteSets

CONSTANTS
  Conns,     \* the clients' connections
  NoConn,    \* no connection
  Methods,   \* the methods clients call by themselves, of OwnMethods
  MaxCalls,  \* bound: calls of all clients together
  Prompt     \* whether the promise jobs of a client run before its next message

OwnMethods == {"invoke", "get", "delete", "list", "unknown"}

ASSUME ConstantsAssumption ==
  NoConn \notin Conns /\ Methods \subseteq OwnMethods /\ MaxCalls \in Nat /\ Prompt \in BOOLEAN

VARIABLES
  conn,     \* of each connection: "none", "open", "closed"
  service,  \* the RPCServer: its socket, and what its RPCSocket has in fdlist
  objects,  \* the endpoint: the numbers of its instances, the request each was made
            \* for, and how many were made
  jobs,     \* the requests whose promise is pending
  calls,    \* of each client: the calls in the order of their ids
  listed,   \* the clients whose own fdlist has their connection
  toServer, toClient,  \* the messages on their way
  alone     \* the connections that had the service to themselves all the time

vars == <<conn, service, objects, jobs, calls, listed, toServer, toClient, alone>>

NoObject == 0  \* no instance: their numbers begin with 1

\* What a call is: `arg' the instance it is about, `then' where FactoryClient.new
\* goes on when it settles; "settled" with what it got and the
\* request `of' the answer was made for; "failed" is a call that stays as it is
\* because its answer was an error.
Call(method, arg, then) ==
  [method |-> method, arg |-> arg, then |-> then, state |-> "sending", got |-> NoObject,
   of |-> <<NoConn, 0>>]

Init ==
  /\ conn = [c \in Conns |-> "none"]
  /\ service = [socket |-> NoConn, fdlist |-> {}]
  /\ objects = [instances |-> {}, owner |-> <<>>, made |-> 0]
  /\ jobs = {}
  /\ calls = [c \in Conns |-> <<>>]
  /\ listed = {}
  /\ toServer = [c \in Conns |-> <<>>] /\ toClient = [c \in Conns |-> <<>>]
  /\ alone = {}

-----------------------------------------------------------------------------
(* Connections *)

OpenConns == {c \in Conns : conn[c] = "open"}

\* onConnect and onOpen of both RPCSockets: the service is entered for the
\* connection, and gets its socket.
Connect(c) ==
  /\ conn[c] = "none"
  /\ conn' = [conn EXCEPT ![c] = "open"]
  /\ service' = [socket |-> c, fdlist |-> service.fdlist \cup {c}]
  /\ listed' = listed \cup {c}
  /\ alone' = IF OpenConns = {} /\ jobs = {} THEN {c} ELSE {}
  /\ UNCHANGED <<objects, jobs, calls, toServer, toClient>>

\* Mutant: the entry stays.
server_onClose_listed(fdlist, c) == fdlist

\* onClose of the server's RPCSocket: the service's cleanup empties a list of
\* instances that is not the endpoint's; the entry is removed.
server_onClose(fdlist, c) == fdlist \ {c}

\* onClose of the client's: a client has no cleanup, and the error leaves the
\* entry where it is.
client_onClose(list, c) == list

\* The connection is closed, at either end or in between.
Close(c) ==
  /\ conn[c] = "open"
  /\ conn' = [conn EXCEPT ![c] = "closed"]
  /\ service' = [service EXCEPT !.fdlist = server_onClose(@, c)]
  /\ listed' = client_onClose(listed, c)
  /\ toServer' = [toServer EXCEPT ![c] = <<>>]
  /\ toClient' = [toClient EXCEPT ![c] = <<>>]
  /\ UNCHANGED <<objects, jobs, calls, alone>>

-----------------------------------------------------------------------------
(* The client *)

\* RPCClient.call: the message has the next id, and is sent.
call(c, method, arg, then) ==
  /\ calls' = [calls EXCEPT ![c] = Append(@, Call(method, arg, then))]
  /\ toServer' = [toServer EXCEPT ![c] =
       Append(@, [id |-> Len(calls[c]) + 1, method |-> method, arg |-> arg])]

Callable(c) ==
  /\ conn[c] = "open"
  /\ Cardinality(UNION {{d} \X DOMAIN calls[d] : d \in Conns}) < MaxCalls

\* FactoryClient.new(className).
New(c) ==
  /\ Callable(c) /\ call(c, "new", NoObject, "methods")
  /\ UNCHANGED <<conn, service, objects, jobs, listed, toClient, alone>>

Got(c, method) ==
  {calls[c][i].got : i \in {k \in DOMAIN calls[c] :
                              calls[c][k].method = method /\ calls[c][k].state = "settled"}}

\* A call on an object's proxy, of delete() or list(), or of no method there is.
Request(c, method, arg) ==
  /\ Callable(c) /\ method \in Methods
  /\ arg \in IF method \in {"list", "unknown"} THEN {NoObject}
             ELSE Got(c, "new") \ {NoObject}
  /\ call(c, method, arg, "nothing")
  /\ UNCHANGED <<conn, service, objects, jobs, listed, toClient, alone>>

\* FactoryClient.new goes on: the methods of the instance, then its properties.
Continue(c, i) ==
  /\ Callable(c) /\ i \in DOMAIN calls[c] /\ calls[c][i].state = "settled"
  /\ calls[c][i].then # "nothing"
  /\ LET next == calls[c][i].then
         arg == IF calls[c][i].method = "new" THEN calls[c][i].got ELSE calls[c][i].arg
         done == [calls EXCEPT ![c][i].then = "nothing"]
     IN  /\ calls' = [done EXCEPT ![c] = Append(@,
              Call(next, arg, IF next = "methods" THEN "properties" ELSE "nothing"))]
         /\ toServer' = [toServer EXCEPT ![c] =
              Append(@, [id |-> Len(calls[c]) + 1, method |-> next, arg |-> arg])]
  /\ UNCHANGED <<conn, service, objects, jobs, listed, toClient, alone>>

\* The sending of call i was awaited: its handler is registered.
Register(c, i) ==
  /\ i \in DOMAIN calls[c] /\ calls[c][i].state = "sending"
  /\ calls' = [calls EXCEPT ![c][i].state = "waiting"]
  /\ UNCHANGED <<conn, service, objects, jobs, listed, toServer, toClient, alone>>

\* Mutant: the calls are answered in their order.
processResponse_first(cs, msg) ==
  LET open == {i \in DOMAIN cs : cs[i].state = "waiting"}
  IN  IF msg.success /\ open # {}
      THEN LET first == CHOOSE i \in open : \A j \in open : i <= j
           IN  [cs EXCEPT ![first].state = "settled",
                          ![first].got = msg.result, ![first].of = msg.of]
      ELSE cs

\* RPCClient.processMessage: a response without success is an error in it, before
\* it looks for the handler; the handler of the id, if there is one, is called,
\* and settles the promise the first time.
processResponse(cs, msg) ==
  IF msg.id \in DOMAIN cs /\ cs[msg.id].state = "waiting"
  THEN IF msg.success
       THEN [cs EXCEPT ![msg.id].state = "settled", ![msg.id].got = msg.result,
                       ![msg.id].of = msg.of]
       ELSE [cs EXCEPT ![msg.id].state = "failed"]
  ELSE cs

\* A message comes in at the client.
ClientReceive(c) ==
  /\ conn[c] = "open" /\ toClient[c] # <<>>
  /\ Prompt => \A i \in DOMAIN calls[c] : calls[c][i].state # "sending"
  /\ calls' = [calls EXCEPT ![c] = processResponse(@, Head(toClient[c]))]
  /\ toClient' = [toClient EXCEPT ![c] = Tail(@)]
  /\ UNCHANGED <<conn, service, objects, jobs, listed, toServer, alone>>

-----------------------------------------------------------------------------
(* The server *)

\* Respond: success and its result.
Respond(success, result) == [success |-> success, result |-> result]

\* instance(fn): the object of the number, or a failure.
instance(o, key, answer) ==
  IF key \in o.instances THEN answer ELSE Respond(FALSE, NoObject)

\* Mutant: the number of a deleted instance is given again.
makeId_counts(o) == Cardinality(o.instances) + 1

makeId(o) == o.made + 1

\* The methods of FactoryEndpoint: `works' says that the class can be made, or the
\* method or the property exists and does not throw.
EndpointNew(o, of, works) ==
  LET n == makeId(o)
  IN  IF works THEN [o |-> [instances |-> o.instances \cup {n}, made |-> o.made + 1,
                            owner |-> [k \in DOMAIN o.owner \cup {n} |->
                                          IF k = n THEN of ELSE o.owner[k]]],
                     r |-> Respond(TRUE, n)]
               ELSE [o |-> o, r |-> Respond(FALSE, NoObject)]

EndpointRespond(o, msg, works) ==
  CASE msg.method \in {"delete", "list"} -> Respond(TRUE, NoObject)
    [] msg.method \in {"invoke", "get"} -> instance(o, msg.arg, Respond(works, NoObject))
    [] msg.method \in {"methods", "properties"} ->
         instance(o, msg.arg, Respond(TRUE, NoObject))
    \* the TypeError of a method there is not is caught, and success is not set
    [] msg.method = "unknown" -> Respond(FALSE, NoObject)

FactoryEndpoint(o, of, msg, works) ==
  IF msg.method = "new" THEN EndpointNew(o, of, works)
  ELSE [o |-> IF msg.method = "delete" THEN [o EXCEPT !.instances = @ \ {msg.arg}] ELSE o,
        r |-> EndpointRespond(o, msg, works)]

\* A message comes in at the server: RPCServer.processMessage calls the method,
\* and its promise is pending.
ServerReceive(c, works) ==
  /\ conn[c] = "open" /\ c \in service.fdlist /\ toServer[c] # <<>>
  /\ LET msg == Head(toServer[c])
         e == FactoryEndpoint(objects, <<c, msg.id>>, msg, works)
     IN  /\ works \/ msg.method \in {"new", "invoke", "get"}
         /\ objects' = e.o
         /\ jobs' = jobs \cup {[id |-> msg.id, success |-> e.r.success,
                                result |-> e.r.result, of |-> <<c, msg.id>>]}
  /\ toServer' = [toServer EXCEPT ![c] = Tail(@)]
  /\ UNCHANGED <<conn, service, calls, listed, toClient, alone>>

\* Mutant: the response leaves without the id of its request.
sendMessage_anonymous(s, open, channels, msg) ==
  IF s.socket \in open
  THEN [channels EXCEPT ![s.socket] = Append(@, [msg EXCEPT !.id = 0])] ELSE channels

\* Connection.sendMessage: to the service's socket, whichever that is now.
sendMessage(s, open, channels, msg) ==
  IF s.socket \in open THEN [channels EXCEPT ![s.socket] = Append(@, msg)] ELSE channels

\* A request's promise is fulfilled: response.then(r => this.sendMessage(r)).
Answer(job) ==
  /\ job \in jobs
  /\ jobs' = jobs \ {job}
  /\ toClient' = sendMessage(service, OpenConns, toClient, job)
  /\ UNCHANGED <<conn, service, objects, calls, listed, toServer, alone>>

-----------------------------------------------------------------------------

ClientStep(c) ==
  \/ New(c)
  \/ \E method \in Methods, arg \in 0..MaxCalls :
       Request(c, method, arg)
  \/ \E i \in 1..MaxCalls : Continue(c, i)
  \/ \E i \in 1..MaxCalls : Register(c, i)
  \/ ClientReceive(c)

Next ==
  \/ \E c \in Conns : Connect(c) \/ Close(c)
  \/ \E c \in Conns : ClientStep(c)
  \/ \E c \in Conns, works \in BOOLEAN : ServerReceive(c, works)
  \/ \E job \in jobs : Answer(job)

Fairness ==
  /\ \A c \in Conns :
       /\ WF_vars(ClientReceive(c))
       /\ WF_vars(\E works \in BOOLEAN : ServerReceive(c, works))
       /\ \A i \in 1..MaxCalls : WF_vars(Register(c, i))
  /\ \A c \in Conns, i \in 1..MaxCalls :
       WF_vars(\E job \in jobs : job.of = <<c, i>> /\ Answer(job))

Spec == Init /\ [][Next]_vars /\ Fairness

-----------------------------------------------------------------------------
(* Properties *)

\* While a client has the service to itself, each of its calls settles with the
\* answer to its own request, in whatever order the methods finish
\* (RPCClient.processMessage, Connection.onmessage).
OwnAnswer ==
  \A c \in alone : \A i \in DOMAIN calls[c] :
    calls[c][i].state = "settled" => calls[c][i].of = <<c, i>>

\* The number of an instance that is alive belongs to the object made for the
\* request whose answer gave the number, whoever deletes and makes objects
\* besides (FactoryEndpoint).
OwnObject ==
  \A c \in Conns : \A i \in DOMAIN calls[c] :
    /\ calls[c][i].state = "settled" /\ calls[c][i].method = "new"
    /\ calls[c][i].got \in objects.instances /\ calls[c][i].of = <<c, i>>
    => objects.owner[calls[c][i].got] = <<c, i>>

\* The RPCSocket of the server knows the connections that are open and no others
\* (onConnect, remove).
ListsOpen == service.fdlist = OpenConns

\* A call of a client that has the service to itself is answered as long as its
\* connection is open, if the methods finish (RPCClient.call, RPCServer).
Over(c, i) ==
  \/ i \in DOMAIN calls[c] /\ calls[c][i].state \in {"settled", "failed"}
  \/ conn[c] = "closed" \/ c \notin alone

CallAnswered(c, i) == i \in DOMAIN calls[c] ~> Over(c, i)

Answered == \A c \in Conns, i \in 1..MaxCalls : CallAnswered(c, i)
=============================================================================
