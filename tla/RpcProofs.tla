------------------------------- MODULE RpcProofs -------------------------------
(***************************************************************************)
(* Proofs about Rpc, for any clients and any number of calls: which        *)
(* connections the service lists (ListsOpen), whose object a number is     *)
(* (NumberInv), and whose answers a client that is alone gets (AloneInv).  *)
(***************************************************************************)
EXTENDS Rpc, SequenceTheorems, TLAPS

AllMethods == OwnMethods \cup {"new", "methods", "properties"}

\* A request is named by its connection and its id there.
Origins == (Conns \cup {NoConn}) \X Nat

Requests == [id : Nat, method : AllMethods, arg : Nat]

Responses == [id : Nat, success : BOOLEAN, result : Nat, of : Origins]

Calls ==
  [method : AllMethods, arg : Nat, then : {"nothing", "methods", "properties"},
   state : {"sending", "waiting", "settled", "failed"}, got : Nat, of : Origins]

Endpoints(o) ==
  o \in [instances : SUBSET Nat, owner : [1 .. o.made -> Origins], made : Nat]

TypeOK ==
  /\ conn \in [Conns -> {"none", "open", "closed"}]
  /\ service \in [socket : Conns \cup {NoConn}, fdlist : SUBSET Conns]
  /\ Endpoints(objects)
  /\ jobs \in SUBSET Responses
  /\ calls \in [Conns -> Seq(Calls)]
  /\ toServer \in [Conns -> Seq(Requests)]
  /\ toClient \in [Conns -> Seq(Responses)]
  /\ alone \in SUBSET Conns

\* Its object is the one made for the request.
Owned(number, of) ==
  number # NoObject => number \in 1 .. objects.made /\ objects.owner[number] = of

\* The instances that are alive have been made; a number in an answer, on its way or
\* there, is of the object made for the request that is answered.
NumberInv ==
  /\ objects.instances \subseteq 1 .. objects.made
  /\ \A job \in jobs : Owned(job.result, job.of)
  /\ \A c \in Conns : \A i \in 1 .. Len(toClient[c]) : Owned(toClient[c][i].result, toClient[c][i].of)
  /\ \A c \in Conns : \A i \in 1 .. Len(calls[c]) :
       calls[c][i].state = "settled" => Owned(calls[c][i].got, calls[c][i].of)

\* An answer has the id of its request; a connection that was never open has neither
\* calls nor answers.
IdInv ==
  /\ \A job \in jobs : job.of[2] = job.id
  /\ \A c \in Conns : \A i \in 1 .. Len(toClient[c]) : toClient[c][i].of[2] = toClient[c][i].id
  /\ \A c \in Conns : conn[c] = "none" => calls[c] = <<>> /\ toClient[c] = <<>>

\* The service's socket is the client that is alone, no other is open, and all
\* answers are to its requests.
AloneInv ==
  \A c \in alone :
    /\ service.socket = c
    /\ \A d \in Conns : conn[d] = "open" => d = c
    /\ \A job \in jobs : job.of[1] = c
    /\ \A i \in 1 .. Len(toClient[c]) : toClient[c][i].of[1] = c
    /\ \A i \in 1 .. Len(calls[c]) : calls[c][i].state = "settled" => calls[c][i].of = <<c, i>>

\* The inductive invariant.
IInv == TypeOK /\ ListsOpen /\ NumberInv /\ IdInv /\ AloneInv

-----------------------------------------------------------------------------
\* Lists and numbers.

\* A list with one more element.
LEMMA Appended ==
  ASSUME NEW S, NEW s \in Seq(S), NEW x \in S
  PROVE  /\ Append(s, x) \in Seq(S) /\ Len(Append(s, x)) = Len(s) + 1
         /\ \A i \in 1 .. Len(s) : Append(s, x)[i] = s[i]
         /\ Append(s, x)[Len(s) + 1] = x
BY AppendProperties

\* A list without its first element.
LEMMA Taken ==
  ASSUME NEW S, NEW s \in Seq(S), s # <<>>
  PROVE  /\ 1 \in 1 .. Len(s) /\ Head(s) = s[1] /\ Head(s) \in S
         /\ Tail(s) \in Seq(S)
         /\ \A i \in 1 .. Len(Tail(s)) : i + 1 \in 1 .. Len(s) /\ Tail(s)[i] = s[i + 1]
BY HeadTailProperties

\* What the endpoint made of its objects o, with an answer to the request `of': the
\* objects that were made stay those of their requests, and a number that is given is
\* of this one.
Given(o, of, e) ==
  /\ Endpoints(e.o) /\ e.o.instances \subseteq 1 .. e.o.made
  /\ \A k \in 1 .. o.made : k \in 1 .. e.o.made /\ e.o.owner[k] = o.owner[k]
  /\ e.r.success \in BOOLEAN /\ e.r.result \in Nat
  /\ e.r.result # NoObject => e.r.result \in 1 .. e.o.made /\ e.o.owner[e.r.result] = of

\* So it does with any request.
LEMMA Endpoint ==
  ASSUME NEW o, Endpoints(o), o.instances \subseteq 1 .. o.made,
         NEW of \in Origins, NEW msg \in Requests, NEW works \in BOOLEAN,
         NEW e, e = FactoryEndpoint(o, of, msg, works)
  PROVE  Given(o, of, e)
<1>1. o.made \in Nat /\ o.instances \subseteq Nat /\ o.owner \in [1 .. o.made -> Origins]
  BY DEF Endpoints
<1>2. CASE msg.method = "new" /\ works
  <2> DEFINE n == o.made + 1
             owner == [k \in DOMAIN o.owner \cup {n} |-> IF k = n THEN of ELSE o.owner[k]]
             p == [instances |-> o.instances \cup {n}, made |-> o.made + 1, owner |-> owner]
  <2>1. e = [o |-> p, r |-> [success |-> TRUE, result |-> n]]
    BY <1>2 DEF FactoryEndpoint, EndpointNew, makeId, Respond
  <2>2. /\ n \in 1 .. n /\ n \in Nat /\ n # NoObject /\ n \notin 1 .. o.made
        /\ 1 .. o.made \cup {n} = 1 .. n
    BY <1>1 DEF NoObject
  <2>3. DOMAIN o.owner \cup {n} = 1 .. n
    BY <1>1, <2>2
  <2>4. /\ owner \in [1 .. n -> Origins] /\ owner[n] = of
        /\ \A k \in 1 .. o.made : k \in 1 .. n /\ owner[k] = o.owner[k]
    <3> HIDE DEF n
    <3> QED BY <1>1, <2>2, <2>3
  <2>5. p.instances = o.instances \cup {n} /\ p.made = n /\ p.owner = owner
    OBVIOUS
  <2>6. p.instances \subseteq 1 .. n /\ p.instances \subseteq Nat
    BY <1>1, <2>2, <2>5
  <2> HIDE DEF owner, n
  <2>7. Endpoints(p)
    BY <2>2, <2>4, <2>5, <2>6 DEF Endpoints
  <2> HIDE DEF p
  <2>8. e.o = p /\ e.r.success = TRUE /\ e.r.result = n
    BY <2>1
  <2>9. /\ Endpoints(e.o) /\ e.o.instances \subseteq 1 .. e.o.made
        /\ \A k \in 1 .. o.made : k \in 1 .. e.o.made /\ e.o.owner[k] = o.owner[k]
        /\ e.r.success \in BOOLEAN /\ e.r.result \in Nat
        /\ e.r.result \in 1 .. e.o.made /\ e.o.owner[e.r.result] = of
    BY <2>2, <2>4, <2>5, <2>6, <2>7, <2>8, ZenonT(60)
  <2> QED BY <2>9 DEF Given
<1>3. CASE ~(msg.method = "new" /\ works)
  <2>1. \/ e.o = o
        \/ e.o = [o EXCEPT !.instances = o.instances \ {msg.arg}]
    BY <1>3 DEF FactoryEndpoint, EndpointNew
  <2>2. e.r.success \in BOOLEAN /\ e.r.result = NoObject
    <3>1. msg.method \in AllMethods
      BY DEF Requests
    <3>2. CASE msg.method = "new"
      BY <1>3, <3>2 DEF FactoryEndpoint, EndpointNew, Respond
    <3>3. CASE msg.method # "new"
      <4>1. e.r = EndpointRespond(o, msg, works)
        BY <3>3 DEF FactoryEndpoint
      <4> DEFINE a == EndpointRespond(o, msg, works)
      <4>2. a.success \in BOOLEAN /\ a.result = NoObject
        <5>1. CASE msg.method \in {"delete", "list"}
          BY <5>1 DEF EndpointRespond, Respond
        <5>2. CASE msg.method \in {"invoke", "get"}
          BY <5>2 DEF EndpointRespond, Respond, instance
        <5>3. CASE msg.method \in {"methods", "properties"}
          BY <5>3 DEF EndpointRespond, Respond, instance
        <5>4. CASE msg.method = "unknown"
          BY <5>4 DEF EndpointRespond, Respond
        <5> QED BY <3>1, <3>3, <5>1, <5>2, <5>3, <5>4 DEF AllMethods, OwnMethods
      <4> QED BY <4>1, <4>2
    <3> QED BY <3>2, <3>3
  <2>3. /\ e.o.made = o.made /\ e.o.owner = o.owner /\ e.o.instances \subseteq o.instances
        /\ Endpoints(e.o)
    BY <1>1, <2>1 DEF Endpoints
  <2>4. e.r.result \in Nat
    BY <2>2 DEF NoObject
  <2>5. /\ Endpoints(e.o) /\ e.o.instances \subseteq 1 .. e.o.made
        /\ \A k \in 1 .. o.made : k \in 1 .. e.o.made /\ e.o.owner[k] = o.owner[k]
        /\ e.r.success \in BOOLEAN /\ e.r.result \in Nat /\ e.r.result = NoObject
    BY <2>2, <2>3, <2>4
  <2> QED BY <2>5 DEF Given
<1> QED BY <1>2, <1>3

-----------------------------------------------------------------------------
\* The steps.

\* The initial state.
LEMMA InitIInv == Init => IInv
<1> SUFFICES ASSUME Init PROVE IInv
  OBVIOUS
<1> USE DEF Init
<1>1. Endpoints(objects)
  BY DEF Endpoints
<1>2. TypeOK
  BY <1>1 DEF TypeOK
<1>3. ListsOpen
  BY DEF ListsOpen, OpenConns
<1>4. NumberInv /\ IdInv /\ AloneInv
  BY DEF NumberInv, IdInv, AloneInv
<1> QED BY <1>2, <1>3, <1>4 DEF IInv

\* A step of a client that leaves what is settled as it is.
LEMMA CallsKeep ==
  ASSUME IInv, NEW c \in Conns, conn[c] # "none", NEW cs \in Seq(Calls),
         calls' = [calls EXCEPT ![c] = cs],
         \A i \in 1 .. Len(cs) : cs[i].state = "settled" =>
           /\ i \in 1 .. Len(calls[c]) /\ calls[c][i].state = "settled"
           /\ cs[i].got = calls[c][i].got /\ cs[i].of = calls[c][i].of,
         toServer' \in [Conns -> Seq(Requests)],
         UNCHANGED <<conn, service, objects, jobs, toClient, alone>>
  PROVE  IInv'
<1>1. calls' \in [Conns -> Seq(Calls)]
      /\ calls'[c] = cs /\ \A d \in Conns : d # c => calls'[d] = calls[d]
  BY DEF IInv, TypeOK
<1>2. TypeOK'
  BY <1>1 DEF IInv, TypeOK
<1>3. ListsOpen'
  BY DEF IInv, ListsOpen, OpenConns
<1>4. ASSUME NEW d \in Conns, NEW i \in 1 .. Len(calls'[d]), calls'[d][i].state = "settled"
      PROVE  /\ i \in 1 .. Len(calls[d]) /\ calls[d][i].state = "settled"
             /\ calls'[d][i].got = calls[d][i].got /\ calls'[d][i].of = calls[d][i].of
  <2>1. CASE d = c
    BY <1>1, <1>4, <2>1
  <2>2. CASE d # c
    BY <1>1, <1>4, <2>2
  <2> QED BY <2>1, <2>2
<1>5. NumberInv'
  BY <1>4 DEF IInv, NumberInv, Owned
<1>6. IdInv'
  BY <1>1 DEF IInv, IdInv
<1>7. AloneInv'
  <2>1. alone \in SUBSET Conns
    BY DEF IInv, TypeOK
  <2> QED BY <1>4, <2>1 DEF IInv, AloneInv
<1> QED BY <1>2, <1>3, <1>5, <1>6, <1>7 DEF IInv

\* A call that is made, of what a client had before.
LEMMA CallKeeps ==
  ASSUME IInv, NEW c \in Conns, conn[c] # "none", NEW before \in Seq(Calls),
         Len(before) = Len(calls[c]),
         \A i \in 1 .. Len(before) : before[i].state = "settled" =>
           /\ calls[c][i].state = "settled"
           /\ before[i].got = calls[c][i].got /\ before[i].of = calls[c][i].of,
         NEW method \in AllMethods, NEW arg \in Nat,
         NEW then \in {"nothing", "methods", "properties"},
         calls' = [calls EXCEPT ![c] = Append(before, Call(method, arg, then))],
         toServer' = [toServer EXCEPT ![c] =
           Append(toServer[c], [id |-> Len(calls[c]) + 1, method |-> method, arg |-> arg])],
         UNCHANGED <<conn, service, objects, jobs, toClient, alone>>
  PROVE  IInv'
<1> DEFINE r == Call(method, arg, then)
           m == [id |-> Len(calls[c]) + 1, method |-> method, arg |-> arg]
           cs == Append(before, r)
<1>1. r \in Calls /\ r.state = "sending"
  BY DEF Call, Calls, Origins, NoObject
<1>2. calls[c] \in Seq(Calls) /\ toServer \in [Conns -> Seq(Requests)]
  BY DEF IInv, TypeOK
<1>3. m \in Requests
  BY <1>2 DEF Requests
<1> HIDE DEF r, m
<1>4. /\ cs \in Seq(Calls) /\ Len(cs) = Len(before) + 1
      /\ \A i \in 1 .. Len(before) : cs[i] = before[i]
      /\ cs[Len(before) + 1] = r
  BY <1>1, Appended
<1> HIDE DEF cs
<1>5. \A i \in 1 .. Len(cs) : cs[i].state = "settled" =>
           /\ i \in 1 .. Len(calls[c]) /\ calls[c][i].state = "settled"
           /\ cs[i].got = calls[c][i].got /\ cs[i].of = calls[c][i].of
  <2> SUFFICES ASSUME NEW i \in 1 .. Len(cs), cs[i].state = "settled"
               PROVE  /\ i \in 1 .. Len(calls[c]) /\ calls[c][i].state = "settled"
                      /\ cs[i].got = calls[c][i].got /\ cs[i].of = calls[c][i].of
    OBVIOUS
  <2>1. Len(before) \in Nat
    OBVIOUS
  <2>2. i # Len(before) + 1
    BY <1>1, <1>4
  <2>3. i \in 1 .. Len(before)
    BY <1>4, <2>1, <2>2
  <2> QED BY <1>4, <2>3
<1>6. Append(toServer[c], m) \in Seq(Requests)
  BY <1>2, <1>3, Appended
<1>7. toServer' \in [Conns -> Seq(Requests)]
  BY <1>2, <1>6 DEF m
<1> QED BY <1>4, <1>5, <1>7, CallsKeep DEF cs, r

\* A call of a new object.
LEMMA NewIInv ==
  ASSUME IInv, NEW c \in Conns, New(c)
  PROVE  IInv'
<1>1. calls[c] \in Seq(Calls)
  BY DEF IInv, TypeOK
<1>2. "new" \in AllMethods /\ NoObject \in Nat
  BY DEF AllMethods, NoObject
<1> QED BY <1>1, <1>2, CallKeeps DEF New, call, Callable

\* A call of a method.
LEMMA RequestIInv ==
  ASSUME IInv, NEW c \in Conns, NEW method \in Methods, NEW arg \in Nat,
         Request(c, method, arg)
  PROVE  IInv'
<1>1. calls[c] \in Seq(Calls)
  BY DEF IInv, TypeOK
<1>2. method \in AllMethods
  BY ConstantsAssumption DEF AllMethods
<1> QED BY <1>1, <1>2, CallKeeps DEF Request, call, Callable

\* A call that another goes on with.
LEMMA ContinueIInv ==
  ASSUME IInv, NEW c \in Conns, NEW i \in Nat, Continue(c, i)
  PROVE  IInv'
<1> DEFINE next == calls[c][i].then
           arg == IF calls[c][i].method = "new" THEN calls[c][i].got ELSE calls[c][i].arg
           before == [calls[c] EXCEPT ![i].then = "nothing"]
           after == IF next = "methods" THEN "properties" ELSE "nothing"
<1>1. /\ conn[c] = "open" /\ i \in 1 .. Len(calls[c]) /\ next # "nothing"
      /\ calls[c] \in Seq(Calls) /\ calls[c][i] \in Calls
      /\ calls \in [Conns -> Seq(Calls)]
  BY DEF IInv, TypeOK, Continue, Callable
<1>2. /\ next \in AllMethods /\ arg \in Nat
      /\ after \in {"nothing", "methods", "properties"}
  BY <1>1 DEF Calls, AllMethods
<1>3. /\ before \in Seq(Calls) /\ Len(before) = Len(calls[c])
      /\ \A k \in 1 .. Len(before) : before[k].state = calls[c][k].state
           /\ before[k].got = calls[c][k].got /\ before[k].of = calls[c][k].of
  <2> DEFINE r == [calls[c][i] EXCEPT !.then = "nothing"]
             q == [calls[c] EXCEPT ![i] = r]
  <2>1. /\ r \in Calls /\ r.state = calls[c][i].state
        /\ r.got = calls[c][i].got /\ r.of = calls[c][i].of
    BY <1>1 DEF Calls
  <2>2. before = q
    OBVIOUS
  <2> HIDE DEF r
  <2>3. /\ q \in Seq(Calls) /\ Len(q) = Len(calls[c])
        /\ \A k \in 1 .. Len(q) : q[k] = IF k = i THEN r ELSE calls[c][k]
    BY <1>1, <2>1, ExceptSeq
  <2> HIDE DEF q, before
  <2> QED BY <2>1, <2>2, <2>3
<1>4. /\ calls' = [calls EXCEPT ![c] = Append(before, Call(next, arg, after))]
      /\ toServer' = [toServer EXCEPT ![c] =
           Append(toServer[c], [id |-> Len(calls[c]) + 1, method |-> next, arg |-> arg])]
      /\ UNCHANGED <<conn, service, objects, jobs, toClient, alone>>
  BY <1>1 DEF Continue
<1> HIDE DEF next, arg, before, after
<1> QED BY <1>1, <1>2, <1>3, <1>4, CallKeeps

\* A call whose handler is registered.
LEMMA RegisterIInv ==
  ASSUME IInv, NEW c \in Conns, NEW i \in Nat, Register(c, i)
  PROVE  IInv'
<1> DEFINE r == [calls[c][i] EXCEPT !.state = "waiting"]
           cs == [calls[c] EXCEPT ![i] = r]
<1>1. /\ i \in 1 .. Len(calls[c]) /\ calls[c][i].state = "sending"
      /\ calls[c] \in Seq(Calls) /\ calls[c][i] \in Calls
      /\ calls \in [Conns -> Seq(Calls)]
  BY DEF IInv, TypeOK, Register
<1>2. conn[c] # "none"
  <2>1. Len(calls[c]) # 0
    BY <1>1
  <2> QED BY <2>1 DEF IInv, IdInv
<1>3. r \in Calls /\ r.state = "waiting"
  BY <1>1 DEF Calls
<1>4. calls' = [calls EXCEPT ![c] = cs]
      /\ UNCHANGED <<conn, service, objects, jobs, toServer, toClient, alone>>
  BY DEF Register
<1> HIDE DEF r
<1>5. /\ cs \in Seq(Calls) /\ Len(cs) = Len(calls[c])
      /\ \A k \in 1 .. Len(cs) : cs[k] = IF k = i THEN r ELSE calls[c][k]
  BY <1>1, <1>3, ExceptSeq
<1> HIDE DEF cs
<1>6. \A k \in 1 .. Len(cs) : cs[k].state = "settled" =>
           /\ k \in 1 .. Len(calls[c]) /\ calls[c][k].state = "settled"
           /\ cs[k].got = calls[c][k].got /\ cs[k].of = calls[c][k].of
  BY <1>3, <1>5
<1>7. toServer' \in [Conns -> Seq(Requests)]
  BY <1>4 DEF IInv, TypeOK
<1> QED BY <1>2, <1>4, <1>5, <1>6, <1>7, CallsKeep

\* An answer is of the call with its id, or of none.
LEMMA Processed ==
  ASSUME NEW cs \in Seq(Calls), NEW msg \in Responses
  PROVE  /\ processResponse(cs, msg) \in Seq(Calls)
         /\ Len(processResponse(cs, msg)) = Len(cs)
         /\ \A i \in 1 .. Len(cs) : processResponse(cs, msg)[i].state = "settled" =>
              \/ /\ cs[i].state = "settled"
                 /\ processResponse(cs, msg)[i].got = cs[i].got
                 /\ processResponse(cs, msg)[i].of = cs[i].of
              \/ /\ i = msg.id
                 /\ processResponse(cs, msg)[i].got = msg.result
                 /\ processResponse(cs, msg)[i].of = msg.of
<1> DEFINE ds == processResponse(cs, msg)
           good == [cs[msg.id] EXCEPT !.state = "settled", !.got = msg.result, !.of = msg.of]
           bad == [cs[msg.id] EXCEPT !.state = "failed"]
<1>1. CASE msg.id \in DOMAIN cs /\ cs[msg.id].state = "waiting" /\ msg.success
  <2>1. msg.id \in 1 .. Len(cs) /\ cs[msg.id] \in Calls
    BY <1>1
  <2>2. /\ good \in Calls /\ good.got = msg.result /\ good.of = msg.of
    BY <2>1 DEF Calls, Responses
  <2>3. ds = [cs EXCEPT ![msg.id] = good]
    BY <1>1, <2>1 DEF processResponse, Calls
  <2> HIDE DEF good
  <2>4. /\ ds \in Seq(Calls) /\ Len(ds) = Len(cs)
        /\ \A k \in 1 .. Len(ds) : ds[k] = IF k = msg.id THEN good ELSE cs[k]
    <3> DEFINE q == [cs EXCEPT ![msg.id] = good]
    <3>1. /\ q \in Seq(Calls) /\ Len(q) = Len(cs)
          /\ \A k \in 1 .. Len(q) : q[k] = IF k = msg.id THEN good ELSE cs[k]
      BY <2>1, <2>2, ExceptSeq
    <3> QED BY <2>3, <3>1
  <2> HIDE DEF ds
  <2>5. \A i \in 1 .. Len(cs) : ds[i].state = "settled" =>
              \/ cs[i].state = "settled" /\ ds[i].got = cs[i].got /\ ds[i].of = cs[i].of
              \/ i = msg.id /\ ds[i].got = msg.result /\ ds[i].of = msg.of
    BY <2>2, <2>4
  <2> QED BY <2>4, <2>5 DEF ds
<1>2. CASE msg.id \in DOMAIN cs /\ cs[msg.id].state = "waiting" /\ ~msg.success
  <2>1. msg.id \in 1 .. Len(cs) /\ cs[msg.id] \in Calls
    BY <1>2
  <2>2. bad \in Calls /\ bad.state = "failed"
    BY <2>1 DEF Calls
  <2>3. ds = [cs EXCEPT ![msg.id] = bad]
    BY <1>2 DEF processResponse
  <2> HIDE DEF bad
  <2>4. /\ ds \in Seq(Calls) /\ Len(ds) = Len(cs)
        /\ \A k \in 1 .. Len(ds) : ds[k] = IF k = msg.id THEN bad ELSE cs[k]
    <3> DEFINE q == [cs EXCEPT ![msg.id] = bad]
    <3>1. /\ q \in Seq(Calls) /\ Len(q) = Len(cs)
          /\ \A k \in 1 .. Len(q) : q[k] = IF k = msg.id THEN bad ELSE cs[k]
      BY <2>1, <2>2, ExceptSeq
    <3> QED BY <2>3, <3>1
  <2> HIDE DEF ds
  <2>5. \A i \in 1 .. Len(cs) : ds[i].state = "settled" =>
              cs[i].state = "settled" /\ ds[i].got = cs[i].got /\ ds[i].of = cs[i].of
    BY <2>2, <2>4
  <2> QED BY <2>4, <2>5 DEF ds
<1>3. CASE ~(msg.id \in DOMAIN cs /\ cs[msg.id].state = "waiting")
  BY <1>3 DEF processResponse
<1> QED BY <1>1, <1>2, <1>3

\* A message that comes in at a client.
LEMMA ClientReceiveIInv ==
  ASSUME IInv, NEW c \in Conns, ClientReceive(c)
  PROVE  IInv'
<1> DEFINE msg == Head(toClient[c])
           cs == processResponse(calls[c], msg)
<1>1. /\ conn[c] = "open" /\ toClient[c] # <<>>
      /\ calls' = [calls EXCEPT ![c] = cs]
      /\ toClient' = [toClient EXCEPT ![c] = Tail(toClient[c])]
      /\ UNCHANGED <<conn, service, objects, jobs, toServer, alone>>
  BY DEF ClientReceive
<1>2. /\ toClient[c] \in Seq(Responses) /\ calls[c] \in Seq(Calls)
      /\ calls \in [Conns -> Seq(Calls)] /\ toClient \in [Conns -> Seq(Responses)]
  BY DEF IInv, TypeOK
<1>3. /\ 1 \in 1 .. Len(toClient[c]) /\ msg = toClient[c][1] /\ msg \in Responses
      /\ Tail(toClient[c]) \in Seq(Responses)
      /\ \A i \in 1 .. Len(Tail(toClient[c])) :
           i + 1 \in 1 .. Len(toClient[c]) /\ Tail(toClient[c])[i] = toClient[c][i + 1]
  BY <1>1, <1>2, Taken
<1>4. /\ Owned(msg.result, msg.of) /\ msg.of[2] = msg.id
      /\ c \in alone => msg.of[1] = c
  BY <1>3 DEF IInv, NumberInv, IdInv, AloneInv
<1> HIDE DEF msg
<1>5. /\ cs \in Seq(Calls) /\ Len(cs) = Len(calls[c])
      /\ \A i \in 1 .. Len(calls[c]) : cs[i].state = "settled" =>
           \/ /\ calls[c][i].state = "settled"
              /\ cs[i].got = calls[c][i].got /\ cs[i].of = calls[c][i].of
           \/ i = msg.id /\ cs[i].got = msg.result /\ cs[i].of = msg.of
  BY <1>2, <1>3, Processed
<1> HIDE DEF cs
<1>6. /\ calls' \in [Conns -> Seq(Calls)] /\ calls'[c] = cs
      /\ toClient' \in [Conns -> Seq(Responses)] /\ toClient'[c] = Tail(toClient[c])
      /\ \A d \in Conns : d # c => calls'[d] = calls[d] /\ toClient'[d] = toClient[d]
  BY <1>1, <1>2, <1>3, <1>5
<1>7. TypeOK'
  BY <1>1, <1>6 DEF IInv, TypeOK
<1>8. ListsOpen'
  BY <1>1 DEF IInv, ListsOpen, OpenConns
<1>9. NumberInv'
  <2>1. objects' = objects /\ jobs' = jobs
    BY <1>1
  <2>2. \A number, of : Owned(number, of)' <=> Owned(number, of)
    BY <2>1 DEF Owned
  <2>3. ASSUME NEW d \in Conns, NEW i \in 1 .. Len(toClient'[d])
        PROVE  Owned(toClient'[d][i].result, toClient'[d][i].of)
    <3>1. CASE d = c
      BY <1>3, <1>6, <3>1, ZenonT(60) DEF IInv, NumberInv
    <3>2. CASE d # c
      BY <1>6, <3>2 DEF IInv, NumberInv
    <3> QED BY <3>1, <3>2
  <2>4. ASSUME NEW d \in Conns, NEW i \in 1 .. Len(calls'[d]), calls'[d][i].state = "settled"
        PROVE  Owned(calls'[d][i].got, calls'[d][i].of)
    <3>1. CASE d = c
      BY <1>4, <1>5, <1>6, <2>4, <3>1 DEF IInv, NumberInv
    <3>2. CASE d # c
      BY <1>6, <2>4, <3>2 DEF IInv, NumberInv
    <3> QED BY <3>1, <3>2
  <2>5. /\ objects.instances \subseteq 1 .. objects.made
        /\ \A job \in jobs : Owned(job.result, job.of)
    BY DEF IInv, NumberInv
  <2>6. \A job \in jobs' : Owned(job.result, job.of)'
    BY <2>1, <2>2, <2>5
  <2>7. \A d \in Conns : \A i \in 1 .. Len(toClient'[d]) :
          Owned(toClient[d][i].result, toClient[d][i].of)'
    BY <2>1, <2>3 DEF Owned
  <2>8. \A d \in Conns : \A i \in 1 .. Len(calls'[d]) : calls'[d][i].state = "settled" =>
          Owned(calls[d][i].got, calls[d][i].of)'
    BY <2>1, <2>4 DEF Owned
  <2>9. objects'.instances \subseteq 1 .. objects'.made
    BY <2>1, <2>5
  <2> QED BY <2>6, <2>7, <2>8, <2>9 DEF NumberInv
<1>10. IdInv'
  <2>1. ASSUME NEW i \in 1 .. Len(toClient'[c])
        PROVE  toClient'[c][i].of[2] = toClient'[c][i].id
    <3>1. i + 1 \in 1 .. Len(toClient[c]) /\ toClient'[c][i] = toClient[c][i + 1]
      BY <1>3, <1>6
    <3>2. toClient[c][i + 1].of[2] = toClient[c][i + 1].id
      BY <3>1 DEF IInv, IdInv
    <3> QED BY <3>1, <3>2
  <2> QED BY <1>1, <1>6, <2>1 DEF IInv, IdInv
<1>11. AloneInv'
  <2> SUFFICES ASSUME NEW d \in alone
               PROVE  /\ service.socket = d
                      /\ \A x \in Conns : conn[x] = "open" => x = d
                      /\ \A job \in jobs : job.of[1] = d
                      /\ \A i \in 1 .. Len(toClient'[d]) : toClient'[d][i].of[1] = d
                      /\ \A i \in 1 .. Len(calls'[d]) :
                           calls'[d][i].state = "settled" => calls'[d][i].of = <<d, i>>
    BY <1>1 DEF AloneInv
  <2>1. /\ service.socket = d
        /\ \A x \in Conns : conn[x] = "open" => x = d
        /\ \A job \in jobs : job.of[1] = d
        /\ \A i \in 1 .. Len(toClient[d]) : toClient[d][i].of[1] = d
        /\ \A i \in 1 .. Len(calls[d]) :
             calls[d][i].state = "settled" => calls[d][i].of = <<d, i>>
    BY DEF IInv, AloneInv
  <2>2. c = d
    BY <1>1, <2>1
  <2>3. msg.of = <<d, msg.id>>
    <3>1. msg.of \in (Conns \cup {NoConn}) \X Nat
      BY <1>3 DEF Responses, Origins
    <3>2. msg.of = <<msg.of[1], msg.of[2]>>
      BY <3>1
    <3> QED BY <1>4, <2>2, <3>2
  <2>4. ASSUME NEW i \in 1 .. Len(toClient'[d])
        PROVE  toClient'[d][i].of[1] = d
    <3>1. i + 1 \in 1 .. Len(toClient[d]) /\ toClient'[d][i] = toClient[d][i + 1]
      BY <1>3, <1>6, <2>2
    <3>2. toClient[d][i + 1].of[1] = d
      BY <2>1, <3>1
    <3> QED BY <3>1, <3>2
  <2>5. \A i \in 1 .. Len(calls'[d]) :
          calls'[d][i].state = "settled" => calls'[d][i].of = <<d, i>>
    BY <1>5, <1>6, <2>1, <2>2, <2>3
  <2> QED BY <2>1, <2>4, <2>5
<1> QED BY <1>7, <1>8, <1>9, <1>10, <1>11 DEF IInv

\* A request that comes in at the server.
LEMMA ServerReceiveIInv ==
  ASSUME IInv, NEW c \in Conns, NEW works \in BOOLEAN, ServerReceive(c, works)
  PROVE  IInv'
<1> DEFINE msg == Head(toServer[c])
           of == <<c, msg.id>>
<1>e. PICK e : e = FactoryEndpoint(objects, of, msg, works)
  OBVIOUS
<1>j. PICK job : job = [id |-> msg.id, success |-> e.r.success, result |-> e.r.result, of |-> of]
  OBVIOUS
<1>1. /\ conn[c] = "open" /\ toServer[c] # <<>>
      /\ objects' = e.o /\ jobs' = jobs \cup {job}
      /\ toServer' = [toServer EXCEPT ![c] = Tail(toServer[c])]
      /\ UNCHANGED <<conn, service, calls, toClient, alone>>
  BY <1>e, <1>j DEF ServerReceive
<1>2. /\ toServer[c] \in Seq(Requests) /\ toServer \in [Conns -> Seq(Requests)]
      /\ Endpoints(objects) /\ objects.instances \subseteq 1 .. objects.made
  BY DEF IInv, TypeOK, NumberInv
<1>3. msg \in Requests /\ Tail(toServer[c]) \in Seq(Requests)
  BY <1>1, <1>2, Taken
<1> HIDE DEF msg
<1>4. of \in Origins /\ of[1] = c /\ of[2] = msg.id
  BY <1>3 DEF Requests, Origins
<1>5. Given(objects, of, e)
  <2>1. of \in Origins
    BY <1>4
  <2> HIDE DEF of
  <2> QED BY <1>2, <1>3, <1>e, <2>1, Endpoint
<1> HIDE DEF of
<1>6. job \in Responses /\ job.id = msg.id /\ job.result = e.r.result /\ job.of = of
  BY <1>3, <1>4, <1>5, <1>j DEF Responses, Requests, Given
<1>7. TypeOK'
  <2>1. toServer' \in [Conns -> Seq(Requests)]
    BY <1>1, <1>2, <1>3
  <2>2. jobs' \in SUBSET Responses
    BY <1>1, <1>6 DEF IInv, TypeOK
  <2>3. Endpoints(objects')
    BY <1>1, <1>5 DEF Given
  <2>4. /\ conn' \in [Conns -> {"none", "open", "closed"}]
        /\ service' \in [socket : Conns \cup {NoConn}, fdlist : SUBSET Conns]
        /\ calls' \in [Conns -> Seq(Calls)]
        /\ toClient' \in [Conns -> Seq(Responses)] /\ alone' \in SUBSET Conns
    BY <1>1 DEF IInv, TypeOK
  <2> QED BY <2>1, <2>2, <2>3, <2>4 DEF TypeOK, Endpoints
<1>8. ListsOpen'
  BY <1>1 DEF IInv, ListsOpen, OpenConns
<1>9. NumberInv'
  <2>1. ASSUME NEW number, NEW x, Owned(number, x)
        PROVE  Owned(number, x)'
    BY <1>1, <1>5, <2>1 DEF Owned, Given
  <2>2. Owned(job.result, job.of)'
    BY <1>1, <1>5, <1>6 DEF Owned, Given
  <2>3. \A j \in jobs' : Owned(j.result, j.of)'
    BY <1>1, <2>1, <2>2 DEF IInv, NumberInv
  <2>4. \A d \in Conns : \A i \in 1 .. Len(toClient'[d]) :
          Owned(toClient[d][i].result, toClient[d][i].of)'
    <3> SUFFICES ASSUME NEW d \in Conns, NEW i \in 1 .. Len(toClient[d])
                 PROVE  Owned(toClient[d][i].result, toClient[d][i].of)'
      BY <1>1
    <3>1. Owned(toClient[d][i].result, toClient[d][i].of)
      BY DEF IInv, NumberInv
    <3> QED BY <1>1, <1>5, <3>1 DEF Owned, Given
  <2>5. \A d \in Conns : \A i \in 1 .. Len(calls'[d]) : calls'[d][i].state = "settled" =>
          Owned(calls[d][i].got, calls[d][i].of)'
    <3> SUFFICES ASSUME NEW d \in Conns, NEW i \in 1 .. Len(calls[d]),
                        calls[d][i].state = "settled"
                 PROVE  Owned(calls[d][i].got, calls[d][i].of)'
      BY <1>1
    <3>1. Owned(calls[d][i].got, calls[d][i].of)
      BY DEF IInv, NumberInv
    <3> QED BY <1>1, <1>5, <3>1 DEF Owned, Given
  <2>6. objects'.instances \subseteq 1 .. objects'.made
    BY <1>1, <1>5 DEF Given
  <2> QED BY <2>3, <2>4, <2>5, <2>6 DEF NumberInv
<1>10. IdInv'
  BY <1>1, <1>4, <1>6 DEF IInv, IdInv
<1>11. AloneInv'
  <2> SUFFICES ASSUME NEW d \in alone
               PROVE  /\ service.socket = d
                      /\ \A x \in Conns : conn[x] = "open" => x = d
                      /\ \A j \in jobs' : j.of[1] = d
                      /\ \A i \in 1 .. Len(toClient[d]) : toClient[d][i].of[1] = d
                      /\ \A i \in 1 .. Len(calls[d]) :
                           calls[d][i].state = "settled" => calls[d][i].of = <<d, i>>
    BY <1>1 DEF AloneInv
  <2>1. c = d
    BY <1>1 DEF IInv, AloneInv
  <2>2. \A j \in jobs' : j.of[1] = d
    BY <1>1, <1>4, <1>6, <2>1 DEF IInv, AloneInv
  <2> QED BY <2>2 DEF IInv, AloneInv
<1> QED BY <1>7, <1>8, <1>9, <1>10, <1>11 DEF IInv

\* A promise that is fulfilled, whose answer leaves or is lost.
LEMMA AnswerIInv ==
  ASSUME IInv, NEW job \in jobs, Answer(job)
  PROVE  IInv'
<1> DEFINE s == service.socket
           ms == Append(toClient[s], job)
<1>1. /\ jobs' = jobs \ {job}
      /\ toClient' = IF s \in OpenConns THEN [toClient EXCEPT ![s] = ms] ELSE toClient
      /\ UNCHANGED <<conn, service, objects, calls, toServer, alone>>
  BY DEF Answer, sendMessage
<1>2. /\ job \in Responses /\ jobs \subseteq Responses
      /\ toClient \in [Conns -> Seq(Responses)]
      /\ Owned(job.result, job.of) /\ job.of[2] = job.id
      /\ \A c \in alone : s = c /\ job.of[1] = c
  BY DEF IInv, TypeOK, NumberInv, IdInv, AloneInv
<1>3. ASSUME NEW d \in Conns
      PROVE  /\ toClient'[d] \in Seq(Responses)
             /\ \A i \in 1 .. Len(toClient'[d]) :
                  \/ i \in 1 .. Len(toClient[d]) /\ toClient'[d][i] = toClient[d][i]
                  \/ d = s /\ d \in OpenConns /\ toClient'[d][i] = job
             /\ d \notin OpenConns => toClient'[d] = toClient[d]
  <2>1. CASE d = s /\ d \in OpenConns
    <3>1. toClient'[d] = Append(toClient[d], job)
      BY <1>1, <1>2, <2>1
    <3> DEFINE as == Append(toClient[d], job)
    <3>2. toClient[d] \in Seq(Responses)
      BY <1>2
    <3>3. /\ as \in Seq(Responses) /\ Len(as) = Len(toClient[d]) + 1
          /\ \A i \in 1 .. Len(toClient[d]) : as[i] = toClient[d][i]
          /\ as[Len(toClient[d]) + 1] = job
      BY <1>2, <3>2, Appended
    <3>4. Len(toClient[d]) \in Nat
      BY <3>2
    <3> HIDE DEF as
    <3>5. \A i \in 1 .. Len(as) : i \in 1 .. Len(toClient[d]) \/ i = Len(toClient[d]) + 1
      BY <3>3, <3>4
    <3> HIDE <2>1
    <3>6. \A i \in 1 .. Len(as) :
            (i \in 1 .. Len(toClient[d]) /\ as[i] = toClient[d][i]) \/ as[i] = job
      BY <3>3, <3>5
    <3>7. toClient'[d] = as
      BY <3>1 DEF as
    <3> QED BY <2>1, <3>3, <3>6, <3>7
  <2>2. CASE ~(d = s /\ d \in OpenConns)
    <3>1. toClient'[d] = toClient[d]
      BY <1>1, <1>2, <2>2
    <3> QED BY <1>2, <3>1
  <2> QED BY <2>1, <2>2
<1>4. toClient' \in [Conns -> Seq(Responses)]
  <2>1. CASE s \in OpenConns
    <3>1. ms \in Seq(Responses)
      BY <1>2, <2>1, Appended DEF OpenConns
    <3> QED BY <1>1, <1>2, <2>1, <3>1
  <2>2. CASE s \notin OpenConns
    BY <1>1, <1>2, <2>2
  <2> QED BY <2>1, <2>2
<1> HIDE DEF ms
<1>5. TypeOK'
  <2>1. jobs' \in SUBSET Responses
    BY <1>1, <1>2
  <2>2. Endpoints(objects)'
    BY <1>1 DEF IInv, TypeOK, Endpoints
  <2> QED BY <1>1, <1>4, <2>1, <2>2 DEF IInv, TypeOK
<1>6. ListsOpen'
  BY <1>1 DEF IInv, ListsOpen, OpenConns
<1>7. NumberInv'
  <2>1. objects' = objects /\ calls' = calls
    BY <1>1
  <2>2. ASSUME NEW d \in Conns, NEW i \in 1 .. Len(toClient'[d])
        PROVE  Owned(toClient'[d][i].result, toClient'[d][i].of)
    BY <1>2, <1>3 DEF IInv, NumberInv
  <2>3. \A d \in Conns : \A i \in 1 .. Len(toClient'[d]) :
          Owned(toClient[d][i].result, toClient[d][i].of)'
    BY <2>1, <2>2 DEF Owned
  <2>4. \A j \in jobs' : Owned(j.result, j.of)'
    BY <1>1, <2>1 DEF IInv, NumberInv, Owned
  <2>5. \A d \in Conns : \A i \in 1 .. Len(calls'[d]) : calls'[d][i].state = "settled" =>
          Owned(calls[d][i].got, calls[d][i].of)'
    BY <2>1 DEF IInv, NumberInv, Owned
  <2>6. objects'.instances \subseteq 1 .. objects'.made
    BY <2>1 DEF IInv, NumberInv
  <2> QED BY <2>3, <2>4, <2>5, <2>6 DEF NumberInv
<1>8. IdInv'
  <2>1. ASSUME NEW d \in Conns, NEW i \in 1 .. Len(toClient'[d])
        PROVE  toClient'[d][i].of[2] = toClient'[d][i].id
    <3>1. CASE i \in 1 .. Len(toClient[d]) /\ toClient'[d][i] = toClient[d][i]
      <4>1. toClient[d][i].of[2] = toClient[d][i].id
        BY <3>1 DEF IInv, IdInv
      <4> QED BY <3>1, <4>1
    <3>2. CASE toClient'[d][i] = job
      BY <1>2, <3>2
    <3> QED BY <1>3, <3>1, <3>2
  <2>2. \A d \in Conns : conn'[d] = "none" => calls'[d] = <<>> /\ toClient'[d] = <<>>
    BY <1>1, <1>3 DEF IInv, IdInv, OpenConns
  <2> QED BY <1>1, <2>1, <2>2 DEF IInv, IdInv
<1>9. AloneInv'
  <2> SUFFICES ASSUME NEW d \in alone
               PROVE  /\ service.socket = d
                      /\ \A x \in Conns : conn[x] = "open" => x = d
                      /\ \A j \in jobs' : j.of[1] = d
                      /\ \A i \in 1 .. Len(toClient'[d]) : toClient'[d][i].of[1] = d
                      /\ \A i \in 1 .. Len(calls[d]) :
                           calls[d][i].state = "settled" => calls[d][i].of = <<d, i>>
    BY <1>1 DEF AloneInv
  <2>1. d \in Conns
    BY DEF IInv, TypeOK
  <2>2. \A i \in 1 .. Len(toClient'[d]) : toClient'[d][i].of[1] = d
    BY <1>2, <1>3, <2>1 DEF IInv, AloneInv
  <2> QED BY <1>1, <2>2 DEF IInv, AloneInv
<1> QED BY <1>5, <1>6, <1>7, <1>8, <1>9 DEF IInv

\* What numbers mean stays where objects, answers and calls do.
LEMMA NumbersKept ==
  ASSUME NumberInv, toClient \in [Conns -> Seq(Responses)],
         UNCHANGED <<objects, jobs, calls>>,
         \A c \in Conns : toClient'[c] \in {toClient[c], <<>>}
  PROVE  NumberInv'
<1>1. ASSUME NEW c \in Conns, NEW i \in 1 .. Len(toClient'[c])
      PROVE  i \in 1 .. Len(toClient[c]) /\ toClient'[c][i] = toClient[c][i]
  <2>1. toClient'[c] # <<>>
    BY <1>1
  <2> QED BY <2>1
<1> QED BY <1>1 DEF NumberInv, Owned

\* A connection is made.
LEMMA ConnectIInv ==
  ASSUME IInv, NEW c \in Conns, Connect(c)
  PROVE  IInv'
<1>1. /\ conn[c] = "none" /\ conn' = [conn EXCEPT ![c] = "open"]
      /\ service' = [socket |-> c, fdlist |-> service.fdlist \cup {c}]
      /\ alone' = IF OpenConns = {} /\ jobs = {} THEN {c} ELSE {}
      /\ UNCHANGED <<objects, jobs, calls, toServer, toClient>>
  BY DEF Connect
<1>2. /\ conn \in [Conns -> {"none", "open", "closed"}]
      /\ service \in [socket : Conns \cup {NoConn}, fdlist : SUBSET Conns]
      /\ toClient \in [Conns -> Seq(Responses)]
  BY DEF IInv, TypeOK
<1>3. conn'[c] = "open" /\ \A d \in Conns : d # c => conn'[d] = conn[d]
  BY <1>1, <1>2
<1>4. TypeOK'
  <2>1. Endpoints(objects)'
    BY <1>1 DEF IInv, TypeOK, Endpoints
  <2> QED BY <1>1, <1>2, <2>1 DEF IInv, TypeOK
<1>5. ListsOpen'
  <2>1. {d \in Conns : conn'[d] = "open"} = OpenConns \cup {c}
    BY <1>3 DEF OpenConns
  <2> QED BY <1>1, <2>1 DEF IInv, ListsOpen, OpenConns
<1>6. NumberInv'
  BY <1>1, <1>2, NumbersKept DEF IInv
<1>7. IdInv'
  BY <1>1, <1>3 DEF IInv, IdInv
<1>8. AloneInv'
  <2> SUFFICES ASSUME NEW d \in alone'
               PROVE  /\ service'.socket = d
                      /\ \A x \in Conns : conn'[x] = "open" => x = d
                      /\ \A j \in jobs : j.of[1] = d
                      /\ \A i \in 1 .. Len(toClient[d]) : toClient[d][i].of[1] = d
                      /\ \A i \in 1 .. Len(calls[d]) :
                           calls[d][i].state = "settled" => calls[d][i].of = <<d, i>>
    BY <1>1 DEF AloneInv
  <2>1. d = c /\ OpenConns = {} /\ jobs = {}
    BY <1>1
  <2>2. \A x \in Conns : conn[x] # "open"
    BY <2>1 DEF OpenConns
  <2>3. toClient[d] = <<>> /\ calls[d] = <<>>
    BY <1>1, <2>1 DEF IInv, IdInv
  <2> QED BY <1>1, <1>3, <2>1, <2>2, <2>3
<1> QED BY <1>4, <1>5, <1>6, <1>7, <1>8 DEF IInv

\* A connection is closed.
LEMMA CloseIInv ==
  ASSUME IInv, NEW c \in Conns, Close(c)
  PROVE  IInv'
<1>1. /\ conn[c] = "open" /\ conn' = [conn EXCEPT ![c] = "closed"]
      /\ service' = [service EXCEPT !.fdlist = service.fdlist \ {c}]
      /\ toServer' = [toServer EXCEPT ![c] = <<>>]
      /\ toClient' = [toClient EXCEPT ![c] = <<>>]
      /\ UNCHANGED <<objects, jobs, calls, alone>>
  BY DEF Close, server_onClose
<1>2. /\ conn \in [Conns -> {"none", "open", "closed"}]
      /\ service \in [socket : Conns \cup {NoConn}, fdlist : SUBSET Conns]
      /\ toClient \in [Conns -> Seq(Responses)] /\ toServer \in [Conns -> Seq(Requests)]
  BY DEF IInv, TypeOK
<1>3. /\ conn'[c] = "closed" /\ toClient'[c] = <<>>
      /\ \A d \in Conns : d # c => conn'[d] = conn[d] /\ toClient'[d] = toClient[d]
  BY <1>1, <1>2
<1>4. TypeOK'
  <2>1. Endpoints(objects)'
    BY <1>1 DEF IInv, TypeOK, Endpoints
  <2>2. conn' \in [Conns -> {"none", "open", "closed"}]
    BY <1>1, <1>2
  <2>3. service' \in [socket : Conns \cup {NoConn}, fdlist : SUBSET Conns]
    BY <1>1, <1>2
  <2>4. toServer' \in [Conns -> Seq(Requests)] /\ toClient' \in [Conns -> Seq(Responses)]
    <3>1. <<>> \in Seq(Requests) /\ <<>> \in Seq(Responses)
      OBVIOUS
    <3> QED BY <1>1, <1>2, <3>1
  <2> QED BY <1>1, <2>1, <2>2, <2>3, <2>4 DEF IInv, TypeOK
<1>5. ListsOpen'
  <2>1. {d \in Conns : conn'[d] = "open"} = OpenConns \ {c}
    BY <1>3 DEF OpenConns
  <2> QED BY <1>1, <1>2, <2>1 DEF IInv, ListsOpen, OpenConns
<1>6. NumberInv'
  BY <1>1, <1>2, <1>3, NumbersKept DEF IInv
<1>7. IdInv'
  BY <1>1, <1>3 DEF IInv, IdInv
<1>8. AloneInv'
  <2>1. service'.socket = service.socket
    BY <1>1, <1>2
  <2>2. \A d \in alone : d \in Conns
    BY DEF IInv, TypeOK
  <2> QED BY <1>1, <1>3, <2>1, <2>2 DEF IInv, AloneInv
<1> QED BY <1>4, <1>5, <1>6, <1>7, <1>8 DEF IInv

\* Every step keeps the inductive invariant.
LEMMA NextIInv == IInv /\ [Next]_vars => IInv'
<1> SUFFICES ASSUME IInv, [Next]_vars PROVE IInv'
  OBVIOUS
<1>1. ASSUME NEW c \in Conns, Connect(c) PROVE IInv'
  BY <1>1, ConnectIInv
<1>2. ASSUME NEW c \in Conns, Close(c) PROVE IInv'
  BY <1>2, CloseIInv
<1>3. ASSUME NEW c \in Conns, ClientStep(c) PROVE IInv'
  <2>1. (0 .. MaxCalls) \subseteq Nat /\ (1 .. MaxCalls) \subseteq Nat
    BY ConstantsAssumption
  <2>2. CASE New(c)
    BY <2>2, NewIInv
  <2>3. ASSUME NEW method \in Methods, NEW arg \in 0 .. MaxCalls, Request(c, method, arg)
        PROVE  IInv'
    BY <2>1, <2>3, RequestIInv
  <2>4. ASSUME NEW i \in 1 .. MaxCalls, Continue(c, i) PROVE IInv'
    BY <2>1, <2>4, ContinueIInv
  <2>5. ASSUME NEW i \in 1 .. MaxCalls, Register(c, i) PROVE IInv'
    BY <2>1, <2>5, RegisterIInv
  <2>6. CASE ClientReceive(c)
    BY <2>6, ClientReceiveIInv
  <2> QED BY <1>3, <2>2, <2>3, <2>4, <2>5, <2>6 DEF ClientStep
<1>4. ASSUME NEW c \in Conns, NEW works \in BOOLEAN, ServerReceive(c, works) PROVE IInv'
  BY <1>4, ServerReceiveIInv
<1>5. ASSUME NEW job \in jobs, Answer(job) PROVE IInv'
  BY <1>5, AnswerIInv
<1>6. CASE UNCHANGED vars
  <2> USE <1>6 DEF vars, IInv
  <2>1. TypeOK'
    BY DEF TypeOK, Endpoints
  <2>2. ListsOpen'
    BY DEF ListsOpen, OpenConns
  <2>3. NumberInv'
    BY DEF NumberInv, Owned
  <2>4. IdInv' /\ AloneInv'
    BY DEF IdInv, AloneInv
  <2> QED BY <2>1, <2>2, <2>3, <2>4
<1> QED BY <1>1, <1>2, <1>3, <1>4, <1>5, <1>6 DEF Next

-----------------------------------------------------------------------------
\* The theorems.

\* The inductive invariant: numbers of instances are never given twice and go to the
\* request they were made for, and while a client is alone nobody else's answers
\* are about.
THEOREM Invariance == Spec => []IInv
BY InitIInv, NextIInv, PTL DEF Spec

\* While a client has the service to itself each call settles with its own answer.
THEOREM OwnAnswerHolds == Spec => []OwnAnswer
<1>1. IInv => OwnAnswer
  <2> SUFFICES ASSUME IInv, NEW c \in alone, NEW i \in DOMAIN calls[c],
                      calls[c][i].state = "settled"
               PROVE  calls[c][i].of = <<c, i>>
    BY DEF OwnAnswer
  <2>1. i \in 1 .. Len(calls[c])
    BY DEF IInv, TypeOK
  <2> QED BY <2>1 DEF IInv, AloneInv
<1> QED BY <1>1, Invariance, PTL

\* The number of an instance that is alive belongs to the object made for the
\* request whose answer gave it.
THEOREM OwnObjectHolds == Spec => []OwnObject
<1>1. IInv => OwnObject
  <2> SUFFICES ASSUME IInv, NEW c \in Conns, NEW i \in DOMAIN calls[c],
                      calls[c][i].state = "settled",
                      calls[c][i].got \in objects.instances, calls[c][i].of = <<c, i>>
               PROVE  objects.owner[calls[c][i].got] = <<c, i>>
    BY DEF OwnObject
  <2>1. i \in 1 .. Len(calls[c])
    BY DEF IInv, TypeOK
  <2>2. Owned(calls[c][i].got, calls[c][i].of)
    BY <2>1 DEF IInv, NumberInv
  <2>3. objects.instances \subseteq 1 .. objects.made /\ objects.made \in Nat
    BY DEF IInv, TypeOK, Endpoints, NumberInv
  <2>4. calls[c][i].got # NoObject
    BY <2>3 DEF NoObject
  <2> QED BY <2>2, <2>4 DEF Owned
<1> QED BY <1>1, Invariance, PTL

\* The service lists the connections that are open, and no others.
THEOREM ListsOpenHolds == Spec => []ListsOpen
BY Invariance, PTL DEF IInv
=============================================================================
