-------------------------- MODULE WebSocketProofs --------------------------
(***************************************************************************)
(* Proofs about WebSocket, for either side and any bounds: what is sent    *)
(* (SendInv), how a connection lives and ends (LifeInv), that the writable *)
(* events do not run dry (ArmedInv), and what is received (ReceiveInv).    *)
(***************************************************************************)
EXTENDS WebSocket, SequenceTheorems, WellFoundedInduction, TLAPS

\* Messages in the queue; what send() returns; what the script is told of.
Items == [block : Seq(Nat), done : {FALSE}, unref : Nat]

Returns == {"pending", "resolved", "number", "undefined"}

Events == {"connect", "message", "close", "error"}

\* What is written, or waits in the queue q with a promise pending, has been sent.
Recorded(q, returned, wire, sent) ==
  /\ Len(returned) = sent
  /\ \A k \in 1 .. Len(wire) : wire[k] \in 1 .. sent
  /\ \A k \in 1 .. Len(q) : q[k] \in 1 .. sent /\ returned[q[k]] = "pending"

\* A promise is pending only while its message is in the queue, and resolved only
\* once it is written.
Accounted(q, returned, wire, sent) ==
  /\ \A i \in 1 .. sent : returned[i] = "pending" => \E k \in 1 .. Len(q) : q[k] = i
  /\ \A i \in 1 .. sent :
       returned[i] = "resolved" => \E k \in 1 .. Len(wire) : wire[k] = i

\* Queued messages are in order behind each other and behind those written from
\* the queue.
Ordered(q, returned, wire) ==
  /\ \A j, k \in 1 .. Len(wire) :
       j < k /\ returned[wire[j]] # "number" /\ returned[wire[k]] # "number"
         => wire[j] < wire[k]
  /\ \A k \in 1 .. Len(wire), i \in 1 .. Len(q) :
       returned[wire[k]] # "number" => wire[k] < q[i]
  /\ \A i, j \in 1 .. Len(q) : i < j => q[i] < q[j]

\* All of it.
Sending(q, returned, wire, sent) ==
  /\ Recorded(q, returned, wire, sent)
  /\ Accounted(q, returned, wire, sent)
  /\ Ordered(q, returned, wire)

\* The numbers of the messages in a queue.
Numbers(items) == [i \in 1 .. Len(items) |-> items[i].unref]

\* The same of a socket.
SendInv(w) == Sending(Numbers(w.sendq.items), w.returned, w.wire, w.sent)

\* The phases of a connection: what the script has been told in each, and what
\* the status and the promise say of it.
LifeInv ==
  /\ link \in {"none", "created"} =>
       told = <<>> /\ ws.status = CONNECTING /\ ws.promise # "rejected"
  /\ link = "none" => ws.promise = "none"
  /\ link = "open" => ws.status = OPEN /\ ~Told("close")
  /\ link = "failed" => side = "client" /\ ~Told("connect")
  /\ link = "closed" => Told("close") \/ (side = "server" /\ ws.status = CLOSED)
  /\ side = "server" /\ ws.status < CLOSING => ~Told("close")
  /\ side = "server" /\ ws.status = CLOSING => Told("close")

\* The inductive invariant.
IInv ==
  /\ ConnectionOK
  /\ SendInv(ws)
  /\ LifeInv
  /\ NoDanglingSocket /\ ServerClosedOnce /\ CloseIsTold /\ PromiseSettled

-----------------------------------------------------------------------------

\* A new socket has its type and nothing sent.
LEMMA NewSocket ==
  /\ ws_new \in Sockets
  /\ SendInv(ws_new)
  /\ ws_new.status = CONNECTING /\ ws_new.lwsi /\ ws_new.promise = "none"
BY DEF ws_new, Sockets, SendInv, Sending, Recorded, Accounted, Ordered, Numbers, queue_zero, CONNECTING, OPEN, CLOSING, CLOSED

\* What the script has been told after one more event.
LEMMA ToldMore ==
  ASSUME NEW s \in Seq(Events), NEW e \in Events
  PROVE  /\ s \o <<e>> = Append(s, e)
         /\ Append(s, e) \in Seq(Events)
         /\ ToSet(Append(s, e)) = ToSet(s) \cup {e}
         /\ Len(Append(s, e)) = Len(s) + 1
         /\ \A i \in 1 .. Len(s) : Append(s, e)[i] = s[i]
         /\ Append(s, e)[Len(s) + 1] = e
<1>1. /\ Append(s, e) \in Seq(Events)
      /\ Len(Append(s, e)) = Len(s) + 1
      /\ \A i \in 1 .. Len(s) : Append(s, e)[i] = s[i]
      /\ Append(s, e)[Len(s) + 1] = e
  BY AppendProperties
<1>2. DOMAIN Append(s, e) = 1 .. Len(s) + 1 /\ DOMAIN s = 1 .. Len(s) /\ Len(s) \in Nat
  BY <1>1
<1>3. ToSet(Append(s, e)) = ToSet(s) \cup {e}
  <2>1. ASSUME NEW x \in ToSet(Append(s, e))
        PROVE  x \in ToSet(s) \cup {e}
    BY <1>1, <1>2 DEF ToSet
  <2>2. ASSUME NEW x \in ToSet(s) \cup {e}
        PROVE  x \in ToSet(Append(s, e))
    BY <1>1, <1>2 DEF ToSet
  <2> QED BY <2>1, <2>2
<1>4. s \o <<e>> = Append(s, e)
  OBVIOUS
<1> QED BY <1>1, <1>3, <1>4

-----------------------------------------------------------------------------
\* Sending.

\* The positions of a longer sequence.
LEMMA Longer ==
  ASSUME NEW S, NEW s \in Seq(S), NEW e \in S, NEW t, t = Append(s, e)
  PROVE  /\ \A k \in 1 .. Len(s) : k \in 1 .. Len(t) /\ t[k] = s[k]
         /\ Len(t) \in 1 .. Len(t) /\ t[Len(t)] = e
         /\ \A k \in 1 .. Len(t) : k \in 1 .. Len(s) \/ t[k] = e
         /\ \A j, k \in 1 .. Len(t) : j < k => j \in 1 .. Len(s)
<1>1. /\ Len(t) = Len(s) + 1
      /\ \A k \in 1 .. Len(s) : t[k] = s[k]
      /\ t[Len(s) + 1] = e
  BY AppendProperties
<1>2. Len(s) \in Nat
  OBVIOUS
<1> QED BY <1>1, <1>2

\* A message that is not sent, as the socket is gone.
LEMMA SendsNothing ==
  ASSUME NEW q \in Seq(Nat), NEW returned \in Seq(Returns), NEW wire \in Seq(Nat),
         NEW sent \in Nat, Sending(q, returned, wire, sent)
  PROVE  Sending(q, Append(returned, "undefined"), wire, sent + 1)
<1>r. PICK r : r = Append(returned, "undefined")
  OBVIOUS
<1>a. /\ Recorded(q, returned, wire, sent)
      /\ Accounted(q, returned, wire, sent)
      /\ Ordered(q, returned, wire)
  BY DEF Sending
<1>1. /\ Len(r) = sent + 1
      /\ \A i \in 1 .. sent : r[i] = returned[i]
      /\ r[sent + 1] = "undefined"
  BY <1>a, <1>r DEF Recorded, Returns
<1>2. Len(q) \in Nat /\ Len(wire) \in Nat
  OBVIOUS
<1>5. Recorded(q, r, wire, sent + 1)
  BY <1>a, <1>1, <1>2, SMTT(60) DEF Recorded
<1>6. Accounted(q, r, wire, sent + 1)
  <2>1. ASSUME NEW i \in 1 .. sent + 1, r[i] = "pending"
        PROVE  \E k \in 1 .. Len(q) : q[k] = i
    <3>1. i \in 1 .. sent /\ returned[i] = "pending"
      BY <2>1, <1>1
    <3> QED BY <3>1, <1>a DEF Accounted
  <2>2. ASSUME NEW i \in 1 .. sent + 1, r[i] = "resolved"
        PROVE  \E k \in 1 .. Len(wire) : wire[k] = i
    <3>1. i \in 1 .. sent /\ returned[i] = "resolved"
      BY <2>2, <1>1
    <3> QED BY <3>1, <1>a DEF Accounted
  <2> QED BY <2>1, <2>2 DEF Accounted
<1>7. Ordered(q, r, wire)
  <2>1. ASSUME NEW j \in 1 .. Len(wire), NEW k \in 1 .. Len(wire), j < k,
               r[wire[j]] # "number", r[wire[k]] # "number"
        PROVE  wire[j] < wire[k]
    BY <2>1, <1>a, <1>1 DEF Recorded, Ordered
  <2>2. ASSUME NEW k \in 1 .. Len(wire), NEW i \in 1 .. Len(q), r[wire[k]] # "number"
        PROVE  wire[k] < q[i]
    BY <2>2, <1>a, <1>1 DEF Recorded, Ordered
  <2>3. ASSUME NEW i \in 1 .. Len(q), NEW j \in 1 .. Len(q), i < j
        PROVE  q[i] < q[j]
    BY <2>3, <1>a DEF Ordered
  <2> QED BY <2>1, <2>2, <2>3 DEF Ordered
<1> QED BY <1>5, <1>6, <1>7, <1>r DEF Sending

\* A message that is written at once.
LEMMA SendsDirectly ==
  ASSUME NEW q \in Seq(Nat), NEW returned \in Seq(Returns), NEW wire \in Seq(Nat),
         NEW sent \in Nat, Sending(q, returned, wire, sent)
  PROVE  Sending(q, Append(returned, "number"), Append(wire, sent + 1), sent + 1)
<1>r. PICK r : r = Append(returned, "number")
  OBVIOUS
<1>x. PICK x : x = Append(wire, sent + 1)
  OBVIOUS
<1>a. /\ Recorded(q, returned, wire, sent)
      /\ Accounted(q, returned, wire, sent)
      /\ Ordered(q, returned, wire)
  BY DEF Sending
<1>1. /\ Len(r) = sent + 1
      /\ \A i \in 1 .. sent : r[i] = returned[i]
      /\ r[sent + 1] = "number"
  BY <1>a, <1>r DEF Recorded, Returns
<1>2. Len(q) \in Nat /\ Len(wire) \in Nat
  OBVIOUS
<1>3. /\ \A k \in 1 .. Len(wire) : k \in 1 .. Len(x) /\ x[k] = wire[k]
      /\ Len(x) \in 1 .. Len(x) /\ x[Len(x)] = sent + 1
      /\ \A k \in 1 .. Len(x) : k \in 1 .. Len(wire) \/ x[k] = sent + 1
      /\ \A j, k \in 1 .. Len(x) : j < k => j \in 1 .. Len(wire)
  BY <1>x, Longer
<1>5. Recorded(q, r, x, sent + 1)
  BY <1>a, <1>1, <1>2, <1>3, SMTT(60) DEF Recorded
<1>6. Accounted(q, r, x, sent + 1)
  <2>1. ASSUME NEW i \in 1 .. sent + 1, r[i] = "pending"
        PROVE  \E k \in 1 .. Len(q) : q[k] = i
    <3>1. i \in 1 .. sent /\ returned[i] = "pending"
      BY <2>1, <1>1
    <3> QED BY <3>1, <1>a DEF Accounted
  <2>2. ASSUME NEW i \in 1 .. sent + 1, r[i] = "resolved"
        PROVE  \E k \in 1 .. Len(x) : x[k] = i
    <3>1. i \in 1 .. sent /\ returned[i] = "resolved"
      BY <2>2, <1>1
    <3>2. PICK k \in 1 .. Len(wire) : wire[k] = i
      BY <3>1, <1>a DEF Accounted
    <3> QED BY <3>2, <1>2, <1>3
  <2> QED BY <2>1, <2>2 DEF Accounted
<1>7. Ordered(q, r, x)
  <2>1. ASSUME NEW j \in 1 .. Len(x), NEW k \in 1 .. Len(x), j < k,
               r[x[j]] # "number", r[x[k]] # "number"
        PROVE  x[j] < x[k]
    <3>1. j \in 1 .. Len(wire) /\ x[j] = wire[j] /\ k \in 1 .. Len(wire) /\ x[k] = wire[k]
      BY <2>1, <1>1, <1>2, <1>3
    <3> QED BY <2>1, <3>1, <1>a, <1>1 DEF Recorded, Ordered
  <2>2. ASSUME NEW k \in 1 .. Len(x), NEW i \in 1 .. Len(q), r[x[k]] # "number"
        PROVE  x[k] < q[i]
    <3>1. k \in 1 .. Len(wire) /\ x[k] = wire[k]
      BY <2>2, <1>1, <1>2, <1>3
    <3> QED BY <2>2, <3>1, <1>a, <1>1 DEF Recorded, Ordered
  <2>3. ASSUME NEW i \in 1 .. Len(q), NEW j \in 1 .. Len(q), i < j
        PROVE  q[i] < q[j]
    BY <2>3, <1>a DEF Ordered
  <2> QED BY <2>1, <2>2, <2>3 DEF Ordered
<1> QED BY <1>5, <1>6, <1>7, <1>r, <1>x DEF Sending

\* A message that is queued.
LEMMA SendsLater ==
  ASSUME NEW q \in Seq(Nat), NEW returned \in Seq(Returns), NEW wire \in Seq(Nat),
         NEW sent \in Nat, Sending(q, returned, wire, sent)
  PROVE  Sending(Append(q, sent + 1), Append(returned, "pending"), wire, sent + 1)
<1>r. PICK r : r = Append(returned, "pending")
  OBVIOUS
<1>y. PICK y : y = Append(q, sent + 1)
  OBVIOUS
<1>a. /\ Recorded(q, returned, wire, sent)
      /\ Accounted(q, returned, wire, sent)
      /\ Ordered(q, returned, wire)
  BY DEF Sending
<1>1. /\ Len(r) = sent + 1
      /\ \A i \in 1 .. sent : r[i] = returned[i]
      /\ r[sent + 1] = "pending"
  BY <1>a, <1>r DEF Recorded, Returns
<1>2. Len(q) \in Nat /\ Len(wire) \in Nat
  OBVIOUS
<1>3. /\ \A k \in 1 .. Len(q) : k \in 1 .. Len(y) /\ y[k] = q[k]
      /\ Len(y) \in 1 .. Len(y) /\ y[Len(y)] = sent + 1
      /\ \A k \in 1 .. Len(y) : k \in 1 .. Len(q) \/ y[k] = sent + 1
      /\ \A j, k \in 1 .. Len(y) : j < k => j \in 1 .. Len(q)
  BY <1>y, Longer
<1>5. Recorded(y, r, wire, sent + 1)
  BY <1>a, <1>1, <1>2, <1>3, SMTT(60) DEF Recorded
<1>6. Accounted(y, r, wire, sent + 1)
  <2>1. ASSUME NEW i \in 1 .. sent + 1, r[i] = "pending"
        PROVE  \E k \in 1 .. Len(y) : y[k] = i
    <3>1. CASE i = sent + 1
      BY <3>1, <1>2, <1>3
    <3>2. CASE i # sent + 1
      <4>1. i \in 1 .. sent /\ returned[i] = "pending"
        BY <2>1, <3>2, <1>1
      <4>2. PICK k \in 1 .. Len(q) : q[k] = i
        BY <4>1, <1>a DEF Accounted
      <4> QED BY <4>2, <1>2, <1>3
    <3> QED BY <3>1, <3>2
  <2>2. ASSUME NEW i \in 1 .. sent + 1, r[i] = "resolved"
        PROVE  \E k \in 1 .. Len(wire) : wire[k] = i
    <3>1. i \in 1 .. sent /\ returned[i] = "resolved"
      BY <2>2, <1>1
    <3> QED BY <3>1, <1>a DEF Accounted
  <2> QED BY <2>1, <2>2 DEF Accounted
<1>7. Ordered(y, r, wire)
  <2>1. ASSUME NEW j \in 1 .. Len(wire), NEW k \in 1 .. Len(wire), j < k,
               r[wire[j]] # "number", r[wire[k]] # "number"
        PROVE  wire[j] < wire[k]
    BY <2>1, <1>a, <1>1 DEF Recorded, Ordered
  <2>2. ASSUME NEW k \in 1 .. Len(wire), NEW i \in 1 .. Len(y), r[wire[k]] # "number"
        PROVE  wire[k] < y[i]
    <3>1. wire[k] \in 1 .. sent /\ returned[wire[k]] # "number"
      BY <2>2, <1>a, <1>1 DEF Recorded
    <3>2. CASE y[i] = sent + 1
      BY <3>1, <3>2, <1>3
    <3>3. CASE i \in 1 .. Len(q)
      BY <3>1, <3>3, <1>a, <1>3 DEF Ordered
    <3> QED BY <3>2, <3>3, <1>2, <1>3
  <2>3. ASSUME NEW i \in 1 .. Len(y), NEW j \in 1 .. Len(y), i < j
        PROVE  y[i] < y[j]
    <3>1. i \in 1 .. Len(q) /\ y[i] = q[i] /\ q[i] \in 1 .. sent
      BY <2>3, <1>a, <1>2, <1>3 DEF Recorded
    <3>2. CASE y[j] = sent + 1
      BY <3>1, <3>2, <1>3
    <3>3. CASE j \in 1 .. Len(q)
      BY <2>3, <3>1, <3>3, <1>a, <1>3 DEF Ordered
    <3> QED BY <3>2, <3>3, <1>2, <1>3
  <2> QED BY <2>1, <2>2, <2>3 DEF Ordered
<1> QED BY <1>5, <1>6, <1>7, <1>r, <1>y DEF Sending

\* The oldest message of the queue is written and its promise resolved.
LEMMA WritesFront ==
  ASSUME NEW q \in Seq(Nat), NEW returned \in Seq(Returns), NEW wire \in Seq(Nat),
         NEW sent \in Nat, Sending(q, returned, wire, sent), q # <<>>,
         NEW calls, ToSet(calls) = {Head(q)}
  PROVE  Sending(Tail(q), Resolve(returned, calls), Append(wire, Head(q)), sent)
<1>u. PICK u : u = Head(q)
  OBVIOUS
<1>r. PICK r : r = Resolve(returned, calls)
  OBVIOUS
<1>x. PICK x : x = Append(wire, u)
  OBVIOUS
<1>y. PICK y : y = Tail(q)
  OBVIOUS
<1>a. /\ Recorded(q, returned, wire, sent)
      /\ Accounted(q, returned, wire, sent)
      /\ Ordered(q, returned, wire)
  BY DEF Sending
<1>1. /\ Len(r) = sent
      /\ \A i \in 1 .. sent : r[i] = IF i = u THEN "resolved" ELSE returned[i]
  BY <1>a, <1>r, <1>u DEF Recorded, Resolve
<1>2. Len(q) \in Nat /\ Len(wire) \in Nat
  OBVIOUS
<1>3. /\ Len(q) > 0
      /\ u = q[1]
      /\ Len(y) = Len(q) - 1
      /\ \A k \in 1 .. Len(y) : k + 1 \in 1 .. Len(q) /\ y[k] = q[k + 1]
  BY <1>u, <1>y
<1>b. /\ u \in 1 .. sent /\ returned[u] = "pending"
      /\ \A k \in 1 .. Len(y) : y[k] \in 1 .. sent /\ u < y[k] /\ returned[y[k]] = "pending"
  <2>1. u \in 1 .. sent /\ returned[u] = "pending"
    BY <1>a, <1>2, <1>3 DEF Recorded
  <2>2. ASSUME NEW k \in 1 .. Len(y)
        PROVE  y[k] \in 1 .. sent /\ u < y[k] /\ returned[y[k]] = "pending"
    <3>1. k + 1 \in 1 .. Len(q) /\ 1 \in 1 .. Len(q) /\ 1 < k + 1 /\ y[k] = q[k + 1]
      BY <1>2, <1>3
    <3>2. q[k + 1] \in 1 .. sent /\ returned[q[k + 1]] = "pending"
      BY <3>1, <1>a DEF Recorded
    <3>3. q[1] < q[k + 1]
      BY <3>1, <1>a DEF Ordered
    <3> QED BY <3>1, <3>2, <3>3, <1>3
  <2> QED BY <2>1, <2>2
<1>4. /\ \A k \in 1 .. Len(wire) : k \in 1 .. Len(x) /\ x[k] = wire[k]
      /\ Len(x) \in 1 .. Len(x) /\ x[Len(x)] = u
      /\ \A k \in 1 .. Len(x) : k \in 1 .. Len(wire) \/ x[k] = u
      /\ \A j, k \in 1 .. Len(x) : j < k => j \in 1 .. Len(wire)
  BY <1>x, <1>b, Longer
<1>d. \A k \in 1 .. Len(wire) :
        /\ wire[k] \in 1 .. sent
        /\ r[wire[k]] # "number" => returned[wire[k]] # "number" /\ wire[k] < u
  <2> SUFFICES ASSUME NEW k \in 1 .. Len(wire)
               PROVE  /\ wire[k] \in 1 .. sent
                      /\ r[wire[k]] # "number" => returned[wire[k]] # "number" /\ wire[k] < u
    OBVIOUS
  <2>1. wire[k] \in 1 .. sent
    BY <1>a DEF Recorded
  <2>2. r[wire[k]] # "number" => returned[wire[k]] # "number"
    BY <2>1, <1>1, <1>b
  <2>3. 1 \in 1 .. Len(q)
    BY <1>2, <1>3
  <2>4. returned[wire[k]] # "number" => wire[k] < q[1]
    BY <2>3, <1>a DEF Ordered
  <2> QED BY <2>1, <2>2, <2>4, <1>3
<1>5. Recorded(y, r, x, sent)
  <2>1. Len(r) = sent
    BY <1>1
  <2>2. \A k \in 1 .. Len(x) : x[k] \in 1 .. sent
    BY <1>2, <1>4, <1>b, <1>d
  <2>3. ASSUME NEW k \in 1 .. Len(y)
        PROVE  y[k] \in 1 .. sent /\ r[y[k]] = "pending"
    BY <1>1, <1>b
  <2> QED BY <2>1, <2>2, <2>3 DEF Recorded
<1>6. Accounted(y, r, x, sent)
  <2>1. ASSUME NEW i \in 1 .. sent, r[i] = "pending"
        PROVE  \E k \in 1 .. Len(y) : y[k] = i
    <3>1. i # u /\ returned[i] = "pending"
      BY <2>1, <1>1
    <3>2. PICK k \in 1 .. Len(q) : q[k] = i
      BY <3>1, <1>a DEF Accounted
    <3>3. k - 1 \in 1 .. Len(y) /\ y[k - 1] = q[k]
      BY <3>1, <3>2, <1>2, <1>3, SMTT(60)
    <3> QED BY <3>2, <3>3
  <2>2. ASSUME NEW i \in 1 .. sent, r[i] = "resolved"
        PROVE  \E k \in 1 .. Len(x) : x[k] = i
    <3>1. CASE i = u
      BY <3>1, <1>2, <1>4
    <3>2. CASE i # u
      <4>1. returned[i] = "resolved"
        BY <2>2, <3>2, <1>1
      <4>2. PICK k \in 1 .. Len(wire) : wire[k] = i
        BY <4>1, <1>a DEF Accounted
      <4> QED BY <4>2, <1>2, <1>4
    <3> QED BY <3>1, <3>2
  <2> QED BY <2>1, <2>2 DEF Accounted
<1>7. Ordered(y, r, x)
  <2>1. ASSUME NEW j \in 1 .. Len(x), NEW k \in 1 .. Len(x), j < k,
               r[x[j]] # "number", r[x[k]] # "number"
        PROVE  x[j] < x[k]
    <3>1. j \in 1 .. Len(wire) /\ x[j] = wire[j]
      BY <2>1, <1>2, <1>4
    <3>2. CASE x[k] = u
      BY <2>1, <3>1, <3>2, <1>4, <1>d
    <3>3. CASE k \in 1 .. Len(wire)
      BY <2>1, <3>1, <3>3, <1>a, <1>4, <1>d DEF Ordered
    <3> QED BY <3>2, <3>3, <1>2, <1>4
  <2>2. ASSUME NEW k \in 1 .. Len(x), NEW i \in 1 .. Len(y), r[x[k]] # "number"
        PROVE  x[k] < y[i]
    <3>1. CASE x[k] = u
      BY <3>1, <1>4, <1>b
    <3>2. CASE k \in 1 .. Len(wire)
      <4>1. x[k] = wire[k] /\ wire[k] \in 1 .. sent /\ wire[k] < u
        BY <2>2, <3>2, <1>4, <1>d
      <4>2. u \in 1 .. sent /\ y[i] \in 1 .. sent /\ u < y[i]
        BY <1>b
      <4> QED BY <4>1, <4>2, SMTT(60)
    <3> QED BY <3>1, <3>2, <1>2, <1>4
  <2>3. ASSUME NEW i \in 1 .. Len(y), NEW j \in 1 .. Len(y), i < j
        PROVE  y[i] < y[j]
    <3>1. /\ i + 1 \in 1 .. Len(q) /\ y[i] = q[i + 1]
          /\ j + 1 \in 1 .. Len(q) /\ y[j] = q[j + 1]
          /\ i + 1 < j + 1
      BY <2>3, <1>2, <1>3
    <3> QED BY <3>1, <1>a DEF Ordered
  <2> QED BY <2>1, <2>2, <2>3 DEF Ordered
<1> QED BY <1>5, <1>6, <1>7, <1>r, <1>u, <1>x, <1>y DEF Sending

-----------------------------------------------------------------------------
\* The socket.

\* The fields of a message in the queue that the proofs need.
LEMMA ItemFields ==
  ASSUME NEW m \in Items
  PROVE  m.unref \in Nat /\ m.done = FALSE
BY DEF Items

\* The numbers of a queue that is added to, or whose front is taken.
LEMMA QueueNumbers ==
  ASSUME NEW items \in Seq(Items), NEW m \in Items
  PROVE  /\ Numbers(items) \in Seq(Nat) /\ Len(Numbers(items)) = Len(items)
         /\ Append(items, m) \in Seq(Items)
         /\ Numbers(Append(items, m)) = Append(Numbers(items), m.unref)
         /\ items # <<>> =>
              /\ Tail(items) \in Seq(Items) /\ Head(items) \in Items
              /\ Numbers(items) # <<>>
              /\ Numbers(Tail(items)) = Tail(Numbers(items))
              /\ Head(items).unref = Head(Numbers(items))
<1>1. \A i \in 1 .. Len(items) : items[i].unref \in Nat
  <2>1. \A i \in 1 .. Len(items) : items[i] \in Items
    OBVIOUS
  <2> QED BY <2>1, ItemFields
<1>2. Numbers(items) \in Seq(Nat) /\ Len(Numbers(items)) = Len(items)
  BY <1>1 DEF Numbers
<1>3. \A i \in 1 .. Len(items) : Numbers(items)[i] = items[i].unref
  BY DEF Numbers
<1>4. m.unref \in Nat
  BY ItemFields
<1>5. /\ Append(items, m) \in Seq(Items)
      /\ Numbers(Append(items, m)) = Append(Numbers(items), m.unref)
  <2>1. PICK y : y = Append(items, m)
    OBVIOUS
  <2>2. /\ y \in Seq(Items) /\ Len(y) = Len(items) + 1
        /\ \A i \in 1 .. Len(items) : y[i] = items[i]
        /\ y[Len(items) + 1] = m
    BY <2>1, AppendProperties
  <2>3. PICK n : n = Append(Numbers(items), m.unref)
    OBVIOUS
  <2>4. /\ n \in Seq(Nat) /\ Len(n) = Len(items) + 1
        /\ \A i \in 1 .. Len(items) : n[i] = items[i].unref
        /\ n[Len(items) + 1] = m.unref
    BY <2>3, <1>2, <1>3, <1>4, AppendProperties
  <2>5. n = [i \in 1 .. Len(items) + 1 |-> y[i].unref]
    BY <2>2, <2>4, SMTT(60)
  <2> QED BY <2>1, <2>2, <2>3, <2>5 DEF Numbers
<1>6. ASSUME items # <<>>
      PROVE  /\ Tail(items) \in Seq(Items) /\ Head(items) \in Items
             /\ Numbers(items) # <<>>
             /\ Numbers(Tail(items)) = Tail(Numbers(items))
             /\ Head(items).unref = Head(Numbers(items))
  <2>1. PICK y : y = Tail(items)
    OBVIOUS
  <2>2. /\ y \in Seq(Items) /\ Len(y) = Len(items) - 1 /\ Len(items) > 0
        /\ \A i \in 1 .. Len(y) : i + 1 \in 1 .. Len(items) /\ y[i] = items[i + 1]
        /\ Head(items) = items[1] /\ Head(items) \in Items
    BY <1>6, <2>1
  <2>3. Numbers(items) # <<>>
    BY <1>2, <2>2
  <2>4. PICK n : n = Tail(Numbers(items))
    OBVIOUS
  <2>5. /\ n \in Seq(Nat) /\ Len(n) = Len(items) - 1
        /\ \A i \in 1 .. Len(n) : i + 1 \in 1 .. Len(items) /\ n[i] = Numbers(items)[i + 1]
        /\ Head(Numbers(items)) = Numbers(items)[1]
    BY <1>2, <2>2, <2>3, <2>4
  <2>6. \A i \in 1 .. Len(y) : n[i] = y[i].unref
    BY <2>2, <2>5, <1>3
  <2>7. n = [i \in 1 .. Len(y) |-> y[i].unref]
    BY <2>2, <2>5, <2>6
  <2>8. Head(items).unref = Head(Numbers(items))
    BY <2>2, <2>5, <1>3
  <2> QED BY <2>1, <2>2, <2>3, <2>4, <2>7, <2>8 DEF Numbers
<1> QED BY <1>2, <1>5, <1>6

\* What an operation on the queue leaves alone.
Keeps(v, w) == v.status = w.status /\ v.lwsi = w.lwsi /\ v.promise = w.promise

\* The invariant of sending depends on what concerns it only.
LEMMA SameSending ==
  ASSUME NEW v, NEW w, v.sendq = w.sendq, v.returned = w.returned,
         v.wire = w.wire, v.sent = w.sent
  PROVE  SendInv(v) <=> SendInv(w)
BY DEF SendInv

\* The types of a socket's fields.
LEMMA Fields ==
  ASSUME NEW w \in Sockets
  PROVE  /\ w.sendq.items \in Seq(Items) /\ w.returned \in Seq(Returns)
         /\ w.wire \in Seq(Nat) /\ w.sent \in Nat
         /\ w.status \in {CONNECTING, OPEN, CLOSING, CLOSED}
         /\ w.promise \in {"none", "pending", "resolved", "rejected"}
         /\ w.lwsi \in BOOLEAN
BY DEF Sockets, Items, Returns

\* send() keeps the invariant, whatever becomes of the message.
LEMMA SendKeeps ==
  ASSUME NEW w \in Sockets, SendInv(w), NEW empty \in BOOLEAN
  PROVE  /\ minnet_ws_send(w, empty) \in Sockets
         /\ SendInv(minnet_ws_send(w, empty))
         /\ Keeps(minnet_ws_send(w, empty), w)
<1>1. PICK v : v = minnet_ws_send(w, empty)
  OBVIOUS
<1>2. PICK i \in Nat : i = w.sent + 1
  BY Fields
<1>3. Sending(Numbers(w.sendq.items), w.returned, w.wire, w.sent)
  BY DEF SendInv
<1>4. Numbers(w.sendq.items) \in Seq(Nat)
  <2>1. Item(<<>>) \in Items
    BY DEF Item, Items
  <2> QED BY <2>1, Fields, QueueNumbers
<1>a. /\ \A r \in Returns : Append(w.returned, r) \in Seq(Returns)
      /\ Append(w.wire, i) \in Seq(Nat)
  BY Fields
<1>5. CASE ~w.lwsi
  <2>1. v = [w EXCEPT !.sent = i, !.returned = Append(@, "undefined")]
    BY <1>1, <1>2, <1>5 DEF minnet_ws_send
  <2>2. v \in Sockets
    BY <2>1, <1>2, <1>a DEF Sockets, Returns
  <2>a. Keeps(v, w)
    BY <2>1 DEF Sockets, Keeps
  <2>3. /\ v.sendq = w.sendq /\ v.wire = w.wire /\ v.sent = w.sent + 1
        /\ v.returned = Append(w.returned, "undefined")
    BY <2>1, <1>2 DEF Sockets
  <2>4. SendInv(v)
    BY <2>3, <1>3, <1>4, Fields, SendsNothing DEF SendInv
  <2> QED BY <1>1, <2>2, <2>a, <2>4
<1>6. CASE w.lwsi /\ w.writable
  <2>1. v = [w EXCEPT !.wire = Append(@, i), !.sent = i, !.returned = Append(@, "number")]
    BY <1>1, <1>2, <1>6 DEF minnet_ws_send, Sockets
  <2>2. v \in Sockets
    BY <2>1, <1>2, <1>a DEF Sockets, Returns
  <2>a. Keeps(v, w)
    BY <2>1 DEF Sockets, Keeps
  <2>3. /\ v.sendq = w.sendq /\ v.wire = Append(w.wire, w.sent + 1)
        /\ v.sent = w.sent + 1 /\ v.returned = Append(w.returned, "number")
    BY <2>1, <1>2 DEF Sockets
  <2>4. SendInv(v)
    BY <2>3, <1>3, <1>4, Fields, SendsDirectly DEF SendInv
  <2> QED BY <1>1, <2>2, <2>a, <2>4
<1>7. CASE w.lwsi /\ ~w.writable
  <2>1. PICK m : m = Message(i, empty)
    OBVIOUS
  <2>2. m \in Items /\ m.unref = i
    <3>1. <<>> \in Seq(Nat) /\ <<i>> \in Seq(Nat)
      OBVIOUS
    <3>2. m = [block |-> IF empty THEN <<>> ELSE <<i>>, done |-> FALSE, unref |-> i]
      BY <2>1 DEF Message, Item
    <3> QED BY <3>1, <3>2 DEF Items
  <2>3. PICK u : u = [w EXCEPT !.sendq.items = Append(@, m)]
    OBVIOUS
  <2>4. /\ u.status = w.status /\ u.lwsi = w.lwsi /\ u.promise = w.promise
        /\ u.returned = w.returned /\ u.wire = w.wire /\ u.sent = w.sent
        /\ u.sendq.items = Append(w.sendq.items, m)
    BY <2>3 DEF Sockets
  <2>5. Append(w.sendq.items, m) \in Seq(Items)
    BY <2>2, Fields, QueueNumbers
  <2>6. u \in Sockets
    BY <2>3, <2>5 DEF Sockets, Items
  <2>7. PICK x : x = session_want_write(u)
    OBVIOUS
  <2>8. x \in Sockets /\ Keeps(x, w) /\ x.sendq = u.sendq /\ x.wire = w.wire
                      /\ x.sent = w.sent /\ x.returned = w.returned
    BY <2>4, <2>6, <2>7 DEF session_want_write, Sockets, Keeps
  <2>9. v = [x EXCEPT !.sent = i, !.returned = Append(@, "pending")]
    BY <1>1, <1>2, <1>7, <2>1, <2>3, <2>7 DEF minnet_ws_send, ws_enqueue
  <2>a. v \in Sockets
    BY <2>8, <2>9, <1>2, <1>a DEF Sockets, Returns
  <2>10. /\ Keeps(v, w)
         /\ v.sendq.items = Append(w.sendq.items, m) /\ v.wire = w.wire
         /\ v.sent = w.sent + 1 /\ v.returned = Append(w.returned, "pending")
    BY <2>4, <2>8, <2>9, <1>2 DEF Sockets, Keeps
  <2>11. Numbers(v.sendq.items) = Append(Numbers(w.sendq.items), w.sent + 1)
    BY <2>2, <2>10, <1>2, Fields, QueueNumbers
  <2>12. SendInv(v)
    BY <2>10, <2>11, <1>3, <1>4, Fields, SendsLater DEF SendInv
  <2> QED BY <1>1, <2>a, <2>10, <2>12
<1>8. w.lwsi \in BOOLEAN /\ w.writable \in BOOLEAN
  BY DEF Sockets
<1> QED BY <1>5, <1>6, <1>7, <1>8

\* A writable event keeps the invariant: one message is written, or none is left.
LEMMA WritableKeeps ==
  ASSUME NEW w \in Sockets, SendInv(w)
  PROVE  /\ session_writable(w) \in Sockets
         /\ SendInv(session_writable(w))
         /\ Keeps(session_writable(w), w)
<1>1. PICK written : written = IF queue_empty(w.sendq)
                 THEN w
                 ELSE [w EXCEPT !.sendq = queue_next(@),
                                !.returned = Resolve(@, queue_next_calls(w.sendq)),
                                !.wire = Append(@, queue_front(w.sendq).unref)]
  OBVIOUS
<1>2. written \in Sockets /\ SendInv(written) /\ Keeps(written, w)
  <2>1. CASE w.sendq.items = <<>>
    BY <2>1, <1>1 DEF queue_empty, Keeps
  <2>2. CASE w.sendq.items # <<>>
    <3>1. PICK items \in Seq(Items) : items = w.sendq.items
      BY Fields
    <3>2. PICK m \in Items : m = Head(items)
      BY <3>1, <2>2, QueueNumbers
    <3>3. /\ Tail(items) \in Seq(Items)
          /\ Numbers(items) \in Seq(Nat) /\ Numbers(items) # <<>>
          /\ Numbers(Tail(items)) = Tail(Numbers(items))
          /\ m.unref = Head(Numbers(items))
      BY <3>1, <3>2, <2>2, QueueNumbers
    <3>4. Sending(Numbers(items), w.returned, w.wire, w.sent)
      BY <3>1 DEF SendInv
    <3>5. m.unref \in Nat /\ m.unref # 0 /\ m.done = FALSE
      <4>1. 1 \in 1 .. Len(Numbers(items)) /\ Head(Numbers(items)) = Numbers(items)[1]
        BY <3>3
      <4>2. Numbers(items)[1] \in 1 .. w.sent
        BY <4>1, <3>4 DEF Sending, Recorded
      <4>3. m.unref \in 1 .. w.sent
        BY <4>1, <4>2, <3>3
      <4>4. w.sent \in Nat
        BY Fields
      <4>5. m.unref \in Nat /\ m.unref # 0
        BY <4>3, <4>4
      <4> QED BY <4>5, <3>2, ItemFields
    <3>6. PICK calls : calls = queue_next_calls(w.sendq)
      OBVIOUS
    <3>7. calls = <<m.unref, m.unref>>
      BY <3>1, <3>2, <3>5, <3>6, <2>2 DEF queue_next_calls, queue_front, queue_empty
    <3>8. ToSet(calls) = {m.unref}
      BY <3>7 DEF ToSet
    <3>9. PICK r : r = Resolve(w.returned, calls)
      OBVIOUS
    <3>10. r \in Seq(Returns)
      BY <3>9, Fields DEF Resolve, Returns
    <3>11. written = [w EXCEPT !.sendq.items = Tail(items), !.returned = r,
                               !.wire = Append(@, m.unref)]
      BY <1>1, <3>1, <3>2, <3>5, <3>6, <3>9, <2>2
         DEF queue_empty, queue_next, queue_front, Sockets
    <3>12. written \in Sockets
      <4>1. Append(w.wire, m.unref) \in Seq(Nat)
        BY <3>5, Fields
      <4> QED BY <3>3, <4>1, <3>10, <3>11 DEF Sockets, Items, Returns
    <3>a. Keeps(written, w)
      BY <3>11 DEF Sockets, Keeps
    <3>13. /\ written.sendq.items = Tail(items) /\ written.returned = r
           /\ written.wire = Append(w.wire, m.unref) /\ written.sent = w.sent
      BY <3>11 DEF Sockets
    <3>14. Sending(Tail(Numbers(items)), r, Append(w.wire, m.unref), w.sent)
      BY <3>3, <3>4, <3>8, <3>9, Fields, WritesFront
    <3>15. SendInv(written)
      BY <3>3, <3>13, <3>14 DEF SendInv
    <3> QED BY <3>12, <3>a, <3>15
  <2> QED BY <2>1, <2>2
<1>3. PICK done : done = [written EXCEPT !.want_write = FALSE]
  OBVIOUS
<1>4. /\ done \in Sockets /\ Keeps(done, w)
      /\ done.sendq = written.sendq /\ done.returned = written.returned
      /\ done.wire = written.wire /\ done.sent = written.sent
  BY <1>2, <1>3 DEF Sockets, Keeps
<1>5. SendInv(done)
  BY <1>2, <1>4, SameSending
<1>6. PICK x : x = session_want_write(done)
  OBVIOUS
<1>7. /\ x \in Sockets /\ Keeps(x, w)
      /\ x.sendq = done.sendq /\ x.returned = done.returned
      /\ x.wire = done.wire /\ x.sent = done.sent
  BY <1>4, <1>6 DEF session_want_write, Sockets, Keeps
<1>8. SendInv(x)
  BY <1>5, <1>7, SameSending
<1>9. session_writable(w) = x \/ session_writable(w) = done
  BY <1>1, <1>3, <1>6 DEF session_writable
<1> QED BY <1>4, <1>5, <1>7, <1>8, <1>9

-----------------------------------------------------------------------------
\* The connection.

\* What the callbacks about the connection set of its socket.
Marked(w, status, promise, lwsi) ==
  [w EXCEPT !.status = status, !.promise = promise, !.lwsi = lwsi]

\* A socket of which they have been set.
IsMarked(v, status, promise, lwsi) ==
  /\ v \in Sockets /\ SendInv(v)
  /\ v.status = status /\ v.promise = promise /\ v.lwsi = lwsi

\* Setting them keeps the type and what concerns sending.
LEMMA StatusSet ==
  ASSUME NEW w \in Sockets, SendInv(w),
         NEW status \in {CONNECTING, OPEN, CLOSING, CLOSED},
         NEW promise \in {"none", "pending", "resolved", "rejected"},
         NEW lwsi \in BOOLEAN
  PROVE  IsMarked(Marked(w, status, promise, lwsi), status, promise, lwsi)
<1>1. PICK v : v = Marked(w, status, promise, lwsi)
  OBVIOUS
<1>2. /\ v.sendq = w.sendq /\ v.returned = w.returned
      /\ v.wire = w.wire /\ v.sent = w.sent
  BY <1>1 DEF Sockets, Marked
<1>3. SendInv(v)
  BY <1>2, SameSending
<1>4. v \in Sockets /\ v.status = status /\ v.promise = promise /\ v.lwsi = lwsi
  BY <1>1 DEF Sockets, Marked
<1> QED BY <1>1, <1>3, <1>4 DEF IsMarked

\* send() has returned something for every message it was given.
LEMMA SendInvCounts ==
  ASSUME NEW w, SendInv(w)
  PROVE  Len(w.returned) = w.sent
BY DEF SendInv, Sending, Recorded

\* The statuses are different, and in order.
LEMMA StatusOrder ==
  CONNECTING = 0 /\ OPEN = 1 /\ CLOSING = 2 /\ CLOSED = 3
BY DEF CONNECTING, OPEN, CLOSING, CLOSED

\* The invariant holds of the initial states.
LEMMA InitIInv == Init => IInv
<1> SUFFICES ASSUME Init PROVE IInv
  OBVIOUS
<1>1. ws = [ws_new EXCEPT !.lwsi = FALSE] /\ told = <<>> /\ link = "none" /\ side \in Sides
  BY DEF Init
<1>2. ws = Marked(ws_new, CONNECTING, "none", FALSE)
  BY <1>1, NewSocket DEF Sockets, Marked
<1>3. /\ ws \in Sockets /\ SendInv(ws)
      /\ ws.status = CONNECTING /\ ws.promise = "none" /\ ws.lwsi = FALSE
  <2>1. ws_new \in Sockets /\ SendInv(ws_new) /\ CONNECTING \in {CONNECTING, OPEN, CLOSING, CLOSED}
    BY <1>2, NewSocket
  <2>2. "none" \in {"none", "pending", "resolved", "rejected"} /\ FALSE \in BOOLEAN
    BY <1>2, NewSocket
  <2>3. IsMarked(ws, CONNECTING, "none", FALSE)
    BY <1>2, NewSocket, <2>1, <2>2, StatusSet
  <2> QED BY <2>3 DEF IsMarked
<1>4. \A e : ~Told(e)
  BY <1>1 DEF Told, ToSet
<1>5. ConnectionOK
  <2>1. told \in Seq({"connect", "message", "close", "error"})
    BY <1>1
  <2> QED BY <1>1, <1>3, <2>1, SendInvCounts, SidesAssumption DEF ConnectionOK, Links
<1>6. LifeInv
  BY <1>1, <1>3, <1>4, StatusOrder DEF LifeInv
<1>7. NoDanglingSocket /\ ServerClosedOnce /\ CloseIsTold /\ PromiseSettled
  BY <1>1, <1>3 DEF NoDanglingSocket, ServerClosedOnce, CloseIsTold, PromiseSettled
<1> QED BY <1>3, <1>5, <1>6, <1>7 DEF IInv

\* The callbacks of the script so far, after one more of them.
LEMMA TellsMore ==
  ASSUME told \in Seq(Events), NEW e \in Events, told' = Append(told, e)
  PROVE  /\ told' \in Seq(Events)
         /\ \A x : Told(x)' <=> Told(x) \/ x = e
         /\ e = "close" /\ ~Told("close") =>
              \A i \in 1 .. Len(told') : told'[i] = "close" => i = Len(told')
         /\ e # "close" /\ ~Told("close") =>
              \A i \in 1 .. Len(told') : told'[i] # "close"
<1>1. /\ told' \in Seq(Events)
      /\ ToSet(told') = ToSet(told) \cup {e}
      /\ Len(told') = Len(told) + 1
      /\ \A i \in 1 .. Len(told) : told'[i] = told[i]
      /\ told'[Len(told) + 1] = e
  BY ToldMore
<1>2. \A x : Told(x)' <=> Told(x) \/ x = e
  BY <1>1 DEF Told
<1>3. ASSUME ~Told("close"), NEW i \in 1 .. Len(told)
      PROVE  told[i] # "close"
  BY <1>3 DEF Told, ToSet
<1>4. \A i \in 1 .. Len(told') : i \in 1 .. Len(told) \/ i = Len(told')
  BY <1>1
<1>5. ASSUME ~Told("close"), NEW i \in 1 .. Len(told'), told'[i] = "close"
      PROVE  i = Len(told') /\ e = "close"
  BY <1>1, <1>3, <1>4, <1>5
<1> QED BY <1>1, <1>2, <1>5

\* A step that leaves the connection as it is: the socket keeps what does not
\* concern sending.
LEMMA SocketStep ==
  ASSUME IInv, ws' \in Sockets, SendInv(ws'), Keeps(ws', ws),
         UNCHANGED <<side, link, told>>
  PROVE  IInv'
<1>1. \A x : Told(x)' = Told(x)
  BY DEF Told
<1>2. ConnectionOK'
  BY SendInvCounts DEF IInv, ConnectionOK
<1>3. LifeInv'
  BY <1>1 DEF IInv, LifeInv, Keeps
<1>4. (NoDanglingSocket /\ ServerClosedOnce /\ CloseIsTold /\ PromiseSettled)'
  BY <1>1 DEF IInv, NoDanglingSocket, ServerClosedOnce, CloseIsTold, PromiseSettled, Keeps
<1> QED BY <1>2, <1>3, <1>4 DEF IInv

\* A step that closes the socket, with what the script is told of it.
LEMMA ClosesStep ==
  ASSUME IInv, Closes("close"), link \in {"open", "peer_closed", "local_closed"},
         link' \in {"peer_closed", "closed"}
  PROVE  IInv'
<1>1. /\ ws \in Sockets /\ SendInv(ws) /\ told \in Seq(Events)
      /\ side \in Sides /\ side \in {"server", "client"}
  BY DEF IInv, ConnectionOK, Events
<1>2. ws.promise # "pending" \/ side = "server"
  BY <1>1 DEF IInv, PromiseSettled
<1>3. CASE side = "client"
  <2>1. /\ ws' = [ws EXCEPT !.status = CLOSING]
        /\ told' = Append(told, "close") /\ UNCHANGED side
    BY <1>1, <1>2, <1>3, ToldMore DEF Closes, client_closed, Events, Sockets
  <2>2. ws' = Marked(ws, CLOSING, ws.promise, ws.lwsi)
    BY <1>1, <2>1 DEF Sockets, Marked
  <2>3. /\ ws' \in Sockets /\ SendInv(ws')
        /\ ws'.status = CLOSING /\ ws'.promise = ws.promise /\ ws'.lwsi = ws.lwsi
    <3>1. ws \in Sockets /\ SendInv(ws) /\ CLOSING \in {CONNECTING, OPEN, CLOSING, CLOSED}
      BY <1>1, <2>2, Fields
    <3>2. ws.promise \in {"none", "pending", "resolved", "rejected"} /\ ws.lwsi \in BOOLEAN
      BY <1>1, <2>2, Fields
    <3>3. IsMarked(ws', CLOSING, ws.promise, ws.lwsi)
      BY <1>1, <2>2, Fields, <3>1, <3>2, StatusSet
    <3> QED BY <3>3 DEF IsMarked
  <2>4. told' \in Seq(Events) /\ \A x : Told(x)' <=> Told(x) \/ x = "close"
    BY <1>1, <2>1, TellsMore DEF Events
  <2>5. ConnectionOK'
    BY <1>1, <2>1, <2>3, <2>4, SendInvCounts DEF ConnectionOK, Links, Events
  <2>6. LifeInv'
    BY <1>3, <2>1, <2>3, <2>4, StatusOrder DEF LifeInv
  <2>7. (NoDanglingSocket /\ ServerClosedOnce /\ CloseIsTold /\ PromiseSettled)'
    BY <1>3, <1>2, <2>1, <2>3, <2>4
       DEF IInv, NoDanglingSocket, ServerClosedOnce, CloseIsTold, PromiseSettled
  <2> QED BY <2>3, <2>5, <2>6, <2>7 DEF IInv
<1>4. CASE side = "server" /\ ws.status < CLOSING
  <2>1. /\ ws' = [ws EXCEPT !.status = CLOSING]
        /\ told' = Append(told, "close") /\ UNCHANGED side
    BY <1>1, <1>4, ToldMore DEF Closes, server_closed, Events
  <2>2. ws' = Marked(ws, CLOSING, ws.promise, ws.lwsi)
    BY <1>1, <2>1 DEF Sockets, Marked
  <2>3. /\ ws' \in Sockets /\ SendInv(ws')
        /\ ws'.status = CLOSING /\ ws'.promise = ws.promise /\ ws'.lwsi = ws.lwsi
    <3>1. ws \in Sockets /\ SendInv(ws) /\ CLOSING \in {CONNECTING, OPEN, CLOSING, CLOSED}
      BY <1>1, <2>2, Fields
    <3>2. ws.promise \in {"none", "pending", "resolved", "rejected"} /\ ws.lwsi \in BOOLEAN
      BY <1>1, <2>2, Fields
    <3>3. IsMarked(ws', CLOSING, ws.promise, ws.lwsi)
      BY <1>1, <2>2, Fields, <3>1, <3>2, StatusSet
    <3> QED BY <3>3 DEF IsMarked
  <2>4. ~Told("close")
    BY <1>4 DEF IInv, LifeInv
  <2>5. /\ told' \in Seq(Events) /\ \A x : Told(x)' <=> Told(x) \/ x = "close"
        /\ \A i \in 1 .. Len(told') : told'[i] = "close" => i = Len(told')
    BY <1>1, <2>1, <2>4, TellsMore DEF Events
  <2>6. ConnectionOK'
    BY <1>1, <2>1, <2>3, <2>5, SendInvCounts DEF ConnectionOK, Links, Events
  <2>7. LifeInv'
    BY <1>4, <2>1, <2>3, <2>5, StatusOrder DEF LifeInv
  <2>8. (NoDanglingSocket /\ ServerClosedOnce /\ CloseIsTold /\ PromiseSettled)'
    BY <1>4, <2>1, <2>3, <2>5
       DEF IInv, NoDanglingSocket, ServerClosedOnce, CloseIsTold, PromiseSettled
  <2> QED BY <2>3, <2>6, <2>7, <2>8 DEF IInv
<1>5. CASE side = "server" /\ ~(ws.status < CLOSING)
  <2>1. /\ ws' = ws /\ told' = told \o <<>> /\ UNCHANGED side
    BY <1>5 DEF Closes, server_closed
  <2>2. told' = told
    BY <1>1, <2>1
  <2>3. \A x : Told(x)' = Told(x)
    BY <2>2 DEF Told
  <2>4. Told("close") \/ ws.status = CLOSED
    BY <1>1, <1>5, Fields, StatusOrder DEF IInv, LifeInv
  <2>5. ConnectionOK'
    BY <1>1, <2>1, <2>2 DEF IInv, ConnectionOK, Links
  <2>6. LifeInv'
    BY <1>5, <2>1, <2>2, <2>3, <2>4 DEF IInv, LifeInv
  <2>7. (NoDanglingSocket /\ ServerClosedOnce /\ CloseIsTold /\ PromiseSettled)'
    BY <1>5, <2>1, <2>2, <2>3
       DEF IInv, NoDanglingSocket, ServerClosedOnce, CloseIsTold, PromiseSettled
  <2> QED BY <1>1, <2>1, <2>5, <2>6, <2>7 DEF IInv
<1> QED BY <1>1, <1>3, <1>4, <1>5

\* Every step keeps the invariant.
LEMMA NextIInv == IInv /\ [Next]_vars => IInv'
<1> SUFFICES ASSUME IInv, [Next]_vars PROVE IInv'
  OBVIOUS
<1>1. /\ ws \in Sockets /\ SendInv(ws) /\ told \in Seq(Events) /\ link \in Links
      /\ side \in Sides /\ side \in {"server", "client"}
  BY DEF IInv, ConnectionOK, Events
<1>2. CASE Create
  <2>1. PICK p \in {"none", "pending"} : ws' = [ws_new EXCEPT !.promise = p]
    BY <1>2 DEF Create
  <2>2. ws' = Marked(ws_new, CONNECTING, p, TRUE)
    BY <2>1, NewSocket DEF Sockets, Marked
  <2>3. /\ ws' \in Sockets /\ SendInv(ws')
        /\ ws'.status = CONNECTING /\ ws'.promise = p /\ ws'.lwsi = TRUE
    <3>1. ws_new \in Sockets /\ SendInv(ws_new) /\ CONNECTING \in {CONNECTING, OPEN, CLOSING, CLOSED}
      BY <2>2, NewSocket
    <3>2. p \in {"none", "pending", "resolved", "rejected"} /\ TRUE \in BOOLEAN
      BY <2>2, NewSocket
    <3>3. IsMarked(ws', CONNECTING, p, TRUE)
      BY <2>2, NewSocket, <3>1, <3>2, StatusSet
    <3> QED BY <3>3 DEF IsMarked
  <2>4. told' = told /\ told = <<>> /\ side' = side /\ link' = "created"
    BY <1>2 DEF Create, IInv, LifeInv
  <2>5. \A x : ~Told(x)'
    BY <2>4 DEF Told, ToSet
  <2>6. ConnectionOK'
    BY <1>1, <2>3, <2>4, SendInvCounts DEF ConnectionOK, Links
  <2>7. LifeInv'
    BY <2>3, <2>4, <2>5, StatusOrder DEF LifeInv
  <2>8. (NoDanglingSocket /\ ServerClosedOnce /\ CloseIsTold /\ PromiseSettled)'
    BY <2>3, <2>4, <2>5
       DEF NoDanglingSocket, ServerClosedOnce, CloseIsTold, PromiseSettled
  <2> QED BY <2>3, <2>6, <2>7, <2>8 DEF IInv
<1>3. CASE Established
  <2>1. PICK p : p = IF ws.promise = "pending" THEN "resolved" ELSE ws.promise
    OBVIOUS
  <2>2. told = <<>> /\ ws.promise # "rejected"
    BY <1>3 DEF Established, IInv, LifeInv
  <2>3. p \in {"none", "resolved"}
    BY <1>1, <2>1, <2>2, Fields
  <2>4. ws' = Marked(ws, OPEN, p, ws.lwsi)
    BY <1>1, <1>3, <2>1 DEF Established, Sockets, Marked
  <2>5. /\ ws' \in Sockets /\ SendInv(ws')
        /\ ws'.status = OPEN /\ ws'.promise = p /\ ws'.lwsi = ws.lwsi
    <3>1. ws \in Sockets /\ SendInv(ws) /\ OPEN \in {CONNECTING, OPEN, CLOSING, CLOSED}
      BY <1>1, <2>3, <2>4, Fields
    <3>2. p \in {"none", "pending", "resolved", "rejected"} /\ ws.lwsi \in BOOLEAN
      BY <1>1, <2>3, <2>4, Fields
    <3>3. IsMarked(ws', OPEN, p, ws.lwsi)
      BY <1>1, <2>3, <2>4, Fields, <3>1, <3>2, StatusSet
    <3> QED BY <3>3 DEF IsMarked
  <2>6. told' = Append(told, "connect") /\ side' = side /\ link' = "open"
    BY <1>3 DEF Established, Emit
  <2>7. ~Told("close")
    BY <2>2 DEF Told, ToSet
  <2>8. /\ told' \in Seq(Events) /\ \A x : Told(x)' <=> Told(x) \/ x = "connect"
        /\ \A i \in 1 .. Len(told') : told'[i] # "close"
    BY <1>1, <2>6, <2>7, TellsMore DEF Events
  <2>9. ConnectionOK'
    BY <1>1, <2>5, <2>6, <2>8, SendInvCounts DEF ConnectionOK, Links, Events
  <2>10. LifeInv'
    BY <2>5, <2>6, <2>7, <2>8, StatusOrder DEF LifeInv
  <2>11. (NoDanglingSocket /\ ServerClosedOnce /\ CloseIsTold /\ PromiseSettled)'
    BY <2>3, <2>5, <2>6, <2>8
       DEF NoDanglingSocket, ServerClosedOnce, CloseIsTold, PromiseSettled
  <2> QED BY <2>5, <2>9, <2>10, <2>11 DEF IInv
<1>4. CASE Writeable
  <2>1. PICK w : w = [ws EXCEPT !.armed = FALSE, !.writable = @ \/ side = "client"]
    OBVIOUS
  <2>2. /\ w \in Sockets /\ Keeps(w, ws)
        /\ w.sendq = ws.sendq /\ w.returned = ws.returned
        /\ w.wire = ws.wire /\ w.sent = ws.sent
    BY <1>1, <2>1 DEF Sockets, Keeps
  <2>3. SendInv(w)
    BY <1>1, <2>2, SameSending
  <2>4. ws' = session_writable(w) /\ UNCHANGED <<side, link, told>>
    BY <1>4, <2>1 DEF Writeable
  <2>5. ws' \in Sockets /\ SendInv(ws') /\ Keeps(ws', w)
    BY <2>2, <2>3, <2>4, WritableKeeps
  <2> QED BY <2>2, <2>4, <2>5, SocketStep DEF Keeps
<1>5. CASE Receive
  <2>1. ws' = ws /\ side' = side /\ link' = link /\ link = "open"
    BY <1>5 DEF Receive
  <2>2. told' = told \/ told' = Append(told, "message")
    BY <1>5 DEF Receive, Emit
  <2>3. CASE told' = told
    BY <1>1, <2>1, <2>3, SocketStep DEF Keeps
  <2>4. CASE told' = Append(told, "message")
    <3>1. ~Told("close") /\ ws.status = OPEN
      BY <2>1 DEF IInv, LifeInv
    <3>2. /\ told' \in Seq(Events) /\ \A x : Told(x)' <=> Told(x) \/ x = "message"
          /\ \A i \in 1 .. Len(told') : told'[i] # "close"
      BY <1>1, <2>4, <3>1, TellsMore DEF Events
    <3>3. ConnectionOK'
      BY <2>1, <3>2 DEF IInv, ConnectionOK, Events
    <3>4. LifeInv'
      BY <2>1, <3>1, <3>2, StatusOrder DEF LifeInv
    <3>5. (NoDanglingSocket /\ ServerClosedOnce /\ CloseIsTold /\ PromiseSettled)'
      BY <2>1, <3>2 DEF IInv, NoDanglingSocket, ServerClosedOnce, CloseIsTold, PromiseSettled
    <3> QED BY <1>1, <2>1, <3>3, <3>4, <3>5 DEF IInv
  <2> QED BY <2>2, <2>3, <2>4
<1>6. CASE ConnectionError
  <2>1. PICK p : p = IF ws.promise = "pending" THEN "rejected" ELSE ws.promise
    OBVIOUS
  <2>2. told = <<>> /\ side = "client"
    BY <1>6 DEF ConnectionError, IInv, LifeInv
  <2>3. p \in {"none", "resolved", "rejected"}
    BY <1>1, <2>1, Fields
  <2>4. ws' = Marked(ws, CLOSING, p, ws.lwsi)
    BY <1>1, <1>6, <2>1, <2>2 DEF ConnectionError, Closes, client_closed, Sockets, Marked
  <2>5. /\ ws' \in Sockets /\ SendInv(ws')
        /\ ws'.status = CLOSING /\ ws'.promise = p /\ ws'.lwsi = ws.lwsi
    <3>1. ws \in Sockets /\ SendInv(ws) /\ CLOSING \in {CONNECTING, OPEN, CLOSING, CLOSED}
      BY <1>1, <2>3, <2>4, Fields
    <3>2. p \in {"none", "pending", "resolved", "rejected"} /\ ws.lwsi \in BOOLEAN
      BY <1>1, <2>3, <2>4, Fields
    <3>3. IsMarked(ws', CLOSING, p, ws.lwsi)
      BY <1>1, <2>3, <2>4, Fields, <3>1, <3>2, StatusSet
    <3> QED BY <3>3 DEF IsMarked
  <2>6. told' = Append(told, "error") /\ side' = side /\ link' = "failed"
    BY <1>1, <1>6, <2>2, ToldMore DEF ConnectionError, Closes, client_closed, Events
  <2>7. \A x : ~Told(x)
    BY <2>2 DEF Told, ToSet
  <2>8. told' \in Seq(Events) /\ \A x : Told(x)' <=> x = "error"
    BY <1>1, <2>6, <2>7, TellsMore DEF Events
  <2>9. ConnectionOK'
    BY <1>1, <2>5, <2>6, <2>8, SendInvCounts DEF ConnectionOK, Links, Events
  <2>10. LifeInv'
    BY <2>2, <2>5, <2>6, <2>8, StatusOrder DEF LifeInv
  <2>11. (NoDanglingSocket /\ ServerClosedOnce /\ CloseIsTold /\ PromiseSettled)'
    BY <2>2, <2>3, <2>5, <2>6, <2>8
       DEF NoDanglingSocket, ServerClosedOnce, CloseIsTold, PromiseSettled
  <2> QED BY <2>5, <2>9, <2>10, <2>11 DEF IInv
<1>7. CASE PeerInitiatedClose
  BY <1>7, ClosesStep DEF PeerInitiatedClose
<1>8. CASE Closed
  BY <1>8, ClosesStep DEF Closed
<1>9. CASE Destroy
  <2>1. PICK p : p = IF ws.promise = "pending" THEN "resolved" ELSE ws.promise
    OBVIOUS
  <2>2. p \in {"none", "resolved", "rejected"} /\ (p = "rejected" => ws.promise = "rejected")
    BY <1>1, <2>1, Fields
  <2>3. ws' = Marked(ws, ws.status, p, FALSE)
    BY <1>1, <1>9, <2>1 DEF Destroy, Detached, Sockets, Marked
  <2>4. /\ ws' \in Sockets /\ SendInv(ws')
        /\ ws'.status = ws.status /\ ws'.promise = p /\ ws'.lwsi = FALSE
    <3>1. ws \in Sockets /\ SendInv(ws) /\ ws.status \in {CONNECTING, OPEN, CLOSING, CLOSED}
      BY <1>1, <2>2, <2>3, Fields
    <3>2. p \in {"none", "pending", "resolved", "rejected"} /\ FALSE \in BOOLEAN
      BY <1>1, <2>2, <2>3, Fields
    <3>3. IsMarked(ws', ws.status, p, FALSE)
      BY <1>1, <2>2, <2>3, Fields, <3>1, <3>2, StatusSet
    <3> QED BY <3>3 DEF IsMarked
  <2>5. told' = told /\ side' = side /\ link' = "destroyed"
    BY <1>9 DEF Destroy
  <2>6. \A x : Told(x)' = Told(x)
    BY <2>5 DEF Told
  <2>7. Told("connect") => Told("close") \/ (side = "server" /\ ws.status = CLOSED)
    <3>1. CASE link = "created"
      BY <3>1 DEF IInv, LifeInv, Told, ToSet
    <3>2. CASE link = "failed" \/ link = "closed"
      BY <3>2 DEF IInv, LifeInv
    <3> QED BY <1>9, <3>1, <3>2 DEF Destroy
  <2>8. ConnectionOK'
    BY <1>1, <2>4, <2>5, SendInvCounts DEF ConnectionOK, Links, Events
  <2>9. LifeInv'
    BY <2>4, <2>5, <2>6 DEF IInv, LifeInv
  <2>10. (NoDanglingSocket /\ ServerClosedOnce /\ CloseIsTold /\ PromiseSettled)'
    BY <2>2, <2>4, <2>5, <2>6, <2>7
       DEF IInv, NoDanglingSocket, ServerClosedOnce, CloseIsTold, PromiseSettled
  <2> QED BY <2>4, <2>8, <2>9, <2>10 DEF IInv
<1>10. CASE Send
  <2>1. PICK empty \in BOOLEAN : ws' = minnet_ws_send(ws, empty)
    BY <1>10 DEF Send
  <2>2. UNCHANGED <<side, link, told>>
    BY <1>10 DEF Send
  <2>3. ws' \in Sockets /\ SendInv(ws') /\ Keeps(ws', ws)
    BY <1>1, <2>1, SendKeeps
  <2> QED BY <2>2, <2>3, SocketStep
<1>11. CASE Close
  <2>1. link \in {"open", "peer_closed", "local_closed"}
    BY <1>11 DEF Close, HasSocket, IInv, NoDanglingSocket
  <2>2. ws' = Marked(ws, CLOSED, ws.promise, FALSE)
    BY <1>1, <1>11 DEF Close, Sockets, Marked
  <2>3. /\ ws' \in Sockets /\ SendInv(ws')
        /\ ws'.status = CLOSED /\ ws'.promise = ws.promise /\ ws'.lwsi = FALSE
    <3>1. ws \in Sockets /\ SendInv(ws) /\ CLOSED \in {CONNECTING, OPEN, CLOSING, CLOSED}
      BY <1>1, <2>2, Fields
    <3>2. ws.promise \in {"none", "pending", "resolved", "rejected"} /\ FALSE \in BOOLEAN
      BY <1>1, <2>2, Fields
    <3>3. IsMarked(ws', CLOSED, ws.promise, FALSE)
      BY <1>1, <2>2, Fields, <3>1, <3>2, StatusSet
    <3> QED BY <3>3 DEF IsMarked
  <2>4. told' = told /\ side' = side /\ link' = "local_closed"
    BY <1>11 DEF Close
  <2>5. \A x : Told(x)' = Told(x)
    BY <2>4 DEF Told
  <2>6. ConnectionOK'
    BY <1>1, <2>3, <2>4, SendInvCounts DEF ConnectionOK, Links, Events
  <2>7. LifeInv'
    BY <2>3, <2>4, StatusOrder DEF LifeInv
  <2>8. (NoDanglingSocket /\ ServerClosedOnce /\ CloseIsTold /\ PromiseSettled)'
    BY <2>1, <2>3, <2>4, <2>5
       DEF IInv, NoDanglingSocket, ServerClosedOnce, CloseIsTold, PromiseSettled
  <2> QED BY <2>3, <2>6, <2>7, <2>8 DEF IInv
<1>12. CASE UNCHANGED vars
  BY <1>1, <1>12, SocketStep DEF vars, Keeps
<1> QED
  BY <1>2, <1>3, <1>4, <1>5, <1>6, <1>7, <1>8, <1>9, <1>10, <1>11, <1>12 DEF Next

-----------------------------------------------------------------------------

\* The invariant holds of every reachable state.
THEOREM Invariance == Spec => []IInv
BY InitIInv, NextIInv, PTL DEF Spec

\* What send() queued is written in the order it was sent, each message once,
\* however sending, writable events and the end of the connection interleave.
THEOREM SentInOrderHolds == Spec => []SentInOrder
<1>1. IInv => SentInOrder
  <2> SUFFICES ASSUME IInv PROVE SentInOrder
    OBVIOUS
  <2>1. PICK q : q = Numbers(ws.sendq.items)
    OBVIOUS
  <2>2. Ordered(q, ws.returned, ws.wire)
    BY <2>1 DEF IInv, SendInv, Sending
  <2>3. Queued = q
    BY <2>1 DEF Queued, Numbers
  <2>4. PICK written : written = {k \in 1 .. Len(ws.wire) : ws.returned[ws.wire[k]] # "number"}
    OBVIOUS
  <2>5. \A j, k \in written : j < k => ws.wire[j] < ws.wire[k]
    BY <2>2, <2>4 DEF Ordered
  <2>6. \A k \in written, i \in 1 .. Len(q) : ws.wire[k] < q[i]
    BY <2>2, <2>4 DEF Ordered
  <2>7. \A i, j \in 1 .. Len(q) : i < j => q[i] < q[j]
    BY <2>2 DEF Ordered
  <2> QED BY <2>3, <2>4, <2>5, <2>6, <2>7 DEF SentInOrder
<1> QED BY <1>1, Invariance, PTL

\* The promise of send() is pending just while its message is queued and
\* resolved only once the message is written.
THEOREM ResolvedWhenWrittenHolds == Spec => []ResolvedWhenWritten
<1>1. IInv => ResolvedWhenWritten
  <2> SUFFICES ASSUME IInv, NEW i \in 1 .. ws.sent
               PROVE  /\ ws.returned[i] = "resolved" => i \in ToSet(ws.wire)
                      /\ ws.returned[i] = "pending" <=> i \in ToSet(Queued)
    BY DEF ResolvedWhenWritten
  <2>1. PICK q : q = Numbers(ws.sendq.items)
    OBVIOUS
  <2>2. /\ Recorded(q, ws.returned, ws.wire, ws.sent)
        /\ Accounted(q, ws.returned, ws.wire, ws.sent)
    BY <2>1 DEF IInv, SendInv, Sending
  <2>3. /\ Queued = q
        /\ ToSet(q) = {q[k] : k \in 1 .. Len(q)}
        /\ ToSet(ws.wire) = {ws.wire[k] : k \in 1 .. Len(ws.wire)}
    <3>1. ws \in Sockets
      BY DEF IInv, ConnectionOK
    <3>2. DOMAIN ws.wire = 1 .. Len(ws.wire)
      BY <3>1, Fields
    <3>3. q \in Seq(Nat)
      <4>1. Item(<<>>) \in Items
        BY DEF Item, Items
      <4> QED BY <2>1, <3>1, <4>1, Fields, QueueNumbers
    <3>4. DOMAIN q = 1 .. Len(q)
      BY <3>3
    <3> QED BY <2>1, <3>2, <3>4 DEF Queued, Numbers, ToSet
  <2>4. ws.returned[i] = "resolved" => i \in ToSet(ws.wire)
    BY <2>2, <2>3 DEF Accounted
  <2>5. ws.returned[i] = "pending" => i \in ToSet(q)
    BY <2>2, <2>3 DEF Accounted
  <2>6. i \in ToSet(q) => ws.returned[i] = "pending"
    BY <2>2, <2>3 DEF Recorded
  <2> QED BY <2>3, <2>4, <2>5, <2>6
<1> QED BY <1>1, Invariance, PTL

\* The socket a script keeps never points to a connection that was destroyed.
THEOREM NoDanglingSocketHolds == Spec => []NoDanglingSocket
<1>1. IInv => NoDanglingSocket
  BY DEF IInv
<1> QED BY <1>1, Invariance, PTL

\* The server's script is told of the close at most once, and of nothing after.
THEOREM ServerClosedOnceHolds == Spec => []ServerClosedOnce
<1>1. IInv => ServerClosedOnce
  BY DEF IInv
<1> QED BY <1>1, Invariance, PTL

\* A script that was told of the connection is told of its end, unless it is
\* the server's and ended it.
THEOREM CloseIsToldHolds == Spec => []CloseIsTold
<1>1. IInv => CloseIsTold
  BY DEF IInv
<1> QED BY <1>1, Invariance, PTL

\* The promise of the client is settled whichever way its connection goes.
THEOREM PromiseSettledHolds == Spec => []PromiseSettled
<1>1. IInv => PromiseSettled
  BY DEF IInv
<1> QED BY <1>1, Invariance, PTL

-----------------------------------------------------------------------------
\* Writable events.

\* A socket that has bytes to send is armed.
Armed(w) ==
  /\ queue_bytes(w.sendq) > 0 => w.want_write
  /\ w.want_write => w.armed

\* Before the connection is open nothing has been sent.
ArmedInv ==
  /\ link \in {"none", "created"} => queue_bytes(ws.sendq) = 0 /\ ~ws.want_write
  /\ link = "open" => Armed(ws)

\* An empty queue has no bytes.
LEMMA NoBytes == queue_bytes(queue_zero) = 0
BY DEF queue_bytes, queue_data, queue_zero, FlattenSeq

\* Whatever is enqueued, a writable event is asked for, unless it has been.
LEMMA SendArms ==
  ASSUME NEW w \in Sockets, Armed(w), NEW empty \in BOOLEAN
  PROVE  Armed(minnet_ws_send(w, empty))
<1>1. PICK v : v = minnet_ws_send(w, empty)
  OBVIOUS
<1>2. w.lwsi \in BOOLEAN /\ w.writable \in BOOLEAN
  BY DEF Sockets
<1>3. CASE ~w.lwsi \/ w.writable
  <2>1. v.sendq = w.sendq /\ v.want_write = w.want_write /\ v.armed = w.armed
    BY <1>1, <1>2, <1>3 DEF minnet_ws_send, Sockets
  <2> QED BY <1>1, <2>1 DEF Armed
<1>4. CASE w.lwsi /\ ~w.writable
  <2>1. PICK m : m = Message(w.sent + 1, empty)
    OBVIOUS
  <2>2. PICK u : u = [w EXCEPT !.sendq.items = Append(@, m)]
    OBVIOUS
  <2>3. u.want_write = w.want_write /\ u.armed = w.armed
    BY <2>2 DEF Sockets
  <2>4. PICK x : x = session_want_write(u)
    OBVIOUS
  <2>5. x.want_write = TRUE /\ x.armed = TRUE
    BY <2>2, <2>3, <2>4 DEF session_want_write, Sockets, Armed
  <2>6. v = [x EXCEPT !.sent = w.sent + 1, !.returned = Append(@, "pending")]
    BY <1>1, <1>4, <2>1, <2>2, <2>4 DEF minnet_ws_send, ws_enqueue
  <2>7. v.want_write = TRUE /\ v.armed = TRUE
    BY <2>2, <2>4, <2>5, <2>6 DEF session_want_write, Sockets
  <2> QED BY <1>1, <2>7 DEF Armed
<1> QED BY <1>2, <1>3, <1>4

\* After a writable event another one is asked for if there are bytes left.
LEMMA WritableArms ==
  ASSUME NEW w \in Sockets, SendInv(w)
  PROVE  Armed(session_writable(w))
<1>1. PICK written : written = IF queue_empty(w.sendq)
                 THEN w
                 ELSE [w EXCEPT !.sendq = queue_next(@),
                                !.returned = Resolve(@, queue_next_calls(w.sendq)),
                                !.wire = Append(@, queue_front(w.sendq).unref)]
  OBVIOUS
<1>2. PICK done : done = [written EXCEPT !.want_write = FALSE]
  OBVIOUS
<1>3. done.want_write = FALSE
  BY <1>1, <1>2 DEF Sockets
<1>4. PICK x : x = session_want_write(done)
  OBVIOUS
<1>5. x = [done EXCEPT !.want_write = TRUE, !.armed = TRUE]
  BY <1>3, <1>4 DEF session_want_write
<1>6. x.want_write = TRUE /\ x.armed = TRUE
  BY <1>1, <1>2, <1>5 DEF Sockets
<1>7. session_writable(w) = IF queue_bytes(done.sendq) > 0 THEN x ELSE done
  BY <1>1, <1>2, <1>4 DEF session_writable
<1> QED BY <1>3, <1>6, <1>7 DEF Armed

\* The two hold initially and are kept by every step.
LEMMA InitArmed == Init => ArmedInv
BY NoBytes DEF Init, ws_new, ArmedInv

\* Only the writable event and send() touch them while the connection is open.
LEMMA NextArmed == IInv /\ ArmedInv /\ [Next]_vars => ArmedInv'
<1> SUFFICES ASSUME IInv, ArmedInv, [Next]_vars PROVE ArmedInv'
  OBVIOUS
<1>1. ws \in Sockets /\ SendInv(ws)
  BY DEF IInv, ConnectionOK
<1>2. CASE Create
  BY <1>2, NoBytes DEF Create, ws_new, ArmedInv
<1>3. CASE Established
  <2>1. ws'.sendq = ws.sendq /\ ws'.want_write = ws.want_write
    BY <1>1, <1>3 DEF Established, Sockets
  <2>2. link = "created" /\ link' = "open"
    BY <1>3 DEF Established
  <2> QED BY <2>1, <2>2 DEF ArmedInv, Armed
<1>4. CASE Writeable
  <2>1. PICK w : w = [ws EXCEPT !.armed = FALSE, !.writable = @ \/ side = "client"]
    OBVIOUS
  <2>2. /\ w \in Sockets /\ w.sendq = ws.sendq /\ w.returned = ws.returned
        /\ w.wire = ws.wire /\ w.sent = ws.sent
    BY <1>1, <2>1 DEF Sockets
  <2>3. SendInv(w)
    BY <1>1, <2>2, SameSending
  <2>4. ws' = session_writable(w) /\ link = "open" /\ link' = "open"
    BY <1>4, <2>1 DEF Writeable
  <2>5. Armed(ws')
    BY <2>2, <2>3, <2>4, WritableArms
  <2> QED BY <2>4, <2>5 DEF ArmedInv
<1>5. CASE Send
  <2>1. PICK empty \in BOOLEAN : ws' = minnet_ws_send(ws, empty)
    BY <1>5 DEF Send
  <2>2. link' = link /\ link \notin {"none", "created"}
    BY <1>5 DEF Send, HasSocket
  <2>3. link = "open" => Armed(ws')
    BY <1>1, <2>1, SendArms DEF ArmedInv
  <2> QED BY <2>2, <2>3 DEF ArmedInv
<1>6. CASE Receive \/ UNCHANGED vars
  <2>1. ws' = ws /\ link' = link
    BY <1>6 DEF Receive, vars
  <2> QED BY <2>1 DEF ArmedInv, Armed
<1>7. CASE ConnectionError \/ PeerInitiatedClose \/ Closed \/ Destroy \/ Close
  <2>1. link' \notin {"none", "created", "open"}
    BY <1>7 DEF ConnectionError, PeerInitiatedClose, Closed, Destroy, Close
  <2> QED BY <2>1 DEF ArmedInv
<1> QED BY <1>2, <1>3, <1>4, <1>5, <1>6, <1>7 DEF Next

\* While a message with bytes waits on an open connection, libwebsockets has been
\* asked for the writable event that takes it.
THEOREM NeverStuckHolds == Spec => []NeverStuck
<1>1. Init => ArmedInv
  BY InitArmed
<1>2. IInv /\ ArmedInv /\ [Next]_vars => ArmedInv'
  BY NextArmed
<1>3. ArmedInv => NeverStuck
  BY DEF ArmedInv, Armed, NeverStuck
<1> QED BY <1>1, <1>2, <1>3, Invariance, PTL DEF Spec

-----------------------------------------------------------------------------

-----------------------------------------------------------------------------
\* Sequences of sequences.

\* A set of numbers that is not empty has a least one.
LEMMA LeastNat ==
  ASSUME NEW T, T \subseteq Nat, T # {}
  PROVE  \E n \in T : \A m \in T : n =< m
<1>1. PICK n \in T : \A m \in T : ~(<<m, n>> \in OpToRel(<, Nat))
  BY NatLessThanWellFounded, WFMin
<1>2. \A m \in T : ~(m < n)
  BY <1>1 DEF OpToRel
<1> QED BY <1>2

\* f gives what the first elements of s join to (the function FlattenSeq defines).
Joins(s, f) ==
  f = [i \in 1 .. Len(s) |-> IF i = 1 THEN s[i] ELSE f[i - 1] \o s[i]]

\* The first n elements of s join.
LEMMA JoinsPrefix ==
  ASSUME NEW S, NEW s \in Seq(Seq(S)), NEW n \in 1 .. Len(s)
  PROVE  \E h \in [1 .. n -> Seq(S)] :
           \A i \in 1 .. n : h[i] = IF i = 1 THEN s[i] ELSE h[i - 1] \o s[i]
<1> DEFINE Ok(k) == \E h \in [1 .. k -> Seq(S)] :
                      \A i \in 1 .. k : h[i] = IF i = 1 THEN s[i] ELSE h[i - 1] \o s[i]
           T == {k \in 1 .. Len(s) : ~Ok(k)}
<1>0. Len(s) \in Nat /\ \A i \in 1 .. Len(s) : s[i] \in Seq(S)
  OBVIOUS
<1> SUFFICES ASSUME T # {} PROVE FALSE
  OBVIOUS
<1>1. PICK k \in T : \A m \in T : k =< m
  <2>1. T \subseteq Nat
    BY <1>0
  <2> HIDE DEF T
  <2> QED BY <2>1, LeastNat
<1>2. k \in 1 .. Len(s) /\ ~Ok(k)
  BY <1>1
<1>3. CASE k = 1
  <2> DEFINE h == [i \in 1 .. 1 |-> s[1]]
  <2>1. h \in [1 .. 1 -> Seq(S)]
    BY <1>0, <1>2, <1>3
  <2>2. \A i \in 1 .. 1 : h[i] = IF i = 1 THEN s[i] ELSE h[i - 1] \o s[i]
    OBVIOUS
  <2> QED BY <1>2, <1>3, <2>1, <2>2
<1>4. CASE k # 1
  <2>1. k - 1 \in 1 .. Len(s) /\ k \in Nat /\ k - 1 < k /\ k > 1
    BY <1>0, <1>2, <1>4
  <2>2. Ok(k - 1)
    <3>1. ~(k =< k - 1)
      BY <2>1
    <3> QED BY <1>1, <2>1, <3>1
  <2>3. PICK h \in [1 .. k - 1 -> Seq(S)] :
          \A i \in 1 .. k - 1 : h[i] = IF i = 1 THEN s[i] ELSE h[i - 1] \o s[i]
    BY <2>2
  <2> DEFINE e == h[k - 1] \o s[k]
             f == [i \in 1 .. k |-> IF i = k THEN e ELSE h[i]]
  <2>4. e \in Seq(S)
    <3>1. h[k - 1] \in Seq(S) /\ s[k] \in Seq(S)
      BY <1>0, <1>2, <2>1
    <3> QED BY <3>1, ConcatProperties
  <2> HIDE DEF e
  <2>5. \A i \in 1 .. k : i # k => i \in 1 .. k - 1
    BY <2>1
  <2>6. f \in [1 .. k -> Seq(S)]
    BY <2>4, <2>5
  <2>7. \A i \in 1 .. k : f[i] = IF i = 1 THEN s[i] ELSE f[i - 1] \o s[i]
    <3> SUFFICES ASSUME NEW i \in 1 .. k
                 PROVE  f[i] = IF i = 1 THEN s[i] ELSE f[i - 1] \o s[i]
      OBVIOUS
    <3>1. CASE i = k
      <4>1. f[i] = e /\ i # 1 /\ i - 1 \in 1 .. k /\ i - 1 # k
        BY <2>1, <3>1
      <4>2. f[i - 1] = h[k - 1]
        BY <3>1, <4>1
      <4> QED BY <3>1, <4>1, <4>2 DEF e
    <3>2. CASE i # k
      <4>1. f[i] = h[i] /\ i \in 1 .. k - 1
        BY <2>5, <3>2
      <4>2. i # 1 => i - 1 \in 1 .. k /\ i - 1 # k
        BY <2>1, <4>1
      <4>3. i # 1 => f[i - 1] = h[i - 1]
        BY <4>2
      <4> QED BY <2>3, <4>1, <4>3
    <3> QED BY <3>1, <3>2
  <2> HIDE DEF f
  <2>8. Ok(k)
    BY <2>6, <2>7
  <2> QED BY <1>2, <2>8
<1> QED BY <1>3, <1>4

\* A sequence has a function that joins it, whose values are sequences.
LEMMA JoinsExist ==
  ASSUME NEW S, NEW s \in Seq(Seq(S)), s # <<>>
  PROVE  \E f \in [1 .. Len(s) -> Seq(S)] : Joins(s, f)
<1>1. Len(s) \in 1 .. Len(s)
  BY EmptySeq
<1>2. PICK n : n = Len(s) /\ n \in 1 .. Len(s)
  BY <1>1
<1>3. PICK f \in [1 .. n -> Seq(S)] :
        \A i \in 1 .. n : f[i] = IF i = 1 THEN s[i] ELSE f[i - 1] \o s[i]
  <2>1. \A k \in 1 .. Len(s) : \E h \in [1 .. k -> Seq(S)] :
          \A i \in 1 .. k : h[i] = IF i = 1 THEN s[i] ELSE h[i - 1] \o s[i]
    BY JoinsPrefix
  <2> QED BY <1>2, <2>1
<1>4. f = [i \in 1 .. n |-> IF i = 1 THEN s[i] ELSE f[i - 1] \o s[i]]
  BY <1>3
<1> QED BY <1>2, <1>4 DEF Joins

\* s and t are the same up to n.
SameTo(n, s, t) == \A i \in 1 .. n : s[i] = t[i]

\* Functions that join two sequences join what they have in common alike.
LEMMA JoinsAlike ==
  ASSUME NEW s, NEW f, NEW t, NEW g, Len(s) \in Nat, Len(t) \in Nat,
         Joins(s, f), Joins(t, g), NEW n \in Nat, n =< Len(s), n =< Len(t),
         SameTo(n, s, t), NEW j \in 1 .. n
  PROVE  f[j] = g[j]
<1> DEFINE T == {k \in 1 .. n : f[k] # g[k]}
<1>1. \A i \in 1 .. n : /\ i \in 1 .. Len(s) /\ i \in 1 .. Len(t)
                        /\ i # 1 => i - 1 \in 1 .. n
  OBVIOUS
<1> SUFFICES ASSUME T # {} PROVE FALSE
  OBVIOUS
<1>2. PICK k \in T : \A m \in T : k =< m
  <2>1. T \subseteq Nat
    OBVIOUS
  <2> HIDE DEF T
  <2> QED BY <2>1, LeastNat
<1>3. k \in 1 .. n /\ f[k] # g[k]
  BY <1>2
<1>4. /\ f[k] = IF k = 1 THEN s[k] ELSE f[k - 1] \o s[k]
      /\ g[k] = IF k = 1 THEN t[k] ELSE g[k - 1] \o t[k]
  BY <1>1, <1>3 DEF Joins
<1>6. s[k] = t[k]
  BY <1>3 DEF SameTo
<1>5. k # 1 => f[k - 1] = g[k - 1]
  <2>1. ~(k =< k - 1)
    BY <1>3
  <2> QED BY <1>1, <1>2, <1>3, <2>1
<1> QED BY <1>3, <1>4, <1>5, <1>6

\* What a sequence joins to.
LEMMA Flattened ==
  ASSUME NEW S, NEW s \in Seq(Seq(S)), NEW f, Joins(s, f), s # <<>>
  PROVE  FlattenSeq(s) = f[Len(s)]
<1> DEFINE flatten == CHOOSE h : h = [i \in 1 .. Len(s) |-> IF i = 1 THEN s[i] ELSE h[i - 1] \o s[i]]
<1>1. Len(s) \in Nat /\ Len(s) # 0
  BY EmptySeq
<1>2. FlattenSeq(s) = flatten[Len(s)]
  BY <1>1, SMTT(60) DEF FlattenSeq
<1>3. flatten = [i \in 1 .. Len(s) |-> IF i = 1 THEN s[i] ELSE flatten[i - 1] \o s[i]]
  BY ZenonT(60) DEF Joins
<1> HIDE DEF flatten
<1>4. Joins(s, flatten)
  BY <1>3 DEF Joins
<1>5. flatten[Len(s)] = f[Len(s)]
  <2>1. Len(s) \in 1 .. Len(s)
    BY <1>1
  <2>2. SameTo(Len(s), s, s) /\ Len(s) =< Len(s)
    BY <1>1 DEF SameTo
  <2> QED BY <1>1, <1>4, <2>1, <2>2, JoinsAlike
<1> QED BY <1>2, <1>5

\* Nothing joins to nothing, and what is joined is a sequence.
LEMMA FlattenIsSeq ==
  ASSUME NEW S, NEW s \in Seq(Seq(S))
  PROVE  FlattenSeq(s) \in Seq(S) /\ (s = <<>> => FlattenSeq(s) = <<>>)
<1>1. CASE s = <<>>
  <2>1. Len(s) = 0
    BY <1>1
  <2>2. FlattenSeq(s) = s
    BY <2>1 DEF FlattenSeq
  <2> QED BY <1>1, <2>2, EmptySeq
<1>2. CASE s # <<>>
  <2>1. PICK f \in [1 .. Len(s) -> Seq(S)] : Joins(s, f)
    BY <1>2, JoinsExist
  <2>2. Len(s) \in 1 .. Len(s)
    BY <1>2, EmptySeq
  <2>3. FlattenSeq(s) = f[Len(s)]
    BY <1>2, <2>1, Flattened
  <2> QED BY <1>2, <2>1, <2>2, <2>3
<1> QED BY <1>1, <1>2

\* A sequence one longer than another, and the same as it up to there, joins to
\* what the other does and its last element.
LEMMA JoinsOneMore ==
  ASSUME NEW S, NEW s \in Seq(Seq(S)), NEW t \in Seq(Seq(S)),
         Len(t) = Len(s) + 1, SameTo(Len(s), s, t),
         NEW f, NEW g, Joins(s, f), Joins(t, g)
  PROVE  g[Len(t)] = IF s = <<>> THEN t[Len(t)] ELSE f[Len(s)] \o t[Len(t)]
<1>1. PICK k : k = Len(t)
  OBVIOUS
<1>2. k \in 1 .. Len(t) /\ k - 1 = Len(s) /\ (s = <<>> <=> k = 1)
  BY <1>1, EmptySeq
<1>3. g[k] = IF k = 1 THEN t[k] ELSE g[k - 1] \o t[k]
  BY <1>2 DEF Joins
<1>4. s # <<>> => f[Len(s)] = g[Len(s)]
  <2> SUFFICES ASSUME s # <<>> PROVE f[Len(s)] = g[Len(s)]
    OBVIOUS
  <2>1. PICK n : n = Len(s)
    OBVIOUS
  <2>2. Len(s) \in Nat /\ Len(t) \in Nat /\ n \in Nat /\ n =< Len(s) /\ n =< Len(t)
    BY <2>1
  <2>3. n \in 1 .. n
    BY <1>2, <2>1, <2>2
  <2>4. SameTo(n, s, t)
    BY <2>1
  <2>5. \A j \in 1 .. n : f[j] = g[j]
    BY <2>2, <2>4, JoinsAlike, SMTT(60)
  <2> QED BY <2>1, <2>3, <2>5
<1> QED BY <1>1, <1>2, <1>3, <1>4

\* An element behind the others is joined behind them.
LEMMA FlattenAppend ==
  ASSUME NEW S, NEW s \in Seq(Seq(S)), NEW x \in Seq(S)
  PROVE  FlattenSeq(Append(s, x)) = FlattenSeq(s) \o x
<1>1. PICK t : t = Append(s, x)
  OBVIOUS
<1>2. /\ t \in Seq(Seq(S)) /\ Len(t) = Len(s) + 1 /\ t # <<>>
      /\ t[Len(t)] = x /\ SameTo(Len(s), s, t)
  <2>1. /\ t \in Seq(Seq(S)) /\ Len(t) = Len(s) + 1 /\ t[Len(s) + 1] = x
        /\ \A i \in 1 .. Len(s) : s[i] = t[i]
    BY <1>1, AppendProperties
  <2> QED BY <2>1, EmptySeq DEF SameTo
<1>3. PICK g : Joins(t, g)
  BY <1>2, JoinsExist
<1>4. FlattenSeq(t) = g[Len(t)]
  BY <1>2, <1>3, Flattened
<1>5. CASE s = <<>>
  <2>1. FlattenSeq(s) = <<>>
    BY <1>5, FlattenIsSeq
  <2>2. <<>> \o x = x
    BY ConcatEmptySeq
  <2>3. PICK f : f = [i \in 1 .. Len(s) |-> s[i]]
    OBVIOUS
  <2>4. \A i : i \notin 1 .. Len(s)
    BY <1>5
  <2>5. Joins(s, f)
    BY <2>3, <2>4 DEF Joins
  <2>6. g[Len(t)] = t[Len(t)]
    BY <1>2, <1>3, <1>5, <2>5, JoinsOneMore
  <2> QED BY <1>1, <1>2, <1>4, <2>1, <2>2, <2>6
<1>6. CASE s # <<>>
  <2>1. PICK f : Joins(s, f)
    BY <1>6, JoinsExist
  <2>2. FlattenSeq(s) = f[Len(s)]
    BY <1>6, <2>1, Flattened
  <2>3. g[Len(t)] = f[Len(s)] \o t[Len(t)]
    BY <1>2, <1>3, <1>6, <2>1, JoinsOneMore
  <2> QED BY <1>1, <1>2, <1>4, <2>2, <2>3
<1> QED BY <1>5, <1>6

-----------------------------------------------------------------------------
\* Receiving.

PartRecords == [message : Nat, number : Nat, final : BOOLEAN]

\* All parts that were received, those the script has been given first.
Parts(r) == FlattenSeq(r.given) \o queue_data(r.recvq)

\* A part that is not the first of its message follows the one before it.
Chained(parts) ==
  \A k \in 1 .. Len(parts) :
    parts[k].number > 1 =>
      k > 1 /\ parts[k - 1].message = parts[k].message
            /\ parts[k - 1].number = parts[k].number - 1

\* All of a message, and what there is of one that goes on.
Whole(m, i) ==
  \A k \in 1 .. Len(m) : m[k].message = i /\ m[k].number = k /\ (m[k].final <=> k = Len(m))

Begun(b, i) ==
  \A k \in 1 .. Len(b) : b[k].message = i /\ b[k].number = k /\ ~b[k].final

\* A queue with the one chunk b.
Holds(q, b) ==
  q = [items |-> q.items, continuous |-> q.continuous] /\ q.items = <<Item(b)>> /\ ~q.continuous

\* While a message goes on, the last part is that many of it.
Ends(parts, r) ==
  r.parts > 0 => parts # <<>> /\ parts[Len(parts)].message = r.message
                              /\ parts[Len(parts)].number = r.parts

\* The client's queue has what there is of a message that goes on, and what its
\* script was given is one message after the other.
Gathered(r) ==
  /\ Len(r.given) + (IF r.parts = 0 THEN 0 ELSE 1) = r.message
  /\ \A i \in 1 .. Len(r.given) : Whole(r.given[i], i)
  /\ r.parts > 0 => \E b \in Seq(PartRecords) :
                      Len(b) = r.parts /\ Begun(b, r.message) /\ Holds(r.recvq, b)

Receiving(s, r) ==
  /\ r = [recvq |-> r.recvq, message |-> r.message, parts |-> r.parts, given |-> r.given]
  /\ r.message \in Nat /\ r.parts \in Nat /\ r.given \in Seq(Seq(PartRecords))
  /\ s = "server" \/ r.parts = 0 => r.recvq = queue_zero
  /\ s = "client" => Gathered(r)
  /\ Parts(r) \in Seq(PartRecords) /\ Chained(Parts(r)) /\ Ends(Parts(r), r)

ReceiveInv == side \in {"server", "client"} /\ Receiving(side, recv)

\* What a queue that is empty, and one with one chunk, has.
LEMMA QueueData ==
  /\ queue_data(queue_zero) = <<>>
  /\ \A q : \A b \in Seq(PartRecords) : Holds(q, b) => queue_data(q) = b
<1>1. queue_data(queue_zero) = <<>>
  <2>1. queue_data(queue_zero) = FlattenSeq(<<>>)
    BY DEF queue_data, queue_zero
  <2>2. <<>> \in Seq(Seq(PartRecords))
    OBVIOUS
  <2> QED BY <2>1, <2>2, FlattenIsSeq
<1>2. ASSUME NEW b \in Seq(PartRecords), NEW q, Holds(q, b)
      PROVE  queue_data(q) = b
  <2>1. Len(q.items) = 1 /\ q.items[1] = Item(b) /\ 1 .. 1 = {1}
    BY <1>2 DEF Holds
  <2>2. Item(b).block = b
    BY DEF Item
  <2>3. [i \in 1 .. Len(q.items) |-> q.items[i].block] = [i \in 1 .. 1 |-> b]
    BY <2>1, <2>2
  <2>4. [i \in 1 .. 1 |-> b] = <<b>>
    OBVIOUS
  <2>5. <<b>> = Append(<<>>, b) /\ <<>> \in Seq(Seq(PartRecords))
    OBVIOUS
  <2>6. FlattenSeq(<<b>>) = FlattenSeq(<<>>) \o b
    BY <2>5, FlattenAppend
  <2>7. FlattenSeq(<<>>) = <<>>
    BY <2>5, FlattenIsSeq
  <2>8. <<>> \o b = b
    BY ConcatEmptySeq
  <2> QED BY <2>3, <2>4, <2>6, <2>7, <2>8 DEF queue_data
<1> QED BY <1>1, <1>2

\* One more part.
LEMMA PartsGrow ==
  ASSUME NEW r, NEW p \in Seq(PartRecords), Chained(p), Ends(p, r), r.parts \in Nat, r.message \in Nat,
         NEW part \in PartRecords, part.number = r.parts + 1,
         r.parts > 0 => part.message = r.message,
         NEW n, n.parts = IF part.final THEN 0 ELSE part.number, n.message = part.message
  PROVE  Append(p, part) \in Seq(PartRecords) /\ Chained(Append(p, part)) /\ Ends(Append(p, part), n)
<1>1. PICK t : t = Append(p, part)
  OBVIOUS
<1>2. /\ t \in Seq(PartRecords) /\ Len(t) = Len(p) + 1 /\ t[Len(p) + 1] = part
      /\ \A k \in 1 .. Len(p) : t[k] = p[k]
  BY <1>1, AppendProperties
<1>3. Len(p) \in Nat
  OBVIOUS
<1>4. Chained(t)
  <2> SUFFICES ASSUME NEW k \in 1 .. Len(t), t[k].number > 1
               PROVE  k > 1 /\ t[k - 1].message = t[k].message /\ t[k - 1].number = t[k].number - 1
    BY DEF Chained
  <2>1. CASE k \in 1 .. Len(p)
    <3>1. t[k] = p[k]
      BY <1>2, <2>1
    <3>2. k > 1 /\ p[k - 1].message = p[k].message /\ p[k - 1].number = p[k].number - 1
      BY <2>1, <3>1 DEF Chained
    <3>3. k - 1 \in 1 .. Len(p)
      BY <1>3, <2>1, <3>2
    <3>4. t[k - 1] = p[k - 1]
      BY <1>2, <3>3
    <3> QED BY <3>1, <3>2, <3>4
  <2>2. CASE k \notin 1 .. Len(p)
    <3>1. k = Len(p) + 1
      BY <1>2, <1>3, <2>2
    <3>2. t[k] = part
      BY <1>2, <3>1
    <3>3. r.parts > 0
      BY <3>2
    <3>4. p # <<>> /\ p[Len(p)].message = r.message /\ p[Len(p)].number = r.parts
      BY <3>3 DEF Ends
    <3>5. Len(p) \in 1 .. Len(p) /\ k - 1 = Len(p) /\ k > 1
      BY <1>3, <3>1, <3>4, EmptySeq
    <3>6. t[k - 1] = p[Len(p)]
      BY <1>2, <3>5
    <3>7. part.number - 1 = r.parts
      OBVIOUS
    <3> QED BY <3>2, <3>3, <3>4, <3>5, <3>6, <3>7
  <2> QED BY <2>1, <2>2
<1>5. Ends(t, n)
  <2>1. t # <<>> /\ t[Len(t)] = part
    BY <1>2, <1>3, EmptySeq
  <2>2. n.parts > 0 => n.parts = part.number
    OBVIOUS
  <2> QED BY <2>1, <2>2 DEF Ends
<1> QED BY <1>1, <1>2, <1>4, <1>5

\* The position of the last chunk of a queue that has none, and one.
LEMMA LastChunks ==
  /\ queue_last_chunk(queue_zero) = 0
  /\ \A q, b : Holds(q, b) => queue_last_chunk(q) = 1
<1>1. queue_last_chunk(queue_zero) = 0
  <2> DEFINE I == {i \in 1 .. Len(queue_zero.items) :
                     queue_zero.items[i].block # <<>> \/ ~queue_zero.items[i].done}
  <2>1. I = {}
    BY DEF queue_zero
  <2>2. queue_last_chunk(queue_zero) = IF I # {} THEN Max(I) ELSE 0
    BY DEF queue_last_chunk, SelectLastInSeq, SelectLastInSubSeq
  <2> QED BY <2>1, <2>2
<1>2. ASSUME NEW q, NEW b, Holds(q, b)
      PROVE  queue_last_chunk(q) = 1
  <2> DEFINE I == {i \in 1 .. Len(q.items) : q.items[i].block # <<>> \/ ~q.items[i].done}
  <2>1. Len(q.items) = 1 /\ q.items[1] = Item(b) /\ 1 .. 1 = {1}
    BY <1>2 DEF Holds
  <2>2. ~q.items[1].done
    BY <2>1 DEF Item
  <2>3. I = {1}
    BY <2>1, <2>2
  <2>4. Max({1}) = 1
    BY DEF Max
  <2>5. queue_last_chunk(q) = IF I # {} THEN Max(I) ELSE 0
    BY DEF queue_last_chunk, SelectLastInSeq, SelectLastInSubSeq
  <2> QED BY <2>3, <2>4, <2>5
<1> QED BY <1>1, <1>2

\* The first part of a message begins a chunk.
LEMMA BeginsChunk ==
  ASSUME NEW part
  PROVE  Holds(queue_write(queue_zero, <<part>>), <<part>>)
<1>1. PICK F : F = FALSE
  OBVIOUS
<1>2. ~queue_complete(queue_zero)
  BY DEF queue_complete, queue_empty, queue_zero
<1>3. PICK q : q = queue_write(queue_zero, <<part>>)
  OBVIOUS
<1>4. q = [queue_zero EXCEPT !.items = Append(<<>>, Item(<<part>>))]
  <2>1. ~queue_zero.continuous /\ queue_zero.items = <<>>
    BY DEF queue_zero
  <2>2. q = queue_add(queue_zero, <<part>>)
    BY <1>3, <2>1 DEF queue_write, queue_put
  <2> QED BY <1>2, <2>1, <2>2 DEF queue_add
<1>5. queue_zero = [items |-> <<>>, continuous |-> F]
  BY <1>1 DEF queue_zero
<1>6. q = [items |-> Append(<<>>, Item(<<part>>)), continuous |-> F]
  BY <1>4, <1>5
<1>7. Append(<<>>, Item(<<part>>)) = <<Item(<<part>>)>>
  OBVIOUS
<1> QED BY <1>1, <1>3, <1>6, <1>7 DEF Holds

\* A chunk that grows is a chunk.
LEMMA LongerChunk ==
  ASSUME NEW a, NEW b
  PROVE  [Item(a) EXCEPT !.block = Item(a).block \o b] = Item(a \o b)
<1>1. PICK F : \A x : Item(x) = [block |-> x, done |-> F, unref |-> 0]
  BY DEF Item
<1>2. Item(a).block = a
  BY DEF Item
<1>3. \A x : [Item(a) EXCEPT !.block = x] = Item(x)
  BY <1>1
<1> QED BY <1>2, <1>3

\* One of a list of one is put in another's place.
LEMMA OneChanged ==
  ASSUME NEW a, NEW b
  PROVE  [<<a>> EXCEPT ![1] = b] = <<b>>
<1> DEFINE r == [<<a>> EXCEPT ![1] = b]
<1>1. <<a>> \in Seq({a, b}) /\ Len(<<a>>) = 1 /\ b \in {a, b} /\ 1 \in 1 .. 1
  OBVIOUS
<1>2. r \in Seq({a, b}) /\ Len(r) = 1 /\ r[1] = b
  BY <1>1, ExceptSeq
<1> HIDE DEF r
<1>3. r = <<b>>
  BY <1>2
<1> QED BY <1>3 DEF r

\* A later part is put behind what the chunk has.
LEMMA AppendsChunk ==
  ASSUME NEW b \in Seq(PartRecords), NEW part \in PartRecords, NEW q, Holds(q, b)
  PROVE  Holds(queue_append(q, <<part>>), Append(b, part))
<1>1. queue_last_chunk(q) = 1
  BY LastChunks
<1>2. q = [items |-> q.items, continuous |-> q.continuous] /\ q.items = <<Item(b)>> /\ ~q.continuous
  BY DEF Holds
<1>3. PICK r : r = queue_append(q, <<part>>)
  OBVIOUS
<1>4. r = [q EXCEPT !.items[1].block = q.items[1].block \o <<part>>]
  <2>1. r = [q EXCEPT !.items[queue_last_chunk(q)].block
               = q.items[queue_last_chunk(q)].block \o <<part>>]
    BY <1>1, <1>3 DEF queue_append
  <2> QED BY <1>1, <2>1
<1>5. r = [q EXCEPT !.items = [q.items EXCEPT ![1] =
                                 [q.items[1] EXCEPT !.block = q.items[1].block \o <<part>>]]]
  BY <1>4
<1>6. [q.items[1] EXCEPT !.block = q.items[1].block \o <<part>>] = Item(b \o <<part>>)
  <2>1. q.items[1] = Item(b)
    BY <1>2
  <2> QED BY <2>1, LongerChunk
<1>7. [q.items EXCEPT ![1] = Item(b \o <<part>>)] = <<Item(b \o <<part>>)>>
  BY <1>2, OneChanged
<1>8. b \o <<part>> = Append(b, part)
  OBVIOUS
<1>9. r = [q EXCEPT !.items = <<Item(Append(b, part))>>]
  BY <1>5, <1>6, <1>7, <1>8
<1> QED BY <1>2, <1>3, <1>9 DEF Holds

\* The fields of a part.
LEMMA PartFields ==
  ASSUME NEW part \in PartRecords
  PROVE  part.message \in Nat /\ part.number \in Nat /\ part.final \in BOOLEAN
BY DEF PartRecords

\* A message that ends.
LEMMA EndsWhole ==
  ASSUME NEW b \in Seq(PartRecords), NEW i \in Nat, Begun(b, i), NEW part \in PartRecords,
         part.message = i, part.number = Len(b) + 1
  PROVE  /\ part.final => Whole(Append(b, part), i)
         /\ ~part.final => Begun(Append(b, part), i)
<1>1. PICK t : t = Append(b, part)
  OBVIOUS
<1>2. /\ Len(t) = Len(b) + 1 /\ t[Len(b) + 1] = part
      /\ \A k \in 1 .. Len(b) : t[k] = b[k]
  BY <1>1, AppendProperties
<1>3. Len(b) \in Nat
  OBVIOUS
<1>4. \A k \in 1 .. Len(t) : k # Len(t) => k \in 1 .. Len(b)
  BY <1>2, <1>3
<1>5. \A k \in 1 .. Len(t) : k # Len(t) => t[k].message = i /\ t[k].number = k /\ ~t[k].final
  BY <1>2, <1>4 DEF Begun
<1>6. t[Len(t)] = part /\ Len(t) = part.number
  BY <1>2
<1>7. part.final => Whole(t, i)
  BY <1>5, <1>6 DEF Whole
<1>8. ~part.final => Begun(t, i)
  BY <1>5, <1>6 DEF Begun
<1> QED BY <1>1, <1>7, <1>8

\* What the script is given as one piece more is behind the rest.
LEMMA GivesMore ==
  ASSUME NEW given \in Seq(Seq(PartRecords)), NEW b \in Seq(PartRecords), NEW part \in PartRecords
  PROVE  /\ Append(given, Append(b, part)) \in Seq(Seq(PartRecords))
         /\ FlattenSeq(given) \in Seq(PartRecords)
         /\ FlattenSeq(Append(given, Append(b, part))) = Append(FlattenSeq(given) \o b, part)
         /\ FlattenSeq(given) \o Append(b, part) = Append(FlattenSeq(given) \o b, part)
<1>1. PICK all : all = FlattenSeq(given) /\ all \in Seq(PartRecords)
  BY FlattenIsSeq
<1>2. Append(b, part) \in Seq(PartRecords)
  BY AppendProperties
<1>3. Append(given, Append(b, part)) \in Seq(Seq(PartRecords))
  BY <1>2, AppendProperties
<1>4. FlattenSeq(Append(given, Append(b, part))) = all \o Append(b, part)
  BY <1>1, <1>2, FlattenAppend
<1>5. all \o Append(b, part) = Append(all \o b, part)
  BY <1>1
<1> QED BY <1>1, <1>3, <1>4, <1>5

\* The fields of what was received after a part.
Received(r, part, given, recvq, n) ==
  /\ n = [recvq |-> recvq, message |-> part.message,
          parts |-> IF part.final THEN 0 ELSE part.number, given |-> given]
  /\ part \in PartRecords /\ part.number = r.parts + 1
  /\ part.message = r.message + IF r.parts = 0 THEN 1 ELSE 0

\* What the client's script is given is one message after the other.
LEMMA GivesWhole ==
  ASSUME NEW given \in Seq(Seq(PartRecords)), NEW m \in Seq(PartRecords),
         \A i \in 1 .. Len(given) : Whole(given[i], i), Whole(m, Len(given) + 1)
  PROVE  /\ Len(Append(given, m)) = Len(given) + 1
         /\ \A i \in 1 .. Len(Append(given, m)) : Whole(Append(given, m)[i], i)
<1>1. PICK t : t = Append(given, m)
  OBVIOUS
<1>2. /\ Len(t) = Len(given) + 1 /\ t[Len(given) + 1] = m
      /\ \A k \in 1 .. Len(given) : t[k] = given[k]
  BY <1>1, AppendProperties
<1>3. Len(given) \in Nat
  OBVIOUS
<1>4. \A k \in 1 .. Len(t) : k # Len(given) + 1 => k \in 1 .. Len(given)
  BY <1>2, <1>3
<1>5. \A k \in 1 .. Len(t) : Whole(t[k], k)
  <2> SUFFICES ASSUME NEW k \in 1 .. Len(t) PROVE Whole(t[k], k)
    OBVIOUS
  <2>1. CASE k = Len(given) + 1
    BY <1>2, <2>1
  <2>2. CASE k # Len(given) + 1
    BY <1>2, <1>4, <2>2
  <2> QED BY <2>1, <2>2
<1> QED BY <1>1, <1>2, <1>5

\* The parts of the invariant that do not depend on the side.
LEMMA ReceivingStep ==
  ASSUME NEW s \in {"server", "client"}, NEW r, Receiving(s, r), NEW part, NEW given, NEW recvq,
         NEW n, Received(r, part, given, recvq, n), given \in Seq(Seq(PartRecords)),
         FlattenSeq(given) \o queue_data(recvq) = Append(Parts(r), part),
         s = "server" \/ part.final => recvq = queue_zero,
         s = "client" => Gathered(n)
  PROVE  Receiving(s, n)
<1>1. /\ r.parts \in Nat /\ r.message \in Nat /\ Parts(r) \in Seq(PartRecords)
      /\ Chained(Parts(r)) /\ Ends(Parts(r), r)
  BY DEF Receiving
<1>2. /\ n.recvq = recvq /\ n.message = part.message /\ n.given = given
      /\ n.parts = IF part.final THEN 0 ELSE part.number
      /\ n = [recvq |-> n.recvq, message |-> n.message, parts |-> n.parts, given |-> n.given]
  BY DEF Received
<1>3. /\ part \in PartRecords /\ part.number = r.parts + 1
      /\ part.message = r.message + IF r.parts = 0 THEN 1 ELSE 0
  BY DEF Received
<1>4. Parts(n) = Append(Parts(r), part)
  BY <1>2 DEF Parts
<1>5. r.parts > 0 => part.message = r.message
  BY <1>1, <1>3
<1>6. Parts(n) \in Seq(PartRecords) /\ Chained(Parts(n)) /\ Ends(Parts(n), n)
  BY <1>1, <1>2, <1>3, <1>4, <1>5, PartsGrow
<1>7. n.parts = 0 => part.final
  BY <1>1, <1>2, <1>3
<1>8. n.message \in Nat /\ n.parts \in Nat
  BY <1>1, <1>2, <1>3, SMTT(60)
<1> QED BY <1>2, <1>6, <1>7, <1>8 DEF Receiving

\* A message in one part, or any part that the server receives, is given at once.
LEMMA ReceivesAlone ==
  ASSUME NEW s \in {"server", "client"}, NEW r, Receiving(s, r), NEW part, NEW n,
         Received(r, part, Append(r.given, <<part>>), r.recvq, n),
         s = "server" \/ (r.parts = 0 /\ part.final)
  PROVE  Receiving(s, n)
<1>1. /\ r.parts \in Nat /\ r.message \in Nat /\ r.given \in Seq(Seq(PartRecords))
      /\ r.recvq = queue_zero
  BY DEF Receiving
<1>2. /\ n.recvq = r.recvq /\ n.message = part.message /\ n.given = Append(r.given, <<part>>)
      /\ n.parts = IF part.final THEN 0 ELSE part.number
      /\ part \in PartRecords /\ part.number = r.parts + 1
      /\ part.message = r.message + IF r.parts = 0 THEN 1 ELSE 0
  BY DEF Received
<1>3. <<part>> = Append(<<>>, part) /\ <<>> \in Seq(PartRecords)
  OBVIOUS
<1>4. PICK all : all = FlattenSeq(r.given) /\ all \in Seq(PartRecords)
  BY <1>1, FlattenIsSeq
<1>5. /\ Append(r.given, <<part>>) \in Seq(Seq(PartRecords))
      /\ FlattenSeq(Append(r.given, <<part>>)) = Append(all \o <<>>, part)
  <2>1. /\ Append(r.given, Append(<<>>, part)) \in Seq(Seq(PartRecords))
        /\ FlattenSeq(Append(r.given, Append(<<>>, part))) = Append(FlattenSeq(r.given) \o <<>>, part)
    BY <1>1, <1>2, <1>3, GivesMore
  <2> QED BY <1>3, <1>4, <2>1
<1>6. all \o <<>> = all /\ Append(all, part) \o <<>> = Append(all, part)
  <2>1. Append(all, part) \in Seq(PartRecords)
    BY <1>2, <1>4, AppendProperties
  <2> QED BY <1>4, <2>1, ConcatEmptySeq
<1>7. FlattenSeq(Append(r.given, <<part>>)) \o queue_data(r.recvq) = Append(Parts(r), part)
  BY <1>1, <1>4, <1>5, <1>6, QueueData DEF Parts
<1>8. s = "client" => Gathered(n)
  <2> SUFFICES ASSUME s = "client" PROVE Gathered(n)
    OBVIOUS
  <2>1. r.parts = 0 /\ part.final /\ part.number = 1 /\ n.parts = 0
    BY <1>1, <1>2
  <2>2. Len(r.given) = r.message /\ \A i \in 1 .. Len(r.given) : Whole(r.given[i], i)
    <3>1. Gathered(r)
      BY DEF Receiving
    <3>2. Len(r.given) \in Nat
      BY <1>1
    <3> QED BY <2>1, <3>1, <3>2 DEF Gathered
  <2>3. n.message = r.message + 1 /\ part.message = Len(r.given) + 1
    BY <1>2, <2>1, <2>2
  <2>4. <<part>> \in Seq(PartRecords) /\ Whole(<<part>>, Len(r.given) + 1)
    <3>1. <<part>> \in Seq(PartRecords) /\ Len(<<part>>) = 1 /\ <<part>>[1] = part
      BY <1>2
    <3> QED BY <2>1, <2>3, <3>1 DEF Whole
  <2>5. /\ Len(n.given) = Len(r.given) + 1
        /\ \A i \in 1 .. Len(n.given) : Whole(n.given[i], i)
    BY <1>1, <1>2, <2>2, <2>4, GivesWhole
  <2> QED BY <2>1, <2>2, <2>3, <2>5 DEF Gathered
<1> QED BY <1>1, <1>5, <1>7, <1>8, ReceivingStep

\* A part the client keeps until the last comes.
LEMMA ReceivesPart ==
  ASSUME NEW r, Receiving("client", r), NEW part, NEW recvq, NEW b \in Seq(PartRecords), NEW n,
         Received(r, part, r.given, recvq, n), ~part.final,
         Len(b) = r.parts, Begun(b, part.message), queue_data(r.recvq) = b,
         Holds(recvq, Append(b, part))
  PROVE  Receiving("client", n)
<1>1. r.parts \in Nat /\ r.message \in Nat /\ r.given \in Seq(Seq(PartRecords)) /\ Gathered(r)
  BY DEF Receiving
<1>2. /\ n.recvq = recvq /\ n.message = part.message /\ n.given = r.given
      /\ n.parts = part.number
      /\ part \in PartRecords /\ part.number = r.parts + 1
      /\ part.message = r.message + IF r.parts = 0 THEN 1 ELSE 0
  BY DEF Received
<1>3. PICK t : t = Append(b, part) /\ t \in Seq(PartRecords) /\ Len(t) = Len(b) + 1
  <2>1. Append(b, part) \in Seq(PartRecords) /\ Len(Append(b, part)) = Len(b) + 1
    BY <1>2, AppendProperties
  <2> QED BY <2>1
<1>4. queue_data(recvq) = t
  BY <1>3, QueueData
<1>5. FlattenSeq(r.given) \o queue_data(recvq) = Append(Parts(r), part)
  <2>1. FlattenSeq(r.given) \o Append(b, part) = Append(FlattenSeq(r.given) \o b, part)
    BY <1>1, <1>2, GivesMore
  <2> QED BY <1>3, <1>4, <2>1 DEF Parts
<1>6. Gathered(n)
  <2>1. Begun(t, part.message)
    <3>1. part.message \in Nat /\ part.number = Len(b) + 1
      BY <1>1, <1>2, PartFields
    <3> QED BY <1>2, <1>3, <3>1, EndsWhole
  <2>2. n.parts = Len(t) /\ n.parts > 0
    BY <1>1, <1>2, <1>3
  <2>3. Len(n.given) + 1 = n.message
    <3>1. Len(r.given) \in Nat
      BY <1>1
    <3>2. Len(r.given) + (IF r.parts = 0 THEN 0 ELSE 1) = r.message
      BY <1>1 DEF Gathered
    <3>3. CASE r.parts = 0
      BY <1>1, <1>2, <3>1, <3>2, <3>3
    <3>4. CASE r.parts # 0
      BY <1>1, <1>2, <3>1, <3>2, <3>4
    <3> QED BY <3>3, <3>4
  <2>4. \A i \in 1 .. Len(n.given) : Whole(n.given[i], i)
    BY <1>1, <1>2 DEF Gathered
  <2>5. \E x \in Seq(PartRecords) : Len(x) = n.parts /\ Begun(x, n.message) /\ Holds(n.recvq, x)
    BY <1>2, <1>3, <2>1, <2>2
  <2>6. (IF n.parts = 0 THEN 0 ELSE 1) = 1
    BY <2>2
  <2> QED BY <2>3, <2>4, <2>5, <2>6 DEF Gathered
<1> QED BY <1>1, <1>5, <1>6, ReceivingStep

\* The last part of a message gives all of it to the client's script.
LEMMA ReceivesLast ==
  ASSUME NEW r, Receiving("client", r), NEW part, NEW b \in Seq(PartRecords), NEW n,
         Received(r, part, Append(r.given, Append(b, part)), queue_zero, n), part.final,
         r.parts > 0, Len(b) = r.parts, Begun(b, part.message), queue_data(r.recvq) = b
  PROVE  Receiving("client", n)
<1>1. r.parts \in Nat /\ r.message \in Nat /\ r.given \in Seq(Seq(PartRecords)) /\ Gathered(r)
  BY DEF Receiving
<1>2. /\ n.recvq = queue_zero /\ n.message = part.message
      /\ n.given = Append(r.given, Append(b, part)) /\ n.parts = 0
      /\ part \in PartRecords /\ part.number = r.parts + 1
      /\ part.message = r.message
  BY <1>1 DEF Received
<1>3. PICK t : t = Append(b, part) /\ t \in Seq(PartRecords)
  BY <1>2, AppendProperties
<1>4. PICK all : all = FlattenSeq(r.given) \o b
  OBVIOUS
<1>5. n.given \in Seq(Seq(PartRecords)) /\ FlattenSeq(n.given) = Append(all, part)
  BY <1>1, <1>2, <1>4, GivesMore, SMTT(60)
<1>6. all \in Seq(PartRecords)
  <2>1. FlattenSeq(r.given) \in Seq(PartRecords)
    BY <1>1, FlattenIsSeq
  <2> QED BY <1>4, <2>1, ConcatProperties
<1>7. FlattenSeq(n.given) \o queue_data(queue_zero) = Append(Parts(r), part)
  <2>1. Append(all, part) \in Seq(PartRecords)
    BY <1>2, <1>6, AppendProperties
  <2>2. Append(all, part) \o <<>> = Append(all, part)
    BY <2>1, ConcatEmptySeq
  <2>3. Parts(r) = all
    BY <1>4 DEF Parts
  <2> QED BY <1>5, <2>2, <2>3, QueueData
<1>8. Gathered(n)
  <2>0. Len(r.given) \in Nat
    BY <1>1
  <2>1. Len(r.given) + 1 = r.message /\ \A i \in 1 .. Len(r.given) : Whole(r.given[i], i)
    <3>1. (IF r.parts = 0 THEN 0 ELSE 1) = 1
      BY <1>1
    <3> QED BY <1>1, <3>1 DEF Gathered
  <2>2. Whole(t, Len(r.given) + 1)
    BY <1>1, <1>2, <1>3, <2>1, EndsWhole
  <2>3. /\ Len(n.given) = Len(r.given) + 1
        /\ \A i \in 1 .. Len(n.given) : Whole(n.given[i], i)
    BY <1>1, <1>2, <1>3, <2>1, <2>2, GivesWhole
  <2> QED BY <1>2, <2>1, <2>3 DEF Gathered
<1>9. Received(r, part, n.given, queue_zero, n)
  BY <1>2
<1> QED BY <1>5, <1>7, <1>8, <1>9, ReceivingStep

\* A part is received.
LEMMA ReceiveStep == ASSUME ReceiveInv, Receive PROVE ReceiveInv'
<1>1. side' = side /\ side \in {"server", "client"} /\ Receiving(side, recv)
  BY DEF Receive, ReceiveInv
<1>2. /\ recv = [recvq |-> recv.recvq, message |-> recv.message, parts |-> recv.parts, given |-> recv.given]
      /\ recv.message \in Nat /\ recv.parts \in Nat /\ recv.given \in Seq(Seq(PartRecords))
      /\ side = "server" \/ recv.parts = 0 => recv.recvq = queue_zero
      /\ side = "client" => Gathered(recv)
  BY <1>1 DEF Receiving
<1>0. PICK final \in BOOLEAN : \E first, message, part, r :
        /\ first = (recv.parts = 0)
        /\ message = recv.message + IF first THEN 1 ELSE 0
        /\ part = [message |-> message, number |-> recv.parts + 1, final |-> final]
        /\ r = [recv EXCEPT !.message = message, !.parts = IF final THEN 0 ELSE @ + 1]
        /\ recv' = IF side = "server"
                   THEN [r EXCEPT !.given = Append(@, <<part>>)]
                   ELSE ReceivePart(r, part, first, final)
  BY ZenonT(60) DEF Receive
<1>3. PICK first, message, part, r :
        /\ first = (recv.parts = 0)
        /\ message = recv.message + IF first THEN 1 ELSE 0
        /\ part = [message |-> message, number |-> recv.parts + 1, final |-> final]
        /\ r = [recv EXCEPT !.message = message, !.parts = IF final THEN 0 ELSE @ + 1]
        /\ recv' = IF side = "server"
                   THEN [r EXCEPT !.given = Append(@, <<part>>)]
                   ELSE ReceivePart(r, part, first, final)
  BY <1>0
<1>4. /\ part \in PartRecords /\ part.number = recv.parts + 1 /\ part.final = final
      /\ part.message = recv.message + IF recv.parts = 0 THEN 1 ELSE 0
  <2>1. message = recv.message + IF recv.parts = 0 THEN 1 ELSE 0
    BY <1>3
  <2>2. message \in Nat /\ recv.parts + 1 \in Nat
    BY <1>2, <2>1
  <2> QED BY <1>3, <2>1, <2>2 DEF PartRecords
<1>5. PICK parts : parts = IF part.final THEN 0 ELSE part.number
  OBVIOUS
<1>6. r = [recvq |-> recv.recvq, message |-> part.message, parts |-> parts, given |-> recv.given]
  <2>1. r = [recv EXCEPT !.message = part.message, !.parts = parts]
    <3>1. part.message = message
      BY <1>3
    <3> QED BY <1>3, <1>4, <1>5, <3>1
  <2> QED BY <1>2, <2>1
<1>7. \A given, recvq, n :
        n = [recvq |-> recvq, message |-> part.message, parts |-> parts, given |-> given]
          => Received(recv, part, given, recvq, n)
  BY <1>4, <1>5 DEF Received
<1>8. CASE side = "server"
  <2>1. recv' = [recvq |-> recv.recvq, message |-> part.message, parts |-> parts,
                 given |-> Append(recv.given, <<part>>)]
    <3>1. recv' = [r EXCEPT !.given = Append(r.given, <<part>>)]
      BY <1>3, <1>8
    <3> QED BY <1>6, <3>1
  <2>2. Received(recv, part, Append(recv.given, <<part>>), recv.recvq, recv')
    BY <1>7, <2>1
  <2>3. Receiving("server", recv')
    BY <1>1, <1>8, <2>2, ReceivesAlone
  <2> QED BY <1>1, <1>8, <2>3 DEF ReceiveInv
<1>9. CASE side = "client"
  <2>0. recv' = ReceivePart(r, part, first, final) /\ (first <=> recv.parts = 0) /\ (final <=> part.final)
    BY <1>3, <1>4, <1>9
  <2>1. CASE recv.parts = 0 /\ part.final
    <3>1. recv' = [r EXCEPT !.given = Append(r.given, <<part>>)]
      BY <2>0, <2>1 DEF ReceivePart
    <3>2. recv' = [recvq |-> recv.recvq, message |-> part.message, parts |-> parts,
                   given |-> Append(recv.given, <<part>>)]
      BY <1>6, <3>1
    <3>3. Received(recv, part, Append(recv.given, <<part>>), recv.recvq, recv')
      BY <1>7, <3>2
    <3> QED BY <1>1, <1>9, <2>1, <3>3, ReceivesAlone DEF ReceiveInv
  <2>2. CASE recv.parts = 0 /\ ~part.final
    <3>1. recv' = [r EXCEPT !.recvq = queue_write(r.recvq, <<part>>)]
      BY <2>0, <2>2 DEF ReceivePart
    <3>2. PICK q : q = queue_write(queue_zero, <<part>>)
      OBVIOUS
    <3>3. recv' = [recvq |-> q, message |-> part.message, parts |-> parts, given |-> recv.given]
      BY <1>2, <1>6, <2>2, <3>1, <3>2
    <3>4. Received(recv, part, recv.given, q, recv')
      BY <1>7, <3>3
    <3>5. PICK b \in Seq(PartRecords) : b = <<>>
      <4>1. <<>> \in Seq(PartRecords)
        OBVIOUS
      <4> QED BY <4>1
    <3>6. Len(b) = recv.parts /\ Begun(b, part.message) /\ Append(b, part) = <<part>>
      BY <2>2, <3>5 DEF Begun
    <3>7. queue_data(recv.recvq) = b
      BY <1>2, <2>2, <3>5, QueueData
    <3>8. Holds(q, Append(b, part))
      BY <3>2, <3>6, BeginsChunk
    <3> QED BY <1>1, <1>9, <2>2, <3>4, <3>6, <3>7, <3>8, ReceivesPart DEF ReceiveInv
  <2>3. CASE recv.parts # 0
    <3>1. recv.parts > 0 /\ part.message = recv.message
      BY <1>2, <1>4, <2>3
    <3>2. PICK b \in Seq(PartRecords) :
            Len(b) = recv.parts /\ Begun(b, recv.message) /\ Holds(recv.recvq, b)
      BY <1>2, <1>9, <3>1 DEF Gathered
    <3>3. PICK put : put = queue_append(recv.recvq, <<part>>)
      OBVIOUS
    <3>4. Holds(put, Append(b, part))
      BY <1>4, <3>2, <3>3, AppendsChunk
    <3>5. queue_data(recv.recvq) = b
      BY <3>2, QueueData
    <3>6. CASE ~part.final
      <4>1. recv' = [r EXCEPT !.recvq = put]
        BY <1>6, <2>0, <2>3, <3>3, <3>6 DEF ReceivePart
      <4>2. recv' = [recvq |-> put, message |-> part.message, parts |-> parts, given |-> recv.given]
        BY <1>6, <4>1
      <4>3. Received(recv, part, recv.given, put, recv')
        BY <1>7, <4>2
      <4> QED BY <1>1, <1>9, <3>1, <3>2, <3>4, <3>5, <3>6, <4>3, ReceivesPart DEF ReceiveInv
    <3>7. CASE part.final
      <4>1. PICK got : got = [i \in 1 .. Len(put.items) |-> put.items[i].block]
        OBVIOUS
      <4>2. got = <<Append(b, part)>>
        <5>1. Len(put.items) = 1 /\ put.items[1] = Item(Append(b, part)) /\ 1 .. 1 = {1}
          BY <3>4 DEF Holds
        <5>2. Item(Append(b, part)).block = Append(b, part)
          BY DEF Item
        <5>3. got = [i \in 1 .. 1 |-> Append(b, part)]
          BY <4>1, <5>1, <5>2
        <5> QED BY <5>3
      <4>3. recv' = [r EXCEPT !.given = r.given \o got, !.recvq = queue_zero]
        BY <1>6, <2>0, <2>3, <3>3, <3>7, <4>1 DEF ReceivePart
      <4>4. recv.given \o got = Append(recv.given, Append(b, part))
        BY <1>2, <1>4, <3>2, <4>2
      <4>5. recv' = [recvq |-> queue_zero, message |-> part.message, parts |-> parts,
                     given |-> Append(recv.given, Append(b, part))]
        BY <1>6, <4>3, <4>4
      <4>6. Received(recv, part, Append(recv.given, Append(b, part)), queue_zero, recv')
        BY <1>7, <4>5
      <4> QED BY <1>1, <1>9, <3>1, <3>2, <3>5, <3>7, <4>6, ReceivesLast DEF ReceiveInv
    <3> QED BY <3>6, <3>7
  <2> QED BY <2>1, <2>2, <2>3
<1> QED BY <1>1, <1>8, <1>9

\* Nothing was received yet.
LEMMA InitReceive == Init => ReceiveInv
<1> SUFFICES ASSUME Init PROVE ReceiveInv
  OBVIOUS
<1>1. side \in {"server", "client"} /\ recv = NoMessages
  BY SidesAssumption DEF Init
<1>2. /\ recv = [recvq |-> recv.recvq, message |-> recv.message, parts |-> recv.parts, given |-> recv.given]
      /\ recv.recvq = queue_zero /\ recv.message = 0 /\ recv.parts = 0 /\ recv.given = <<>>
  BY <1>1 DEF NoMessages
<1>3. <<>> \in Seq(Seq(PartRecords)) /\ <<>> \in Seq(PartRecords) /\ Len(<<>>) = 0
  OBVIOUS
<1>4. Parts(recv) = <<>>
  <2>1. FlattenSeq(<<>>) = <<>>
    BY <1>3, FlattenIsSeq
  <2>2. <<>> \o <<>> = <<>>
    OBVIOUS
  <2> QED BY <1>2, <2>1, <2>2, QueueData DEF Parts
<1>5. Chained(Parts(recv)) /\ Ends(Parts(recv), recv) /\ Parts(recv) \in Seq(PartRecords)
  BY <1>2, <1>3, <1>4 DEF Chained, Ends
<1>6. Gathered(recv)
  BY <1>2, <1>3 DEF Gathered
<1> QED BY <1>1, <1>2, <1>3, <1>5, <1>6 DEF ReceiveInv, Receiving

\* Nothing else receives.
LEMMA NextReceive == ReceiveInv /\ [Next]_vars => ReceiveInv'
<1> SUFFICES ASSUME ReceiveInv, [Next]_vars PROVE ReceiveInv'
  OBVIOUS
<1>1. CASE Receive
  BY <1>1, ReceiveStep
<1>2. ASSUME UNCHANGED <<side, recv>>
      PROVE  ReceiveInv'
  BY <1>2 DEF ReceiveInv
<1>3. CASE Create \/ Established \/ Writeable \/ Destroy \/ Send \/ Close \/ UNCHANGED vars
  BY <1>2, <1>3 DEF Create, Established, Writeable, Destroy, Send, Close, vars
<1>4. CASE ConnectionError \/ PeerInitiatedClose \/ Closed
  BY <1>2, <1>4 DEF ConnectionError, PeerInitiatedClose, Closed, Closes
<1> QED BY <1>1, <1>3, <1>4 DEF Next

\* What the script is given is what the peer sent, in order, and on the client in
\* whole messages, in however many parts they come (LWS_CALLBACK_RECEIVE,
\* LWS_CALLBACK_CLIENT_RECEIVE).
THEOREM MessagesWholeHolds == Spec => []MessagesWhole
<1>1. ReceiveInv => MessagesWhole
  <2> SUFFICES ASSUME ReceiveInv PROVE MessagesWhole
    OBVIOUS
  <2>1. side = "client" => \A i \in 1 .. Len(recv.given) : Whole(recv.given[i], i)
    BY DEF ReceiveInv, Receiving, Gathered
  <2>2. Chained(FlattenSeq(recv.given) \o queue_data(recv.recvq))
    BY DEF ReceiveInv, Receiving, Parts
  <2> QED BY <2>1, <2>2 DEF MessagesWhole, Whole, Chained
<1> QED BY <1>1, InitReceive, NextReceive, PTL DEF Spec
=============================================================================
