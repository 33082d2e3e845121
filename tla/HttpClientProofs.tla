---------------------------- MODULE HttpClientProofs ----------------------------
(***************************************************************************)
(* Proofs about HttpClient, for any bodies and any bounds: how the promise *)
(* of a call goes with its connection (PromiseInv), what a blocking fetch  *)
(* waits for (LoopInv), what its response gathers (BodyInv), and what has  *)
(* been written of the request's body (WireInv).                           *)
(***************************************************************************)
EXTENDS HttpClient, SequenceTheorems, WellFoundedInduction, TLAPS

\* A client, and a connection, have their fields.
Client(d) ==
  d = [call |-> d.call, ret |-> d.ret, promise |-> d.promise, answer |-> d.answer,
       close |-> d.close, closes |-> d.closes, http |-> d.http, writeable |-> d.writeable,
       lwsret |-> d.lwsret, fds |-> d.fds, error |-> d.error, preset |-> d.preset,
       resp |-> d.resp, status |-> d.status, hasbody |-> d.hasbody, body |-> d.body,
       respobj |-> d.respobj, ws |-> d.ws, next |-> d.next, threw |-> d.threw,
       died |-> d.died]

Connection(n) ==
  n = [phase |-> n.phase, fd |-> n.fd, asked |-> n.asked, toGet |-> n.toGet, est |-> n.est,
       status |-> n.status, sent |-> n.sent, completed |-> n.completed, wire |-> n.wire]

Early == {"connecting", "bound", "sent"}

LivePhases == Early \cup {"established", "completed", "closing"}

\* Whom on.http may call.
Https == {"none", "user", "terminate", "answer"}

\* The phases of a connection, and of the call.  A call that has not been made has
\* no connection; a socket is known once the connection was established.
PhaseInv(p, d, n) ==
  /\ Client(d) /\ Connection(n)
  /\ d.call \in {"none", "running", "returned"}
  /\ d.ws \in {"none", "unknown", "known"}
  /\ d.http \in Https
  /\ n.phase \in LivePhases \cup {"none", "destroyed"}
  /\ n.est \in BOOLEAN /\ n.completed \in BOOLEAN
  /\ n.phase # "none" => n.fd \in {1, 2}
  /\ n.phase \in Early \cup {"none"} => ~n.est /\ ~n.completed
  /\ n.phase = "established" => n.est /\ ~n.completed
  /\ n.phase = "completed" => n.est
  /\ d.call = "none" => d = client_new /\ n = NoConnection
  /\ d.call = "running" => p.block /\ p.fetch /\ n.phase # "none"
  /\ d.died = "" /\ ~n.est => d.ws # "known"
  /\ d.died = "" /\ n.est => d.ws # "none"

\* on.close of a call that does not block.
OwnClose(d) == d.close \in {"user", "reject", "fetch"}

\* The promise of a connection that is there is pending until it is established.
PromiseInv(p, d, n) ==
  d.died = "" /\ ~p.block /\ n.phase # "none" =>
    /\ OwnClose(d)
    /\ d.promise = CASE n.est -> "resolved"
                     [] ~n.est /\ n.phase # "destroyed" -> "pending"
                     [] OTHER -> "rejected"

\* A blocking call waits for the descriptor of its connection and for no other.
LoopInv(p, d, n) ==
  d.died = "" /\ p.block /\ n.phase # "none" =>
    /\ d.close = "sync"
    /\ d.fds = IF n.phase = "destroyed" THEN <<>> ELSE <<n.fd>>
    /\ p.fetch /\ n.phase # "destroyed" => d.call = "running"

\* A generator has its fields.
IsGenerator(g) ==
  /\ g = [it |-> g.it, hasq |-> g.hasq, q |-> g.q, buffering |-> g.buffering,
          chunk_size |-> g.chunk_size, started |-> g.started, executor |-> g.executor,
          callback |-> g.callback, reject |-> g.reject, thened |-> g.thened,
          pushes |-> g.pushes, called |-> g.called, notified |-> g.notified,
          aborted |-> g.aborted]
  /\ g.it = [reads |-> g.it.reads, closed |-> g.it.closed, closing |-> g.it.closing,
             issued |-> g.it.issued, settled |-> g.it.settled]
  /\ g.q = [items |-> g.q.items, continuous |-> g.q.continuous]

\* What has come in is in the one chunk of the body, which nobody reads before
\* its end, and the end is behind it once the response is complete.
Gathers(g, sent, completed) ==
  /\ IsGenerator(g)
  /\ g.hasq /\ g.q.continuous /\ ~g.buffering /\ g.it.reads = <<>>
  /\ g.callback = NoFunction
  /\ completed => g.q.items = <<Item(FlattenSeq(sent)), EndItem>>
  /\ ~completed => g.q.items = <<Item(FlattenSeq(sent))>>

BodyInv(p, d, n) ==
  /\ n.sent \in Seq(Seq(Nat))
  /\ d.died = "" /\ p.block /\ p.fetch /\ n.phase # "none" =>
       d.preset /\ d.hasbody /\ Gathers(d.body, n.sent, n.completed)
  /\ d.call = "returned" /\ d.ret = "response" =>
       d.died = "" /\ p.block /\ p.fetch /\ n.phase # "none"

\* The inductive invariant.
Inv(p, d, n) == PhaseInv(p, d, n) /\ PromiseInv(p, d, n) /\ LoopInv(p, d, n) /\ BodyInv(p, d, n)

IInv == o \in Options /\ Inv(o, c, net)

-----------------------------------------------------------------------------
\* Sequences of sequences.

\* A set of numbers that is not empty has a least one.
LEMMA LeastNat ==
  ASSUME NEW T, T \subseteq Nat, T # {}
  PROVE  \E n \in T : \A m \in T : n =< m
<1>1. PICK n \in T : \A m \in T : ~(<<m, n>> \in OpToRel(<, Nat))
  BY NatLessThanWellFounded, WFMin
<1>2. \A m \in T : ~(m < n)
  BY <1>1 DEF OpToRel
<1> QED BY <1>2

\* f gives what the first elements of s join to (the function FlattenSeq defines).
Joins(s, f) ==
  f = [i \in 1 .. Len(s) |-> IF i = 1 THEN s[i] ELSE f[i - 1] \o s[i]]

\* The first n elements of s join.
LEMMA JoinsPrefix ==
  ASSUME NEW S, NEW s \in Seq(Seq(S)), NEW n \in 1 .. Len(s)
  PROVE  \E h \in [1 .. n -> Seq(S)] :
           \A i \in 1 .. n : h[i] = IF i = 1 THEN s[i] ELSE h[i - 1] \o s[i]
<1> DEFINE Ok(k) == \E h \in [1 .. k -> Seq(S)] :
                      \A i \in 1 .. k : h[i] = IF i = 1 THEN s[i] ELSE h[i - 1] \o s[i]
           T == {k \in 1 .. Len(s) : ~Ok(k)}
<1>0. Len(s) \in Nat /\ \A i \in 1 .. Len(s) : s[i] \in Seq(S)
  OBVIOUS
<1> SUFFICES ASSUME T # {} PROVE FALSE
  OBVIOUS
<1>1. PICK k \in T : \A m \in T : k =< m
  <2>1. T \subseteq Nat
    BY <1>0
  <2> HIDE DEF T
  <2> QED BY <2>1, LeastNat
<1>2. k \in 1 .. Len(s) /\ ~Ok(k)
  BY <1>1
<1>3. CASE k = 1
  <2> DEFINE h == [i \in 1 .. 1 |-> s[1]]
  <2>1. h \in [1 .. 1 -> Seq(S)]
    BY <1>0, <1>2, <1>3
  <2>2. \A i \in 1 .. 1 : h[i] = IF i = 1 THEN s[i] ELSE h[i - 1] \o s[i]
    OBVIOUS
  <2> QED BY <1>2, <1>3, <2>1, <2>2
<1>4. CASE k # 1
  <2>1. k - 1 \in 1 .. Len(s) /\ k \in Nat /\ k - 1 < k /\ k > 1
    BY <1>0, <1>2, <1>4
  <2>2. Ok(k - 1)
    <3>1. ~(k =< k - 1)
      BY <2>1
    <3> QED BY <1>1, <2>1, <3>1
  <2>3. PICK h \in [1 .. k - 1 -> Seq(S)] :
          \A i \in 1 .. k - 1 : h[i] = IF i = 1 THEN s[i] ELSE h[i - 1] \o s[i]
    BY <2>2
  <2> DEFINE e == h[k - 1] \o s[k]
             f == [i \in 1 .. k |-> IF i = k THEN e ELSE h[i]]
  <2>4. e \in Seq(S)
    <3>1. h[k - 1] \in Seq(S) /\ s[k] \in Seq(S)
      BY <1>0, <1>2, <2>1
    <3> QED BY <3>1, ConcatProperties
  <2> HIDE DEF e
  <2>5. \A i \in 1 .. k : i # k => i \in 1 .. k - 1
    BY <2>1
  <2>6. f \in [1 .. k -> Seq(S)]
    BY <2>4, <2>5
  <2>7. \A i \in 1 .. k : f[i] = IF i = 1 THEN s[i] ELSE f[i - 1] \o s[i]
    <3> SUFFICES ASSUME NEW i \in 1 .. k
                 PROVE  f[i] = IF i = 1 THEN s[i] ELSE f[i - 1] \o s[i]
      OBVIOUS
    <3>1. CASE i = k
      <4>1. f[i] = e /\ i # 1 /\ i - 1 \in 1 .. k /\ i - 1 # k
        BY <2>1, <3>1
      <4>2. f[i - 1] = h[k - 1]
        BY <3>1, <4>1
      <4> QED BY <3>1, <4>1, <4>2 DEF e
    <3>2. CASE i # k
      <4>1. f[i] = h[i] /\ i \in 1 .. k - 1
        BY <2>5, <3>2
      <4>2. i # 1 => i - 1 \in 1 .. k /\ i - 1 # k
        BY <2>1, <4>1
      <4>3. i # 1 => f[i - 1] = h[i - 1]
        BY <4>2
      <4> QED BY <2>3, <4>1, <4>3
    <3> QED BY <3>1, <3>2
  <2> HIDE DEF f
  <2>8. Ok(k)
    BY <2>6, <2>7
  <2> QED BY <1>2, <2>8
<1> QED BY <1>3, <1>4

\* A sequence has a function that joins it, whose values are sequences.
LEMMA JoinsExist ==
  ASSUME NEW S, NEW s \in Seq(Seq(S)), s # <<>>
  PROVE  \E f \in [1 .. Len(s) -> Seq(S)] : Joins(s, f)
<1>1. Len(s) \in 1 .. Len(s)
  BY EmptySeq
<1>2. PICK n : n = Len(s) /\ n \in 1 .. Len(s)
  BY <1>1
<1>3. PICK f \in [1 .. n -> Seq(S)] :
        \A i \in 1 .. n : f[i] = IF i = 1 THEN s[i] ELSE f[i - 1] \o s[i]
  <2>1. \A k \in 1 .. Len(s) : \E h \in [1 .. k -> Seq(S)] :
          \A i \in 1 .. k : h[i] = IF i = 1 THEN s[i] ELSE h[i - 1] \o s[i]
    BY JoinsPrefix
  <2> QED BY <1>2, <2>1
<1>4. f = [i \in 1 .. n |-> IF i = 1 THEN s[i] ELSE f[i - 1] \o s[i]]
  BY <1>3
<1> QED BY <1>2, <1>4 DEF Joins

\* s and t are the same up to n.
SameTo(n, s, t) == \A i \in 1 .. n : s[i] = t[i]

\* Functions that join two sequences join what they have in common alike.
LEMMA JoinsAlike ==
  ASSUME NEW s, NEW f, NEW t, NEW e, Len(s) \in Nat, Len(t) \in Nat,
         Joins(s, f), Joins(t, e), NEW n \in Nat, n =< Len(s), n =< Len(t),
         SameTo(n, s, t), NEW j \in 1 .. n
  PROVE  f[j] = e[j]
<1> DEFINE T == {k \in 1 .. n : f[k] # e[k]}
<1>1. \A i \in 1 .. n : /\ i \in 1 .. Len(s) /\ i \in 1 .. Len(t)
                        /\ i # 1 => i - 1 \in 1 .. n
  OBVIOUS
<1> SUFFICES ASSUME T # {} PROVE FALSE
  OBVIOUS
<1>2. PICK k \in T : \A m \in T : k =< m
  <2>1. T \subseteq Nat
    OBVIOUS
  <2> HIDE DEF T
  <2> QED BY <2>1, LeastNat
<1>3. k \in 1 .. n /\ f[k] # e[k]
  BY <1>2
<1>4. /\ f[k] = IF k = 1 THEN s[k] ELSE f[k - 1] \o s[k]
      /\ e[k] = IF k = 1 THEN t[k] ELSE e[k - 1] \o t[k]
  BY <1>1, <1>3 DEF Joins
<1>6. s[k] = t[k]
  BY <1>3 DEF SameTo
<1>5. k # 1 => f[k - 1] = e[k - 1]
  <2>1. ~(k =< k - 1)
    BY <1>3
  <2> QED BY <1>1, <1>2, <1>3, <2>1
<1> QED BY <1>3, <1>4, <1>5, <1>6

\* What a sequence joins to.
LEMMA Flattened ==
  ASSUME NEW S, NEW s \in Seq(Seq(S)), NEW f, Joins(s, f), s # <<>>
  PROVE  FlattenSeq(s) = f[Len(s)]
<1> DEFINE flatten == CHOOSE h : h = [i \in 1 .. Len(s) |-> IF i = 1 THEN s[i] ELSE h[i - 1] \o s[i]]
<1>1. Len(s) \in Nat /\ Len(s) # 0
  BY EmptySeq
<1>2. FlattenSeq(s) = flatten[Len(s)]
  BY <1>1 DEF FlattenSeq
<1>3. flatten = [i \in 1 .. Len(s) |-> IF i = 1 THEN s[i] ELSE flatten[i - 1] \o s[i]]
  BY ZenonT(60) DEF Joins
<1> HIDE DEF flatten
<1>4. Joins(s, flatten)
  BY <1>3 DEF Joins
<1>5. flatten[Len(s)] = f[Len(s)]
  <2>1. Len(s) \in 1 .. Len(s)
    BY <1>1
  <2>2. SameTo(Len(s), s, s) /\ Len(s) =< Len(s)
    BY <1>1 DEF SameTo
  <2> QED BY <1>1, <1>4, <2>1, <2>2, JoinsAlike
<1> QED BY <1>2, <1>5

\* Nothing joins to nothing, and what is joined is a sequence.
LEMMA FlattenIsSeq ==
  ASSUME NEW S, NEW s \in Seq(Seq(S))
  PROVE  FlattenSeq(s) \in Seq(S) /\ (s = <<>> => FlattenSeq(s) = <<>>)
<1>1. CASE s = <<>>
  <2>1. Len(s) = 0
    BY <1>1
  <2>2. FlattenSeq(s) = s
    BY <2>1 DEF FlattenSeq
  <2> QED BY <1>1, <2>2, EmptySeq
<1>2. CASE s # <<>>
  <2>1. PICK f \in [1 .. Len(s) -> Seq(S)] : Joins(s, f)
    BY <1>2, JoinsExist
  <2>2. Len(s) \in 1 .. Len(s)
    BY <1>2, EmptySeq
  <2>3. FlattenSeq(s) = f[Len(s)]
    BY <1>2, <2>1, Flattened
  <2> QED BY <1>2, <2>1, <2>2, <2>3
<1> QED BY <1>1, <1>2

\* A sequence one longer than another, and the same as it up to there, joins to
\* what the other does and its last element.
LEMMA JoinsOneMore ==
  ASSUME NEW S, NEW s \in Seq(Seq(S)), NEW t \in Seq(Seq(S)),
         Len(t) = Len(s) + 1, SameTo(Len(s), s, t),
         NEW f, NEW e, Joins(s, f), Joins(t, e)
  PROVE  e[Len(t)] = IF s = <<>> THEN t[Len(t)] ELSE f[Len(s)] \o t[Len(t)]
<1>1. PICK k : k = Len(t)
  OBVIOUS
<1>2. k \in 1 .. Len(t) /\ k - 1 = Len(s) /\ (s = <<>> <=> k = 1)
  BY <1>1, EmptySeq
<1>3. e[k] = IF k = 1 THEN t[k] ELSE e[k - 1] \o t[k]
  BY <1>2 DEF Joins
<1>4. s # <<>> => f[Len(s)] = e[Len(s)]
  <2> SUFFICES ASSUME s # <<>> PROVE f[Len(s)] = e[Len(s)]
    OBVIOUS
  <2>1. PICK n : n = Len(s)
    OBVIOUS
  <2>2. Len(s) \in Nat /\ Len(t) \in Nat /\ n \in Nat /\ n =< Len(s) /\ n =< Len(t)
    BY <2>1
  <2>3. n \in 1 .. n
    BY <1>2, <2>1, <2>2
  <2>4. SameTo(n, s, t)
    BY <2>1
  <2>5. \A j \in 1 .. n : f[j] = e[j]
    BY <2>2, <2>4, JoinsAlike, SMTT(60)
  <2> QED BY <2>1, <2>3, <2>5
<1> QED BY <1>1, <1>2, <1>3, <1>4

\* An element behind the others is joined behind them.
LEMMA FlattenAppend ==
  ASSUME NEW S, NEW s \in Seq(Seq(S)), NEW x \in Seq(S)
  PROVE  FlattenSeq(Append(s, x)) = FlattenSeq(s) \o x
<1>1. PICK t : t = Append(s, x)
  OBVIOUS
<1>2. /\ t \in Seq(Seq(S)) /\ Len(t) = Len(s) + 1 /\ t # <<>>
      /\ t[Len(t)] = x /\ SameTo(Len(s), s, t)
  <2>1. /\ t \in Seq(Seq(S)) /\ Len(t) = Len(s) + 1 /\ t[Len(s) + 1] = x
        /\ \A i \in 1 .. Len(s) : s[i] = t[i]
    BY <1>1, AppendProperties
  <2> QED BY <2>1, EmptySeq DEF SameTo
<1>3. PICK e : Joins(t, e)
  BY <1>2, JoinsExist
<1>4. FlattenSeq(t) = e[Len(t)]
  BY <1>2, <1>3, Flattened
<1>5. CASE s = <<>>
  <2>1. FlattenSeq(s) = <<>>
    BY <1>5, FlattenIsSeq
  <2>2. <<>> \o x = x
    BY ConcatEmptySeq
  <2>3. PICK f : f = [i \in 1 .. Len(s) |-> s[i]]
    OBVIOUS
  <2>4. \A i : i \notin 1 .. Len(s)
    BY <1>5
  <2>5. Joins(s, f)
    BY <2>3, <2>4 DEF Joins
  <2>6. e[Len(t)] = t[Len(t)]
    BY <1>2, <1>3, <1>5, <2>5, JoinsOneMore
  <2> QED BY <1>1, <1>2, <1>4, <2>1, <2>2, <2>6
<1>6. CASE s # <<>>
  <2>1. PICK f : Joins(s, f)
    BY <1>6, JoinsExist
  <2>2. FlattenSeq(s) = f[Len(s)]
    BY <1>6, <2>1, Flattened
  <2>3. e[Len(t)] = f[Len(s)] \o t[Len(t)]
    BY <1>2, <1>3, <1>6, <2>1, JoinsOneMore
  <2> QED BY <1>1, <1>2, <1>4, <2>2, <2>3
<1> QED BY <1>5, <1>6

-----------------------------------------------------------------------------
\* The body a blocking fetch gathers.

\* No pieces are nothing.
LEMMA NoPieces == <<>> \in Seq(Seq(Nat)) /\ FlattenSeq(<<>>) = <<>>
<1>1. <<>> \in Seq(Seq(Nat))
  OBVIOUS
<1>2. FlattenSeq(<<>>) = <<>>
  BY <1>1, FlattenIsSeq
<1> QED BY <1>1, <1>2

\* Lists of one and of two.
LEMMA ShortLists ==
  ASSUME NEW a, NEW b
  PROVE  /\ Append(<<a>>, b) = <<a, b>>
         /\ [<<a>> EXCEPT ![1] = b] = <<b>>
<1>1. Append(<<a>>, b) = <<a, b>>
  <2> DEFINE r == Append(<<a>>, b)
  <2>1. <<a>> \in Seq({a, b}) /\ Len(<<a>>) = 1 /\ <<a>>[1] = a
    OBVIOUS
  <2>2. r \in Seq({a, b}) /\ Len(r) = 2 /\ r[1] = a /\ r[2] = b
    BY <2>1, AppendProperties
  <2> HIDE DEF r
  <2>3. r = <<a, b>>
    BY <2>2
  <2> QED BY <2>3 DEF r
<1>2. [<<a>> EXCEPT ![1] = b] = <<b>>
  <2> DEFINE r == [<<a>> EXCEPT ![1] = b]
  <2>1. <<a>> \in Seq({a, b}) /\ Len(<<a>>) = 1 /\ b \in {a, b} /\ 1 \in 1 .. 1
    OBVIOUS
  <2>2. r \in Seq({a, b}) /\ Len(r) = 1 /\ r[1] = b
    BY <2>1, ExceptSeq
  <2> HIDE DEF r
  <2>3. r = <<b>>
    BY <2>2
  <2> QED BY <2>3 DEF r
<1> QED BY <1>1, <1>2

\* The one chunk of a queue is its last.
LEMMA OneChunk ==
  ASSUME NEW block, NEW q, q.items = <<Item(block)>>
  PROVE  queue_last_chunk(q) = 1
<1> DEFINE I == {i \in 1 .. Len(q.items) : q.items[i].block # <<>> \/ ~q.items[i].done}
<1>1. Len(q.items) = 1 /\ q.items[1] = Item(block) /\ 1 .. 1 = {1}
  OBVIOUS
<1>2. ~q.items[1].done
  BY <1>1 DEF Item
<1>3. I = {1}
  BY <1>1, <1>2
<1>4. Max({1}) = 1
  BY DEF Max
<1>5. queue_last_chunk(q) = IF I # {} THEN Max(I) ELSE 0
  BY DEF queue_last_chunk, SelectLastInSeq, SelectLastInSubSeq
<1> QED BY <1>3, <1>4, <1>5

\* The body begins with nothing gathered.
LEMMA GathersNothing ==
  ASSUME NEW completed, ~completed
  PROVE  Gathers(generator_continuous(generator_zero, NoFunction), <<>>, completed)
<1>1. queue_last_chunk(queue_zero) = 0
  <2> DEFINE I == {i \in 1 .. Len(queue_zero.items) :
                     queue_zero.items[i].block # <<>> \/ ~queue_zero.items[i].done}
  <2>1. I = {}
    BY DEF queue_zero
  <2>2. queue_last_chunk(queue_zero) = IF I # {} THEN Max(I) ELSE 0
    BY DEF queue_last_chunk, SelectLastInSeq, SelectLastInSubSeq
  <2> QED BY <2>1, <2>2
<1>2. PICK q : q = queue_continuous(queue_zero)
  OBVIOUS
<1>3. /\ q = [items |-> q.items, continuous |-> q.continuous]
      /\ q.items = <<Item(<<>>)>> /\ q.continuous
  <2>1. Append(<<>>, Item(<<>>)) = <<Item(<<>>)>>
    OBVIOUS
  <2> QED BY <1>1, <1>2, <2>1 DEF queue_continuous, queue_zero
<1>4. PICK c0 : c0 = create_queue(generator_zero)
  OBVIOUS
<1>5. /\ IsGenerator(c0) /\ c0.hasq /\ c0.q = queue_zero /\ ~c0.buffering
      /\ c0.it.reads = <<>> /\ c0.callback = NoFunction
  BY <1>4 DEF create_queue, generator_zero, asynciterator_zero, queue_zero, IsGenerator
<1>6. PICK g : g = generator_continuous(generator_zero, NoFunction)
  OBVIOUS
<1>7. g = [c0 EXCEPT !.q = q, !.callback = NoFunction]
  BY <1>2, <1>4, <1>5, <1>6 DEF generator_continuous
<1>8. /\ IsGenerator(g) /\ g.hasq /\ g.q = q /\ ~g.buffering
      /\ g.it.reads = <<>> /\ g.callback = NoFunction
  BY <1>3, <1>5, <1>7 DEF IsGenerator
<1> QED BY <1>3, <1>6, <1>8, NoPieces DEF Gathers

\* A chunk that grows is a chunk.
LEMMA Longer ==
  ASSUME NEW a, NEW b
  PROVE  [Item(a) EXCEPT !.block = Item(a).block \o b] = Item(a \o b)
<1>1. PICK F : \A x : Item(x) = [block |-> x, done |-> F, unref |-> 0]
  BY DEF Item
<1>2. Item(a).block = a
  BY DEF Item
<1>3. \A x : [Item(a) EXCEPT !.block = x] = Item(x)
  BY <1>1
<1> QED BY <1>2, <1>3

\* A chunk goes behind what has been gathered.
LEMMA GathersChunk ==
  ASSUME NEW sent \in Seq(Seq(Nat)), NEW chunk \in Seq(Nat), NEW completed, ~completed,
         NEW g, Gathers(g, sent, completed)
  PROVE  Gathers(enqueue_block(g, chunk, 0), Append(sent, chunk), completed)
<1>1. PICK all : all = FlattenSeq(sent)
  OBVIOUS
<1>2. FlattenSeq(Append(sent, chunk)) = all \o chunk
  BY <1>1, FlattenAppend
<1>3. /\ g.q = [items |-> g.q.items, continuous |-> g.q.continuous] /\ IsGenerator(g)
      /\ g.q.items = <<Item(all)>> /\ g.q.continuous /\ ~g.buffering
      /\ g.it.reads = <<>> /\ g.callback = NoFunction
  BY <1>1 DEF Gathers, IsGenerator
<1>4. PICK q : q = [g.q EXCEPT !.continuous = @ \/ g.buffering]
  OBVIOUS
<1>5. q = [items |-> q.items, continuous |-> q.continuous] /\ q.items = <<Item(all)>> /\ q.continuous
  BY <1>3, <1>4
<1>6. queue_last_chunk(q) = 1 /\ queue_put_at(q) = 1
  <2>1. queue_last_chunk(q) = 1
    BY <1>5, OneChunk
  <2> QED BY <1>5, <2>1 DEF queue_put_at
<1>7. PICK r : r = queue_put(q, chunk)
  OBVIOUS
<1>8. r = [items |-> r.items, continuous |-> r.continuous] /\ r.continuous
      /\ r.items = <<Item(all \o chunk)>>
  <2>1. r = [q EXCEPT !.items[1].block = q.items[1].block \o chunk]
    <3>1. r = [q EXCEPT !.items[queue_last_chunk(q)].block
                 = q.items[queue_last_chunk(q)].block \o chunk]
      BY <1>5, <1>6, <1>7 DEF queue_put
    <3> QED BY <1>6, <3>1
  <2>2. r = [q EXCEPT !.items = [q.items EXCEPT ![1] =
                                   [q.items[1] EXCEPT !.block = q.items[1].block \o chunk]]]
    BY <2>1
  <2>3. [q.items[1] EXCEPT !.block = q.items[1].block \o chunk] = Item(all \o chunk)
    <3>1. q.items[1] = Item(all)
      BY <1>5
    <3> QED BY <3>1, Longer
  <2>4. [q.items EXCEPT ![1] = Item(all \o chunk)] = <<Item(all \o chunk)>>
    BY <1>5, ShortLists
  <2> QED BY <1>5, <2>2, <2>3, <2>4
<1>9. PICK s : s = [r EXCEPT !.continuous = @ /\ ~g.buffering]
  OBVIOUS
<1>10. s = [items |-> s.items, continuous |-> s.continuous] /\ s.continuous
       /\ s.items = <<Item(all \o chunk)>>
  BY <1>3, <1>8, <1>9
<1>11. PICK h : h = enqueue_block(g, chunk, 0)
  OBVIOUS
<1>12. h = [create_queue(g) EXCEPT !.q = s]
  BY <1>3, <1>4, <1>6, <1>7, <1>9, <1>11 DEF enqueue_block
<1>13. /\ IsGenerator(h) /\ h.hasq /\ h.q = s /\ ~h.buffering
       /\ h.it.reads = <<>> /\ h.callback = NoFunction
  BY <1>3, <1>10, <1>12 DEF create_queue, IsGenerator
<1> QED BY <1>2, <1>10, <1>11, <1>13 DEF Gathers

\* Nobody reads it meanwhile.
LEMMA GathersWrite ==
  ASSUME NEW sent \in Seq(Seq(Nat)), NEW chunk \in Seq(Nat), NEW completed, ~completed,
         NEW g, Gathers(g, sent, completed)
  PROVE  Gathers(generator_write(g, chunk, 0), Append(sent, chunk), completed)
<1>1. g.hasq /\ g.q.continuous /\ g.it.reads = <<>>
  BY DEF Gathers
<1> DEFINE base == enqueue_block(g, chunk, 0)
           turns == CHOOSE f : f = [n \in 0 .. Len(g.it.reads) |->
                                      IF n = 0 THEN base ELSE WriteTurn(f[n - 1])]
           f0 == [n \in 0 .. Len(g.it.reads) |-> base]
<1>2. Len(g.it.reads) = 0
  BY <1>1
<1>3. generator_write(g, chunk, 0) = turns[Len(g.it.reads)]
  BY <1>1 DEF generator_write
<1>4. turns[Len(g.it.reads)] = base
  <2> HIDE DEF base
  <2>1. f0 = [n \in 0 .. Len(g.it.reads) |-> IF n = 0 THEN base ELSE WriteTurn(f0[n - 1])]
    BY <1>2
  <2> HIDE DEF f0
  <2>2. turns = [n \in 0 .. Len(g.it.reads) |->
                   IF n = 0 THEN base ELSE WriteTurn(turns[n - 1])]
    BY <2>1
  <2> HIDE DEF turns
  <2>3. 0 \in 0 .. Len(g.it.reads)
    BY <1>2
  <2> QED BY <1>2, <2>2, <2>3
<1>5. generator_write(g, chunk, 0) = base
  BY <1>3, <1>4
<1> QED BY <1>5, GathersChunk

\* The end goes behind it.
LEMMA GathersFinish ==
  ASSUME NEW sent \in Seq(Seq(Nat)), NEW completed, ~completed, NEW ended, ended,
         NEW g, Gathers(g, sent, completed)
  PROVE  Gathers(generator_finish(g), sent, ended)
<1>1. PICK all : all = FlattenSeq(sent)
  OBVIOUS
<1>2. PICK closing : closing = [g EXCEPT !.it.closing = TRUE]
  OBVIOUS
<1>3. /\ IsGenerator(g) /\ g.hasq /\ g.q.continuous /\ ~g.buffering /\ g.it.reads = <<>>
      /\ g.callback = NoFunction /\ g.q.items = <<Item(all)>>
  BY <1>1 DEF Gathers
<1>4. /\ IsGenerator(closing) /\ closing.it.reads = <<>> /\ closing.q = g.q
      /\ closing.hasq /\ ~closing.buffering /\ closing.callback = NoFunction
  BY <1>2, <1>3 DEF IsGenerator
<1> DEFINE turns == CHOOSE f : f = [n \in 0 .. Len(closing.it.reads) |->
                                      IF n = 0 THEN closing ELSE UpdateTurn(f[n - 1])]
           f0 == [n \in 0 .. Len(closing.it.reads) |-> closing]
<1>5. Len(closing.it.reads) = 0
  BY <1>4
<1>6. generator_update(closing) = turns[Len(closing.it.reads)]
  BY DEF generator_update
<1>7. turns[Len(closing.it.reads)] = closing
  <2>1. f0 = [n \in 0 .. Len(closing.it.reads) |->
                IF n = 0 THEN closing ELSE UpdateTurn(f0[n - 1])]
    BY <1>5
  <2> HIDE DEF f0
  <2>2. turns = [n \in 0 .. Len(closing.it.reads) |->
                   IF n = 0 THEN closing ELSE UpdateTurn(turns[n - 1])]
    BY <2>1
  <2> HIDE DEF turns
  <2>3. 0 \in 0 .. Len(closing.it.reads)
    BY <1>5
  <2> QED BY <1>5, <2>2, <2>3
<1> HIDE DEF turns, f0
<1>8. generator_update(closing) = closing
  BY <1>6, <1>7
<1>9. ~queue_closed(closing.q) /\ ~queue_complete(closing.q)
  <2>1. Head(<<Item(all)>>) = Item(all) /\ Last(<<Item(all)>>) = Item(all)
    BY DEF Last
  <2>2. ~Item(all).done
    BY DEF Item
  <2> QED BY <1>3, <1>4, <2>1, <2>2 DEF queue_closed, queue_complete, queue_front
<1>10. PICK q : q = queue_close(closing.q)
  OBVIOUS
<1>11. q = [items |-> q.items, continuous |-> q.continuous] /\ q.continuous
       /\ q.items = <<Item(all), EndItem>>
  <2>1. Append(<<Item(all)>>, EndItem) = <<Item(all), EndItem>>
    BY ShortLists
  <2>2. closing.q.items = <<Item(all)>> /\ closing.q.continuous
        /\ closing.q = [items |-> closing.q.items, continuous |-> closing.q.continuous]
    BY <1>3, <1>4 DEF IsGenerator
  <2>3. q = [closing.q EXCEPT !.items = <<Item(all), EndItem>>]
    BY <1>9, <1>10, <2>1, <2>2 DEF queue_close
  <2> QED BY <2>2, <2>3
<1>12. PICK h : h = generator_finish(g)
  OBVIOUS
<1>13. h = [closing EXCEPT !.q = q]
  BY <1>2, <1>3, <1>8, <1>9, <1>10, <1>12 DEF generator_finish, queue_close_assert
<1>14. /\ IsGenerator(h) /\ h.hasq /\ h.q = q /\ ~h.buffering
       /\ h.it.reads = <<>> /\ h.callback = NoFunction
  BY <1>4, <1>11, <1>13 DEF IsGenerator
<1> QED BY <1>1, <1>11, <1>12, <1>14 DEF Gathers

\* What has been gathered is in front.
LEMMA GathersFront ==
  ASSUME NEW sent, NEW completed \in BOOLEAN, NEW g, Gathers(g, sent, completed)
  PROVE  queue_front(g.q).block = FlattenSeq(sent)
<1>1. PICK all : all = FlattenSeq(sent)
  OBVIOUS
<1>2. g.q.items = <<Item(all), EndItem>> \/ g.q.items = <<Item(all)>>
  BY <1>1 DEF Gathers
<1>3. Head(<<Item(all), EndItem>>) = Item(all) /\ Head(<<Item(all)>>) = Item(all)
  OBVIOUS
<1> QED BY <1>1, <1>2, <1>3 DEF queue_front, Item

-----------------------------------------------------------------------------
\* What the handlers do to a client.

\* r is d but for its promise, its descriptors, how often it was called and how
\* it died.
Kept(d, r) ==
  /\ Client(r)
  /\ r.call = d.call /\ r.ret = d.ret /\ r.close = d.close /\ r.ws = d.ws /\ r.http = d.http
  /\ r.preset = d.preset /\ r.hasbody = d.hasbody /\ r.body = d.body

\* What settling a promise does.
HasSettled(d, how, r) ==
  /\ Kept(d, r) /\ r.fds = d.fds /\ r.died = d.died
  /\ d.promise = "pending" => r.promise = how
  /\ d.promise # "pending" => r.promise = d.promise

\* A promise settles once.
LEMMA SettleKeeps ==
  ASSUME NEW d, Client(d), NEW how
  PROVE  HasSettled(d, how, Settle(d, how))
BY DEF Settle, Kept, Client, HasSettled

\* A list of one descriptor without it is empty.
LEMMA RemoveOnly ==
  ASSUME NEW a
  PROVE  RemoveFirst(<<a>>, a) = <<>>
<1> DEFINE I == {i \in 1 .. Len(<<a>>) : <<a>>[i] = a}
<1>1. Len(<<a>>) = 1 /\ <<a>>[1] = a /\ 1 .. 1 = {1}
  OBVIOUS
<1>2. I = {1}
  BY <1>1
<1>3. Min({1}) = 1
  BY DEF Min
<1>4. RemoveFirst(<<a>>, a) = RemoveAt(<<a>>, IF I # {} THEN Min(I) ELSE 0)
  <2>1. \E i \in 1 .. Len(<<a>>) : <<a>>[i] = a
    BY <1>1
  <2> QED BY <2>1 DEF RemoveFirst, SelectInSeq, SelectInSubSeq
<1>5. RemoveFirst(<<a>>, a) = RemoveAt(<<a>>, 1)
  BY <1>2, <1>3, <1>4
<1>6. SubSeq(<<a>>, 1, 1 - 1) = <<>> /\ SubSeq(<<a>>, 1 + 1, 1) = <<>>
  BY SubSeqEmpty
<1>7. RemoveAt(<<a>>, 1) = <<>> \o <<>>
  BY <1>1, <1>6 DEF RemoveAt
<1>8. <<>> \o <<>> = <<>>
  OBVIOUS
<1> QED BY <1>5, <1>7, <1>8

\* A descriptor that is waited for is waited for once.
LEMMA SetEvents ==
  ASSUME NEW d, Client(d), NEW fd, d.fds = <<>> \/ d.fds = <<fd>>,
         NEW r, r = synchfetch_setevents(d, fd)
  PROVE  Kept(d, r) /\ r.fds = <<fd>> /\ r.died = d.died /\ r.promise = d.promise
<1>1. CASE d.fds = <<>>
  <2>1. r = [d EXCEPT !.fds = <<fd>>]
    <3>1. ~\E i \in DOMAIN d.fds : d.fds[i] = fd
      BY <1>1
    <3>2. Append(<<>>, fd) = <<fd>>
      OBVIOUS
    <3> QED BY <1>1, <3>1, <3>2 DEF synchfetch_setevents
  <2> QED BY <2>1 DEF Kept, Client
<1>2. CASE d.fds = <<fd>>
  <2>1. \E i \in DOMAIN d.fds : d.fds[i] = fd
    BY <1>2
  <2>2. r = d
    BY <2>1 DEF synchfetch_setevents
  <2> QED BY <1>2, <2>2 DEF Kept
<1> QED BY <1>1, <1>2

\* What taking a descriptor off the list does.
HasRemoved(d, fd, r) ==
  /\ Kept(d, r) /\ r.promise = d.promise
  /\ r.died = d.died \/ r.died # ""
  /\ d.fds = <<fd>> => r.fds = <<>>
  /\ d.fds = <<>> => r.died # ""
  /\ \A other : d.fds = <<other>> /\ other # fd => r.died # ""

\* One that is not there stops the process.
LEMMA RemoveFd ==
  ASSUME NEW d, Client(d), NEW fd
  PROVE  HasRemoved(d, fd, synchfetch_removefd(d, fd))
<1> DEFINE r == synchfetch_removefd(d, fd)
<1> SUFFICES HasRemoved(d, fd, r)
  OBVIOUS
<1>1. CASE \E i \in DOMAIN d.fds : d.fds[i] = fd
  <2>1. r = [d EXCEPT !.fds = RemoveFirst(d.fds, fd)]
    BY <1>1 DEF synchfetch_removefd
  <2>2. d.fds # <<>> /\ \A other : d.fds = <<other>> => other = fd
    BY <1>1
  <2>3. d.fds = <<fd>> => RemoveFirst(d.fds, fd) = <<>>
    BY RemoveOnly
  <2> HIDE DEF r
  <2> QED BY <2>1, <2>2, <2>3 DEF Kept, Client, HasRemoved
<1>2. CASE ~\E i \in DOMAIN d.fds : d.fds[i] = fd
  <2>1. r = [d EXCEPT !.died = "synchfetch_removefd"]
    BY <1>2 DEF synchfetch_removefd, Dies
  <2>2. d.fds # <<fd>>
    BY <1>2
  <2> HIDE DEF r
  <2> QED BY <2>1, <2>2 DEF Kept, Client, HasRemoved
<1> QED BY <1>1, <1>2

\* A call that does not block has no list.
LEMMA PollFd ==
  ASSUME NEW p, p.block \in BOOLEAN, NEW d, Client(d), NEW fd, NEW r
  PROVE  /\ r = minnet_client_pollfd(p, d, fd, TRUE) =>
              IF p.block THEN r = synchfetch_setevents(d, fd) ELSE r = d
         /\ r = minnet_client_pollfd(p, d, fd, FALSE) =>
              IF p.block THEN r = synchfetch_removefd(d, fd) ELSE r = d
BY DEF minnet_client_pollfd

\* What on.close does to a call that does not block.
HasClosed(d, r) ==
  /\ Kept(d, r) /\ r.fds = d.fds /\ r.died = d.died
  /\ d.promise # "pending" => r.promise = d.promise

\* It leaves a promise that is settled.
LEMMA CloseTold ==
  ASSUME NEW d, Client(d), NEW fd, NEW error, OwnClose(d)
  PROVE  HasClosed(d, EmitClose(d, fd, error))
<1>0. PICK r : r = EmitClose(d, fd, error)
  OBVIOUS
<1> DEFINE e == [d EXCEPT !.closes = @ + 1]
<1>1. Client(e) /\ Kept(d, e) /\ e.fds = d.fds /\ e.died = d.died /\ e.promise = d.promise
  BY DEF Kept, Client
<1>2. r = e \/ r = Settle(e, "rejected")
  BY <1>0 DEF EmitClose, OwnClose
<1> HIDE DEF e
<1>3. HasSettled(e, "rejected", Settle(e, "rejected"))
  BY <1>1, SettleKeeps
<1> QED BY <1>0, <1>1, <1>2, <1>3 DEF Kept, HasSettled, HasClosed

\* What on.close does to a call that blocks.
HasClosedSync(d, fd, r) ==
  /\ Kept(d, r) /\ r.promise = d.promise /\ (r.died = d.died \/ r.died # "")
  /\ d.ws = "known" /\ d.fds = <<fd>> => r.fds = <<>>
  /\ d.ws = "known" /\ d.fds = <<>> => r.died # ""
  /\ d.ws = "unknown" /\ d.fds = <<>> => r.died # ""
  /\ d.ws = "unknown" /\ d.fds = <<fd>> /\ fd # 0 => r.died # ""
  /\ d.ws = "none" => r.fds = d.fds /\ r.died = d.died

\* on.close of a call that blocks.
LEMMA CloseSync ==
  ASSUME NEW d, Client(d), NEW fd, NEW error, d.close = "sync",
         d.ws \in {"none", "unknown", "known"}
  PROVE  HasClosedSync(d, fd, EmitClose(d, fd, error))
<1>0. PICK r : r = EmitClose(d, fd, error)
  OBVIOUS
<1> SUFFICES HasClosedSync(d, fd, r)
  BY <1>0
<1> DEFINE e == [[d EXCEPT !.closes = @ + 1] EXCEPT !.error = @ \/ error]
<1>1. Client(e) /\ Kept(d, e) /\ e.fds = d.fds /\ e.died = d.died /\ e.promise = d.promise
  <2>1. PICK f : f = [d EXCEPT !.closes = @ + 1]
    OBVIOUS
  <2>2. Client(f) /\ Kept(d, f) /\ f.fds = d.fds /\ f.died = d.died /\ f.promise = d.promise
    BY <2>1 DEF Kept, Client
  <2>3. PICK x : x = (f.error \/ error)
    OBVIOUS
  <2>4. e = [f EXCEPT !.error = x]
    BY <2>1, <2>3
  <2> HIDE DEF e
  <2> QED BY <2>2, <2>4 DEF Kept, Client
<1>2. r = CASE d.ws = "known" -> synchfetch_removefd(e, fd)
            [] d.ws = "unknown" -> synchfetch_removefd(e, 0)
            [] d.ws = "none" -> e
  BY <1>0 DEF EmitClose, minnet_client_onclose
<1> HIDE DEF e
<1>3. CASE d.ws = "known"
  <2>1. r = synchfetch_removefd(e, fd)
    BY <1>2, <1>3
  <2>2. HasRemoved(e, fd, r)
    BY <1>1, <2>1, RemoveFd
  <2>3. Kept(d, r)
    BY <1>1, <2>2 DEF Kept, HasRemoved
  <2> QED BY <1>1, <1>3, <2>2, <2>3 DEF HasRemoved, HasClosedSync
<1>4. CASE d.ws = "unknown"
  <2>1. r = synchfetch_removefd(e, 0)
    BY <1>2, <1>4
  <2>2. HasRemoved(e, 0, r)
    BY <1>1, <2>1, RemoveFd
  <2>3. Kept(d, r)
    BY <1>1, <2>2 DEF Kept, HasRemoved
  <2> QED BY <1>1, <1>4, <2>2, <2>3 DEF HasRemoved, HasClosedSync
<1>5. CASE d.ws = "none"
  <2>1. r = e
    BY <1>2, <1>5
  <2> QED BY <1>1, <1>5, <2>1 DEF HasClosedSync
<1> QED BY <1>3, <1>4, <1>5

\* LWS_CALLBACK_CLIENT_CONNECTION_ERROR rejects, whatever on.close does.
LEMMA ErrorTold ==
  ASSUME NEW d, Client(d), NEW fd, OwnClose(d)
  PROVE  HasSettled(d, "rejected", ConnectionError(d, fd))
<1>1. PICK e : e = Settle(d, "rejected")
  OBVIOUS
<1>2. HasSettled(d, "rejected", e)
  BY <1>1, SettleKeeps
<1>3. PICK yes, r : yes = TRUE /\ r = EmitClose(e, fd, yes)
  OBVIOUS
<1>4. r = ConnectionError(d, fd)
  BY <1>1, <1>3 DEF ConnectionError
<1>5. Client(e) /\ OwnClose(e) /\ e.promise # "pending"
  BY <1>2 DEF HasSettled, Kept, OwnClose
<1>6. HasClosed(e, r)
  BY <1>3, <1>5, CloseTold
<1>7. Kept(d, r)
  BY <1>2, <1>6 DEF HasSettled, HasClosed, Kept
<1> QED BY <1>2, <1>4, <1>5, <1>6, <1>7 DEF HasSettled, HasClosed

\* The same of a call that blocks, which has no promise.
HasFailedSync(d, fd, r) ==
  /\ Kept(d, r) /\ (r.died = d.died \/ r.died # "")
  /\ d.ws = "unknown" /\ d.fds = <<>> => r.died # ""
  /\ d.ws = "unknown" /\ d.fds = <<fd>> /\ fd # 0 => r.died # ""
  /\ d.ws = "none" => r.fds = d.fds /\ r.died = d.died

\* It is told through on.close.
LEMMA ErrorSync ==
  ASSUME NEW d, Client(d), NEW fd, d.close = "sync", d.ws \in {"none", "unknown", "known"}
  PROVE  HasFailedSync(d, fd, ConnectionError(d, fd))
<1>1. PICK e : e = Settle(d, "rejected")
  OBVIOUS
<1>2. HasSettled(d, "rejected", e)
  BY <1>1, SettleKeeps
<1>3. PICK yes, r : yes = TRUE /\ r = EmitClose(e, fd, yes)
  OBVIOUS
<1>4. r = ConnectionError(d, fd)
  BY <1>1, <1>3 DEF ConnectionError
<1>5. Client(e) /\ e.close = d.close /\ e.ws = d.ws
  BY <1>2 DEF HasSettled, Kept
<1>6. HasClosedSync(e, fd, r)
  BY <1>3, <1>5, CloseSync
<1>7. Kept(d, r)
  BY <1>2, <1>6 DEF HasSettled, HasClosedSync, Kept
<1> QED BY <1>2, <1>4, <1>5, <1>6, <1>7 DEF HasSettled, HasClosedSync, HasFailedSync

\* The promise of a connection that is there, and of one that has ended.
Promised(d, est) == d.promise = IF est THEN "resolved" ELSE "pending"

HasEnded(d, est, r) ==
  Kept(d, r) /\ r.died = "" /\ r.promise = IF est THEN "resolved" ELSE "rejected"

\* The end of a connection of a call that does not block settles its promise.
LEMMA EndedTold ==
  ASSUME NEW p, ~p.block, NEW d, Client(d), NEW fd, NEW est \in BOOLEAN,
         NEW del, OwnClose(d), d.died = "", Promised(d, est)
  PROVE  HasEnded(d, est, Ended(p, d, est, fd, del))
<1>0. PICK r : r = Ended(p, d, est, fd, del)
  OBVIOUS
<1>1. \A x : Client(x) => minnet_client_pollfd(p, x, fd, FALSE) = x
  BY DEF minnet_client_pollfd
<1>2. PICK no : no = FALSE
  OBVIOUS
<1>3. PICK told : told = IF est THEN EmitClose(d, fd, no) ELSE ConnectionError(d, fd)
  OBVIOUS
<1>4. /\ Kept(d, told) /\ told.died = ""
      /\ told.promise = IF est THEN "resolved" ELSE "rejected"
  <2>1. CASE est
    <3>1. told = EmitClose(d, fd, no)
      BY <1>3, <2>1
    <3>2. d.promise = "resolved"
      BY <2>1 DEF Promised
    <3>3. HasClosed(d, told)
      BY <3>1, CloseTold
    <3> QED BY <2>1, <3>2, <3>3 DEF HasClosed
  <2>2. CASE ~est
    <3>1. told = ConnectionError(d, fd)
      BY <1>3, <2>2
    <3>2. d.promise = "pending"
      BY <2>2 DEF Promised
    <3>3. HasSettled(d, "rejected", told)
      BY <3>1, ErrorTold
    <3> QED BY <2>2, <3>2, <3>3 DEF HasSettled
  <2> QED BY <2>1, <2>2
<1>5. Client(told)
  BY <1>4 DEF Kept
<1>6. r = IF told.died # "" THEN told ELSE Settle(told, "resolved")
  BY <1>0, <1>1, <1>2, <1>3, <1>5 DEF Ended
<1>7. r = Settle(told, "resolved")
  BY <1>4, <1>6
<1>8. HasSettled(told, "resolved", r)
  BY <1>5, <1>7, SettleKeeps
<1>9. Kept(d, r)
  BY <1>4, <1>8 DEF Kept, HasSettled
<1>10. told.promise # "pending"
  BY <1>4
<1>11. HasEnded(d, est, r)
  BY <1>4, <1>8, <1>9, <1>10 DEF HasSettled, HasEnded
<1> QED BY <1>0, <1>11

\* A call that blocks and its connection, before its end and after.
Waits(d, est, fd) ==
  /\ d.close = "sync" /\ fd # 0 /\ d.died = "" /\ d.fds = <<fd>>
  /\ d.ws \in {"none", "unknown", "known"}
  /\ d.ws = "none" => ~est
  /\ d.ws = "known" => est

HasEndedSync(d, r) == Kept(d, r) /\ (r.died = "" => r.fds = <<>>)

\* The end of a connection of a call that blocks takes its descriptor off the list,
\* or stops the process.
LEMMA EndedSync ==
  ASSUME NEW p, p.block, NEW d, Client(d), NEW fd, NEW est \in BOOLEAN,
         NEW del \in {"none", "before", "after"}, del = "none" => est, Waits(d, est, fd)
  PROVE  HasEndedSync(d, Ended(p, d, est, fd, del))
<1> USE DEF Waits
<1>0. PICK r : r = Ended(p, d, est, fd, del)
  OBVIOUS
<1>1. PICK before : before = IF del = "before" THEN synchfetch_removefd(d, fd) ELSE d
  OBVIOUS
<1>2. /\ Client(before) /\ Kept(d, before) /\ before.close = d.close /\ before.ws = d.ws
      /\ before.died = "" => before.fds = IF del = "before" THEN <<>> ELSE <<fd>>
  <2>1. CASE del = "before"
    <3>1. before = synchfetch_removefd(d, fd)
      BY <1>1, <2>1
    <3>2. HasRemoved(d, fd, before)
      BY <3>1, RemoveFd
    <3> QED BY <2>1, <3>2 DEF Kept, HasRemoved
  <2>2. CASE del # "before"
    BY <1>1, <2>2 DEF Kept
  <2> QED BY <2>1, <2>2
<1>3. PICK no : no = FALSE
  OBVIOUS
<1>4. PICK told : told = IF est THEN EmitClose(before, fd, no) ELSE ConnectionError(before, fd)
  OBVIOUS
<1>5. /\ Client(told) /\ Kept(d, told)
      /\ told.died = "" => told.fds = CASE d.ws = "known" -> <<>>
                                        [] OTHER -> IF del = "before" THEN <<>> ELSE <<fd>>
      /\ told.died = "" => d.ws # "unknown" /\ (d.ws = "known" => del # "before")
  <2>1. CASE est
    <3>1. told = EmitClose(before, fd, no)
      BY <1>4, <2>1
    <3>2. HasClosedSync(before, fd, told)
      BY <1>2, <3>1, CloseSync
    <3>3. Client(told) /\ Kept(d, told)
      BY <1>2, <3>2 DEF Kept, HasClosedSync
    <3>4. d.ws # "none"
      BY <2>1
    <3> QED BY <1>2, <3>2, <3>3, <3>4 DEF HasClosedSync
  <2>2. CASE ~est
    <3>1. told = ConnectionError(before, fd)
      BY <1>4, <2>2
    <3>2. HasFailedSync(before, fd, told)
      BY <1>2, <3>1, ErrorSync
    <3>3. Client(told) /\ Kept(d, told)
      BY <1>2, <3>2 DEF Kept, HasFailedSync
    <3>4. d.ws # "known"
      BY <2>2
    <3> QED BY <1>2, <3>2, <3>3, <3>4 DEF HasFailedSync
  <2> QED BY <2>1, <2>2
<1>6. PICK after : after = IF del = "after" THEN synchfetch_removefd(told, fd) ELSE told
  OBVIOUS
<1>7. /\ Client(after) /\ Kept(d, after) /\ (after.died = "" => after.fds = <<>>)
  <2>1. CASE del = "after"
    <3>1. after = synchfetch_removefd(told, fd)
      BY <1>6, <2>1
    <3>2. HasRemoved(told, fd, after)
      BY <1>5, <3>1, RemoveFd
    <3>3. Client(after) /\ Kept(d, after)
      BY <1>5, <3>2 DEF Kept, HasRemoved
    <3> QED BY <1>5, <2>1, <3>2, <3>3 DEF HasRemoved
  <2>2. CASE del # "after"
    <3>1. after = told
      BY <1>6, <2>2
    <3>2. del = "before" \/ d.ws # "none"
      BY <2>2
    <3> QED BY <1>5, <3>1, <3>2
  <2> QED BY <2>1, <2>2
<1>8. r = IF after.died # "" THEN after ELSE Settle(after, "resolved")
  <2>1. \A x : minnet_client_pollfd(p, x, fd, no) = synchfetch_removefd(x, fd)
    BY <1>3 DEF minnet_client_pollfd
  <2>2. told = IF est THEN EmitClose(before, fd, FALSE) ELSE ConnectionError(before, fd)
    BY <1>3, <1>4
  <2>3. minnet_client_pollfd(p, d, fd, FALSE) = synchfetch_removefd(d, fd)
        /\ minnet_client_pollfd(p, told, fd, FALSE) = synchfetch_removefd(told, fd)
    BY <1>3, <2>1
  <2> QED BY <1>0, <1>1, <1>6, <2>2, <2>3 DEF Ended
<1>9. Kept(d, r) /\ (r.died = "" => r.fds = <<>>)
  <2>1. CASE after.died # ""
    BY <1>7, <1>8, <2>1
  <2>2. CASE after.died = ""
    <3>1. r = Settle(after, "resolved")
      BY <1>8, <2>2
    <3>2. HasSettled(after, "resolved", r)
      BY <1>7, <3>1, SettleKeeps
    <3>3. Kept(d, r)
      BY <1>7, <3>2, ZenonT(60) DEF Kept, HasSettled
    <3> QED BY <1>7, <3>2, <3>3 DEF HasSettled
  <2> QED BY <2>1, <2>2
<1> QED BY <1>0, <1>9 DEF HasEndedSync

-----------------------------------------------------------------------------
\* The steps.

\* The options of a call.
LEMMA OptionFields ==
  ASSUME NEW p \in Options
  PROVE  p.block \in BOOLEAN /\ p.fetch \in BOOLEAN /\ p.post \in BOOLEAN
         /\ p.onResponse \in {"none", "user", "terminate"}
BY DEF Options

\* A client that was made has its fields.
LEMMA NewClient ==
  /\ Client(client_new) /\ client_new.call = "none" /\ client_new.ret = "none"
  /\ client_new.ws = "none" /\ client_new.died = "" /\ client_new.fds = <<>>
  /\ client_new.body = generator_zero /\ client_new.http \in Https
BY DEF client_new, Client, Https

\* A connection that was not begun.
LEMMA NewConnection ==
  /\ Connection(NoConnection) /\ NoConnection.phase = "none" /\ ~NoConnection.est
  /\ ~NoConnection.completed /\ NoConnection.completed \in BOOLEAN
  /\ NoConnection.est \in BOOLEAN /\ NoConnection.sent = <<>>
BY DEF NoConnection, Connection

\* The initial state.
LEMMA InitIInv == Init => IInv
<1> SUFFICES ASSUME Init PROVE IInv
  OBVIOUS
<1>1. o \in Options /\ c = client_new /\ net = NoConnection
  BY DEF Init
<1>2. PhaseInv(o, c, net)
  BY <1>1, NewClient, NewConnection DEF PhaseInv
<1>3. PromiseInv(o, c, net) /\ LoopInv(o, c, net)
  BY <1>1, NewConnection DEF PromiseInv, LoopInv
<1>4. BodyInv(o, c, net)
  BY <1>1, NewClient, NewConnection, NoPieces DEF BodyInv
<1> QED BY <1>1, <1>2, <1>3, <1>4 DEF IInv, Inv

\* A call that has returned without a connection.
LEMMA NotConnected ==
  ASSUME NEW p, NEW d, Client(d), d.call = "returned", d.ret # "response",
         d.ws \in {"none", "unknown"}, d.http \in Https
  PROVE  Inv(p, d, NoConnection)
<1>1. PhaseInv(p, d, NoConnection)
  BY NewConnection DEF PhaseInv
<1>2. PromiseInv(p, d, NoConnection) /\ LoopInv(p, d, NoConnection)
  BY NewConnection DEF PromiseInv, LoopInv
<1>3. BodyInv(p, d, NoConnection)
  BY NewConnection, NoPieces DEF BodyInv
<1> QED BY <1>1, <1>2, <1>3 DEF Inv

\* A call that fails before it connects.
LEMMA FailIInv == ASSUME IInv, NEW why, Fail(why) PROVE IInv'
<1>1. o' = o /\ net' = NoConnection
  BY DEF Fail, IInv, Inv, PhaseInv
<1>2. /\ Client(c') /\ c'.call = "returned" /\ c'.ret # "response" /\ c'.ws = "none"
      /\ c'.http \in Https
  <2>1. PICK died, ret : /\ died = IF why = "request" THEN "client_free" ELSE ""
                         /\ ret = IF o.fetch THEN "throw" ELSE "client"
    OBVIOUS
  <2>2. c' = [client_new EXCEPT !.call = "returned", !.died = died, !.ret = ret]
    BY <2>1 DEF Fail
  <2>3. ret # "response"
    BY <2>1
  <2> QED BY <2>2, <2>3, NewClient DEF Client
<1>3. Inv(o, c', NoConnection)
  BY <1>2, NotConnected
<1> QED BY <1>1, <1>3 DEF IInv

\* The callbacks a call begins with.
LEMMA CallbackFields ==
  ASSUME NEW p \in Options, NEW d, d = Callbacks(p)
  PROVE  /\ Client(d) /\ d.ws = "none" /\ d.died = "" /\ d.fds = <<>> /\ d.body = generator_zero
         /\ d.ret = "none" /\ d.http \in Https
         /\ p.block => d.close = "sync"
         /\ ~p.block => OwnClose(d) /\ d.promise = "pending"
<1>1. PICK close, http, writeable, promise :
        /\ d = [client_new EXCEPT !.close = close, !.http = http, !.writeable = writeable,
                                  !.promise = promise]
        /\ p.block => close = "sync"
        /\ ~p.block => close \in {"user", "reject", "fetch"} /\ promise = "pending"
        /\ http \in Https
  BY OptionFields, ZenonT(60) DEF Callbacks, Https
<1> QED BY <1>1, NewClient, ZenonT(60) DEF Client, OwnClose

\* A call that cannot be connected.
LEMMA RefuseIInv == ASSUME IInv, NEW told \in BOOLEAN, Refuse(told) PROVE IInv'
<1>1. o' = o /\ o \in Options /\ net' = NoConnection
  BY DEF Refuse, IInv, Inv, PhaseInv
<1>2. PICK d0 : d0 = Callbacks(o)
  OBVIOUS
<1>3. /\ Client(d0) /\ d0.ws = "none" /\ d0.ret = "none" /\ d0.http \in Https
      /\ o.block => d0.close = "sync"
      /\ ~o.block => OwnClose(d0)
  BY <1>1, <1>2, CallbackFields
<1>4. PICK d : d = IF told THEN ConnectionError(d0, 0) ELSE d0
  OBVIOUS
<1>5. Client(d) /\ d.ws = "none" /\ d.http \in Https
  <2>1. CASE ~told
    BY <1>3, <1>4, <2>1
  <2>2. CASE told /\ o.block
    <3>1. HasFailedSync(d0, 0, d)
      BY <1>3, <1>4, <2>2, ErrorSync
    <3> QED BY <1>3, <3>1 DEF HasFailedSync, Kept
  <2>3. CASE told /\ ~o.block
    <3>1. HasSettled(d0, "rejected", d)
      BY <1>3, <1>4, <2>3, ErrorTold
    <3> QED BY <1>3, <3>1 DEF HasSettled, Kept
  <2> QED BY <2>1, <2>2, <2>3
<1>6. PICK e : e = IF o.block THEN d ELSE Settle(d, "rejected")
  OBVIOUS
<1>7. Client(e) /\ e.ws = "none" /\ e.http \in Https
  <2>1. HasSettled(d, "rejected", Settle(d, "rejected"))
    BY <1>5, SettleKeeps
  <2> QED BY <1>5, <1>6, <2>1 DEF HasSettled, Kept
<1>8. c' = minnet_client_closure(o, d, 0, FALSE)
  BY <1>2, <1>4 DEF Refuse
<1>9. Client(c') /\ c'.call = "returned" /\ c'.ret # "response" /\ c'.ws = "none" /\ c'.http \in Https
  <2>1. \/ \E ret : ret # "response" /\ c' = [e EXCEPT !.call = "returned", !.ret = ret]
        \/ c' = [e EXCEPT !.call = "returned", !.ret = "answer",
                          !.answer = "pending", !.http = "answer"]
    BY <1>1, <1>6, <1>8, OptionFields DEF minnet_client_closure
  <2> QED BY <1>7, <2>1, ZenonT(60) DEF Client, Https
<1>10. Inv(o, c', NoConnection)
  BY <1>9, NotConnected
<1> QED BY <1>1, <1>10 DEF IInv

\* What the parts of the invariant ask of a client that is there.
LEMMA Ours ==
  ASSUME IInv
  PROVE  /\ o \in Options /\ o.block \in BOOLEAN /\ o.fetch \in BOOLEAN
         /\ Client(c) /\ Connection(net) /\ PhaseInv(o, c, net) /\ PromiseInv(o, c, net)
         /\ LoopInv(o, c, net) /\ BodyInv(o, c, net) /\ net.sent \in Seq(Seq(Nat))
BY OptionFields DEF IInv, Inv, PhaseInv, BodyInv

\* A connection is begun.
LEMMA ConnectIInv == ASSUME IInv, NEW created \in BOOLEAN, Connect(created) PROVE IInv'
<1>0. /\ o' = o /\ o \in Options /\ o.block \in BOOLEAN /\ o.fetch \in BOOLEAN
      /\ c.call = "none" /\ net = NoConnection
  BY Ours DEF Connect, PhaseInv
<1>1. PICK d0, w : d0 = Callbacks(o) /\ w = IF created THEN "unknown" ELSE "none"
  OBVIOUS
<1>2. PICK d : d = [d0 EXCEPT !.ws = w]
  OBVIOUS
<1>3. /\ Client(d) /\ d.ws \in {"none", "unknown"} /\ d.died = "" /\ d.fds = <<>>
      /\ d.body = generator_zero /\ d.ret = "none" /\ d.http \in Https
      /\ o.block => d.close = "sync"
      /\ ~o.block => OwnClose(d) /\ d.promise = "pending"
  <2>1. /\ Client(d0) /\ d0.died = "" /\ d0.fds = <<>> /\ d0.body = generator_zero
        /\ d0.ret = "none" /\ d0.http \in Https
        /\ o.block => d0.close = "sync"
        /\ ~o.block => OwnClose(d0) /\ d0.promise = "pending"
    BY <1>0, <1>1, CallbackFields
  <2> QED BY <1>1, <1>2, <2>1, ZenonT(60) DEF Client, OwnClose
<1>4. PICK e : e = IF o.block THEN synchfetch_setevents(d, 1) ELSE d
  OBVIOUS
<1>5. /\ Client(e) /\ Kept(d, e) /\ e.died = "" /\ e.ws \in {"none", "unknown"} /\ e.ret = "none"
      /\ e.body = generator_zero /\ e.http \in Https
      /\ o.block => e.fds = <<1>> /\ e.close = "sync"
      /\ ~o.block => OwnClose(e) /\ e.promise = "pending"
  <2>1. CASE o.block
    <3>1. e = synchfetch_setevents(d, 1)
      BY <1>4, <2>1
    <3>2. Kept(d, e) /\ e.fds = <<1>> /\ e.died = d.died
      BY <1>3, <3>1, SetEvents, ZenonT(60)
    <3> QED BY <1>3, <2>1, <3>2 DEF Kept
  <2>2. CASE ~o.block
    BY <1>3, <1>4, <2>2 DEF Kept
  <2> QED BY <1>0, <2>1, <2>2
<1>6. c' = minnet_client_closure(o, e, 1, TRUE)
  <2>1. minnet_client_pollfd(o, d, 1, TRUE) = e
    BY <1>0, <1>4 DEF minnet_client_pollfd
  <2>2. d = [Callbacks(o) EXCEPT !.ws = IF created THEN "unknown" ELSE "none"]
    BY <1>1, <1>2
  <2> QED BY <2>1, <2>2 DEF Connect
<1>7. PICK f : f = synchfetch_setevents(e, 1)
  OBVIOUS
<1>8. net' = [net EXCEPT !.phase = "connecting", !.fd = 1]
  BY DEF Connect
<1>9. /\ Connection(net') /\ net'.phase = "connecting" /\ net'.fd = 1 /\ ~net'.est /\ ~net'.completed
      /\ net'.est \in BOOLEAN /\ net'.completed \in BOOLEAN /\ net'.sent = <<>>
  BY <1>0, <1>8, NewConnection DEF Connection
<1>10. /\ Client(c') /\ c'.ws \in {"none", "unknown"} /\ c'.died = "" /\ c'.ret # "response"
       /\ c'.http \in Https
       /\ c'.call = IF o.fetch /\ o.block THEN "running" ELSE "returned"
       /\ o.block => c'.close = "sync" /\ c'.fds = <<1>>
       /\ ~o.block => OwnClose(c') /\ c'.promise = "pending"
       /\ o.block /\ o.fetch => c'.preset /\ c'.hasbody
                                /\ c'.body = generator_continuous(generator_zero, NoFunction)
  <2>1. CASE ~o.fetch
    <3>1. PICK ret : ret = IF o.block THEN "client" ELSE "promise"
      OBVIOUS
    <3>2. c' = [e EXCEPT !.call = "returned", !.ret = ret]
      BY <1>6, <2>1, <3>1 DEF minnet_client_closure
    <3>3. ret # "response"
      BY <3>1
    <3> QED BY <1>5, <2>1, <3>2, <3>3 DEF Client, OwnClose
  <2>2. CASE o.fetch /\ ~o.block
    <3>1. c' = [e EXCEPT !.call = "returned", !.ret = "answer", !.answer = "pending", !.http = "answer"]
      BY <1>6, <2>2 DEF minnet_client_closure
    <3> QED BY <1>5, <2>2, <3>1 DEF Client, OwnClose, Https
  <2>3. CASE o.fetch /\ o.block
    <3>1. Kept(e, f) /\ f.fds = <<1>> /\ f.died = e.died
      BY <1>5, <1>7, <2>3, SetEvents
    <3>2. /\ Client(f) /\ f.body = generator_zero /\ f.ws \in {"none", "unknown"} /\ f.died = ""
          /\ f.close = "sync" /\ f.ret = "none" /\ f.http \in Https
      BY <1>5, <2>3, <3>1 DEF Kept
    <3>3. c' = [BlockingBody(f) EXCEPT !.call = "running"]
      BY <1>6, <1>7, <2>3 DEF minnet_client_closure
    <3>4. PICK h : h = BlockingBody(f)
      OBVIOUS
    <3>5. PICK b : b = generator_continuous(generator_zero, NoFunction)
      OBVIOUS
    <3>6. h = [f EXCEPT !.resp = TRUE, !.preset = TRUE, !.hasbody = TRUE, !.body = b]
      BY <3>2, <3>4, <3>5 DEF BlockingBody
    <3>7. /\ Client(h) /\ h.body = b /\ h.preset /\ h.hasbody /\ h.ws = f.ws /\ h.http = f.http /\ h.died = ""
          /\ h.fds = <<1>> /\ h.close = "sync" /\ h.ret = "none"
      BY <3>1, <3>2, <3>6 DEF Client
    <3>8. /\ Client(c') /\ c'.body = b /\ c'.preset /\ c'.hasbody /\ c'.ws = f.ws /\ c'.http = f.http /\ c'.died = ""
          /\ c'.fds = <<1>> /\ c'.close = "sync" /\ c'.ret = "none" /\ c'.call = "running"
      BY <3>3, <3>4, <3>7, ZenonT(60) DEF Client
    <3> QED BY <2>3, <3>2, <3>5, <3>8
  <2> QED BY <1>0, <2>1, <2>2, <2>3
<1>11. PhaseInv(o, c', net')
  BY <1>9, <1>10 DEF PhaseInv, Early, LivePhases
<1>12. PromiseInv(o, c', net')
  BY <1>9, <1>10 DEF PromiseInv
<1>13. LoopInv(o, c', net')
  BY <1>9, <1>10 DEF LoopInv
<1>14. BodyInv(o, c', net')
  <2>1. Gathers(generator_continuous(generator_zero, NoFunction), <<>>, net'.completed)
    BY <1>9, GathersNothing
  <2> QED BY <1>9, <1>10, <2>1, NoPieces DEF BodyInv
<1> QED BY <1>0, <1>11, <1>12, <1>13, <1>14 DEF IInv, Inv

\* A blocking fetch returns.
LEMMA ReturnIInv == ASSUME IInv, Return PROVE IInv'
<1>1. /\ o' = o /\ net' = net /\ c.call = "running" /\ c.died = "" /\ c.fds = <<>>
      /\ o.block /\ o.fetch /\ net.phase # "none"
  BY Ours DEF Return, PhaseInv
<1>2. net.phase = "destroyed"
  <2>1. \A a : <<>> # <<a>>
    OBVIOUS
  <2> QED BY <1>1, <2>1, Ours DEF LoopInv
<1>3. PICK ret : ret = CASE c.error -> "throw" [] ~c.error /\ c.respobj -> "response"
                         [] OTHER -> "null"
  OBVIOUS
<1>4. c' = [c EXCEPT !.call = "returned", !.ret = ret]
  BY <1>3 DEF Return
<1>5. /\ Client(c') /\ c'.call = "returned" /\ c'.ws = c.ws /\ c'.http = c.http
      /\ c'.died = c.died /\ c'.fds = c.fds
      /\ c'.close = c.close /\ c'.preset = c.preset /\ c'.hasbody = c.hasbody /\ c'.body = c.body
      /\ c'.promise = c.promise
  BY <1>4, Ours DEF Client
<1>6. PhaseInv(o, c', net)
  BY <1>1, <1>5, Ours DEF PhaseInv
<1>7. PromiseInv(o, c', net) /\ LoopInv(o, c', net)
  BY <1>1, <1>2, <1>5, Ours DEF PromiseInv, LoopInv
<1>8. BodyInv(o, c', net)
  BY <1>1, <1>5, Ours DEF BodyInv
<1> QED BY <1>1, <1>6, <1>7, <1>8, Ours DEF IInv, Inv

\* While the connection is there the call has not given its response.
LEMMA NotYet ==
  ASSUME IInv, Live
  PROVE  /\ ~(c.call = "returned" /\ c.ret = "response") /\ c.call # "none"
         /\ c.died = "" /\ net.phase \in LivePhases /\ net.fd \in {1, 2}
         /\ o.block /\ o.fetch => c.call = "running"
<1>1. c.died = "" /\ net.phase \notin {"none", "destroyed"}
  BY DEF Live
<1>2. net.phase \in LivePhases /\ net.fd \in {1, 2} /\ c.call # "none"
  BY <1>1, Ours, NewConnection DEF PhaseInv
<1>3. o.block /\ o.fetch => c.call = "running"
  BY <1>1, Ours DEF LoopInv
<1>4. c.call = "returned" /\ c.ret = "response" => o.block /\ o.fetch
  BY Ours DEF BodyInv
<1> QED BY <1>1, <1>2, <1>3, <1>4

\* r is d but for what the invariant does not look at.
Unmoved(d, r) ==
  Kept(d, r) /\ r.promise = d.promise /\ r.fds = d.fds /\ r.died = d.died

\* What a connection may go over to, as far as its client is concerned.
Onward(m, n) ==
  /\ Connection(n) /\ n.fd = m.fd /\ n.est = m.est /\ n.sent = m.sent /\ n.completed = m.completed
  /\ n.phase \in LivePhases
  /\ n.phase \in Early => ~n.est /\ ~n.completed
  /\ n.phase = "established" => n.est /\ ~n.completed
  /\ n.phase = "completed" => n.est

\* A step that changes the phase only.
LEMMA PhaseStep ==
  ASSUME IInv, Live, o' = o, Unmoved(c, c'), Onward(net, net')
  PROVE  IInv'
<1>1. /\ Client(c') /\ c'.call = c.call /\ c'.ret = c.ret /\ c'.close = c.close /\ c'.ws = c.ws /\ c'.http = c.http
      /\ c'.preset = c.preset /\ c'.hasbody = c.hasbody /\ c'.body = c.body
      /\ c'.promise = c.promise /\ c'.fds = c.fds /\ c'.died = c.died
  BY DEF Unmoved, Kept
<1>2. /\ Connection(net') /\ net'.fd = net.fd /\ net'.est = net.est /\ net'.sent = net.sent
      /\ net'.completed = net.completed /\ net'.phase \notin {"none", "destroyed"}
  BY DEF Onward, LivePhases, Early
<1>3. net.phase \notin {"none", "destroyed"} /\ c.call # "none"
  BY NotYet DEF Live
<1>4. PhaseInv(o, c', net')
  BY <1>1, <1>2, <1>3, Ours, NotYet DEF PhaseInv, Onward, Early, LivePhases
<1>5. PromiseInv(o, c', net')
  BY <1>1, <1>2, <1>3, Ours DEF PromiseInv, OwnClose
<1>6. LoopInv(o, c', net')
  BY <1>1, <1>2, <1>3, Ours DEF LoopInv
<1>7. BodyInv(o, c', net')
  BY <1>1, <1>2, <1>3, Ours DEF BodyInv
<1> QED BY <1>4, <1>5, <1>6, <1>7, Ours DEF IInv, Inv

\* Nothing of the connection changes but what was asked for and written.
LEMMA SameConnection ==
  ASSUME IInv, Live, Connection(net'), net'.phase = net.phase, net'.fd = net.fd,
         net'.est = net.est, net'.sent = net.sent, net'.completed = net.completed
  PROVE  Onward(net, net')
BY Ours, NotYet DEF Onward, PhaseInv, Early, LivePhases

\* Binding.  No socket is known that could be closed by it.
LEMMA BindIInv == ASSUME IInv, Bind PROVE IInv'
<1>1. Live /\ net.phase = "connecting" /\ o' = o
  BY DEF Bind, Serviced
<1>2. ~net.est /\ ~net.completed /\ c.ws # "known"
  BY <1>1, Ours, NotYet DEF PhaseInv, Early
<1>3. c' = [c EXCEPT !.respobj = FALSE]
  BY <1>2 DEF Bind
<1>4. Unmoved(c, c')
  BY <1>3, Ours DEF Unmoved, Kept, Client
<1>5. net' = [net EXCEPT !.phase = "bound"]
  BY DEF Bind
<1>6. Onward(net, net')
  BY <1>2, <1>5, Ours DEF Onward, Connection, LivePhases, Early
<1> QED BY <1>1, <1>4, <1>6, PhaseStep

\* The handshake.
LEMMA HandshakeIInv == ASSUME IInv, Handshake PROVE IInv'
<1>1. Live /\ net.phase = "bound" /\ o' = o /\ c' = c
  BY DEF Handshake, Serviced
<1>2. ~net.est /\ ~net.completed
  BY <1>1, Ours DEF PhaseInv, Early
<1>3. Unmoved(c, c')
  BY <1>1, Ours DEF Unmoved, Kept
<1>4. PICK asked : asked = (o.post /\ ~net.toGet)
  OBVIOUS
<1>5. net' = [net EXCEPT !.phase = "sent", !.asked = asked]
  BY <1>4 DEF Handshake
<1>6. Onward(net, net')
  BY <1>2, <1>5, Ours DEF Onward, Connection, LivePhases, Early
<1> QED BY <1>1, <1>3, <1>6, PhaseStep

\* A redirect: one descriptor goes and the other comes.
LEMMA RedirectIInv == ASSUME IInv, NEW toGet \in BOOLEAN, Redirect(toGet) PROVE IInv'
<1>1. Live /\ net.phase = "sent" /\ net.fd = 1 /\ o' = o
  BY DEF Redirect, Serviced
<1>2. ~net.est /\ ~net.completed /\ c.died = "" /\ c.call # "none" /\ net.phase \notin {"none", "destroyed"}
  BY <1>1, Ours, NotYet DEF PhaseInv, Early
<1>3. net' = [net EXCEPT !.phase = "connecting", !.fd = 2, !.asked = FALSE, !.toGet = toGet]
  BY DEF Redirect
<1>4. /\ Connection(net') /\ net'.phase = "connecting" /\ net'.fd = 2 /\ net'.est = net.est
      /\ net'.sent = net.sent /\ net'.completed = net.completed
  BY <1>3, Ours DEF Connection
<1>5. PICK d : d = [c EXCEPT !.lwsret = 1]
  OBVIOUS
<1>6. Client(d) /\ Unmoved(c, d)
  BY <1>5, Ours DEF Unmoved, Kept, Client
<1>7. /\ Kept(c, c') /\ c'.promise = c.promise
      /\ ~o.block => c'.fds = c.fds
      /\ o.block /\ c'.died = "" => c'.fds = <<2>>
  <2>1. CASE ~o.block
    <3>1. c' = d
      BY <1>5, <2>1 DEF Redirect, minnet_client_pollfd
    <3> QED BY <1>6, <2>1, <3>1 DEF Unmoved
  <2>2. CASE o.block
    <3>1. PICK gone : gone = synchfetch_removefd(d, 1)
      OBVIOUS
    <3>2. HasRemoved(d, 1, gone)
      BY <1>6, <3>1, RemoveFd
    <3>3. Client(gone) /\ gone.fds = <<>> /\ gone.promise = d.promise
      <4>1. d.fds = <<1>>
        BY <1>1, <1>2, <1>6, <2>2, Ours DEF LoopInv, Unmoved
      <4> QED BY <3>2, <4>1 DEF HasRemoved, Kept
    <3>4. c' = synchfetch_setevents(gone, 2)
      BY <1>5, <2>2, <3>1 DEF Redirect, minnet_client_pollfd
    <3>5. Kept(gone, c') /\ c'.fds = <<2>> /\ c'.promise = gone.promise
      BY <3>3, <3>4, SetEvents
    <3> QED BY <1>6, <2>2, <3>2, <3>3, <3>5 DEF Unmoved, HasRemoved, Kept
  <2> QED BY <2>1, <2>2
<1>8. /\ Client(c') /\ c'.call = c.call /\ c'.ret = c.ret /\ c'.close = c.close /\ c'.ws = c.ws /\ c'.http = c.http
      /\ c'.preset = c.preset /\ c'.hasbody = c.hasbody /\ c'.body = c.body
  BY <1>7 DEF Kept
<1>9. PhaseInv(o, c', net')
  BY <1>2, <1>4, <1>8, Ours DEF PhaseInv, Early, LivePhases
<1>10. PromiseInv(o, c', net')
  BY <1>2, <1>4, <1>7, <1>8, Ours DEF PromiseInv, OwnClose
<1>11. LoopInv(o, c', net')
  BY <1>2, <1>4, <1>7, <1>8, Ours DEF LoopInv
<1>12. BodyInv(o, c', net')
  BY <1>1, <1>2, <1>4, <1>8, Ours, NotYet DEF BodyInv
<1> QED BY <1>1, <1>9, <1>10, <1>11, <1>12, Ours DEF IInv, Inv

\* text() of a response, which a blocking fetch has none of before it returns.
LEMMA TextIInv == ASSUME IInv, Text PROVE IInv'
<1>1. Live /\ ~o.block /\ o' = o /\ net' = net
  BY DEF Text
<1>2. PICK b : b = generator_continuous(c.body, Continuation(1))
  OBVIOUS
<1>3. c' = [c EXCEPT !.hasbody = TRUE, !.body = b]
  BY <1>2 DEF Text
<1>4. /\ Client(c') /\ c'.call = c.call /\ c'.ret = c.ret /\ c'.close = c.close /\ c'.ws = c.ws /\ c'.http = c.http
      /\ c'.promise = c.promise /\ c'.fds = c.fds /\ c'.died = c.died
  BY <1>3, Ours DEF Client
<1>5. PhaseInv(o, c', net)
  BY <1>4, Ours, NotYet, <1>1 DEF PhaseInv
<1>6. PromiseInv(o, c', net)
  BY <1>4, Ours DEF PromiseInv, OwnClose
<1>7. LoopInv(o, c', net) /\ BodyInv(o, c', net)
  BY <1>1, <1>4, Ours, NotYet DEF LoopInv, BodyInv
<1> QED BY <1>1, <1>5, <1>6, <1>7, Ours DEF IInv, Inv

\* A chunk comes in.
LEMMA ReceiveIInv ==
  ASSUME IInv, NEW chunk \in Seq(Nat), Receive(chunk)
  PROVE  IInv'
<1>1. Live /\ net.phase = "established" /\ o' = o
  BY DEF Receive, Serviced
<1>2. net' = [net EXCEPT !.sent = Append(net.sent, chunk)]
  BY DEF Receive
<1>3. /\ Connection(net') /\ net'.phase = "established" /\ net'.fd = net.fd /\ net'.est = net.est
      /\ net'.completed = net.completed /\ net'.sent = Append(net.sent, chunk)
      /\ net'.sent \in Seq(Seq(Nat))
  BY <1>1, <1>2, Ours, AppendProperties DEF Connection
<1>4. PICK b : b = generator_write(c.body, chunk, 0)
  OBVIOUS
<1>5. /\ Client(c') /\ c'.call = c.call /\ c'.ret = c.ret /\ c'.close = c.close /\ c'.ws = c.ws /\ c'.http = c.http
      /\ c'.promise = c.promise /\ c'.fds = c.fds /\ c'.preset = c.preset
      /\ c'.hasbody = c.hasbody
      /\ c.hasbody => c'.body = b
  <2>1. CASE c.hasbody
    <3>1. c' = [c EXCEPT !.respobj = TRUE, !.body = b]
      BY <1>4, <2>1 DEF Receive
    <3> QED BY <2>1, <3>1, Ours DEF Client
  <2>2. CASE ~c.hasbody
    <3>1. c' = [[c EXCEPT !.respobj = TRUE] EXCEPT !.died = "generator_write"]
      BY <2>2 DEF Receive, Dies
    <3> QED BY <2>2, <3>1, Ours DEF Client
  <2> QED BY <2>1, <2>2
<1>6. PhaseInv(o, c', net')
  BY <1>1, <1>3, <1>5, Ours, NotYet DEF PhaseInv, Early, LivePhases
<1>7. PromiseInv(o, c', net') /\ LoopInv(o, c', net')
  <2>1. c.died = ""
    BY <1>1, NotYet
  <2>2. PromiseInv(o, c', net')
    BY <1>1, <1>3, <1>5, <2>1, Ours DEF PromiseInv, OwnClose
  <2>3. LoopInv(o, c', net')
    BY <1>1, <1>3, <1>5, <2>1, Ours DEF LoopInv
  <2> QED BY <2>2, <2>3
<1>8. BodyInv(o, c', net')
  <2>1. ASSUME o.block, o.fetch
        PROVE  c'.preset /\ c'.hasbody /\ Gathers(c'.body, net'.sent, net'.completed)
    <3>1. c.preset /\ c.hasbody /\ Gathers(c.body, net.sent, net.completed)
      BY <1>1, <2>1, Ours, NotYet DEF BodyInv
    <3>2. ~net.completed
      BY <1>1, Ours DEF PhaseInv
    <3>3. Gathers(b, Append(net.sent, chunk), net.completed)
      BY <1>4, <3>1, <3>2, Ours, GathersWrite
    <3> QED BY <1>3, <1>5, <3>1, <3>3
  <2> QED BY <1>1, <1>3, <1>5, <2>1, NotYet DEF BodyInv
<1> QED BY <1>1, <1>6, <1>7, <1>8, Ours DEF IInv, Inv

\* The response is complete.
LEMMA CompletedIInv == ASSUME IInv, Completed PROVE IInv'
<1>1. Live /\ net.phase = "established" /\ o' = o
  BY DEF Completed, Serviced
<1>2. PICK phase : phase = IF c.lwsret = 1 THEN "closing" ELSE "completed"
  OBVIOUS
<1>3. net' = [net EXCEPT !.completed = TRUE, !.phase = phase]
  BY <1>2 DEF Completed
<1>4. /\ Connection(net') /\ net'.phase \in {"closing", "completed"} /\ net'.fd = net.fd
      /\ net'.est = net.est /\ net'.completed /\ net'.completed \in BOOLEAN /\ net'.sent = net.sent
  BY <1>2, <1>3, Ours DEF Connection
<1>5. net.est /\ ~net.completed /\ net.est \in BOOLEAN
  BY <1>1, Ours DEF PhaseInv
<1>6. PICK b : b = generator_finish(c.body)
  OBVIOUS
<1>7. /\ Client(c') /\ c'.call = c.call /\ c'.ret = c.ret /\ c'.close = c.close /\ c'.ws = c.ws /\ c'.http = c.http
      /\ c'.promise = c.promise /\ c'.fds = c.fds /\ c'.preset = c.preset
      /\ c'.hasbody = c.hasbody
      /\ c.hasbody => c'.body = b
  <2>1. CASE c.hasbody
    <3>1. c' = [c EXCEPT !.body = b]
      BY <1>6, <2>1 DEF Completed
    <3> QED BY <2>1, <3>1, Ours DEF Client
  <2>2. CASE ~c.hasbody
    <3>1. c' = [c EXCEPT !.died = "generator_finish"]
      BY <2>2 DEF Completed, Dies
    <3> QED BY <2>2, <3>1, Ours DEF Client
  <2> QED BY <2>1, <2>2
<1>8. PhaseInv(o, c', net')
  BY <1>1, <1>4, <1>5, <1>7, Ours, NotYet DEF PhaseInv, Early, LivePhases
<1>9. PromiseInv(o, c', net') /\ LoopInv(o, c', net')
  <2>1. c.died = ""
    BY <1>1, NotYet
  <2>2. PromiseInv(o, c', net')
    BY <1>1, <1>4, <1>7, <2>1, Ours DEF PromiseInv, OwnClose
  <2>3. LoopInv(o, c', net')
    BY <1>1, <1>4, <1>7, <2>1, Ours DEF LoopInv
  <2> QED BY <2>2, <2>3
<1>10. BodyInv(o, c', net')
  <2>1. ASSUME o.block, o.fetch
        PROVE  c'.preset /\ c'.hasbody /\ Gathers(c'.body, net'.sent, net'.completed)
    <3>1. c.preset /\ c.hasbody /\ Gathers(c.body, net.sent, net.completed)
      BY <1>1, <2>1, Ours, NotYet DEF BodyInv
    <3>2. Gathers(b, net.sent, net'.completed)
      BY <1>4, <1>5, <1>6, <3>1, Ours, GathersFinish
    <3> QED BY <1>4, <1>7, <3>1, <3>2
  <2> QED BY <1>1, <1>4, <1>7, <2>1, Ours, NotYet DEF BodyInv
<1> QED BY <1>1, <1>8, <1>9, <1>10, Ours DEF IInv, Inv

\* What telling on.http of the response does: a body it asks for is its own.
HasTold(d, r) ==
  /\ Client(r) /\ r.call = d.call /\ r.ret = d.ret /\ r.close = d.close /\ r.ws = d.ws
  /\ r.http = d.http /\ r.preset = d.preset /\ r.promise = d.promise /\ r.fds = d.fds
  /\ r.died = d.died
  /\ d.hasbody => r.hasbody /\ r.body = d.body

\* It asks for one only where there is none.
LEMMA HttpTold ==
  ASSUME NEW d, Client(d), d.http \in Https, NEW asks
  PROVE  HasTold(d, EmitHttp(d, asks))
<1>0. PICK r : r = EmitHttp(d, asks)
  OBVIOUS
<1>1. PICK b : b = generator_continuous(d.body, Continuation(1))
  OBVIOUS
<1>2. PICK e : e = IF asks /\ d.http \in {"user", "terminate"} /\ ~d.hasbody
                   THEN [d EXCEPT !.hasbody = TRUE, !.body = b] ELSE d
  OBVIOUS
<1>3. /\ Client(e) /\ e.call = d.call /\ e.ret = d.ret /\ e.close = d.close /\ e.ws = d.ws
      /\ e.http = d.http /\ e.preset = d.preset /\ e.promise = d.promise /\ e.fds = d.fds
      /\ e.died = d.died
      /\ d.hasbody => e.hasbody /\ e.body = d.body
  BY <1>2 DEF Client
<1>4. \/ r = d
      \/ r = e
      \/ r = [e EXCEPT !.lwsret = 1]
      \/ r = [d EXCEPT !.answer = "resolved", !.lwsret = 1]
  BY <1>0, <1>1, <1>2 DEF EmitHttp, Https
<1>5. HasTold(d, r)
  <2>1. CASE r = d
    BY <2>1 DEF HasTold
  <2>2. CASE r = e
    BY <1>3, <2>2 DEF HasTold
  <2>3. CASE r = [e EXCEPT !.lwsret = 1]
    BY <1>3, <2>3 DEF Client, HasTold
  <2>4. CASE r = [d EXCEPT !.answer = "resolved", !.lwsret = 1]
    BY <2>4 DEF Client, HasTold
  <2> QED BY <1>4, <2>1, <2>2, <2>3, <2>4
<1> QED BY <1>0, <1>5

\* The connection is established: the promise is resolved, and a response that is
\* an error ends the connection at once.
LEMMA EstablishedIInv ==
  ASSUME IInv, NEW status \in {200, 404}, NEW text \in BOOLEAN, NEW asks \in BOOLEAN,
         Established(status, text, asks)
  PROVE  IInv'
<1>1. Live /\ net.phase = "sent" /\ o' = o
  BY DEF Established, Serviced
<1>2. /\ ~net.est /\ ~net.completed /\ ~(c.call = "returned" /\ c.ret = "response") /\ c.call # "none"
      /\ c.died = "" /\ net.fd \in {1, 2} /\ c.ws \in {"none", "unknown"} /\ c.http \in Https
      /\ net.completed \in BOOLEAN
  BY <1>1, Ours, NotYet DEF PhaseInv, Early
<1>0. PICK d : d = [c EXCEPT !.resp = TRUE, !.ws = IF @ = "none" THEN "known" ELSE @,
                             !.status = IF c.preset THEN @ ELSE status,
                             !.respobj = @ \/ ~c.preset]
  OBVIOUS
<1>3. PICK w, st, ro : /\ w = IF c.ws = "none" THEN "known" ELSE c.ws
                       /\ st = IF c.preset THEN c.status ELSE status
                       /\ ro = (c.respobj \/ ~c.preset)
  OBVIOUS
<1>4. d = [c EXCEPT !.resp = TRUE, !.ws = w, !.status = st, !.respobj = ro]
  BY <1>0, <1>3
<1>5. /\ Client(d) /\ d.call = c.call /\ d.ret = c.ret /\ d.close = c.close
      /\ d.ws \in {"unknown", "known"}
      /\ d.http \in Https /\ d.preset = c.preset /\ d.promise = c.promise /\ d.fds = c.fds
      /\ d.died = "" /\ d.hasbody = c.hasbody /\ d.body = c.body
  BY <1>2, <1>3, <1>4, Ours DEF Client
<1>6. PICK s : s = Settle(d, "resolved")
  OBVIOUS
<1>7. HasSettled(d, "resolved", s)
  BY <1>5, <1>6, SettleKeeps
<1>8. PICK e : e = EmitHttp(s, asks)
  OBVIOUS
<1>9. /\ Client(s) /\ s.http \in Https /\ s.died = "" /\ s.call = c.call /\ s.ret = c.ret
      /\ s.close = c.close /\ s.ws = d.ws /\ s.preset = c.preset /\ s.fds = c.fds
      /\ s.hasbody = c.hasbody /\ s.body = c.body
      /\ c.promise = "pending" => s.promise = "resolved"
  <2>1. Kept(d, s) /\ s.fds = d.fds /\ s.died = d.died
        /\ (d.promise = "pending" => s.promise = "resolved")
    BY <1>7 DEF HasSettled
  <2>2. Client(s) /\ s.http \in Https /\ s.died = ""
    BY <1>5, <2>1, ZenonT(60) DEF Kept
  <2>3. s.call = c.call /\ s.ret = c.ret /\ s.close = c.close /\ s.ws = d.ws
    BY <1>5, <2>1, ZenonT(60) DEF Kept
  <2>4. s.preset = c.preset /\ s.hasbody = c.hasbody /\ s.body = c.body
    BY <1>5, <2>1, ZenonT(60) DEF Kept
  <2>5. s.fds = c.fds
    BY <1>5, <2>1
  <2>6. c.promise = "pending" => s.promise = "resolved"
    BY <1>5, <2>1
  <2> QED BY <2>2, <2>3, <2>4, <2>5, <2>6
<1>10. /\ Client(e) /\ e.http \in Https /\ e.died = "" /\ e.call = c.call /\ e.ret = c.ret
       /\ e.close = c.close /\ e.ws \in {"unknown", "known"} /\ e.preset = c.preset
       /\ e.fds = c.fds
       /\ c.hasbody => e.hasbody /\ e.body = c.body
       /\ c.promise = "pending" => e.promise = "resolved"
  <2>1. HasTold(s, e)
    BY <1>8, <1>9, HttpTold
  <2>2. Client(e) /\ e.http \in Https /\ e.died = ""
    BY <1>9, <2>1, ZenonT(60) DEF HasTold
  <2>8. /\ e.call = s.call /\ e.ret = s.ret /\ e.close = s.close /\ e.ws = s.ws
        /\ e.preset = s.preset
    BY <2>1 DEF HasTold
  <2>3. e.call = c.call /\ e.ret = c.ret /\ e.close = c.close
    BY <1>9, <2>8, ZenonT(60)
  <2>4. e.ws \in {"unknown", "known"} /\ e.preset = c.preset
    BY <1>5, <1>9, <2>8, ZenonT(60)
  <2>5. e.fds = c.fds
    BY <1>9, <2>1 DEF HasTold
  <2>6. c.promise = "pending" => e.promise = "resolved"
    BY <1>9, <2>1 DEF HasTold
  <2>7. c.hasbody => e.hasbody /\ e.body = c.body
    BY <1>9, <2>1 DEF HasTold
  <2> QED BY <2>2, <2>3, <2>4, <2>5, <2>6, <2>7
<1>11. PICK closes : closes = (e.status >= 400)
  OBVIOUS
<1>14. IF text /\ ~c.preset
       THEN c' = Dies(d, "body->block_fn") /\ net' = net
       ELSE /\ c' = IF closes
                    THEN IF o.post
                         THEN Dies(Ended(o, e, TRUE, net.fd, "none"), "lws_client_http_body_pending")
                         ELSE Ended(o, e, TRUE, net.fd, "none")
                    ELSE e
            /\ net' = [net EXCEPT !.phase = IF closes THEN "destroyed" ELSE "established",
                         !.est = TRUE, !.status = status, !.asked = @ \/ o.post]
  BY <1>0, <1>6, <1>8, <1>11, ZenonT(60) DEF Established
<1>12. CASE text /\ ~c.preset
  <2>1. c' = [d EXCEPT !.died = "body->block_fn"] /\ net' = net
    <3>1. c' = Dies(d, "body->block_fn") /\ net' = net
      BY <1>0, <1>12, <1>14
    <3> QED BY <3>1 DEF Dies
  <2>2. /\ Client(c') /\ c'.died # "" /\ c'.call = c.call /\ c'.ret = c.ret
        /\ c'.ws \in {"unknown", "known"} /\ c'.http \in Https
    BY <1>5, <2>1 DEF Client
  <2>3. PhaseInv(o, c', net')
    BY <1>2, <2>1, <2>2, Ours, ZenonT(60) DEF PhaseInv
  <2>4. PromiseInv(o, c', net') /\ LoopInv(o, c', net') /\ BodyInv(o, c', net')
    BY <1>2, <2>1, <2>2, Ours DEF PromiseInv, LoopInv, BodyInv
  <2> QED BY <1>1, <2>3, <2>4, Ours DEF IInv, Inv
<1>13. CASE ~(text /\ ~c.preset)
  <2>1. PICK f : f = Ended(o, e, TRUE, net.fd, "none")
    OBVIOUS
  <2>2. c' = IF closes THEN IF o.post THEN [f EXCEPT !.died = "lws_client_http_body_pending"] ELSE f
                       ELSE e
    <3>1. c' = IF closes THEN IF o.post THEN Dies(f, "lws_client_http_body_pending") ELSE f
                         ELSE e
      BY <1>0, <1>13, <2>1, <1>14
    <3> QED BY <3>1 DEF Dies
  <2>3. PICK phase, asked, yes : /\ phase = IF closes THEN "destroyed" ELSE "established"
                                 /\ asked = (net.asked \/ o.post) /\ yes = TRUE
    OBVIOUS
  <2>4. net' = [net EXCEPT !.phase = phase, !.est = yes, !.status = status, !.asked = asked]
    BY <1>0, <1>13, <2>3, <1>14
  <2>5. /\ Connection(net') /\ net'.phase = phase /\ net'.fd = net.fd /\ net'.est /\ net'.est \in BOOLEAN
        /\ net'.sent = net.sent /\ net'.completed = net.completed
    BY <2>3, <2>4, Ours DEF Connection
  <2>6. ~o.block => OwnClose(c) /\ c.promise = "pending"
    BY <1>1, <1>2, Ours DEF PromiseInv
  <2>7. o.block => c.close = "sync" /\ c.fds = <<net.fd>>
    BY <1>1, <1>2, Ours DEF LoopInv
  <2>8. ~net.completed
    BY <1>2
  <2>9. CASE closes
    <3>1. /\ Kept(e, f)
          /\ ~o.block => f.died = "" /\ f.promise = "resolved"
          /\ o.block /\ f.died = "" => f.fds = <<>>
      <4>1. CASE ~o.block
        <5>1. OwnClose(e) /\ Promised(e, yes)
          BY <1>10, <2>3, <2>6, <4>1 DEF OwnClose, Promised
        <5>2. yes \in BOOLEAN /\ f = Ended(o, e, yes, net.fd, "none")
          BY <2>1, <2>3
        <5>3. HasEnded(e, yes, f)
          BY <1>10, <4>1, <5>1, <5>2, EndedTold, ZenonT(60)
        <5> QED BY <2>3, <4>1, <5>3 DEF HasEnded
      <4>2. CASE o.block
        <5>1. Waits(e, yes, net.fd)
          <6>3. c.close = "sync" /\ c.fds = <<net.fd>>
            BY <2>7, <4>2
          <6>4. net.fd # 0
            <7>1. net.fd \in {1, 2}
              BY <1>1, NotYet
            <7> QED BY <7>1
          <6>5. e.close = c.close /\ e.died = "" /\ e.fds = c.fds
            BY <1>10
          <6>1. e.close = "sync" /\ e.died = "" /\ e.fds = <<net.fd>> /\ net.fd # 0
            BY <6>3, <6>4, <6>5, ZenonT(60)
          <6>2. e.ws \in {"unknown", "known"} /\ yes
            BY <1>10, <2>3
          <6> QED BY <6>1, <6>2 DEF Waits
        <5>2. yes \in BOOLEAN /\ yes /\ f = Ended(o, e, yes, net.fd, "none")
          BY <2>1, <2>3
        <5>4. HasEndedSync(e, f)
          BY <1>10, <4>2, <5>1, <5>2, EndedSync, ZenonT(60)
        <5> QED BY <4>2, <5>4 DEF HasEndedSync
      <4> QED BY <4>1, <4>2
    <3>2. /\ Client(f) /\ f.http \in Https /\ f.call = c.call /\ f.ret = c.ret
          /\ f.close = c.close /\ f.ws \in {"unknown", "known"} /\ f.preset = c.preset
          /\ c.hasbody => f.hasbody /\ f.body = c.body
      <4>1. Kept(e, f)
        BY <3>1
      <4>2. Client(f) /\ f.http \in Https /\ f.call = c.call /\ f.ret = c.ret
        BY <1>10, <4>1, ZenonT(60) DEF Kept
      <4>3. f.close = c.close /\ f.ws \in {"unknown", "known"} /\ f.preset = c.preset
        BY <1>10, <4>1, ZenonT(60) DEF Kept
      <4>4. c.hasbody => f.hasbody /\ f.body = c.body
        BY <1>10, <4>1 DEF Kept
      <4> QED BY <4>2, <4>3, <4>4
    <3>3. /\ Client(c') /\ c'.http \in Https /\ c'.call = c.call /\ c'.ret = c.ret
          /\ c'.close = c.close /\ c'.ws \in {"unknown", "known"} /\ c'.preset = c.preset
          /\ c.hasbody => c'.hasbody /\ c'.body = c.body
          /\ c'.died = "" => c' = f
      BY <2>2, <2>9, <3>2 DEF Client
    <3>4. net'.phase = "destroyed"
      BY <2>3, <2>5, <2>9
    <3>5. PhaseInv(o, c', net')
      BY <1>2, <2>5, <3>3, <3>4, Ours DEF PhaseInv, Early
    <3>6. PromiseInv(o, c', net')
      <4> SUFFICES ASSUME c'.died = "", ~o.block
                   PROVE  OwnClose(c') /\ c'.promise = "resolved"
        BY <2>5, <3>4 DEF PromiseInv
      <4>1. c'.close = c.close /\ c'.promise = f.promise
        BY <3>3
      <4> QED BY <2>6, <3>1, <4>1, ZenonT(60) DEF OwnClose
    <3>7. LoopInv(o, c', net')
      <4> SUFFICES ASSUME c'.died = "", o.block
                   PROVE  c'.close = "sync" /\ c'.fds = <<>>
        BY <3>4 DEF LoopInv
      <4>1. c'.close = c.close /\ c'.fds = f.fds /\ f.died = ""
        BY <3>3
      <4>2. f.fds = <<>>
        BY <3>1, <4>1
      <4> QED BY <2>7, <4>1, <4>2, ZenonT(60)
    <3>8. BodyInv(o, c', net')
      BY <1>1, <1>2, <2>5, <3>3, Ours DEF BodyInv
    <3> QED BY <1>1, <3>5, <3>6, <3>7, <3>8, Ours DEF IInv, Inv
  <2>10. CASE ~closes
    <3>1. c' = e /\ net'.phase = "established"
      BY <2>2, <2>3, <2>5, <2>10
    <3>2. PhaseInv(o, c', net')
      BY <1>1, <1>2, <1>10, <2>5, <2>8, <3>1, Ours DEF PhaseInv, Early, LivePhases
    <3>3. PromiseInv(o, c', net')
      <4> SUFFICES ASSUME ~o.block
                   PROVE  OwnClose(c') /\ c'.promise = "resolved"
        BY <2>5, <3>1 DEF PromiseInv
      <4> QED BY <1>10, <2>6, <3>1 DEF OwnClose
    <3>4. LoopInv(o, c', net')
      <4> SUFFICES ASSUME o.block
                   PROVE  /\ c'.close = "sync" /\ c'.fds = <<net.fd>>
                          /\ o.fetch => c'.call = "running"
        BY <2>5, <3>1, ZenonT(60) DEF LoopInv
      <4>1. c.close = "sync" /\ c.fds = <<net.fd>>
        BY <2>7
      <4>2. o.fetch => c.call = "running"
        BY <1>1, NotYet
      <4>3. e.close = c.close /\ e.fds = c.fds /\ e.call = c.call
        BY <1>10
      <4> QED BY <3>1, <4>1, <4>2, <4>3
    <3>5. BodyInv(o, c', net')
      BY <1>1, <1>2, <1>10, <2>5, <3>1, Ours, ZenonT(60) DEF BodyInv
    <3> QED BY <1>1, <3>2, <3>3, <3>4, <3>5, Ours DEF IInv, Inv
  <2> QED BY <2>9, <2>10
<1> QED BY <1>12, <1>13

\* A piece of body is written.
LEMMA WriteBodyIInv ==
  ASSUME IInv, NEW outcome \in {"next", "throw"}, NEW fails \in BOOLEAN, WriteBody(outcome, fails)
  PROVE  IInv'
<1>1. Live /\ net.phase \in {"sent", "established"} /\ o' = o
  BY DEF WriteBody, Serviced
<1>2. PICK p : p = Piece(o, c, outcome)
  OBVIOUS
<1>3. CASE o.post /\ ~net.toGet
  <2>1. PICK next, threw, asked, wire :
          /\ next = IF p.data > 0 THEN p.data ELSE c.next
          /\ threw = (c.threw \/ outcome = "throw")
          /\ asked = ~p.final /\ wire = Append(net.wire, p)
    OBVIOUS
  <2>2. c' = [c EXCEPT !.next = next, !.threw = threw]
    BY <1>2, <1>3, <2>1 DEF WriteBody
  <2>3. Unmoved(c, c')
    BY <2>2, Ours DEF Unmoved, Kept, Client
  <2>4. net' = IF fails THEN [net EXCEPT !.phase = "closing"]
                        ELSE [net EXCEPT !.asked = asked, !.wire = wire]
    BY <1>2, <1>3, <2>1 DEF WriteBody
  <2>5. CASE fails
    <3>1. net' = [net EXCEPT !.phase = "closing"]
      BY <2>4, <2>5
    <3>2. Onward(net, net')
      BY <3>1, Ours DEF Onward, Connection, LivePhases, Early
    <3> QED BY <1>1, <2>3, <3>2, PhaseStep
  <2>6. CASE ~fails
    <3>1. net' = [net EXCEPT !.asked = asked, !.wire = wire]
      BY <2>4, <2>6
    <3>2. Onward(net, net')
      BY <1>1, <3>1, Ours, SameConnection DEF Connection
    <3> QED BY <1>1, <2>3, <3>2, PhaseStep
  <2> QED BY <2>5, <2>6
<1>4. CASE ~(o.post /\ ~net.toGet)
  <2>1. net' = [net EXCEPT !.asked = FALSE] /\ c' = c
    BY <1>4 DEF WriteBody
  <2>2. Unmoved(c, c')
    BY <2>1, Ours DEF Unmoved, Kept
  <2>3. Onward(net, net')
    BY <1>1, <2>1, Ours, SameConnection DEF Connection
  <2> QED BY <1>1, <2>2, <2>3, PhaseStep
<1> QED BY <1>3, <1>4

\* on.writeable is called, or set.
LEMMA WriteableIInv ==
  ASSUME IInv, (\E goesOn \in BOOLEAN : EmitWriteable(goesOn)) \/ SetWriteable
  PROVE  IInv'
<1>1. PICK w : /\ c' = [c EXCEPT !.writeable = w] /\ net' = [net EXCEPT !.asked = w]
               /\ Live /\ o' = o
  <2>1. CASE SetWriteable
    BY <2>1 DEF SetWriteable
  <2>2. CASE \E goesOn \in BOOLEAN : EmitWriteable(goesOn)
    BY <2>2 DEF EmitWriteable, Serviced
  <2> QED BY <2>1, <2>2
<1>2. Unmoved(c, c')
  BY <1>1, Ours DEF Unmoved, Kept, Client
<1>3. Onward(net, net')
  BY <1>1, Ours, SameConnection DEF Connection
<1> QED BY <1>1, <1>2, <1>3, PhaseStep

\* The connection ends.
LEMMA EndIInv ==
  ASSUME IInv, NEW del \in {"none", "before", "after"}, End(del)
  PROVE  IInv'
<1>1. Live /\ o' = o /\ (del = "none" => net.est) /\ c' = Ended(o, c, net.est, net.fd, del)
  BY DEF End, Serviced
<1>2. /\ ~(c.call = "returned" /\ c.ret = "response") /\ c.call # "none" /\ c.died = ""
      /\ net.fd \in {1, 2} /\ net.phase \notin {"none", "destroyed"} /\ net.est \in BOOLEAN
      /\ c.ws \in {"none", "unknown", "known"} /\ (c.ws = "none" => ~net.est)
      /\ (c.ws = "known" => net.est) /\ net.completed \in BOOLEAN
  BY <1>1, Ours, NotYet DEF PhaseInv, Live
<1>3. net' = [net EXCEPT !.phase = "destroyed"]
  BY DEF End
<1>4. /\ Connection(net') /\ net'.phase = "destroyed" /\ net'.fd = net.fd /\ net'.est = net.est
      /\ net'.sent = net.sent /\ net'.completed = net.completed
  BY <1>3, Ours DEF Connection
<1>5. ~o.block => OwnClose(c) /\ c.promise = IF net.est THEN "resolved" ELSE "pending"
  BY <1>2, Ours DEF PromiseInv
<1>6. o.block => c.close = "sync" /\ c.fds = <<net.fd>>
  BY <1>2, Ours DEF LoopInv
<1>7. /\ Kept(c, c')
      /\ ~o.block => c'.died = "" /\ c'.promise = IF net.est THEN "resolved" ELSE "rejected"
      /\ o.block /\ c'.died = "" => c'.fds = <<>>
  <2>1. CASE ~o.block
    <3>1. PICK yes \in BOOLEAN : yes = net.est
      BY <1>2
    <3>2. OwnClose(c) /\ Promised(c, yes)
      BY <1>5, <2>1, <3>1 DEF Promised
    <3>3. HasEnded(c, yes, Ended(o, c, yes, net.fd, del))
      BY <1>2, <2>1, <3>2, Ours, EndedTold
    <3> QED BY <1>1, <2>1, <3>1, <3>3 DEF HasEnded
  <2>2. CASE o.block
    <3>1. PICK yes \in BOOLEAN : yes = net.est
      BY <1>2
    <3>2. Waits(c, yes, net.fd) /\ (del = "none" => yes)
      <4>4. c.close = "sync" /\ c.fds = <<net.fd>>
        BY <1>6, <2>2
      <4>5. net.fd # 0
        <5>1. net.fd \in {1, 2}
          BY <1>1, NotYet
        <5> QED BY <5>1
      <4>6. c.died = ""
        BY <1>1, NotYet
      <4>1. c.close = "sync" /\ c.died = "" /\ c.fds = <<net.fd>> /\ net.fd # 0
        BY <4>4, <4>5, <4>6
      <4>2. c.ws \in {"none", "unknown", "known"} /\ (c.ws = "none" => ~yes) /\ (c.ws = "known" => yes)
        BY <1>2, <3>1
      <4>3. del = "none" => yes
        BY <1>1, <3>1
      <4> QED BY <4>1, <4>2, <4>3 DEF Waits
    <3>3. HasEndedSync(c, Ended(o, c, yes, net.fd, del))
      BY <2>2, <3>2, Ours, EndedSync
    <3> QED BY <1>1, <2>2, <3>1, <3>3 DEF HasEndedSync
  <2> QED BY <2>1, <2>2, Ours
<1>8. /\ Client(c') /\ c'.call = c.call /\ c'.ret = c.ret /\ c'.close = c.close /\ c'.ws = c.ws
      /\ c'.http = c.http /\ c'.preset = c.preset /\ c'.hasbody = c.hasbody /\ c'.body = c.body
  BY <1>7 DEF Kept
<1>9. PhaseInv(o, c', net')
  BY <1>2, <1>4, <1>8, Ours DEF PhaseInv, Early
<1>10. PromiseInv(o, c', net')
  BY <1>2, <1>4, <1>5, <1>7, <1>8 DEF PromiseInv, OwnClose
<1>11. LoopInv(o, c', net')
  BY <1>4, <1>6, <1>7, <1>8 DEF LoopInv
<1>12. BodyInv(o, c', net')
  BY <1>2, <1>4, <1>8, Ours DEF BodyInv
<1> QED BY <1>1, <1>9, <1>10, <1>11, <1>12, Ours DEF IInv, Inv

\* A step that changes nothing.
LEMMA StutterIInv == ASSUME IInv, UNCHANGED vars PROVE IInv'
BY DEF vars, IInv

\* Every step keeps the invariant.
LEMMA NextIInv == IInv /\ [Next]_vars => IInv'
<1> SUFFICES ASSUME IInv, [Next]_vars PROVE IInv'
  OBVIOUS
<1>1. CASE \E why \in {"request", "context"} : Fail(why)
  BY <1>1, FailIInv
<1>2. CASE \E told \in BOOLEAN : Refuse(told)
  BY <1>2, RefuseIInv
<1>3. CASE \E created \in BOOLEAN : Connect(created)
  BY <1>3, ConnectIInv
<1>4. CASE Return
  BY <1>4, ReturnIInv
<1>5. CASE Bind
  BY <1>5, BindIInv
<1>6. CASE Handshake
  BY <1>6, HandshakeIInv
<1>7. CASE \E toGet \in BOOLEAN : Redirect(toGet)
  BY <1>7, RedirectIInv
<1>8. CASE \E status \in {200, 404}, text, asks \in BOOLEAN : Established(status, text, asks)
  BY <1>8, EstablishedIInv
<1>9. CASE Text
  BY <1>9, TextIInv
<1>10. CASE Receive(<<Len(net.sent) + 1>>)
  <2>1. Len(net.sent) + 1 \in Nat
    BY Ours
  <2>2. <<Len(net.sent) + 1>> \in Seq(Nat)
    BY <2>1
  <2> QED BY <1>10, <2>2, ReceiveIInv
<1>11. CASE Completed
  BY <1>11, CompletedIInv
<1>12. CASE \E outcome \in {"next", "throw"}, fails \in BOOLEAN : WriteBody(outcome, fails)
  BY <1>12, WriteBodyIInv
<1>13. CASE \/ \E goesOn \in BOOLEAN : EmitWriteable(goesOn)
            \/ SetWriteable
  BY <1>13, WriteableIInv
<1>14. CASE \E del \in {"none", "before", "after"} : End(del)
  BY <1>14, EndIInv
<1>15. CASE UNCHANGED vars
  BY <1>15, StutterIInv
<1> QED BY <1>1, <1>2, <1>3, <1>4, <1>5, <1>6, <1>7, <1>8, <1>9, <1>10, <1>11, <1>12, <1>13,
           <1>14, <1>15 DEF Next

-----------------------------------------------------------------------------
\* The body that is sent.

Bits == [data : Nat, final : BOOLEAN]

\* The connection may still write, or be begun.
Writes == Early \cup {"none", "established"}

\* The first m values have been written: while the body is not closed they are all
\* that were read, and once it is they are all there are.
WireOk(p, d, n, m) ==
  /\ InOrder(n.wire, m)
  /\ ~Closed(n.wire) /\ n.phase \in Writes => m = d.next
  /\ Closed(n.wire) /\ p.body = "iterator" /\ ~d.threw => m = p.values

WireInv(p, d, n) ==
  /\ n.wire \in Seq(Bits) /\ d.next \in Nat /\ d.threw \in BOOLEAN
  /\ p.body = "iterator" => d.next =< p.values
  /\ p.body = "text" /\ ~Closed(n.wire) /\ n.phase \in Writes => d.next = 0
  /\ \E m \in 0 .. Len(n.wire) : WireOk(p, d, n, m)

\* A piece is behind the others.
LEMMA PieceBehind ==
  ASSUME NEW wire \in Seq(Bits), NEW q \in Bits
  PROVE  /\ Append(wire, q) \in Seq(Bits) /\ Len(Append(wire, q)) = Len(wire) + 1
         /\ DOMAIN Append(wire, q) = 1 .. Len(wire) + 1 /\ DOMAIN wire = 1 .. Len(wire)
         /\ Append(wire, q)[Len(wire) + 1] = q
         /\ \A i \in 1 .. Len(wire) : Append(wire, q)[i] = wire[i]
BY AppendProperties

\* It closes the body when it is the last.
LEMMA ClosedBy ==
  ASSUME NEW wire \in Seq(Bits), NEW q \in Bits
  PROVE  Closed(Append(wire, q)) <=> Closed(wire) \/ q.final
<1>1. PICK w : w = Append(wire, q)
  OBVIOUS
<1>2. /\ Len(wire) \in Nat /\ DOMAIN w = 1 .. Len(wire) + 1 /\ DOMAIN wire = 1 .. Len(wire)
      /\ w[Len(wire) + 1] = q
      /\ \A i \in 1 .. Len(wire) : w[i] = wire[i]
  BY <1>1, PieceBehind
<1> QED BY <1>1, <1>2 DEF Closed

\* Its value counts when the body was not closed.
LEMMA ValuedBehind ==
  ASSUME NEW wire \in Seq(Bits), NEW q \in Bits
  PROVE  /\ Closed(wire) \/ q.data = 0 => Valued(Append(wire, q)) = Valued(wire)
         /\ ~Closed(wire) /\ q.data # 0 =>
              Valued(Append(wire, q)) = Valued(wire) \cup {Len(wire) + 1}
<1>1. PICK w : w = Append(wire, q)
  OBVIOUS
<1>2. /\ Len(wire) \in Nat /\ DOMAIN w = 1 .. Len(wire) + 1 /\ DOMAIN wire = 1 .. Len(wire)
      /\ w[Len(wire) + 1] = q
      /\ \A i \in 1 .. Len(wire) : w[i] = wire[i]
  BY <1>1, PieceBehind
<1>3. \A i \in 1 .. Len(wire) : i \in Valued(w) <=> i \in Valued(wire)
  BY <1>2 DEF Valued
<1>4. Len(wire) + 1 \in Valued(w) <=> ~Closed(wire) /\ q.data # 0
  <2>1. 1 .. (Len(wire) + 1) - 1 = 1 .. Len(wire)
    BY <1>2
  <2>2. (\A j \in 1 .. Len(wire) : ~w[j].final) <=> ~Closed(wire)
    BY <1>2 DEF Closed
  <2> QED BY <1>2, <2>1, <2>2 DEF Valued
<1>5. Valued(w) \subseteq 1 .. Len(wire) + 1 /\ Valued(wire) \subseteq 1 .. Len(wire)
  BY <1>2 DEF Valued
<1>6. \A i : i \in 1 .. Len(wire) + 1 <=> i \in 1 .. Len(wire) \/ i = Len(wire) + 1
  BY <1>2
<1>7. ASSUME Closed(wire) \/ q.data = 0 PROVE Valued(w) = Valued(wire)
  BY <1>3, <1>4, <1>5, <1>6, <1>7
<1>8. ASSUME ~Closed(wire), q.data # 0 PROVE Valued(w) = Valued(wire) \cup {Len(wire) + 1}
  BY <1>3, <1>4, <1>5, <1>6, <1>8
<1> QED BY <1>1, <1>7, <1>8

\* A piece without a value, or behind the end, leaves the values in order.
LEMMA InOrderStays ==
  ASSUME NEW wire \in Seq(Bits), NEW q \in Bits, NEW m \in Nat,
         InOrder(wire, m), Closed(wire) \/ q.data = 0
  PROVE  InOrder(Append(wire, q), m)
<1>1. PICK w : w = Append(wire, q)
  OBVIOUS
<1>2. \A i \in Valued(wire) : w[i] = wire[i]
  BY <1>1, PieceBehind DEF Valued
<1>3. Valued(w) = Valued(wire)
  BY <1>1, ValuedBehind
<1> QED BY <1>1, <1>2, <1>3 DEF InOrder

\* The next value goes behind the others.
LEMMA InOrderNext ==
  ASSUME NEW wire \in Seq(Bits), NEW q \in Bits, NEW m \in Nat,
         InOrder(wire, m), ~Closed(wire), q.data = m + 1
  PROVE  InOrder(Append(wire, q), m + 1)
<1>1. PICK w, k : w = Append(wire, q) /\ k = Len(wire) + 1
  OBVIOUS
<1>2. /\ Valued(wire) \subseteq 1 .. Len(wire) /\ w[k] = q /\ k \in Nat
      /\ \A i \in Valued(wire) : w[i] = wire[i] /\ i < k /\ i \in Nat
  BY <1>1, PieceBehind DEF Valued
<1>3. Valued(w) = Valued(wire) \cup {k}
  BY <1>1, ValuedBehind
<1>4. \A i \in Valued(wire) : wire[i].data \in 1 .. m
  BY DEF InOrder
<1>5. \A i, j \in Valued(w) : i < j => w[i].data < w[j].data
  <2> SUFFICES ASSUME NEW i \in Valued(w), NEW j \in Valued(w), i < j
               PROVE  w[i].data < w[j].data
    OBVIOUS
  <2>1. i \in Valued(wire)
    BY <1>2, <1>3
  <2>2. CASE j = k
    BY <1>2, <1>4, <2>1, <2>2
  <2>3. CASE j # k
    BY <1>2, <1>3, <2>1, <2>3 DEF InOrder
  <2> QED BY <2>2, <2>3
<1>6. {w[i].data : i \in Valued(w)} = 1 .. m + 1
  <2>1. {w[i].data : i \in Valued(w)} = {w[i].data : i \in Valued(wire)} \cup {m + 1}
    BY <1>2, <1>3
  <2>2. {w[i].data : i \in Valued(wire)} = {wire[i].data : i \in Valued(wire)}
    BY <1>2
  <2>3. {wire[i].data : i \in Valued(wire)} = 1 .. m
    BY DEF InOrder
  <2>4. (1 .. m) \cup {m + 1} = 1 .. m + 1
    OBVIOUS
  <2> QED BY <2>1, <2>2, <2>3, <2>4
<1> QED BY <1>1, <1>5, <1>6 DEF InOrder

\* r has read what d has of the body that is sent, and is told of as d is.
ReadAlike(d, r) ==
  /\ Client(r) /\ r.next = d.next /\ r.threw = d.threw
  /\ r.close = d.close /\ r.ws = d.ws

\* Settling reads nothing.
LEMMA SettleReads ==
  ASSUME NEW d, Client(d), NEW how
  PROVE  ReadAlike(d, Settle(d, how))
BY DEF Settle, Client, ReadAlike

\* Nor does the list of descriptors.
LEMMA PollReads ==
  ASSUME NEW d, Client(d), NEW fd
  PROVE  ReadAlike(d, synchfetch_setevents(d, fd)) /\ ReadAlike(d, synchfetch_removefd(d, fd))
<1>1. \A x : ReadAlike(d, [d EXCEPT !.fds = x])
  BY DEF Client, ReadAlike
<1>2. \A x : ReadAlike(d, [d EXCEPT !.died = x])
  BY DEF Client, ReadAlike
<1>3. ReadAlike(d, d)
  BY DEF ReadAlike
<1>4. \/ synchfetch_setevents(d, fd) = d
      \/ synchfetch_setevents(d, fd) = [d EXCEPT !.fds = Append(d.fds, fd)]
  BY DEF synchfetch_setevents
<1>5. \/ synchfetch_removefd(d, fd) = [d EXCEPT !.fds = RemoveFirst(d.fds, fd)]
      \/ synchfetch_removefd(d, fd) = [d EXCEPT !.died = "synchfetch_removefd"]
  BY DEF synchfetch_removefd, Dies
<1> QED BY <1>1, <1>2, <1>3, <1>4, <1>5

\* Nor on.fd.
LEMMA OnFdReads ==
  ASSUME NEW p, p.block \in BOOLEAN, NEW d, Client(d), NEW fd, NEW any \in BOOLEAN,
         NEW r, r = minnet_client_pollfd(p, d, fd, any)
  PROVE  ReadAlike(d, r)
<1>1. ReadAlike(d, d)
  BY DEF ReadAlike
<1>2. r = d \/ r = synchfetch_setevents(d, fd) \/ r = synchfetch_removefd(d, fd)
  BY DEF minnet_client_pollfd
<1>3. PICK s, t : s = synchfetch_setevents(d, fd) /\ t = synchfetch_removefd(d, fd)
  OBVIOUS
<1>4. ReadAlike(d, s) /\ ReadAlike(d, t)
  BY <1>3, PollReads
<1> QED BY <1>1, <1>2, <1>3, <1>4

\* Whom on.close calls, and what is known of the socket.
CloseIsKnown(d) ==
  /\ d.close \in {"none", "user", "reject", "fetch", "sync"}
  /\ d.ws \in {"none", "unknown", "known"}

\* Nor on.close.
LEMMA CloseReads ==
  ASSUME NEW d, Client(d), NEW fd, NEW error, CloseIsKnown(d)
  PROVE  ReadAlike(d, EmitClose(d, fd, error))
<1>1. PICK e : e = [d EXCEPT !.closes = @ + 1]
  OBVIOUS
<1>2. Client(e) /\ ReadAlike(d, e) /\ e.ws = d.ws
  BY <1>1 DEF Client, ReadAlike
<1>3. ReadAlike(d, Settle(e, "rejected"))
  BY <1>2, SettleReads DEF ReadAlike
<1>4. ReadAlike(d, minnet_client_onclose(e, fd, error))
  <2>1. PICK x : x = (e.error \/ error)
    OBVIOUS
  <2>2. PICK f : f = [e EXCEPT !.error = x]
    OBVIOUS
  <2>3. Client(f) /\ ReadAlike(d, f)
    BY <1>2, <2>2 DEF Client, ReadAlike
  <2>4. minnet_client_onclose(e, fd, error) \in {synchfetch_removefd(f, fd), synchfetch_removefd(f, 0), f}
    BY <1>2, <2>1, <2>2 DEF minnet_client_onclose, CloseIsKnown
  <2>5. \A fds : ReadAlike(f, synchfetch_removefd(f, fds))
    BY <2>3, PollReads
  <2> QED BY <2>3, <2>4, <2>5 DEF ReadAlike
<1>5. ReadAlike(d, d)
  BY DEF ReadAlike
<1> QED BY <1>1, <1>2, <1>3, <1>4, <1>5 DEF EmitClose, CloseIsKnown


\* Nor the error of a connection.
LEMMA ErrorReads ==
  ASSUME NEW d, Client(d), NEW fd, CloseIsKnown(d)
  PROVE  ReadAlike(d, ConnectionError(d, fd))
<1>1. PICK e : e = Settle(d, "rejected")
  OBVIOUS
<1>2. ReadAlike(d, e)
  BY <1>1, SettleReads
<1>3. Client(e) /\ CloseIsKnown(e)
  BY <1>2 DEF ReadAlike, CloseIsKnown
<1>4. PICK yes, r : yes = TRUE /\ r = EmitClose(e, fd, yes)
  OBVIOUS
<1>5. r = ConnectionError(d, fd)
  BY <1>1, <1>4 DEF ConnectionError
<1>6. ReadAlike(e, r)
  BY <1>3, <1>4, CloseReads
<1> QED BY <1>2, <1>5, <1>6 DEF ReadAlike

\* Nor the end of one.
LEMMA EndReads ==
  ASSUME NEW p, p.block \in BOOLEAN, NEW d, Client(d), NEW fd, NEW est \in BOOLEAN,
         NEW del, CloseIsKnown(d)
  PROVE  ReadAlike(d, Ended(p, d, est, fd, del))
<1>1. PICK r : r = Ended(p, d, est, fd, del)
  OBVIOUS
<1>4. PICK no \in BOOLEAN : no = FALSE
  OBVIOUS
<1>2. PICK before : before = IF del = "before" THEN minnet_client_pollfd(p, d, fd, no) ELSE d
  OBVIOUS
<1>3. Client(before) /\ ReadAlike(d, before) /\ CloseIsKnown(before)
  <2>1. CASE del = "before"
    <3>1. before = minnet_client_pollfd(p, d, fd, no)
      BY <1>2, <2>1
    <3>2. ReadAlike(d, before)
      BY <1>4, <3>1, OnFdReads
    <3> QED BY <3>2 DEF ReadAlike, CloseIsKnown
  <2>2. CASE del # "before"
    BY <1>2, <2>2 DEF ReadAlike
  <2> QED BY <2>1, <2>2
<1>5. PICK told : told = IF est THEN EmitClose(before, fd, no) ELSE ConnectionError(before, fd)
  OBVIOUS
<1>6. Client(told) /\ ReadAlike(d, told)
  <2>1. ReadAlike(before, EmitClose(before, fd, no)) /\ ReadAlike(before, ConnectionError(before, fd))
    BY <1>3, CloseReads, ErrorReads
  <2> QED BY <1>3, <1>5, <2>1 DEF ReadAlike
<1>7. PICK after : after = IF del = "after" THEN minnet_client_pollfd(p, told, fd, no) ELSE told
  OBVIOUS
<1>8. Client(after) /\ ReadAlike(d, after)
  <2>1. CASE del = "after"
    <3>1. after = minnet_client_pollfd(p, told, fd, no)
      BY <1>7, <2>1
    <3>2. ReadAlike(told, after)
      BY <1>4, <1>6, <3>1, OnFdReads
    <3> QED BY <1>6, <3>2 DEF ReadAlike
  <2>2. CASE del # "after"
    BY <1>6, <1>7, <2>2
  <2> QED BY <2>1, <2>2
<1>9. r = IF after.died # "" THEN after ELSE Settle(after, "resolved")
  BY <1>1, <1>2, <1>4, <1>5, <1>7 DEF Ended
<1>10. ReadAlike(after, Settle(after, "resolved"))
  BY <1>8, SettleReads
<1> QED BY <1>1, <1>8, <1>9, <1>10 DEF ReadAlike

\* Nor the handler of the response.
LEMMA HttpReads ==
  ASSUME NEW d, Client(d), d.http \in Https, NEW asks
  PROVE  ReadAlike(d, EmitHttp(d, asks))
<1>1. PICK e : e = IF asks /\ d.http \in {"user", "terminate"} /\ ~d.hasbody
                   THEN [d EXCEPT !.hasbody = TRUE, !.body = generator_continuous(@, Continuation(1))]
                   ELSE d
  OBVIOUS
<1>2. Client(e) /\ ReadAlike(d, e)
  BY <1>1 DEF Client, ReadAlike
<1>3. PICK r : r = EmitHttp(d, asks)
  OBVIOUS
<1>4. PICK f, g : f = [e EXCEPT !.lwsret = 1] /\ g = [d EXCEPT !.answer = "resolved", !.lwsret = 1]
  OBVIOUS
<1>5. r = d \/ r = e \/ r = f \/ r = g
  BY <1>1, <1>3, <1>4 DEF EmitHttp, Https
<1>6. Client(f) /\ ReadAlike(e, f)
  BY <1>2, <1>4 DEF Client, ReadAlike
<1>7. ReadAlike(d, f)
  BY <1>2, <1>6 DEF ReadAlike
<1>8. ReadAlike(d, g)
  BY <1>4 DEF Client, ReadAlike
<1>9. ReadAlike(d, d)
  BY DEF ReadAlike
<1> QED BY <1>2, <1>3, <1>5, <1>7, <1>8, <1>9

\* Nor what the call returns.
LEMMA ClosureReads ==
  ASSUME NEW p, p.block \in BOOLEAN, p.fetch \in BOOLEAN, NEW d, Client(d), NEW fd, NEW ok \in BOOLEAN
  PROVE  ReadAlike(d, minnet_client_closure(p, d, fd, ok))
<1>1. PICK e : e = IF ok THEN d ELSE IF p.block THEN d ELSE Settle(d, "rejected")
  OBVIOUS
<1>2. Client(e) /\ ReadAlike(d, e)
  <2>1. ReadAlike(d, Settle(d, "rejected"))
    BY SettleReads
  <2> QED BY <1>1, <2>1 DEF ReadAlike
<1>3. PICK s : s = synchfetch_setevents(e, fd)
  OBVIOUS
<1>4. Client(s) /\ ReadAlike(e, s)
  BY <1>2, <1>3, PollReads DEF ReadAlike
<1>5. PICK b : b = BlockingBody(s)
  OBVIOUS
<1>6. Client(b) /\ ReadAlike(s, b)
  BY <1>4, <1>5 DEF BlockingBody, Client, ReadAlike
<1>7. PICK r : r = minnet_client_closure(p, d, fd, ok)
  OBVIOUS
<1>8. \/ \E ret : r = [e EXCEPT !.call = "returned", !.ret = ret]
      \/ r = [e EXCEPT !.call = "returned", !.ret = "answer",
                       !.answer = "pending", !.http = "answer"]
      \/ r = [b EXCEPT !.call = "running"]
  BY <1>1, <1>3, <1>5, <1>7 DEF minnet_client_closure
<1>9. CASE \E ret : r = [e EXCEPT !.call = "returned", !.ret = ret]
  <2>1. PICK ret : r = [e EXCEPT !.call = "returned", !.ret = ret]
    BY <1>9
  <2>2. ReadAlike(e, r)
    BY <1>2, <2>1 DEF Client, ReadAlike
  <2> QED BY <1>2, <1>7, <2>2 DEF ReadAlike
<1>10. CASE r = [e EXCEPT !.call = "returned", !.ret = "answer",
                          !.answer = "pending", !.http = "answer"]
  <2>1. ReadAlike(e, r)
    BY <1>2, <1>10 DEF Client, ReadAlike
  <2> QED BY <1>2, <1>7, <2>1 DEF ReadAlike
<1>11. CASE r = [b EXCEPT !.call = "running"]
  <2>1. ReadAlike(b, r)
    BY <1>6, <1>11 DEF Client, ReadAlike
  <2> QED BY <1>2, <1>4, <1>6, <1>7, <2>1 DEF ReadAlike
<1> QED BY <1>8, <1>9, <1>10, <1>11

\* A step that writes nothing, after which nothing is written that was not before.
WritesNothing ==
  /\ o' = o /\ c'.next = c.next /\ c'.threw = c.threw /\ net'.wire = net.wire
  /\ net'.phase \in Writes => net.phase \in Writes

\* It keeps what has been written.
LEMMA WireKept ==
  ASSUME WireInv(o, c, net), WritesNothing
  PROVE  WireInv(o, c, net)'
BY DEF WireInv, WireOk, WritesNothing

\* The initial state.
LEMMA InitWire == Init => WireInv(o, c, net)
<1> SUFFICES ASSUME Init PROVE WireInv(o, c, net)
  OBVIOUS
<1>1. o \in Options /\ c = client_new /\ net = NoConnection
  BY DEF Init
<1>2. c.next = 0 /\ c.threw \in BOOLEAN
  BY <1>1 DEF client_new
<1>3. PICK wire : wire = net.wire /\ wire = <<>>
  BY <1>1 DEF NoConnection
<1>4. wire \in Seq(Bits) /\ Len(wire) = 0 /\ DOMAIN wire = {}
  BY <1>3
<1>5. ~Closed(wire) /\ InOrder(wire, 0)
  <2>1. Valued(wire) = {}
    BY <1>4 DEF Valued
  <2> QED BY <1>4, <2>1 DEF Closed, InOrder
<1>6. o.body = "iterator" => 0 =< o.values
  BY <1>1, ConstantsAssumption DEF Options
<1>7. WireOk(o, c, net, 0) /\ 0 \in 0 .. Len(wire)
  BY <1>2, <1>3, <1>4, <1>5 DEF WireOk
<1> QED BY <1>2, <1>3, <1>4, <1>6, <1>7 DEF WireInv

\* A call that is not made yet.
LEMMA NotMade ==
  ASSUME IInv, c.call = "none"
  PROVE  c = client_new /\ net = NoConnection /\ o \in Options
BY Ours DEF PhaseInv

\* The callbacks of a call have read nothing.
LEMMA CallbackReads ==
  ASSUME NEW p \in Options
  PROVE  /\ Client(Callbacks(p)) /\ CloseIsKnown(Callbacks(p))
         /\ Callbacks(p).next = client_new.next /\ Callbacks(p).threw = client_new.threw
<1>1. PICK d : d = Callbacks(p)
  OBVIOUS
<1>2. Client(d) /\ d.ws = "none" /\ d.close \in {"none", "user", "reject", "fetch", "sync"}
  BY <1>1, CallbackFields, OptionFields DEF OwnClose
<1>3. \E close, http, writeable, promise :
        d = [client_new EXCEPT !.close = close, !.http = http, !.writeable = writeable,
                               !.promise = promise]
  BY <1>1 DEF Callbacks
<1>4. d.next = client_new.next /\ d.threw = client_new.threw
  BY <1>3, NewClient DEF Client
<1> QED BY <1>1, <1>2, <1>4 DEF CloseIsKnown

\* The call reads and writes nothing.
LEMMA CallWrites ==
  ASSUME IInv, \/ \E why \in {"request", "context"} : Fail(why)
               \/ \E told \in BOOLEAN : Refuse(told)
               \/ \E created \in BOOLEAN : Connect(created)
  PROVE  WritesNothing
<1>1. c.call = "none" /\ o' = o
  BY DEF Fail, Refuse, Connect
<1>2. c = client_new /\ net = NoConnection /\ o \in Options /\ net.phase \in Writes
  BY <1>1, NotMade, NewConnection DEF Writes
<1>3. PICK d0 : d0 = Callbacks(o)
  OBVIOUS
<1>4. Client(d0) /\ CloseIsKnown(d0) /\ d0.next = c.next /\ d0.threw = c.threw
  BY <1>2, <1>3, CallbackReads
<1>5. net'.wire = net.wire
  <2>1. net' = net \/ net' = [net EXCEPT !.phase = "connecting", !.fd = 1]
    BY DEF Fail, Refuse, Connect
  <2> QED BY <1>2, <2>1, NewConnection DEF Connection
<1>6. c'.next = c.next /\ c'.threw = c.threw
  <2>1. CASE \E why \in {"request", "context"} : Fail(why)
    <3>1. PICK died, ret : c' = [client_new EXCEPT !.call = "returned", !.died = died, !.ret = ret]
      BY <2>1 DEF Fail
    <3> QED BY <1>2, <3>1, NewClient DEF Client
  <2>2. CASE \E told \in BOOLEAN : Refuse(told)
    <3>1. PICK told \in BOOLEAN : Refuse(told)
      BY <2>2
    <3>2. PICK d, zero, no : /\ zero = 0 /\ no = FALSE
                             /\ d = IF told THEN ConnectionError(d0, zero) ELSE d0
      OBVIOUS
    <3>3. Client(d) /\ d.next = c.next /\ d.threw = c.threw
      <4>1. ReadAlike(d0, ConnectionError(d0, zero))
        BY <1>4, ErrorReads
      <4> QED BY <1>4, <3>2, <4>1 DEF ReadAlike
    <3>4. no \in BOOLEAN /\ c' = minnet_client_closure(o, d, zero, no)
      BY <1>3, <3>1, <3>2 DEF Refuse
    <3>5. ReadAlike(d, c')
      BY <1>2, <3>3, <3>4, ClosureReads, OptionFields
    <3> QED BY <3>3, <3>5 DEF ReadAlike
  <2>3. CASE \E created \in BOOLEAN : Connect(created)
    <3>1. PICK created \in BOOLEAN : Connect(created)
      BY <2>3
    <3>2. PICK w : w = IF created THEN "unknown" ELSE "none"
      OBVIOUS
    <3>3. PICK d : d = [d0 EXCEPT !.ws = w]
      OBVIOUS
    <3>4. Client(d) /\ d.next = c.next /\ d.threw = c.threw
      BY <1>4, <3>3 DEF Client
    <3>5. PICK e, one, yes : one = 1 /\ yes = TRUE /\ e = minnet_client_pollfd(o, d, one, yes)
      OBVIOUS
    <3>6. Client(e) /\ e.next = c.next /\ e.threw = c.threw
      <4>1. o.block \in BOOLEAN
        BY <1>2, OptionFields
      <4>2. yes \in BOOLEAN
        BY <3>5
      <4>3. e = minnet_client_pollfd(o, d, one, yes)
        BY <3>5
      <4>4. ReadAlike(d, e)
        BY <3>4, <4>1, <4>2, <4>3, OnFdReads
      <4> QED BY <3>4, <4>4 DEF ReadAlike
    <3>7. yes \in BOOLEAN /\ c' = minnet_client_closure(o, e, one, yes)
      BY <1>3, <3>1, <3>2, <3>3, <3>5 DEF Connect
    <3>8. ReadAlike(e, c')
      BY <1>2, <3>6, <3>7, ClosureReads, OptionFields
    <3> QED BY <3>6, <3>8 DEF ReadAlike
  <2> QED BY <2>1, <2>2, <2>3
<1> QED BY <1>1, <1>2, <1>5, <1>6 DEF WritesNothing

\* Whom a connection that is there tells of its close.
LEMMA CloseKnown ==
  ASSUME IInv, Live
  PROVE  /\ CloseIsKnown(c) /\ Client(c) /\ Connection(net) /\ net.est \in BOOLEAN
         /\ o.block \in BOOLEAN /\ c.http \in Https
<1>1. c.died = "" /\ net.phase \notin {"none", "destroyed"}
  BY DEF Live
<1>2. ~o.block => OwnClose(c)
  BY <1>1, Ours DEF PromiseInv
<1>3. o.block => c.close = "sync"
  BY <1>1, Ours DEF LoopInv
<1>4. c.ws \in {"none", "unknown", "known"} /\ net.est \in BOOLEAN /\ c.http \in Https
  BY Ours DEF PhaseInv
<1> QED BY <1>2, <1>3, <1>4, Ours DEF CloseIsKnown, OwnClose

\* Neither do the steps that change the client alone.
LEMMA ClientWrites ==
  ASSUME IInv, Return \/ Text
  PROVE  WritesNothing
<1>1. PICK r : c' = r /\ \/ \E ret : r = [c EXCEPT !.call = "returned", !.ret = ret]
                         \/ \E b : r = [c EXCEPT !.hasbody = TRUE, !.body = b]
  BY DEF Return, Text
<1>2. r.next = c.next /\ r.threw = c.threw
  BY <1>1, Ours DEF Client
<1>3. o' = o /\ net' = net
  BY DEF Return, Text
<1> QED BY <1>1, <1>2, <1>3 DEF WritesNothing

\* Nor a redirect, which begins the connection again.
LEMMA RedirectWrites ==
  ASSUME IInv, NEW toGet \in BOOLEAN, Redirect(toGet)
  PROVE  WritesNothing
<1>1. Live /\ net.phase \in Writes /\ o' = o
  BY DEF Redirect, Serviced, Writes, Early
<1>2. net' = [net EXCEPT !.phase = "connecting", !.fd = 2, !.asked = FALSE, !.toGet = toGet]
  BY DEF Redirect
<1>3. net'.wire = net.wire
  BY <1>2, Ours DEF Connection
<1>4. PICK d, one : one = 1 /\ d = [c EXCEPT !.lwsret = one]
  OBVIOUS
<1>5. Client(d) /\ d.next = c.next /\ d.threw = c.threw
  BY <1>4, Ours DEF Client
<1>6. PICK gone, no : no = FALSE /\ gone = minnet_client_pollfd(o, d, one, no)
  OBVIOUS
<1>7. ReadAlike(d, gone)
  <2>1. no \in BOOLEAN
    BY <1>6
  <2>2. gone = minnet_client_pollfd(o, d, one, no)
    BY <1>6
  <2> QED BY <1>5, <2>1, <2>2, Ours, OnFdReads
<1>8. PICK r, two, yes : two = 2 /\ yes = TRUE /\ r = minnet_client_pollfd(o, gone, two, yes)
  OBVIOUS
<1>9. ReadAlike(gone, r)
  <2>1. Client(gone)
    BY <1>7 DEF ReadAlike
  <2>2. yes \in BOOLEAN
    BY <1>8
  <2>3. r = minnet_client_pollfd(o, gone, two, yes)
    BY <1>8
  <2> QED BY <2>1, <2>2, <2>3, Ours, OnFdReads
<1>10. c' = r
  BY <1>4, <1>6, <1>8 DEF Redirect
<1>11. c'.next = c.next /\ c'.threw = c.threw
  BY <1>5, <1>7, <1>9, <1>10 DEF ReadAlike
<1> QED BY <1>1, <1>3, <1>11 DEF WritesNothing

\* Nor binding, the handshake, what is received or what on.writeable does.
LEMMA QuietWrites ==
  ASSUME IInv, \/ Bind \/ Handshake \/ Completed
               \/ \E chunk : Receive(chunk)
               \/ \E goesOn \in BOOLEAN : EmitWriteable(goesOn)
               \/ SetWriteable
  PROVE  WritesNothing
<1>1. Live /\ o' = o
  BY DEF Bind, Handshake, Completed, Receive, EmitWriteable, SetWriteable, Serviced
<1>2. CloseIsKnown(c) /\ Client(c) /\ Connection(net)
  BY <1>1, CloseKnown
<1>3. net'.wire = net.wire /\ (net'.phase \in Writes => net.phase \in Writes)
  <2>1. CASE Bind
    <3>1. net' = [net EXCEPT !.phase = "bound"] /\ net.phase \in Writes
      BY <2>1 DEF Bind, Writes, Early
    <3> QED BY <1>2, <3>1 DEF Connection
  <2>2. CASE Handshake
    <3>1. PICK asked : net' = [net EXCEPT !.phase = "sent", !.asked = asked]
      BY <2>2 DEF Handshake
    <3>2. net.phase \in Writes
      BY <2>2 DEF Handshake, Writes, Early
    <3> QED BY <1>2, <3>1, <3>2 DEF Connection
  <2>3. CASE Completed
    <3>1. PICK phase : net' = [net EXCEPT !.completed = TRUE, !.phase = phase]
      BY <2>3 DEF Completed
    <3>2. net.phase \in Writes
      BY <2>3 DEF Completed, Writes
    <3> QED BY <1>2, <3>1, <3>2 DEF Connection
  <2>4. CASE \E chunk : Receive(chunk)
    <3>1. PICK sent : net' = [net EXCEPT !.sent = sent]
      BY <2>4 DEF Receive
    <3> QED BY <1>2, <3>1 DEF Connection
  <2>5. CASE (\E goesOn \in BOOLEAN : EmitWriteable(goesOn)) \/ SetWriteable
    <3>1. PICK asked : net' = [net EXCEPT !.asked = asked]
      BY <2>5 DEF EmitWriteable, SetWriteable
    <3> QED BY <1>2, <3>1 DEF Connection
  <2> QED BY <2>1, <2>2, <2>3, <2>4, <2>5
<1>4. c'.next = c.next /\ c'.threw = c.threw
  <2>1. CASE Bind
    <3>1. PICK e, no : /\ no = FALSE
                       /\ e = IF c.ws = "known" THEN EmitClose(c, net.fd, no) ELSE c
      OBVIOUS
    <3>2. c' = [e EXCEPT !.respobj = no]
      BY <2>1, <3>1 DEF Bind
    <3>3. ReadAlike(c, EmitClose(c, net.fd, no))
      BY <1>2, CloseReads
    <3>4. Client(e) /\ e.next = c.next /\ e.threw = c.threw
      BY <1>2, <3>1, <3>3 DEF ReadAlike
    <3> QED BY <3>2, <3>4 DEF Client
  <2>2. CASE Handshake
    BY <2>2 DEF Handshake
  <2>3. CASE Completed
    <3>1. (\E b : c' = [c EXCEPT !.body = b]) \/ (\E died : c' = [c EXCEPT !.died = died])
      BY <2>3 DEF Completed, Dies
    <3> QED BY <1>2, <3>1 DEF Client
  <2>4. CASE \E chunk : Receive(chunk)
    <3>1. \/ \E b : c' = [c EXCEPT !.respobj = TRUE, !.body = b]
          \/ \E died : c' = [[c EXCEPT !.respobj = TRUE] EXCEPT !.died = died]
      BY <2>4 DEF Receive, Dies
    <3> QED BY <1>2, <3>1 DEF Client
  <2>5. CASE (\E goesOn \in BOOLEAN : EmitWriteable(goesOn)) \/ SetWriteable
    <3>1. PICK w : c' = [c EXCEPT !.writeable = w]
      BY <2>5 DEF EmitWriteable, SetWriteable
    <3> QED BY <1>2, <3>1 DEF Client
  <2> QED BY <2>1, <2>2, <2>3, <2>4, <2>5
<1> QED BY <1>1, <1>3, <1>4 DEF WritesNothing

\* Nor the end of the connection.
LEMMA EndWrites ==
  ASSUME IInv, NEW del \in {"none", "before", "after"}, End(del)
  PROVE  WritesNothing
<1>1. Live /\ o' = o /\ c' = Ended(o, c, net.est, net.fd, del)
      /\ net' = [net EXCEPT !.phase = "destroyed"]
  BY DEF End, Serviced
<1>2. /\ CloseIsKnown(c) /\ Client(c) /\ Connection(net) /\ net.est \in BOOLEAN
      /\ o.block \in BOOLEAN
  BY <1>1, CloseKnown
<1>3. ReadAlike(c, c')
  BY <1>1, <1>2, EndReads
<1>4. net'.wire = net.wire /\ net'.phase \notin Writes
  BY <1>1, <1>2 DEF Connection, Writes, Early
<1> QED BY <1>1, <1>3, <1>4 DEF ReadAlike, WritesNothing

\* Nor the response that begins, also where it ends the connection at once.
LEMMA EstablishedWrites ==
  ASSUME IInv, NEW status \in {200, 404}, NEW text \in BOOLEAN, NEW asks \in BOOLEAN,
         Established(status, text, asks)
  PROVE  WritesNothing
<1>1. Live /\ net.phase \in Writes /\ o' = o
  BY DEF Established, Serviced, Writes, Early
<1>2. /\ CloseIsKnown(c) /\ Client(c) /\ Connection(net) /\ o.block \in BOOLEAN
      /\ c.http \in Https
  BY <1>1, CloseKnown
<1>3. PICK d : d = [c EXCEPT !.resp = TRUE, !.ws = IF @ = "none" THEN "known" ELSE @,
                             !.status = IF c.preset THEN @ ELSE status,
                             !.respobj = @ \/ ~c.preset]
  OBVIOUS
<1>4. PICK w, st, ro : /\ w = IF c.ws = "none" THEN "known" ELSE c.ws
                       /\ st = IF c.preset THEN c.status ELSE status
                       /\ ro = (c.respobj \/ ~c.preset)
  OBVIOUS
<1>5. d = [c EXCEPT !.resp = TRUE, !.ws = w, !.status = st, !.respobj = ro]
  BY <1>3, <1>4
<1>6. /\ Client(d) /\ d.next = c.next /\ d.threw = c.threw /\ d.http = c.http
      /\ d.close = c.close /\ d.ws = w
  BY <1>2, <1>5 DEF Client
<1>7. CloseIsKnown(d)
  <2>1. c.ws \in {"none", "unknown", "known"} /\ c.close \in {"none", "user", "reject", "fetch", "sync"}
    BY <1>2 DEF CloseIsKnown
  <2>2. w \in {"none", "unknown", "known"}
    BY <1>4, <2>1
  <2> QED BY <1>6, <2>1, <2>2 DEF CloseIsKnown
<1>8. PICK s : s = Settle(d, "resolved")
  OBVIOUS
<1>9. HasSettled(d, "resolved", s) /\ ReadAlike(d, s)
  BY <1>6, <1>8, SettleKeeps, SettleReads
<1>10. Client(s) /\ s.http \in Https
  BY <1>2, <1>6, <1>9 DEF HasSettled, Kept
<1>11. PICK e : e = EmitHttp(s, asks)
  OBVIOUS
<1>12. ReadAlike(s, e)
  BY <1>10, <1>11, HttpReads
<1>13. ReadAlike(d, e)
  BY <1>9, <1>12 DEF ReadAlike
<1>14. Client(e) /\ CloseIsKnown(e)
  BY <1>7, <1>13 DEF ReadAlike, CloseIsKnown
<1>15. PICK yes \in BOOLEAN : yes = TRUE
  OBVIOUS
<1>16. PICK f : f = Ended(o, e, yes, net.fd, "none")
  OBVIOUS
<1>17. ReadAlike(e, f)
  BY <1>2, <1>14, <1>16, EndReads
<1>18. PICK closes : closes = (e.status >= 400)
  OBVIOUS
<1>19. IF text /\ ~c.preset
       THEN c' = Dies(d, "body->block_fn") /\ net' = net
       ELSE /\ c' = IF closes
                    THEN IF o.post
                         THEN Dies(Ended(o, e, TRUE, net.fd, "none"), "lws_client_http_body_pending")
                         ELSE Ended(o, e, TRUE, net.fd, "none")
                    ELSE e
            /\ net' = [net EXCEPT !.phase = IF closes THEN "destroyed" ELSE "established",
                         !.est = TRUE, !.status = status, !.asked = @ \/ o.post]
  BY <1>3, <1>8, <1>11, <1>18, ZenonT(60) DEF Established
<1>20. f = Ended(o, e, TRUE, net.fd, "none")
  BY <1>15, <1>16
<1>21. PICK g, h : /\ g = [d EXCEPT !.died = "body->block_fn"]
                   /\ h = [f EXCEPT !.died = "lws_client_http_body_pending"]
  OBVIOUS
<1>22. g.next = c.next /\ g.threw = c.threw
  BY <1>6, <1>21 DEF Client
<1>23. /\ Client(f) /\ f.next = c.next /\ f.threw = c.threw
       /\ e.next = c.next /\ e.threw = c.threw
  BY <1>6, <1>13, <1>17 DEF ReadAlike
<1>24. h.next = c.next /\ h.threw = c.threw
  BY <1>21, <1>23 DEF Client
<1>25. c' = g \/ c' = e \/ c' = f \/ c' = h
  BY <1>19, <1>20, <1>21, ZenonT(60) DEF Dies
<1>26. net'.wire = net.wire
  <2>1. CASE text /\ ~c.preset
    BY <1>19, <2>1
  <2>2. CASE ~(text /\ ~c.preset)
    <3>1. PICK phase, asked : /\ phase = IF closes THEN "destroyed" ELSE "established"
                              /\ asked = (net.asked \/ o.post)
      OBVIOUS
    <3>2. net' = [net EXCEPT !.phase = phase, !.est = yes, !.status = status, !.asked = asked]
      BY <1>15, <1>19, <2>2, <3>1
    <3> QED BY <1>2, <3>2 DEF Connection
  <2> QED BY <2>1, <2>2
<1> QED BY <1>1, <1>22, <1>23, <1>24, <1>25, <1>26 DEF WritesNothing

\* What one turn of LWS_CALLBACK_CLIENT_HTTP_WRITEABLE reads of the body.
LEMMA PieceRead ==
  ASSUME NEW p, p.body \in {"none", "text", "iterator", "async"}, NEW d, d.next \in Nat,
         d.threw \in BOOLEAN, p.body = "iterator" => p.values \in Nat /\ d.next =< p.values,
         NEW outcome \in {"next", "throw"}, NEW q, q = Piece(p, d, outcome)
  PROVE  /\ q \in Bits
         /\ p.body \in {"none", "async"} => q.data = 0 /\ ~q.final
         /\ p.body = "text" => q.data = 1 /\ q.final
         /\ p.body = "iterator" /\ q.data # 0 => q.data = d.next + 1 /\ q.data =< p.values /\ ~q.final
         /\ p.body = "iterator" /\ q.final => q.data = 0 /\ outcome = "next"
                                              /\ (d.threw \/ d.next = p.values)
<1>1. CASE p.body # "iterator"
  BY <1>1 DEF Piece, Bits
<1>2. CASE p.body = "iterator"
  <2>1. PICK data, final :
          /\ data = IF outcome = "next" /\ ~d.threw /\ d.next < p.values THEN d.next + 1 ELSE 0
          /\ final = (outcome = "next" /\ (d.threw \/ d.next >= p.values))
    OBVIOUS
  <2>2. q = [data |-> data, final |-> final]
    BY <1>2, <2>1 DEF Piece
  <2>3. data \in Nat /\ final \in BOOLEAN
    BY <2>1
  <2>4. q.data = data /\ q.final = final /\ q \in Bits
    BY <2>2, <2>3 DEF Bits
  <2>5. data # 0 => data = d.next + 1 /\ data =< p.values /\ ~final
    BY <1>2, <2>1
  <2>6. final => data = 0 /\ outcome = "next" /\ (d.threw \/ d.next = p.values)
    <3> SUFFICES ASSUME final PROVE data = 0 /\ outcome = "next" /\ (d.threw \/ d.next = p.values)
      OBVIOUS
    <3>1. outcome = "next" /\ (d.threw \/ d.next >= p.values)
      BY <2>1, Zenon
    <3>2. CASE d.threw
      BY <2>1, <3>1, <3>2, Zenon
    <3>3. CASE ~d.threw
      <4>1. d.next = p.values
        BY <1>2, <3>1, <3>3
      <4>2. ~(d.next < p.values)
        BY <1>2, <4>1
      <4> QED BY <2>1, <3>1, <4>1, <4>2, Zenon
    <3> QED BY <3>2, <3>3
  <2> QED BY <1>2, <2>4, <2>5, <2>6
<1> QED BY <1>1, <1>2

\* The piece goes behind the others, or the connection closes.
LEMMA WriteBodyWire ==
  ASSUME IInv, WireInv(o, c, net), NEW outcome \in {"next", "throw"}, NEW fails \in BOOLEAN,
         WriteBody(outcome, fails)
  PROVE  WireInv(o, c, net)'
<1>1. net.phase \in Writes /\ o' = o
  BY DEF WriteBody, Writes, Early
<1>2. CASE ~(o.post /\ ~net.toGet)
  <2>1. PICK asked : net' = [net EXCEPT !.asked = asked] /\ c' = c
    BY <1>2 DEF WriteBody
  <2>2. net'.wire = net.wire
    BY <2>1, Ours DEF Connection
  <2> QED BY <1>1, <2>1, <2>2, WireKept DEF WritesNothing
<1>3. CASE o.post /\ ~net.toGet
  <2>1. PICK q : q = Piece(o, c, outcome)
    OBVIOUS
  <2>2. PICK next, threw, asked, wire :
          /\ next = IF q.data > 0 THEN q.data ELSE c.next
          /\ threw = (c.threw \/ outcome = "throw")
          /\ asked = ~q.final /\ wire = Append(net.wire, q)
    OBVIOUS
  <2>3. c' = [c EXCEPT !.next = next, !.threw = threw]
    BY <1>3, <2>1, <2>2 DEF WriteBody
  <2>4. c'.next = next /\ c'.threw = threw
    BY <2>3, Ours DEF Client
  <2>5. net' = IF fails THEN [net EXCEPT !.phase = "closing"]
                        ELSE [net EXCEPT !.asked = asked, !.wire = wire]
    BY <1>3, <2>1, <2>2 DEF WriteBody
  <2>6. /\ net.wire \in Seq(Bits) /\ c.next \in Nat /\ c.threw \in BOOLEAN
        /\ o.body = "iterator" => c.next =< o.values
        /\ o.body = "text" /\ ~Closed(net.wire) => c.next = 0
    BY <1>1 DEF WireInv
  <2>7. o.body \in {"none", "text", "iterator", "async"} /\ o.values \in Nat
    <3>1. o.body \in Kinds /\ o.values \in 0 .. MaxValues
      BY Ours DEF Options
    <3>2. Kinds \subseteq {"none", "text", "iterator", "async"}
      BY ConstantsAssumption
    <3>3. o.body \in {"none", "text", "iterator", "async"}
      BY <3>1, <3>2
    <3>4. o.values \in Nat
      BY <3>1
    <3> QED BY <3>3, <3>4
  <2>8. /\ q \in Bits
        /\ o.body \in {"none", "async"} => q.data = 0 /\ ~q.final
        /\ o.body = "text" => q.data = 1 /\ q.final
        /\ o.body = "iterator" /\ q.data # 0 => q.data = c.next + 1 /\ q.data =< o.values /\ ~q.final
        /\ o.body = "iterator" /\ q.final => q.data = 0 /\ outcome = "next"
                                             /\ (c.threw \/ c.next = o.values)
    BY <2>1, <2>6, <2>7, PieceRead
  <2>9. q.data \in Nat /\ next \in Nat /\ threw \in BOOLEAN /\ (q.data = 0 => next = c.next)
    BY <2>2, <2>6, <2>8 DEF Bits
  <2>10. o.body = "iterator" => next =< o.values
    BY <2>2, <2>6, <2>8
  <2>11. PICK m \in 0 .. Len(net.wire) : WireOk(o, c, net, m)
    BY DEF WireInv
  <2>12. ~threw => ~c.threw
    BY <2>2
  <2>13. CASE fails
    <3>1. net' = [net EXCEPT !.phase = "closing"]
      BY <2>5, <2>13
    <3>2. net'.wire = net.wire /\ net'.phase \notin Writes
      BY <3>1, Ours DEF Connection, Writes, Early
    <3>3. WireOk(o, c', net', m)
      BY <2>4, <2>11, <2>12, <3>2 DEF WireOk
    <3> QED BY <1>1, <2>4, <2>6, <2>9, <2>10, <3>2, <3>3 DEF WireInv
  <2>14. CASE ~fails
    <3>1. net' = [net EXCEPT !.asked = asked, !.wire = wire]
      BY <2>5, <2>14
    <3>2. net'.wire = wire /\ net'.phase = net.phase
      BY <3>1, Ours DEF Connection
    <3>3. /\ wire \in Seq(Bits) /\ Len(wire) = Len(net.wire) + 1
          /\ Len(net.wire) \in Nat /\ m \in Nat /\ m \in 0 .. Len(wire) /\ m + 1 \in 0 .. Len(wire)
      BY <2>2, <2>6, <2>8, PieceBehind
    <3>4. Closed(wire) <=> Closed(net.wire) \/ q.final
      BY <2>2, <2>6, <2>8, ClosedBy
    <3>5. InOrder(net.wire, m)
      BY <2>11 DEF WireOk
    <3>6. CASE Closed(net.wire)
      <4>1. InOrder(wire, m)
        BY <2>2, <2>6, <2>8, <3>3, <3>5, <3>6, InOrderStays
      <4>2. WireOk(o, c', net', m)
        BY <2>4, <2>11, <2>12, <3>2, <3>4, <3>6, <4>1 DEF WireOk
      <4>3. Closed(wire)
        BY <3>4, <3>6
      <4> QED BY <1>1, <2>4, <2>9, <2>10, <3>2, <3>3, <4>2, <4>3 DEF WireInv
    <3>7. CASE ~Closed(net.wire)
      <4>1. m = c.next
        BY <1>1, <2>11, <3>7 DEF WireOk
      <4>2. CASE q.data = 0
        <5>1. InOrder(wire, m) /\ next = c.next
          BY <2>2, <2>6, <2>8, <2>9, <3>3, <3>5, <4>2, InOrderStays
        <5>2. Closed(wire) /\ o.body = "iterator" /\ ~threw => m = o.values
          BY <2>8, <2>12, <3>4, <3>7, <4>1
        <5>3. WireOk(o, c', net', m)
          BY <2>4, <3>2, <4>1, <5>1, <5>2 DEF WireOk
        <5>4. o.body # "text"
          BY <2>8, <4>2
        <5> QED BY <1>1, <2>4, <2>9, <2>10, <3>2, <3>3, <5>3, <5>4 DEF WireInv
      <4>3. CASE q.data # 0
        <5>1. o.body \in {"text", "iterator"}
          BY <2>7, <2>8, <4>3
        <5>2. q.data = m + 1
          <6>1. CASE o.body = "text"
            <7>1. q.data = 1 /\ c.next = 0
              BY <2>6, <2>8, <3>7, <6>1
            <7> QED BY <4>1, <7>1
          <6>2. CASE o.body = "iterator"
            BY <2>8, <4>1, <4>3, <6>2
          <6> QED BY <5>1, <6>1, <6>2
        <5>3. InOrder(wire, m + 1)
          BY <2>2, <2>6, <2>8, <3>3, <3>5, <3>7, <5>2, InOrderNext
        <5>4. next = m + 1
          BY <2>2, <2>9, <4>3, <5>2
        <5>5. o.body = "iterator" => ~Closed(wire)
          BY <2>8, <3>4, <3>7, <4>3
        <5>6. WireOk(o, c', net', m + 1)
          BY <2>4, <3>2, <5>3, <5>4, <5>5 DEF WireOk
        <5>7. o.body = "text" => Closed(wire)
          BY <2>8, <3>4
        <5> QED BY <1>1, <2>4, <2>9, <2>10, <3>2, <3>3, <5>6, <5>7 DEF WireInv
      <4> QED BY <4>2, <4>3
    <3> QED BY <3>6, <3>7
  <2> QED BY <2>13, <2>14
<1> QED BY <1>2, <1>3

\* Every step keeps what has been written in order.
LEMMA NextWire == IInv /\ WireInv(o, c, net) /\ [Next]_vars => WireInv(o, c, net)'
<1> SUFFICES ASSUME IInv, WireInv(o, c, net), [Next]_vars PROVE WireInv(o, c, net)'
  OBVIOUS
<1>1. CASE \E outcome \in {"next", "throw"}, fails \in BOOLEAN : WriteBody(outcome, fails)
  BY <1>1, WriteBodyWire
<1>2. CASE WritesNothing
  BY <1>2, WireKept
<1>3. CASE \/ \E why \in {"request", "context"} : Fail(why)
           \/ \E told \in BOOLEAN : Refuse(told)
           \/ \E created \in BOOLEAN : Connect(created)
  BY <1>2, <1>3, CallWrites
<1>4. CASE Return \/ Text
  BY <1>2, <1>4, ClientWrites
<1>5. CASE \/ Bind \/ Handshake \/ Completed
           \/ Receive(<<Len(net.sent) + 1>>)
           \/ \E goesOn \in BOOLEAN : EmitWriteable(goesOn)
           \/ SetWriteable
  BY <1>2, <1>5, QuietWrites
<1>6. CASE \E toGet \in BOOLEAN : Redirect(toGet)
  BY <1>2, <1>6, RedirectWrites
<1>7. CASE \E status \in {200, 404}, text, asks \in BOOLEAN : Established(status, text, asks)
  BY <1>2, <1>7, EstablishedWrites
<1>8. CASE \E del \in {"none", "before", "after"} : End(del)
  BY <1>2, <1>8, EndWrites
<1>9. CASE UNCHANGED vars
  BY <1>9 DEF vars, WireInv, WireOk
<1> QED BY <1>1, <1>3, <1>4, <1>5, <1>6, <1>7, <1>8, <1>9 DEF Next

-----------------------------------------------------------------------------
\* The theorems.

\* The inductive invariant, of any bodies and any bounds.
THEOREM Invariance == Spec => []IInv
<1> QED BY InitIInv, NextIInv, PTL DEF Spec

\* The promise of client() never outlives the connection and tells how it went
\* (LWS_CALLBACK_CLIENT_CONNECTION_ERROR, ESTABLISHED and WSI_DESTROY).
THEOREM SettledHolds == Spec => []Settled
<1>1. IInv => Settled
  <2> SUFFICES ASSUME IInv, net.phase = "destroyed", c.died = "", ~o.block
               PROVE  c.promise = IF net.est THEN "resolved" ELSE "rejected"
    BY DEF Settled
  <2> QED BY Ours DEF PromiseInv
<1> QED BY <1>1, Invariance, PTL

\* A blocking fetch does not wait for a connection that is gone, and does not
\* return while its connection is there (minnet_client_pollfd, minnet_client_onclose).
THEOREM LoopFollowsHolds == Spec => []LoopFollows
<1>1. IInv => LoopFollows
  <2> SUFFICES ASSUME IInv, o.fetch, o.block, c.died = ""
               PROVE  /\ c.call = "running" /\ net.phase = "destroyed" => c.fds = <<>>
                      /\ c.call = "returned" => net.phase \in {"none", "destroyed"}
    BY DEF LoopFollows
  <2> QED BY Ours DEF LoopInv
<1> QED BY <1>1, Invariance, PTL

\* What a blocking fetch returns has the whole response, all the chunks in order
\* in one block (minnet_client_closure, READ and COMPLETED).
THEOREM ReturnsWholeHolds == Spec => []ReturnsWhole
<1>1. IInv => ReturnsWhole
  <2> SUFFICES ASSUME IInv, c.call = "returned", c.ret = "response"
               PROVE  queue_front(c.body.q).block = FlattenSeq(net.sent)
    BY DEF ReturnsWhole
  <2>1. Gathers(c.body, net.sent, net.completed)
    BY Ours DEF BodyInv
  <2>2. net.completed \in BOOLEAN
    BY Ours DEF PhaseInv
  <2> QED BY <2>1, <2>2, GathersFront
<1> QED BY <1>1, Invariance, PTL

\* A POST writes the values of its body in order and each once, and its last piece
\* behind all of them (LWS_CALLBACK_CLIENT_HTTP_WRITEABLE).
THEOREM BodyInOrderHolds == Spec => []BodyInOrder
<1>1. WireInv(o, c, net) => BodyInOrder
  <2> SUFFICES ASSUME WireInv(o, c, net) PROVE BodyInOrder
    OBVIOUS
  <2>1. PICK m \in 0 .. Len(net.wire) : WireOk(o, c, net, m)
    BY DEF WireInv
  <2> QED BY <2>1 DEF BodyInOrder, WireOk
<1>2. Spec => []WireInv(o, c, net)
  BY InitWire, NextWire, Invariance, PTL DEF Spec
<1> QED BY <1>1, <1>2, PTL
=============================================================================
