--------------------------- MODULE HttpServerProofs ---------------------------
(***************************************************************************)
(* Proofs about HttpServer, for any methods, handlers, outcomes, results   *)
(* and number of chunks: how promises are counted (Sound), and the states  *)
(* a response to a GET goes through (On, Over).                            *)
(***************************************************************************)
EXTENDS HttpServer, FiniteSetTheorems, SequenceTheorems, TLAPS

Items == [block : Seq(Nat), done : BOOLEAN, unref : {0}]

Queues == [items : Seq(Items), continuous : {FALSE}]

Promises == [id : Nat, kind : {"function", "iteration", "text", "end"}]

Written == [chunk : Nat, final : BOOLEAN]

Places ==
  {"", "queue_close", "serve_generator", "complete queue", "serve_resolved", "serve_rejected",
   "null queue"}

Sessions ==
  [sendq : Queues, generator : {"none", "promise", "sync", "ended", "async", "text", "read"},
   body : BOOLEAN, want_write : BOOLEAN, wait_resolve : Nat, response_sent : BOOLEAN,
   armed : BOOLEAN, promises : SUBSET Promises, serial : Nat,
   runs : Nat, made : Nat, ignored : BOOLEAN, wire : Seq(Written), completed : Nat, aborted : Places]

\* An item has one byte, or is the end and the last.
Ordered(items) ==
  \A i \in 1 .. Len(items) :
    IF items[i].done THEN items[i].block = <<>> /\ i = Len(items) ELSE Len(items[i].block) = 1

\* What holds of a session whatever the method is: wait_resolve is the number of
\* promises.
Sound(s) ==
  /\ s \in Sessions
  /\ Ordered(s.sendq.items)
  /\ IsFiniteSet(s.promises)
  /\ \A p \in s.promises : p.id =< s.serial
  /\ s.wait_resolve = Cardinality(s.promises)

\* The chunks on the wire are those that were made, but for the one that is queued:
\* there is never more than one.
InOrder(s) ==
  /\ \A i \in 1 .. Len(s.wire) : s.wire[i].chunk = i
  /\ \/ s.sendq.items \in {<<>>, <<EndItem>>} /\ Len(s.wire) = s.made
     \/ /\ s.sendq.items \in {<<Item(<<s.made>>)>>, <<Item(<<s.made>>), EndItem>>}
        /\ Len(s.wire) + 1 = s.made

\* A response to a GET either waits for a writable event, with something to be
\* written or an iterator that is done, or has an empty queue and waits for a
\* promise, or for nothing: then what its handler gave was passed over.
On(s) ==
  /\ InOrder(s) /\ s.aborted = ""
  /\ \A i \in 1 .. Len(s.wire) : ~s.wire[i].final
  /\ s.want_write => /\ s.armed /\ s.promises = {}
                     /\ s.sendq.items # <<>> \/ s.generator \in {"none", "ended"}
  /\ ~s.want_write => s.sendq.items = <<>>
  /\ s.promises # {} => \E p \in s.promises : s.promises = {p}
  /\ s.want_write \/ s.promises # {} \/ s.ignored

\* One that is over.
Over(s) ==
  /\ InOrder(s) /\ s.aborted = ""
  /\ \A i \in 1 .. Len(s.wire) : s.wire[i].final => s.completed > 0 /\ i = Len(s.wire)
  /\ ~(s.want_write /\ s.promises # {}) /\ s.wait_resolve =< 1
  /\ s.completed > 0 => Len(s.wire) = s.made

\* The inductive invariant.
IInv ==
  /\ conn \in {"idle", "body", "open", "completed", "closed"} /\ method \in {"GET", "POST"}
  /\ handler \in AllHandlers
  /\ Sound(h)
  /\ h.completed = 0 <=> conn # "completed"
  /\ conn = "idle" => h = session_zero /\ method = "GET"
  /\ conn = "body" => method = "POST"
  /\ method = "GET" /\ conn = "open" => On(h)
  /\ method = "GET" /\ conn \in {"completed", "closed"} => Over(h)

-----------------------------------------------------------------------------
\* Queues.

\* One list is joined to itself.
LEMMA FlattenOne ==
  ASSUME NEW S, NEW a \in Seq(S)
  PROVE  FlattenSeq(<<a>>) = a
<1> DEFINE s == <<a>>
           g == [i \in 1 .. Len(s) |-> a]
           flatten == CHOOSE f : f = [i \in 1 .. Len(s) |-> IF i = 1 THEN s[i] ELSE f[i - 1] \o s[i]]
<1>1. Len(s) = 1 /\ s[1] = a
  OBVIOUS
<1>2. FlattenSeq(s) = flatten[Len(s)]
  BY <1>1 DEF FlattenSeq
<1>3. g = [i \in 1 .. Len(s) |-> IF i = 1 THEN s[i] ELSE g[i - 1] \o s[i]]
  BY <1>1
<1> HIDE DEF g
<1>4. flatten = [i \in 1 .. Len(s) |-> IF i = 1 THEN s[i] ELSE flatten[i - 1] \o s[i]]
  BY <1>3
<1> HIDE DEF flatten
<1> QED BY <1>1, <1>2, <1>4

\* Two are joined to their concatenation.
LEMMA FlattenTwo ==
  ASSUME NEW S, NEW a \in Seq(S), NEW b \in Seq(S)
  PROVE  FlattenSeq(<<a, b>>) = a \o b
<1> DEFINE s == <<a, b>>
           g == [i \in 1 .. Len(s) |-> IF i = 1 THEN a ELSE a \o b]
           flatten == CHOOSE f : f = [i \in 1 .. Len(s) |-> IF i = 1 THEN s[i] ELSE f[i - 1] \o s[i]]
<1>1. Len(s) = 2 /\ s[1] = a /\ s[2] = b
  OBVIOUS
<1>2. FlattenSeq(s) = flatten[Len(s)]
  BY <1>1 DEF FlattenSeq
<1>3. g = [i \in 1 .. Len(s) |-> IF i = 1 THEN s[i] ELSE g[i - 1] \o s[i]]
  <2>1. \A i \in 1 .. Len(s) : i = 1 \/ i = 2
    BY <1>1
  <2>2. g[1] = a
    BY <1>1
  <2> QED BY <1>1, <2>1, <2>2
<1> HIDE DEF g
<1>4. flatten = [i \in 1 .. Len(s) |-> IF i = 1 THEN s[i] ELSE flatten[i - 1] \o s[i]]
  BY <1>3, ZenonT(60)
<1> HIDE DEF flatten
<1>5. flatten[1] = a
  BY <1>1, <1>4
<1>6. flatten[2] = flatten[1] \o b
  <2>1. 2 \in 1 .. Len(s) /\ 2 # 1 /\ 2 - 1 = 1
    BY <1>1
  <2>2. flatten[2] = IF 2 = 1 THEN s[2] ELSE flatten[2 - 1] \o s[2]
    BY <1>4, <2>1
  <2> QED BY <1>1, <2>1, <2>2
<1> QED BY <1>1, <1>2, <1>5, <1>6

\* What is in a queue of no more than a chunk and the end.
LEMMA QueueData ==
  ASSUME NEW q \in Queues
  PROVE  /\ q.items = <<>> => queue_data(q) = <<>> /\ queue_bytes(q) = 0
         /\ \A a \in Items : q.items = <<a>> =>
              queue_data(q) = a.block /\ queue_bytes(q) = Len(a.block)
         /\ \A a \in Items : q.items = <<a, EndItem>> =>
              queue_data(q) = a.block /\ queue_bytes(q) = Len(a.block)
<1> DEFINE blocks == [i \in 1 .. Len(q.items) |-> q.items[i].block]
<1>1. CASE q.items = <<>>
  <2>1. Len(blocks) = 0 /\ blocks = <<>>
    BY <1>1
  <2>2. queue_data(q) = <<>>
    BY <2>1 DEF queue_data, FlattenSeq
  <2> QED BY <1>1, <2>2 DEF queue_bytes
<1>2. ASSUME NEW a \in Items, q.items = <<a>>
      PROVE  queue_data(q) = a.block /\ queue_bytes(q) = Len(a.block)
  <2>1. blocks = <<a.block>> /\ a.block \in Seq(Nat)
    BY <1>2 DEF Items
  <2>2. queue_data(q) = a.block
    BY <2>1, FlattenOne DEF queue_data
  <2> QED BY <2>2 DEF queue_bytes
<1>3. ASSUME NEW a \in Items, q.items = <<a, EndItem>>
      PROVE  queue_data(q) = a.block /\ queue_bytes(q) = Len(a.block)
  <2>1. blocks = <<a.block, <<>> >> /\ a.block \in Seq(Nat) /\ <<>> \in Seq(Nat)
    BY <1>3 DEF Items, EndItem
  <2>2. queue_data(q) = a.block \o <<>>
    BY <2>1, FlattenTwo DEF queue_data
  <2>3. queue_data(q) = a.block
    BY <2>1, <2>2
  <2> QED BY <2>3 DEF queue_bytes
<1>4. ASSUME q.items = <<>> PROVE queue_data(q) = <<>> /\ queue_bytes(q) = 0
  BY <1>1, <1>4
<1> QED BY <1>2, <1>3, <1>4

\* The items that are put in.
LEMMA Things ==
  /\ EndItem \in Items /\ EndItem.done /\ EndItem.block = <<>>
  /\ \A k \in Nat : /\ Item(<<k>>) \in Items /\ ~Item(<<k>>).done
                    /\ Item(<<k>>).block = <<k>> /\ Len(Item(<<k>>).block) = 1
<1>1. <<>> \in Seq(Nat) /\ \A k \in Nat : <<k>> \in Seq(Nat) /\ Len(<<k>>) = 1
  OBVIOUS
<1> QED BY <1>1 DEF EndItem, Item, Items

\* An item behind a list that has no end.
LEMMA Behind ==
  ASSUME NEW list \in Seq(Items), Ordered(list), NEW a \in Items,
         list = <<>> \/ ~Last(list).done,
         IF a.done THEN a.block = <<>> ELSE Len(a.block) = 1
  PROVE  Append(list, a) \in Seq(Items) /\ Ordered(Append(list, a)) /\ Append(list, a) # <<>>
<1> DEFINE n == Len(list)
           r == Append(list, a)
<1>1. /\ r \in Seq(Items) /\ Len(r) = n + 1 /\ n \in Nat
      /\ \A i \in 1 .. n : r[i] = list[i]
      /\ r[n + 1] = a
  BY AppendProperties
<1>2. \A i \in 1 .. n : ~list[i].done
  <2>1. CASE list = <<>>
    BY <2>1
  <2>2. CASE list # <<>>
    BY <2>2 DEF Ordered, Last
  <2> QED BY <2>1, <2>2
<1> HIDE DEF r, n
<1>3. ASSUME NEW i \in 1 .. Len(r)
      PROVE  IF r[i].done THEN r[i].block = <<>> /\ i = Len(r) ELSE Len(r[i].block) = 1
  <2>1. CASE i \in 1 .. n
    <3>1. r[i] = list[i] /\ ~list[i].done
      BY <1>1, <1>2, <2>1
    <3>2. Len(list[i].block) = 1
      BY <2>1, <3>1 DEF Ordered, n
    <3> QED BY <3>1, <3>2
  <2>2. CASE i = n + 1
    BY <1>1, <2>2
  <2> QED BY <1>1, <2>1, <2>2
<1>4. Ordered(r)
  BY <1>3 DEF Ordered
<1>5. r # <<>>
  BY <1>1
<1> QED BY <1>1, <1>4, <1>5 DEF r

\* A chunk is put in.
LEMMA QueueWrite ==
  ASSUME NEW q \in Queues, Ordered(q.items), NEW k \in Nat
  PROVE  /\ queue_write(q, <<k>>) \in Queues /\ Ordered(queue_write(q, <<k>>).items)
         /\ queue_write(q, <<k>>).items =
              IF queue_complete(q) THEN q.items ELSE Append(q.items, Item(<<k>>))
         /\ queue_write(q, <<k>>).items # <<>>
<1>1. q.items \in Seq(Items) /\ q.continuous = FALSE
  BY DEF Queues
<1>2. queue_write(q, <<k>>) =
        IF queue_complete(q) THEN q ELSE [q EXCEPT !.items = Append(q.items, Item(<<k>>))]
  BY <1>1 DEF queue_write, queue_put, queue_add
<1>3. CASE queue_complete(q)
  BY <1>2, <1>3 DEF queue_complete, queue_empty
<1>4. CASE ~queue_complete(q)
  <2>1. q.items = <<>> \/ ~Last(q.items).done
    BY <1>4 DEF queue_complete, queue_empty
  <2> DEFINE a == Item(<<k>>)
  <2>2. a \in Items /\ ~a.done /\ Len(a.block) = 1
    BY Things
  <2> HIDE DEF a
  <2>3. /\ Append(q.items, a) \in Seq(Items) /\ Ordered(Append(q.items, a))
        /\ Append(q.items, a) # <<>>
    BY <1>1, <2>1, <2>2, Behind
  <2>4. queue_write(q, <<k>>) = [q EXCEPT !.items = Append(q.items, a)]
    BY <1>2, <1>4 DEF a
  <2> QED BY <1>4, <2>3, <2>4 DEF Queues, a
<1> QED BY <1>3, <1>4

\* The end is put in.
LEMMA QueueClose ==
  ASSUME NEW q \in Queues, Ordered(q.items)
  PROVE  /\ queue_close(q) \in Queues /\ Ordered(queue_close(q).items)
         /\ queue_close(q).items =
              IF queue_complete(q) THEN q.items ELSE Append(q.items, EndItem)
         /\ queue_close(q).items # <<>>
<1>1. q.items \in Seq(Items)
  BY DEF Queues
<1>2. CASE queue_complete(q)
  BY <1>2 DEF queue_complete, queue_empty, queue_close
<1>3. CASE ~queue_complete(q)
  <2>1. q.items = <<>> \/ ~Last(q.items).done
    BY <1>3 DEF queue_complete, queue_empty
  <2>2. EndItem \in Items /\ EndItem.done /\ EndItem.block = <<>>
    BY Things
  <2>3. /\ Append(q.items, EndItem) \in Seq(Items) /\ Ordered(Append(q.items, EndItem))
        /\ Append(q.items, EndItem) # <<>>
    BY <1>1, <2>1, <2>2, Behind
  <2>4. queue_close(q) = [q EXCEPT !.items = Append(q.items, EndItem)]
    BY <1>3 DEF queue_close
  <2> QED BY <1>3, <2>3, <2>4 DEF Queues
<1> QED BY <1>2, <1>3

\* A queue is closed only when it is complete, as queue_close asserts.
LEMMA CloseAssert ==
  ASSUME NEW q \in Queues, Ordered(q.items)
  PROVE  /\ queue_closed(q) => q.items = <<queue_front(q)>> /\ queue_front(q) \in Items
                               /\ queue_front(q).block = <<>> /\ queue_complete(q)
         /\ queue_close_assert(q)
<1>1. q.items \in Seq(Items)
  BY DEF Queues
<1>2. ASSUME queue_closed(q)
      PROVE  /\ q.items = <<queue_front(q)>> /\ queue_front(q) \in Items
             /\ queue_front(q).block = <<>> /\ queue_complete(q)
  <2>1. q.items # <<>> /\ queue_front(q) = q.items[1] /\ queue_front(q).done
    BY <1>1, <1>2 DEF queue_closed, queue_empty, queue_front
  <2>2. 1 \in 1 .. Len(q.items) /\ q.items[1] \in Items
    BY <1>1, <2>1
  <2>3. Len(q.items) = 1 /\ q.items[1].block = <<>>
    BY <2>1, <2>2 DEF Ordered
  <2>4. q.items = <<q.items[1]>>
    BY <1>1, <2>3
  <2>5. queue_complete(q)
    BY <2>1, <2>3 DEF queue_complete, queue_empty, Last
  <2> QED BY <2>1, <2>2, <2>3, <2>4, <2>5
<1> QED BY <1>2 DEF queue_close_assert

\* The front is taken, unless it is the end.
LEMMA QueueNext ==
  ASSUME NEW q \in Queues, Ordered(q.items), q.items # <<>>, ~queue_front(q).done
  PROVE  /\ queue_next(q) \in Queues /\ Ordered(queue_next(q).items)
         /\ queue_next(q).items = Tail(q.items)
         /\ queue_front(q) \in Items /\ queue_front(q).block[1] \in Nat
<1> DEFINE r == Tail(q.items)
           n == Len(q.items)
<1>1. q.items \in Seq(Items)
  BY DEF Queues
<1>2. queue_next(q) = [q EXCEPT !.items = r]
  BY DEF queue_next, queue_empty
<1>3. /\ r \in Seq(Items) /\ Len(r) = n - 1 /\ n \in Nat /\ n > 0
      /\ \A i \in 1 .. n - 1 : r[i] = q.items[i + 1]
      /\ queue_front(q) = q.items[1] /\ q.items[1] \in Items
  BY <1>1, HeadTailProperties DEF queue_front
<1> HIDE DEF r, n
<1>4. ASSUME NEW i \in 1 .. Len(r)
      PROVE  IF r[i].done THEN r[i].block = <<>> /\ i = Len(r) ELSE Len(r[i].block) = 1
  <2>1. r[i] = q.items[i + 1] /\ i + 1 \in 1 .. n
    BY <1>3
  <2>2. IF q.items[i + 1].done THEN q.items[i + 1].block = <<>> /\ i + 1 = n
        ELSE Len(q.items[i + 1].block) = 1
    BY <2>1 DEF Ordered, n
  <2> QED BY <1>3, <2>1, <2>2
<1>5. Ordered(r)
  BY <1>4 DEF Ordered
<1>6. queue_front(q).block[1] \in Nat
  <2>1. Len(queue_front(q).block) = 1
    BY <1>3 DEF Ordered, n
  <2> QED BY <1>3, <2>1 DEF Items
<1> QED BY <1>2, <1>3, <1>5, <1>6 DEF Queues, r

-----------------------------------------------------------------------------
\* What is sound stays so, whatever is done to a session.

Kept(s, t) == Sound(t) /\ t.completed = s.completed

SameOutput(s, t) ==
  t.sendq = s.sendq /\ t.wire = s.wire /\ t.made = s.made /\ t.aborted = s.aborted

SamePending(s, t) ==
  t.want_write = s.want_write /\ t.armed = s.armed /\ t.promises = s.promises

\* A change of what promises and queue are not about.
LEMMA SoundAs ==
  ASSUME NEW s, NEW t \in Sessions, Sound(s), t.sendq = s.sendq, t.promises = s.promises,
         t.serial = s.serial, t.wait_resolve = s.wait_resolve
  PROVE  Sound(t)
BY DEF Sound

\* A writable event is asked for.
LEMMA WantKept == ASSUME NEW s, Sound(s) PROVE Kept(s, session_want_write(s))
<1> DEFINE t == [s EXCEPT !.want_write = TRUE, !.armed = TRUE]
<1>1. s \in Sessions
  BY DEF Sound
<1>2. /\ t \in Sessions /\ t.sendq = s.sendq /\ t.promises = s.promises
      /\ t.serial = s.serial /\ t.wait_resolve = s.wait_resolve /\ t.completed = s.completed
  BY <1>1 DEF Sessions
<1> HIDE DEF t
<1>3. Kept(s, t)
  BY <1>2, SoundAs DEF Kept
<1>4. session_want_write(s) = IF s.want_write THEN s ELSE t
  BY DEF session_want_write, t
<1> QED BY <1>3, <1>4 DEF Kept

\* The process stops.
LEMMA AbortKept == ASSUME NEW s, Sound(s), NEW where \in Places PROVE Kept(s, Abort(s, where))
<1> DEFINE t == Abort(s, where)
<1>1. s \in Sessions
  BY DEF Sound
<1>2. /\ t \in Sessions /\ t.sendq = s.sendq /\ t.promises = s.promises
      /\ t.serial = s.serial /\ t.wait_resolve = s.wait_resolve /\ t.completed = s.completed
  BY <1>1 DEF Abort, Sessions, Places
<1> HIDE DEF t
<1>3. Kept(s, t)
  BY <1>2, SoundAs DEF Kept
<1> QED BY <1>3 DEF t

\* A chunk is put into the queue.
LEMMA EnqueueKept ==
  ASSUME NEW s, Sound(s)
  PROVE  Kept(s, Enqueue(s)) /\ Enqueue(s).sendq.items # <<>>
<1> DEFINE q == queue_write(s.sendq, <<s.made + 1>>)
           t == [s EXCEPT !.made = s.made + 1, !.sendq = q]
<1>1. s \in Sessions /\ s.sendq \in Queues /\ Ordered(s.sendq.items) /\ s.made + 1 \in Nat
  BY DEF Sound, Sessions
<1>2. q \in Queues /\ Ordered(q.items) /\ q.items # <<>>
  BY <1>1, QueueWrite
<1>3. Enqueue(s) = t
  BY DEF Enqueue
<1> HIDE DEF q
<1>4. /\ t \in Sessions /\ t.sendq = q /\ t.promises = s.promises
      /\ t.serial = s.serial /\ t.wait_resolve = s.wait_resolve /\ t.completed = s.completed
  BY <1>1, <1>2 DEF Sessions
<1> HIDE DEF t
<1> QED BY <1>2, <1>3, <1>4 DEF Kept, Sound

\* The queue is closed, whose assert holds.
LEMMA CloseKept ==
  ASSUME NEW s, Sound(s)
  PROVE  /\ Kept(s, Close(s)) /\ Close(s).sendq.items # <<>>
         /\ Close(s) = [s EXCEPT !.sendq = queue_close(s.sendq)]
<1> DEFINE q == queue_close(s.sendq)
           t == [s EXCEPT !.sendq = q]
<1>1. s \in Sessions /\ s.sendq \in Queues /\ Ordered(s.sendq.items)
  BY DEF Sound, Sessions
<1>2. q \in Queues /\ Ordered(q.items) /\ q.items # <<>> /\ queue_close_assert(s.sendq)
  BY <1>1, QueueClose, CloseAssert
<1>3. Close(s) = t
  BY <1>2 DEF Close
<1> HIDE DEF q
<1>4. /\ t \in Sessions /\ t.sendq = q /\ t.promises = s.promises
      /\ t.serial = s.serial /\ t.wait_resolve = s.wait_resolve /\ t.completed = s.completed
  BY <1>1, <1>2 DEF Sessions
<1> HIDE DEF t
<1> QED BY <1>2, <1>3, <1>4 DEF Kept, Sound, q, t

\* A promise that is made has a number of its own.
LEMMA PromiseKept ==
  ASSUME NEW s, Sound(s), NEW kind \in {"function", "iteration", "text", "end"}
  PROVE  Kept(s, serve_promise(s, kind))
<1> DEFINE p == [id |-> s.serial + 1, kind |-> kind]
           t == [s EXCEPT !.wait_resolve = s.wait_resolve + 1, !.serial = s.serial + 1,
                          !.promises = s.promises \cup {p}]
<1>1. s \in Sessions /\ s.serial \in Nat /\ s.wait_resolve \in Nat /\ s.promises \in SUBSET Promises
  BY DEF Sound, Sessions
<1>2. p \in Promises /\ p.id = s.serial + 1
  BY <1>1 DEF Promises
<1>3. serve_promise(s, kind) = t
  BY DEF serve_promise
<1> HIDE DEF p
<1>4. /\ t \in Sessions /\ t.sendq = s.sendq /\ t.promises = s.promises \cup {p}
      /\ t.serial = s.serial + 1 /\ t.wait_resolve = s.wait_resolve + 1
      /\ t.completed = s.completed
  <2>1. /\ s.promises \cup {p} \in SUBSET Promises
        /\ s.serial + 1 \in Nat /\ s.wait_resolve + 1 \in Nat
    BY <1>1, <1>2
  <2> QED BY <1>1, <2>1 DEF Sessions
<1> HIDE DEF t
<1>5. p \notin s.promises
  BY <1>1, <1>2 DEF Sound
<1>6. /\ IsFiniteSet(s.promises \cup {p})
      /\ Cardinality(s.promises \cup {p}) = Cardinality(s.promises) + 1
  BY <1>5, FS_AddElement DEF Sound
<1>7. \A x \in t.promises : x.id =< t.serial
  <2> SUFFICES ASSUME NEW x \in t.promises PROVE x.id =< t.serial
    OBVIOUS
  <2>1. CASE x \in s.promises
    <3>1. x.id =< s.serial /\ x.id \in Nat
      BY <1>1, <2>1 DEF Sound, Promises
    <3> QED BY <1>1, <1>4, <3>1
  <2>2. CASE x = p
    BY <1>1, <1>2, <1>4, <2>2
  <2> QED BY <1>4, <2>1, <2>2
<1> QED BY <1>3, <1>4, <1>6, <1>7 DEF Kept, Sound

\* One that settles is one less.
LEMMA SettledKept ==
  ASSUME NEW s, Sound(s), NEW p \in s.promises, NEW given
  PROVE  Kept(s, Settled(s, p, given)) /\ s.wait_resolve > 0
<1> DEFINE t == Settled(s, p, given)
<1>1. s \in Sessions /\ s.wait_resolve \in Nat /\ s.promises \in SUBSET Promises
  BY DEF Sound, Sessions
<1>2. /\ IsFiniteSet(s.promises \ {p})
      /\ Cardinality(s.promises \ {p}) = Cardinality(s.promises) - 1
  BY FS_RemoveElement DEF Sound
<1>3. Cardinality(s.promises \ {p}) \in Nat
  BY <1>2, FS_CardinalityType
<1>4. s.wait_resolve > 0 /\ s.wait_resolve - 1 \in Nat
  BY <1>1, <1>2, <1>3 DEF Sound
<1>5. /\ t \in Sessions /\ t.sendq = s.sendq /\ t.promises = s.promises \ {p}
      /\ t.serial = s.serial /\ t.wait_resolve = s.wait_resolve - 1
      /\ t.completed = s.completed
  <2>1. Ignored(given) \in BOOLEAN
    BY DEF Ignored
  <2> QED BY <1>1, <1>4, <2>1 DEF Sessions, Settled
<1> HIDE DEF t
<1>6. Kept(s, t)
  BY <1>2, <1>5 DEF Kept, Sound
<1> QED BY <1>4, <1>6 DEF t

\* A turn of the iterator.
LEMMA TurnKept ==
  ASSUME NEW s, Sound(s), NEW outcome
  PROVE  /\ Kept(s, IteratorTurn(s, outcome).s)
         /\ IteratorTurn(s, outcome).done \in BOOLEAN
         /\ IteratorTurn(s, outcome).failed \in BOOLEAN
<1> DEFINE turn == IteratorTurn(s, outcome)
<1>1. s \in Sessions
  BY DEF Sound
<1>2. Kept(s, s)
  BY DEF Kept
<1>3. CASE s.generator \in {"none", "promise", "ended"}
  BY <1>2, <1>3 DEF IteratorTurn
<1>4. CASE s.generator = "async"
  BY <1>4, PromiseKept DEF IteratorTurn
<1>5. CASE s.generator = "read"
  BY <1>5, PromiseKept DEF IteratorTurn
<1>6. CASE s.generator = "text"
  <2> DEFINE t == [s EXCEPT !.generator = "read"]
  <2>1. /\ t \in Sessions /\ t.sendq = s.sendq /\ t.promises = s.promises
        /\ t.serial = s.serial /\ t.wait_resolve = s.wait_resolve /\ t.completed = s.completed
    BY <1>1 DEF Sessions
  <2>2. turn = [s |-> serve_promise(t, "text"), done |-> FALSE, failed |-> FALSE]
    BY <1>6 DEF IteratorTurn
  <2> HIDE DEF t
  <2>3. Sound(t)
    BY <2>1, SoundAs
  <2>4. Kept(t, serve_promise(t, "text"))
    BY <2>3, PromiseKept
  <2> QED BY <2>1, <2>2, <2>4 DEF Kept
<1>7. CASE s.generator = "sync"
  <2> DEFINE u == IF outcome \in {"data", "last"} THEN Enqueue(s) ELSE s
             done == outcome \in {"last", "end", "throw"}
             t == [u EXCEPT !.generator = IF done THEN "ended" ELSE u.generator,
                            !.ignored = Ignored(outcome)]
  <2>1. Kept(s, u)
    BY <1>2, EnqueueKept
  <2>2. turn = [s |-> t, done |-> done, failed |-> outcome = "throw"]
    BY <1>7 DEF IteratorTurn
  <2> HIDE DEF u
  <2>3. u \in Sessions
    BY <2>1 DEF Kept, Sound
  <2>4. /\ t \in Sessions /\ t.sendq = u.sendq /\ t.promises = u.promises
        /\ t.serial = u.serial /\ t.wait_resolve = u.wait_resolve /\ t.completed = u.completed
    <3>1. Ignored(outcome) \in BOOLEAN
      BY DEF Ignored
    <3> HIDE DEF done
    <3> QED BY <2>3, <3>1 DEF Sessions
  <2> HIDE DEF t
  <2>5. Kept(s, t)
    BY <2>1, <2>4, SoundAs DEF Kept
  <2> QED BY <2>2, <2>5
<1> QED BY <1>1, <1>3, <1>4, <1>5, <1>6, <1>7 DEF Sessions

\* One of serve_generator.
LEMMA GeneratorKept ==
  ASSUME NEW s, Sound(s), NEW outcome
  PROVE  /\ Kept(s, serve_generator(s, outcome).s)
         /\ serve_generator(s, outcome).done \in BOOLEAN
         /\ serve_generator(s, outcome).failed \in BOOLEAN
<1> DEFINE turn == IteratorTurn(s, outcome)
           wants == turn.s.wait_resolve = 0 /\ (turn.done \/ queue_bytes(turn.s.sendq) > 0)
           g == serve_generator(s, outcome)
<1>1. CASE s.wait_resolve # 0 \/ queue_complete(s.sendq)
  <2> DEFINE where == IF s.wait_resolve # 0 THEN "serve_generator" ELSE "complete queue"
  <2>1. Kept(s, Abort(s, where))
    <3>1. where \in Places
      BY DEF Places
    <3> HIDE DEF where
    <3> QED BY <3>1, AbortKept
  <2> QED BY <1>1, <2>1 DEF serve_generator
<1>2. CASE ~(s.wait_resolve # 0 \/ queue_complete(s.sendq))
  <2>1. g = [turn EXCEPT !.s = IF wants THEN session_want_write(turn.s) ELSE turn.s]
    BY <1>2 DEF serve_generator
  <2>2. turn = [s |-> turn.s, done |-> turn.done, failed |-> turn.failed]
    <3>1. s.generator \in {"none", "promise", "sync", "ended", "async", "text", "read"}
      BY DEF Sound, Sessions
    <3> QED BY <3>1 DEF IteratorTurn
  <2>3. Kept(s, turn.s) /\ turn.done \in BOOLEAN /\ turn.failed \in BOOLEAN
    BY TurnKept
  <2> HIDE DEF turn
  <2>4. Kept(turn.s, session_want_write(turn.s))
    BY <2>3, WantKept DEF Kept
  <2>5. /\ g.s = IF wants THEN session_want_write(turn.s) ELSE turn.s
        /\ g.done = turn.done /\ g.failed = turn.failed
    BY <2>1, <2>2
  <2> HIDE DEF g, wants
  <2>6. Kept(s, g.s) /\ g.done \in BOOLEAN /\ g.failed \in BOOLEAN
    BY <2>3, <2>4, <2>5 DEF Kept
  <2> QED BY <2>6 DEF g
<1> QED BY <1>1, <1>2

\* A call of the handler.
LEMMA CallbackKept ==
  ASSUME NEW s, Sound(s), NEW kind \in AllHandlers, NEW outcome
  PROVE  /\ Kept(s, serve_callback(s, kind, outcome).s)
         /\ serve_callback(s, kind, outcome).failed \in BOOLEAN
<1> DEFINE t == session_callback(s, kind)
<1>1. s \in Sessions
  BY DEF Sound
<1>2. /\ t \in Sessions /\ t.sendq = s.sendq /\ t.promises = s.promises
      /\ t.serial = s.serial /\ t.wait_resolve = s.wait_resolve /\ t.completed = s.completed
  <2> DEFINE g == CASE kind = "generator" -> "sync"
                     [] kind = "async_generator" -> "async"
                     [] kind = "async" -> "promise"
                     [] kind = "sync" -> "none"
  <2>1. g \in {"sync", "async", "promise", "none"}
    BY DEF AllHandlers
  <2>2. t = [s EXCEPT !.runs = s.runs + 1, !.generator = g]
    BY DEF session_callback
  <2> HIDE DEF g, t
  <2>3. s.runs + 1 \in Nat
    BY <1>1 DEF Sessions
  <2>4. t \in Sessions
    BY <1>1, <2>1, <2>2, <2>3 DEF Sessions
  <2> QED BY <1>1, <2>2, <2>4 DEF Sessions
<1> HIDE DEF t
<1>3. Sound(t)
  BY <1>2, SoundAs
<1>4. CASE kind \in {"generator", "async_generator"}
  <2>1. serve_callback(s, kind, outcome) = serve_generator(t, outcome)
    BY <1>4 DEF serve_callback, t
  <2>2. Kept(t, serve_generator(t, outcome).s) /\ serve_generator(t, outcome).failed \in BOOLEAN
    BY <1>3, GeneratorKept
  <2> QED BY <1>2, <2>1, <2>2 DEF Kept
<1>5. CASE kind = "async"
  <2>1. /\ serve_callback(s, kind, outcome).s = serve_promise(t, "function")
        /\ serve_callback(s, kind, outcome).failed = FALSE
    BY <1>5 DEF serve_callback, t
  <2>2. Kept(t, serve_promise(t, "function"))
    BY <1>3, PromiseKept
  <2> QED BY <1>2, <2>1, <2>2 DEF Kept
<1>6. CASE kind = "sync"
  <2>1. /\ serve_callback(s, kind, outcome).s = session_want_write(t)
        /\ serve_callback(s, kind, outcome).failed = FALSE
    BY <1>6 DEF serve_callback, t
  <2>2. Kept(t, session_want_write(t))
    BY <1>3, WantKept
  <2> QED BY <1>2, <2>1, <2>2 DEF Kept
<1> QED BY <1>4, <1>5, <1>6 DEF AllHandlers

\* A promise that settles.
LEMMA ResolvedKept ==
  ASSUME NEW s, Sound(s), NEW p \in s.promises, NEW given
  PROVE  Kept(s, serve_resolved(s, p, given))
<1> DEFINE t == Settled(s, p, given)
<1>1. Kept(s, t) /\ s.wait_resolve > 0
  BY SettledKept
<1>2. serve_resolved(s, p, given) =
        IF p.kind = "function" THEN ResolvedFunction(t, given) ELSE ResolvedIteration(t, given)
  BY <1>1 DEF serve_resolved
<1> HIDE DEF t
<1>3. t \in Sessions /\ Sound(t)
  BY <1>1 DEF Kept, Sound
<1>4. Kept(t, ResolvedFunction(t, given))
  <2>1. ASSUME NEW b \in BOOLEAN, NEW g \in {"text", "none"}
        PROVE  Kept(t, serve_generator([t EXCEPT !.body = b, !.generator = g], "end").s)
    <3> DEFINE u == [t EXCEPT !.body = b, !.generator = g]
    <3>1. /\ u \in Sessions /\ u.sendq = t.sendq /\ u.promises = t.promises
          /\ u.serial = t.serial /\ u.wait_resolve = t.wait_resolve /\ u.completed = t.completed
      BY <1>3 DEF Sessions
    <3> HIDE DEF u
    <3>2. Sound(u)
      BY <1>3, <3>1, SoundAs
    <3>3. Kept(u, serve_generator(u, "end").s)
      BY <3>2, GeneratorKept
    <3>4. Kept(t, serve_generator(u, "end").s)
      BY <3>1, <3>3 DEF Kept
    <3> QED BY <3>4 DEF u
  <2>2. Kept(t, t)
    BY <1>3 DEF Kept
  <2>3. CASE given = "response"
    BY <2>1, <2>3 DEF ResolvedFunction
  <2>4. CASE given = "bodyless"
    BY <2>1, <2>4 DEF ResolvedFunction
  <2>5. CASE given \notin {"response", "bodyless"}
    BY <2>2, <2>5 DEF ResolvedFunction
  <2> QED BY <2>3, <2>4, <2>5
<1>5. Kept(t, ResolvedIteration(t, given))
  <2> DEFINE u == IF given \in {"data", "last"} THEN session_want_write(Enqueue(t)) ELSE t
             v == IF given \in {"last", "end"} THEN session_want_write(Close(u)) ELSE u
  <2>1. Kept(t, u)
    BY <1>3, EnqueueKept, WantKept DEF Kept
  <2>2. ResolvedIteration(t, given) = v
    BY DEF ResolvedIteration
  <2> HIDE DEF u
  <2>3. Kept(u, v)
    BY <2>1, CloseKept, WantKept DEF Kept
  <2> HIDE DEF v
  <2> QED BY <2>1, <2>2, <2>3 DEF Kept
<1> QED BY <1>1, <1>2, <1>4, <1>5 DEF Kept

\* One that is rejected.
LEMMA RejectedKept ==
  ASSUME NEW s, Sound(s), NEW p \in s.promises
  PROVE  Kept(s, serve_rejected(s, p))
<1> DEFINE t == Settled(s, p, "throw")
           u == [t EXCEPT !.body = FALSE]
<1>1. Kept(s, t) /\ s.wait_resolve > 0
  BY SettledKept
<1>2. serve_rejected(s, p) = session_want_write(Close(Enqueue(u)))
  BY <1>1 DEF serve_rejected
<1> HIDE DEF t
<1>3. t \in Sessions
  BY <1>1 DEF Kept, Sound
<1>4. /\ u \in Sessions /\ u.sendq = t.sendq /\ u.promises = t.promises
      /\ u.serial = t.serial /\ u.wait_resolve = t.wait_resolve /\ u.completed = t.completed
  BY <1>3 DEF Sessions
<1> HIDE DEF u
<1>5. Kept(s, u)
  BY <1>1, <1>4, SoundAs DEF Kept
<1>6. Kept(u, Enqueue(u))
  BY <1>5, EnqueueKept DEF Kept
<1>7. Kept(Enqueue(u), Close(Enqueue(u)))
  BY <1>6, CloseKept DEF Kept
<1>8. Kept(Close(Enqueue(u)), session_want_write(Close(Enqueue(u))))
  BY <1>7, WantKept DEF Kept
<1> QED BY <1>2, <1>5, <1>6, <1>7, <1>8 DEF Kept

\* What http_server_writeable finds to be written.
Found(s) == session_queue(s) = "sendq" /\ queue_bytes(s.sendq) > 0

\* It is a chunk.
LEMMA FoundChunk ==
  ASSUME NEW s, Sound(s), Found(s)
  PROVE  /\ s.sendq.items # <<>> /\ ~queue_front(s.sendq).done
         /\ queue_next(s.sendq) \in Queues /\ Ordered(queue_next(s.sendq).items)
         /\ queue_next(s.sendq).items = Tail(s.sendq.items)
         /\ queue_front(s.sendq).block[1] \in Nat
<1>1. s.sendq \in Queues /\ Ordered(s.sendq.items)
  BY DEF Sound, Sessions
<1>2. s.sendq.items # <<>>
  BY DEF Found, session_queue, queue_empty
<1>3. ~queue_front(s.sendq).done
  <2> SUFFICES ASSUME queue_front(s.sendq).done PROVE FALSE
    OBVIOUS
  <2> DEFINE a == queue_front(s.sendq)
  <2>1. queue_closed(s.sendq)
    BY <1>2 DEF queue_closed, queue_empty
  <2>2. s.sendq.items = <<a>> /\ a \in Items /\ a.block = <<>>
    BY <1>1, <2>1, CloseAssert
  <2> HIDE DEF a
  <2>3. queue_bytes(s.sendq) = 0
    BY <1>1, <2>2, QueueData
  <2> QED BY <2>3 DEF Found
<1> QED BY <1>1, <1>2, <1>3, QueueNext

\* A chunk is written, or the transaction is completed.
LEMMA WrittenKept ==
  ASSUME NEW s, Sound(s)
  PROVE  Sound(http_server_writeable(s))
<1> DEFINE q == queue_next(s.sendq)
           final == queue_complete(q) \/ queue_closed(s.sendq)
           piece == [chunk |-> queue_front(s.sendq).block[1], final |-> final]
           w == [s EXCEPT !.sendq = q, !.wire = Append(s.wire, piece)]
           c(t) == [t EXCEPT !.completed = t.completed + 1]
<1>1. s \in Sessions /\ s.completed \in Nat /\ s.wire \in Seq(Written)
  BY DEF Sound, Sessions
<1>2. ASSUME NEW t, Sound(t)
      PROVE  Sound(c(t))
  <2>1. t \in Sessions
    BY <1>2 DEF Sound
  <2>2. /\ c(t) \in Sessions /\ c(t).sendq = t.sendq /\ c(t).promises = t.promises
        /\ c(t).serial = t.serial /\ c(t).wait_resolve = t.wait_resolve
    BY <2>1, SMTT(60) DEF Sessions
  <2> HIDE DEF c
  <2> QED BY <1>2, <2>2, SoundAs
<1>3. http_server_writeable(s) =
        IF Found(s) THEN IF queue_closed(w.sendq) THEN c(w) ELSE w ELSE c(s)
  <2>1. [[s EXCEPT !.sendq = queue_next(s.sendq)] EXCEPT
           !.wire = Append([s EXCEPT !.sendq = queue_next(s.sendq)].wire, piece)] = w
    BY <1>1 DEF Sessions
  <2>2. [s EXCEPT !.sendq = queue_next(s.sendq)].sendq = q
    BY <1>1 DEF Sessions
  <2> HIDE DEF w
  <2> QED BY <1>1, <2>1, <2>2 DEF http_server_writeable, Found, Sessions
<1> HIDE DEF c
<1>4. CASE ~Found(s)
  <2>1. http_server_writeable(s) = c(s)
    BY <1>3, <1>4
  <2> QED BY <1>2, <2>1
<1>5. CASE Found(s)
  <2>1. /\ q \in Queues /\ Ordered(q.items) /\ piece \in Written
    BY <1>5, FoundChunk DEF Written
  <2> HIDE DEF q, piece
  <2>2. Append(s.wire, piece) \in Seq(Written)
    BY <1>1, <2>1
  <2>3. /\ w \in Sessions /\ w.sendq = q /\ w.promises = s.promises
        /\ w.serial = s.serial /\ w.wait_resolve = s.wait_resolve
        /\ w.completed = s.completed
    BY <1>1, <2>1, <2>2 DEF Sessions
  <2> HIDE DEF w
  <2>4. Sound(w)
    BY <2>1, <2>3 DEF Sound
  <2>5. CASE queue_closed(w.sendq)
    <3>1. http_server_writeable(s) = c(w)
      BY <1>3, <1>5, <2>5
    <3> QED BY <1>2, <2>4, <3>1
  <2>6. CASE ~queue_closed(w.sendq)
    <3>1. http_server_writeable(s) = w
      BY <1>3, <1>5, <2>6
    <3> QED BY <2>4, <3>1
  <2> QED BY <2>5, <2>6
<1> QED BY <1>4, <1>5

\* The queue that is found, and the turn of the iterator where none is.
LEMMA FillKept ==
  ASSUME NEW s, Sound(s), NEW outcome, NEW t, t = FillQueue(s, outcome)
  PROVE  /\ t = [s |-> t.s, q |-> t.q, failed |-> t.failed]
         /\ Kept(s, t.s) /\ t.failed \in BOOLEAN
<1>2. CASE session_queue(s) = "none" /\ s.wait_resolve = 0
  <2> DEFINE turn == serve_generator(s, outcome)
             q == IF turn.done THEN session_queue(turn.s) ELSE "none"
  <2>1. Kept(s, turn.s) /\ turn.done \in BOOLEAN /\ turn.failed \in BOOLEAN
    BY GeneratorKept
  <2>2. t = [s |-> IF q = "sendq" THEN Close(turn.s) ELSE turn.s,
             q |-> q, failed |-> q = "none" /\ turn.failed]
    BY <1>2 DEF FillQueue, AfterTurn
  <2> HIDE DEF turn
  <2>3. Kept(turn.s, Close(turn.s))
    BY <2>1, CloseKept DEF Kept
  <2> HIDE DEF q
  <2> QED BY <2>1, <2>2, <2>3 DEF Kept
<1>3. CASE ~(session_queue(s) = "none" /\ s.wait_resolve = 0)
  <2>1. t = [s |-> s, q |-> session_queue(s), failed |-> FALSE]
    BY <1>3 DEF FillQueue
  <2> QED BY <2>1 DEF Kept
<1> QED BY <1>2, <1>3

\* LWS_CALLBACK_HTTP_FILE_COMPLETION.
LEMMA CompletionFields ==
  ASSUME NEW s, Sound(s), NEW q, NEW t, t = FileCompletion(s, q)
  PROVE  /\ Sound(t) /\ t.completed > s.completed
         /\ SameOutput(s, t) /\ SamePending(s, t) /\ t.wait_resolve = s.wait_resolve
<1> DEFINE n == IF q = "sendq" /\ queue_empty(s.sendq) THEN 2 ELSE 1
<1>1. s \in Sessions /\ s.completed \in Nat
  BY DEF Sound, Sessions
<1>2. n \in {1, 2}
  OBVIOUS
<1>3. t = [s EXCEPT !.completed = s.completed + n]
  BY DEF FileCompletion
<1> HIDE DEF n
<1>4. s.completed + n \in Nat /\ s.completed + n > s.completed
  BY <1>1, <1>2
<1>5. /\ t \in Sessions /\ t.completed > s.completed /\ t.serial = s.serial
      /\ SameOutput(s, t) /\ SamePending(s, t) /\ t.wait_resolve = s.wait_resolve
  BY <1>1, <1>3, <1>4 DEF Sessions, SameOutput, SamePending
<1>6. Sound(t)
  BY <1>5, SoundAs DEF SameOutput, SamePending
<1> QED BY <1>5, <1>6

\* A chunk is written where a queue was found, and what completes the transaction
\* never takes it back.
LEMMA ChunkKept ==
  ASSUME NEW t, t = [s |-> t.s, q |-> t.q, failed |-> t.failed], Sound(t.s),
         NEW w, w = WriteChunk(t)
  PROVE  /\ w = [s |-> w.s, q |-> t.q, failed |-> t.failed] /\ Sound(w.s)
         /\ t.q = "none" => w.s = t.s
         /\ t.q # "none" =>
              LET v == http_server_writeable(t.s)
              IN  w.s = IF v.completed = t.s.completed THEN v ELSE FileCompletion(v, t.q)
<1> DEFINE v == http_server_writeable(t.s)
<1>1. Sound(v)
  BY WrittenKept
<1>2. w = CASE t.q = "none" -> t
            [] t.q # "none" /\ v.completed = t.s.completed -> [t EXCEPT !.s = v]
            [] OTHER -> [t EXCEPT !.s = FileCompletion(v, t.q)]
  BY DEF WriteChunk
<1> HIDE DEF v
<1>3. Sound(FileCompletion(v, t.q))
  BY <1>1, CompletionFields
<1>4. CASE t.q = "none"
  BY <1>2, <1>4
<1>5. CASE t.q # "none" /\ v.completed = t.s.completed
  <2>1. w = [t EXCEPT !.s = v]
    BY <1>2, <1>5
  <2> QED BY <1>1, <1>5, <2>1 DEF v
<1>6. CASE t.q # "none" /\ v.completed # t.s.completed
  <2> DEFINE f == FileCompletion(v, t.q)
  <2>1. w = [t EXCEPT !.s = f]
    BY <1>2, <1>6
  <2> HIDE DEF f
  <2>2. w.s = f /\ w = [s |-> w.s, q |-> t.q, failed |-> t.failed]
    BY <2>1
  <2> QED BY <1>3, <1>6, <2>2 DEF f, v
<1> QED BY <1>4, <1>5, <1>6

\* The turn of the iterator where there was something to write.
LEMMA AskKept ==
  ASSUME NEW t, Sound(t.s), t.failed \in BOOLEAN, NEW had, NEW outcome, NEW garbage,
         NEW r, r = AskAgain(t, had, outcome, garbage)
  PROVE  Kept(t.s, r.s) /\ r.failed \in BOOLEAN
<1> DEFINE a == /\ had /\ ~t.s.want_write /\ t.s.wait_resolve = 0
                /\ ~queue_closed(t.s.sendq) /\ ~queue_complete(t.s.sendq)
           b == t.q = "none" /\ garbage /\ ~t.s.want_write
           turn == serve_generator(t.s, outcome)
           stopped == Abort(t.s, "null queue")
<1>1. Kept(t.s, turn.s) /\ turn.done \in BOOLEAN /\ turn.failed \in BOOLEAN
  BY GeneratorKept
<1>2. Kept(turn.s, Close(turn.s))
  <2> HIDE DEF turn
  <2> QED BY <1>1, CloseKept DEF Kept
<1>3. Kept(t.s, stopped)
  <2>1. "null queue" \in Places
    BY DEF Places
  <2> QED BY <2>1, AbortKept
<1>4. r = CASE a -> CloseWhenDone(turn)
            [] b -> [s |-> stopped, failed |-> FALSE]
            [] OTHER -> [s |-> t.s, failed |-> t.failed]
  BY DEF AskAgain
<1> HIDE DEF a, b, turn, stopped
<1>5. \/ r = CloseWhenDone(turn)
      \/ r = [s |-> stopped, failed |-> FALSE]
      \/ r = [s |-> t.s, failed |-> t.failed]
  BY <1>4
<1>6. CASE r = CloseWhenDone(turn)
  BY <1>1, <1>2, <1>6 DEF CloseWhenDone, Kept
<1>7. Kept(t.s, t.s)
  BY DEF Kept
<1>8. CASE r = [s |-> stopped, failed |-> FALSE]
  BY <1>3, <1>8
<1>9. CASE r = [s |-> t.s, failed |-> t.failed]
  BY <1>7, <1>9
<1> QED BY <1>5, <1>6, <1>8, <1>9

\* The writable event.
LEMMA ResponseKept ==
  ASSUME NEW asked, Sound(asked), NEW outcome, NEW garbage,
         NEW r, r = WriteResponse(asked, outcome, garbage)
  PROVE  Sound(r.s) /\ r.failed \in BOOLEAN
<1> DEFINE s == [asked EXCEPT !.want_write = FALSE, !.response_sent = TRUE]
           had == session_queue(s) = "sendq" /\ queue_bytes(s.sendq) > 0
<1>1. asked \in Sessions
  BY DEF Sound
<1>2. /\ s \in Sessions /\ s.sendq = asked.sendq /\ s.promises = asked.promises
      /\ s.serial = asked.serial /\ s.wait_resolve = asked.wait_resolve
      /\ s.completed = asked.completed
  BY <1>1 DEF Sessions
<1>3. PICK t : t = FillQueue(s, outcome)
  OBVIOUS
<1>4. PICK w : w = WriteChunk(t)
  OBVIOUS
<1>5. r = AskAgain(w, had, outcome, garbage)
  BY <1>3, <1>4 DEF WriteResponse
<1> HIDE DEF s, had
<1>6. Sound(s)
  BY <1>2, SoundAs
<1>7. /\ t = [s |-> t.s, q |-> t.q, failed |-> t.failed]
      /\ Kept(s, t.s) /\ t.failed \in BOOLEAN
  BY <1>3, <1>6, FillKept
<1>8. /\ w = [s |-> w.s, q |-> t.q, failed |-> t.failed]
      /\ Sound(w.s)
  BY <1>4, <1>7, ChunkKept DEF Kept
<1>9. w.failed \in BOOLEAN
  BY <1>7, <1>8
<1>10. Kept(w.s, r.s) /\ r.failed \in BOOLEAN
  BY <1>5, <1>8, <1>9, AskKept
<1> QED BY <1>2, <1>7, <1>8, <1>10 DEF Kept

-----------------------------------------------------------------------------
\* A response to a GET.

\* In order, running, and no chunk was the final one.
Plain(s) ==
  /\ InOrder(s) /\ s.aborted = ""
  /\ \A i \in 1 .. Len(s.wire) : ~s.wire[i].final

\* Nothing is queued, asked for or waited for.
Calm(s) == Sound(s) /\ Plain(s) /\ s.sendq.items = <<>> /\ s.promises = {} /\ ~s.want_write

\* No promise is waited for when there is none.
LEMMA NoPromises ==
  ASSUME NEW s, Sound(s)
  PROVE  /\ s.promises = {} <=> s.wait_resolve = 0
         /\ \A p : s.promises = {p} => s.wait_resolve = 1
<1>1. Cardinality(s.promises) = 0 <=> s.promises = {}
  BY FS_EmptySet DEF Sound
<1>2. \A p : Cardinality({p}) = 1
  BY FS_Singleton
<1> QED BY <1>1, <1>2 DEF Sound

\* What is put out decides whether it is plain.
LEMMA PlainAs == ASSUME NEW s, NEW t, Plain(s), SameOutput(s, t) PROVE Plain(t)
BY DEF Plain, InOrder, SameOutput

\* A writable event is asked for.
LEMMA WantFields ==
  ASSUME NEW s, Sound(s), NEW t, t = session_want_write(s)
  PROVE  /\ SameOutput(s, t) /\ t.promises = s.promises /\ t.generator = s.generator
         /\ t.body = s.body /\ t.wait_resolve = s.wait_resolve
         /\ t.want_write /\ (s.armed \/ ~s.want_write => t.armed)
<1>1. s \in Sessions
  BY DEF Sound
<1>2. CASE s.want_write
  BY <1>2 DEF session_want_write, SameOutput
<1>3. CASE ~s.want_write
  BY <1>1, <1>3 DEF session_want_write, SameOutput, Sessions
<1> QED BY <1>2, <1>3

\* A chunk is put into an empty queue.
LEMMA EnqueueFields ==
  ASSUME NEW s, Sound(s), Plain(s), s.sendq.items = <<>>, NEW t, t = Enqueue(s)
  PROVE  /\ Plain(t) /\ SamePending(s, t) /\ t.wait_resolve = s.wait_resolve
         /\ t.generator = s.generator /\ t.body = s.body
         /\ t.sendq \in Queues /\ t.sendq.items = <<Item(<<t.made>>)>> /\ t.made > 0
         /\ queue_bytes(t.sendq) > 0
<1> DEFINE q == queue_write(s.sendq, <<s.made + 1>>)
<1>1. /\ s \in Sessions /\ s.sendq \in Queues /\ Ordered(s.sendq.items) /\ s.made \in Nat
      /\ s.made + 1 \in Nat /\ s.made + 1 > 0
  BY DEF Sound, Sessions
<1>2. q \in Queues /\ q.items = <<Item(<<s.made + 1>>)>>
  <2>1. ~queue_complete(s.sendq)
    BY DEF queue_complete, queue_empty
  <2>2. q \in Queues /\ q.items = Append(s.sendq.items, Item(<<s.made + 1>>))
    BY <1>1, <2>1, QueueWrite
  <2>3. \A a : Append(<<>>, a) = <<a>>
    OBVIOUS
  <2> QED BY <2>2, <2>3
<1>3. t = [s EXCEPT !.made = s.made + 1, !.sendq = q]
  BY DEF Enqueue
<1> HIDE DEF q
<1>4. /\ t.sendq = q /\ t.made = s.made + 1 /\ t.wire = s.wire /\ t.aborted = s.aborted
      /\ SamePending(s, t) /\ t.wait_resolve = s.wait_resolve
      /\ t.generator = s.generator /\ t.body = s.body
  BY <1>1, <1>3 DEF Sessions, SamePending
<1>5. Len(s.wire) = s.made
  <2>1. \A a, b : <<>> # <<a>> /\ <<>> # <<a, b>>
    OBVIOUS
  <2> QED BY <2>1 DEF Plain, InOrder
<1>6. Plain(t)
  <2>1. InOrder(t)
    <3>1. \A i \in 1 .. Len(t.wire) : t.wire[i].chunk = i
      BY <1>4 DEF Plain, InOrder
    <3> QED BY <1>1, <1>2, <1>4, <1>5, <3>1 DEF InOrder
  <2> QED BY <1>4, <2>1 DEF Plain
<1>7. queue_bytes(q) > 0
  <2>1. Item(<<s.made + 1>>) \in Items /\ Len(Item(<<s.made + 1>>).block) = 1
    BY <1>1, Things
  <2>2. queue_bytes(q) = 1
    BY <1>2, <2>1, QueueData
  <2> QED BY <2>2
<1> QED BY <1>1, <1>2, <1>4, <1>6, <1>7

\* The end is put in.
LEMMA CloseFields ==
  ASSUME NEW s, Sound(s), Plain(s), NEW t, t = Close(s)
  PROVE  /\ Plain(t) /\ SamePending(s, t) /\ t.sendq.items # <<>>
<1> DEFINE q == queue_close(s.sendq)
<1>1. /\ s \in Sessions /\ s.sendq \in Queues /\ Ordered(s.sendq.items) /\ s.made \in Nat
      /\ s.sendq.items \in Seq(Items)
  BY DEF Sound, Sessions, Queues
<1>2. q.items = IF queue_complete(s.sendq) THEN s.sendq.items ELSE Append(s.sendq.items, EndItem)
  BY <1>1, QueueClose
<1>3. t = [s EXCEPT !.sendq = q] /\ t.sendq.items # <<>>
  BY CloseKept
<1> HIDE DEF q
<1>4. /\ t.sendq = q /\ t.made = s.made /\ t.wire = s.wire /\ t.aborted = s.aborted
      /\ SamePending(s, t)
  BY <1>1, <1>3 DEF Sessions, SamePending
<1>5. InOrder(t)
  <2> DEFINE c == Item(<<s.made>>)
  <2>1. ~c.done /\ c \in Items /\ EndItem \in Items /\ EndItem.done
    BY <1>1, Things
  <2> HIDE DEF c
  <2>2. CASE s.sendq.items = <<>>
    <3>1. Append(<<>>, EndItem) = <<EndItem>>
      OBVIOUS
    <3>2. q.items = <<EndItem>>
      BY <1>2, <2>2, <3>1 DEF queue_complete, queue_empty
    <3>3. \A a, b : <<>> # <<a>> /\ <<>> # <<a, b>>
      OBVIOUS
    <3>4. Len(s.wire) = s.made
      BY <2>2, <3>3 DEF Plain, InOrder
    <3> QED BY <1>4, <3>2, <3>4 DEF Plain, InOrder
  <2>3. CASE s.sendq.items = <<c>>
    <3>1. Append(<<c>>, EndItem) = <<c, EndItem>> /\ Last(<<c>>) = c
      <4> DEFINE r == Append(<<c>>, EndItem)
      <4>1. <<c>> \in Seq(Items) /\ Len(<<c>>) = 1 /\ <<c>>[1] = c
        BY <2>1
      <4>2. r \in Seq(Items) /\ Len(r) = 2 /\ r[1] = c /\ r[2] = EndItem
        BY <2>1, <4>1, AppendProperties
      <4> HIDE DEF r
      <4>3. r = <<c, EndItem>>
        BY <4>2
      <4> QED BY <4>1, <4>3 DEF r, Last
    <3>2. q.items = <<c, EndItem>>
      BY <1>2, <2>1, <2>3, <3>1 DEF queue_complete
    <3>3. c # EndItem /\ <<c>> # <<>> /\ (<<c>> = <<EndItem>> => c = EndItem)
      BY <2>1
    <3>4. Len(s.wire) + 1 = s.made
      BY <2>3, <3>3 DEF Plain, InOrder
    <3> QED BY <1>4, <3>2, <3>4 DEF Plain, InOrder, c
  <2>4. CASE s.sendq.items \in {<<EndItem>>, <<c, EndItem>>}
    <3>1. Last(<<EndItem>>) = EndItem /\ Last(<<c, EndItem>>) = EndItem
      BY DEF Last
    <3>2. q.items = s.sendq.items
      BY <1>2, <2>1, <2>4, <3>1 DEF queue_complete, queue_empty
    <3> QED BY <1>4, <3>2 DEF Plain, InOrder
  <2> QED BY <2>2, <2>3, <2>4 DEF Plain, InOrder, c
<1> QED BY <1>3, <1>4, <1>5 DEF Plain

\* A promise is made.
LEMMA PromiseFields ==
  ASSUME NEW s, Sound(s), NEW kind, NEW t, t = serve_promise(s, kind)
  PROVE  /\ SameOutput(s, t) /\ t.want_write = s.want_write
         /\ t.wait_resolve = s.wait_resolve + 1
         /\ t.promises = s.promises \cup {[id |-> s.serial + 1, kind |-> kind]}
<1>1. s \in Sessions
  BY DEF Sound
<1> QED BY <1>1 DEF serve_promise, SameOutput, Sessions

\* Something is queued and a writable event asked for: the response is under way.
LEMMA OnWanted ==
  ASSUME NEW s, Plain(s), s.want_write, s.armed, s.promises = {},
         s.sendq.items # <<>> \/ s.generator \in {"none", "ended"}
  PROVE  On(s)
BY DEF Plain, On

\* So it is when a promise is waited for.
LEMMA OnPromised ==
  ASSUME NEW s, Plain(s), ~s.want_write, s.sendq.items = <<>>, NEW p, s.promises = {p}
  PROVE  On(s)
BY DEF Plain, On

\* A turn of serve_generator, by what the response is made by.
LEMMA TurnOn ==
  ASSUME NEW s, Calm(s), NEW outcome \in AllOutcomes, NEW r, r = serve_generator(s, outcome)
  PROVE  /\ Plain(r.s)
         /\ r.done => /\ r.s.want_write /\ r.s.armed /\ r.s.promises = {}
                      /\ \/ r.s.sendq.items # <<>>
                         \/ s.generator # "promise" => r.s.generator \in {"none", "ended"}
         /\ ~r.done => On(r.s)
<1> DEFINE turn == IteratorTurn(s, outcome)
           wants == turn.s.wait_resolve = 0 /\ (turn.done \/ queue_bytes(turn.s.sendq) > 0)
<1>1. /\ s \in Sessions /\ Sound(s) /\ Plain(s) /\ s.sendq \in Queues /\ s.sendq.items = <<>>
      /\ s.promises = {} /\ ~s.want_write /\ s.wait_resolve = 0 /\ queue_bytes(s.sendq) = 0
      /\ s.made \in Nat
  BY NoPromises, QueueData DEF Calm, Sound, Sessions
<1>2. ~(s.wait_resolve # 0 \/ queue_complete(s.sendq))
  BY <1>1 DEF queue_complete, queue_empty
<1>3. r = [turn EXCEPT !.s = IF wants THEN session_want_write(turn.s) ELSE turn.s]
  BY <1>2 DEF serve_generator
<1>4. turn = [s |-> turn.s, done |-> turn.done, failed |-> turn.failed]
  <2>1. s.generator \in {"none", "promise", "sync", "ended", "async", "text", "read"}
    BY <1>1 DEF Sessions
  <2> QED BY <2>1 DEF IteratorTurn
<1>5. /\ r.s = IF wants THEN session_want_write(turn.s) ELSE turn.s
      /\ r.done = turn.done
  <2> HIDE DEF turn
  <2> QED BY <1>3, <1>4
<1>6. Sound(turn.s)
  BY <1>1, TurnKept DEF Kept
<1>7. ASSUME wants, Plain(turn.s), ~turn.s.want_write, turn.s.promises = {}
      PROVE  /\ Plain(r.s) /\ r.s.want_write /\ r.s.armed /\ r.s.promises = {}
             /\ r.s.sendq = turn.s.sendq /\ r.s.generator = turn.s.generator
  <2>1. r.s = session_want_write(turn.s)
    BY <1>5, <1>7
  <2> HIDE DEF turn, wants
  <2>2. /\ SameOutput(turn.s, r.s) /\ r.s.promises = {} /\ r.s.generator = turn.s.generator
        /\ r.s.want_write /\ r.s.armed
    BY <1>6, <1>7, <2>1, WantFields
  <2> QED BY <1>7, <2>2, PlainAs DEF SameOutput
<1>8. CASE s.generator \in {"none", "ended", "promise"}
  <2>1. turn.s = s /\ turn.done
    BY <1>8 DEF IteratorTurn
  <2>2. wants
    BY <1>1, <2>1
  <2> HIDE DEF turn, wants
  <2> QED BY <1>1, <1>5, <1>7, <1>8, <2>1, <2>2
<1>9. ASSUME NEW kind \in {"iteration", "text", "end"}, NEW u, Sound(u), SameOutput(s, u),
             u.promises = {}, ~u.want_write, u.wait_resolve = 0,
             turn.s = serve_promise(u, kind), ~turn.done
      PROVE  Plain(r.s) /\ ~r.done /\ On(r.s)
  <2> DEFINE p == [id |-> u.serial + 1, kind |-> kind]
  <2>1. /\ SameOutput(u, turn.s) /\ ~turn.s.want_write /\ turn.s.wait_resolve = 1
        /\ turn.s.promises = {p} /\ p.kind # "function"
    BY <1>9, PromiseFields
  <2>2. r.s = turn.s /\ ~r.done
    BY <1>5, <1>9, <2>1
  <2> HIDE DEF turn, wants, p
  <2>3. Plain(r.s) /\ r.s.sendq.items = <<>>
    BY <1>1, <1>9, <2>1, <2>2, PlainAs DEF SameOutput
  <2> QED BY <2>1, <2>2, <2>3, OnPromised
<1>10. CASE s.generator \in {"async", "read"}
  <2>1. \E kind \in {"iteration", "text", "end"} : turn.s = serve_promise(s, kind)
    BY <1>10 DEF IteratorTurn
  <2>2. ~turn.done
    BY <1>10 DEF IteratorTurn
  <2>3. SameOutput(s, s)
    BY DEF SameOutput
  <2> QED BY <1>1, <1>9, <2>1, <2>2, <2>3
<1>11. CASE s.generator = "text"
  <2> DEFINE u == [s EXCEPT !.generator = "read"]
  <2>1. turn.s = serve_promise(u, "text") /\ ~turn.done
    BY <1>11 DEF IteratorTurn
  <2>2. /\ u \in Sessions /\ SameOutput(s, u) /\ u.promises = {} /\ ~u.want_write
        /\ u.wait_resolve = 0 /\ u.serial = s.serial
    BY <1>1 DEF Sessions, SameOutput
  <2> HIDE DEF u
  <2>3. Sound(u)
    BY <1>1, <2>2, SoundAs DEF SameOutput
  <2> HIDE DEF turn, wants
  <2> QED BY <1>9, <2>1, <2>2, <2>3
<1>12. CASE s.generator = "sync"
  <2> DEFINE gave == outcome \in {"data", "last"}
             done == outcome \in {"last", "end", "throw"}
             u == IF gave THEN Enqueue(s) ELSE s
             t == [u EXCEPT !.generator = IF done THEN "ended" ELSE u.generator,
                            !.ignored = Ignored(outcome)]
  <2>1. turn.s = t /\ turn.done = done
    BY <1>12 DEF IteratorTurn
  <2>2. /\ Plain(u) /\ SamePending(s, u) /\ u.wait_resolve = 0
        /\ IF gave THEN /\ u.sendq.items # <<>> /\ queue_bytes(u.sendq) > 0
                   ELSE u.sendq = s.sendq
    <3>1. CASE gave
      <4>1. \A a : <<>> # <<a>>
        OBVIOUS
      <4>2. u = Enqueue(s)
        BY <3>1
      <4> HIDE DEF u
      <4>3. /\ Plain(u) /\ SamePending(s, u) /\ u.wait_resolve = s.wait_resolve
            /\ u.sendq.items = <<Item(<<u.made>>)>> /\ queue_bytes(u.sendq) > 0
        BY <1>1, <4>2, EnqueueFields
      <4> QED BY <1>1, <3>1, <4>1, <4>3
    <3>2. CASE ~gave
      BY <1>1, <3>2 DEF SamePending
    <3> QED BY <3>1, <3>2
  <2>3. Sound(u) /\ u \in Sessions
    BY <1>1, EnqueueKept DEF Kept, Sound
  <2> HIDE DEF u
  <2>4. /\ SameOutput(u, t) /\ SamePending(u, t) /\ t.wait_resolve = u.wait_resolve
        /\ done => t.generator = "ended"
        /\ t.ignored = Ignored(outcome)
    BY <2>3 DEF Sessions, SameOutput, SamePending
  <2> HIDE DEF t
  <2>5. Plain(t)
    BY <2>2, <2>4, PlainAs
  <2>6. wants <=> (done \/ queue_bytes(t.sendq) > 0)
    BY <2>1, <2>2, <2>4
  <2>7. ~t.want_write /\ t.promises = {} /\ t.sendq = u.sendq
    BY <1>1, <2>2, <2>4 DEF SamePending, SameOutput
  <2> HIDE DEF turn, wants
  <2>8. CASE done
    <3>1. wants /\ r.done
      BY <1>5, <2>1, <2>6, <2>8
    <3> QED BY <1>7, <2>1, <2>4, <2>5, <2>7, <2>8, <3>1
  <2>9. CASE ~done /\ gave
    <3>1. wants /\ ~r.done /\ t.sendq.items # <<>>
      BY <1>5, <2>1, <2>2, <2>6, <2>7, <2>9
    <3>2. On(r.s) /\ Plain(r.s)
      BY <1>7, <2>1, <2>5, <2>7, <3>1, OnWanted
    <3> QED BY <3>1, <3>2
  <2>10. CASE ~done /\ ~gave
    <3>1. t.ignored
      BY <2>4, <2>10 DEF Ignored, AllOutcomes
    <3>2. t.sendq = s.sendq
      BY <2>2, <2>7, <2>10
    <3>3. ~wants
      BY <1>1, <2>6, <2>10, <3>2, 0 \in Nat
    <3>4. t.sendq.items = <<>> /\ r.s = t /\ ~r.done
      BY <1>1, <1>5, <2>1, <2>10, <3>2, <3>3
    <3>5. On(t)
      BY <2>5, <2>7, <3>1, <3>4 DEF On, Plain
    <3> QED BY <2>5, <3>4, <3>5
  <2> QED BY <2>8, <2>9, <2>10
<1>13. s.generator \in {"none", "promise", "sync", "ended", "async", "text", "read"}
  BY <1>1 DEF Sessions
<1> HIDE DEF turn, wants
<1> QED BY <1>8, <1>10, <1>11, <1>12, <1>13

\* A turn that is done, with its queue closed or not.
LEMMA TurnDone ==
  ASSUME NEW s, Calm(s), NEW outcome \in AllOutcomes, NEW r, r = serve_generator(s, outcome)
  PROVE  /\ s.generator # "promise" => On(r.s)
         /\ r.done => On(Close(r.s))
<1>1. /\ Plain(r.s)
      /\ r.done => /\ r.s.want_write /\ r.s.armed /\ r.s.promises = {}
                   /\ \/ r.s.sendq.items # <<>>
                      \/ s.generator # "promise" => r.s.generator \in {"none", "ended"}
      /\ ~r.done => On(r.s)
  BY TurnOn
<1>2. Sound(r.s) /\ r.done \in BOOLEAN
  BY GeneratorKept DEF Calm, Kept
<1>3. s.generator # "promise" => On(r.s)
  BY <1>1, <1>2, OnWanted
<1>4. r.done => On(Close(r.s))
  <2> DEFINE t == Close(r.s)
  <2>1. Plain(t) /\ SamePending(r.s, t) /\ t.sendq.items # <<>>
    BY <1>1, <1>2, CloseFields
  <2> HIDE DEF t
  <2>2. r.done => On(t)
    BY <1>1, <2>1, OnWanted DEF SamePending
  <2> QED BY <2>2 DEF t
<1> QED BY <1>3, <1>4

\* A chunk is put into an empty queue and a writable event asked for, with the end
\* behind it or without.
LEMMA SentOn ==
  ASSUME NEW s, Calm(s)
  PROVE  /\ On(session_want_write(Enqueue(s))) /\ On(session_want_write(Close(s)))
         /\ On(session_want_write(Close(session_want_write(Enqueue(s)))))
         /\ On(session_want_write(Close(Enqueue(s))))
<1>1. ASSUME NEW t, Sound(t), Plain(t), t.sendq.items # <<>>, t.promises = {},
             t.want_write => t.armed
      PROVE  LET u == session_want_write(t)
             IN  On(u) /\ Sound(u) /\ Plain(u) /\ u.sendq.items # <<>> /\ u.promises = {}
                 /\ u.want_write /\ u.armed
  <2> DEFINE u == session_want_write(t)
  <2>1. SameOutput(t, u) /\ u.promises = t.promises /\ u.want_write /\ u.armed
    <3>1. t \in Sessions
      BY <1>1 DEF Sound
    <3>2. t.want_write \in BOOLEAN /\ t.armed \in BOOLEAN
      BY <3>1 DEF Sessions
    <3> QED BY <1>1, <3>2, WantFields
  <2>2. Sound(u)
    BY <1>1, WantKept DEF Kept
  <2> HIDE DEF u
  <2>3. Plain(u) /\ u.sendq.items # <<>> /\ u.promises = {}
    BY <1>1, <2>1, PlainAs DEF SameOutput
  <2>4. On(u)
    BY <2>1, <2>3, OnWanted
  <2> QED BY <2>1, <2>2, <2>3, <2>4 DEF u
<1>2. ASSUME NEW t, Sound(t), Plain(t), t.promises = {}, t.want_write => t.armed
      PROVE  LET u == session_want_write(Close(t)) IN On(u)
  <2> DEFINE u == Close(t)
  <2>1. Plain(u) /\ SamePending(t, u) /\ u.sendq.items # <<>>
    BY <1>2, CloseFields
  <2>2. Sound(u)
    BY <1>2, CloseKept DEF Kept
  <2> HIDE DEF u
  <2>3. On(session_want_write(u))
    BY <1>1, <1>2, <2>1, <2>2 DEF SamePending
  <2> QED BY <2>3 DEF u
<1>3. Sound(s) /\ Plain(s) /\ s.promises = {} /\ ~s.want_write /\ s.sendq.items = <<>>
  BY DEF Calm
<1> DEFINE e == Enqueue(s)
<1>4. Sound(e) /\ e.sendq.items # <<>>
  BY <1>3, EnqueueKept DEF Kept
<1>5. Plain(e) /\ e.promises = {} /\ ~e.want_write
  BY <1>3, EnqueueFields, ZenonT(60) DEF SamePending
<1> HIDE DEF e
<1> DEFINE w == session_want_write(e)
<1>6. On(w) /\ Sound(w) /\ Plain(w) /\ w.promises = {} /\ w.armed
  BY <1>1, <1>4, <1>5
<1> HIDE DEF w
<1>7. On(session_want_write(Close(w)))
  BY <1>2, <1>6
<1>8. On(session_want_write(Close(e))) /\ On(session_want_write(Close(s)))
  BY <1>2, <1>3, <1>4, <1>5
<1> QED BY <1>6, <1>7, <1>8 DEF e, w

\* A promise settles.
LEMMA SettleOn ==
  ASSUME NEW s, Sound(s), On(s), NEW p \in s.promises, NEW given, given \in Given(p)
  PROVE  On(IF given = "throw" THEN serve_rejected(s, p) ELSE serve_resolved(s, p, given))
<1> DEFINE t == Settled(s, p, given)
<1>1. Kept(s, t) /\ s.wait_resolve > 0
  BY SettledKept
<1>2. s \in Sessions /\ s.promises = {p} /\ ~s.want_write /\ s.sendq.items = <<>>
      /\ Plain(s) /\ p \in Promises
  BY DEF On, Plain, Sound, Sessions
<1>3. /\ SameOutput(s, t) /\ t.promises = {} /\ ~t.want_write
      /\ t.ignored = Ignored(given)
  BY <1>2 DEF Settled, SameOutput, Sessions
<1>4. Calm(t)
  BY <1>1, <1>2, <1>3, PlainAs DEF Calm, SameOutput, Kept
<1>5. t \in Sessions
  BY <1>4 DEF Calm, Sound
<1>6. ASSUME NEW b \in BOOLEAN, NEW g \in {"text", "none", t.generator},
             NEW u, u = [t EXCEPT !.body = b, !.generator = g]
      PROVE  Calm(u) /\ u.generator = g
  <2>1. /\ u \in Sessions /\ SameOutput(t, u) /\ u.promises = {} /\ ~u.want_write
        /\ u.serial = t.serial /\ u.wait_resolve = t.wait_resolve /\ u.generator = g
    BY <1>3, <1>5, <1>6 DEF Sessions, SameOutput
  <2>2. Sound(u) /\ Plain(u)
    BY <1>3, <1>4, <2>1, SoundAs, PlainAs DEF Calm, SameOutput
  <2> QED BY <1>4, <2>1, <2>2 DEF Calm, SameOutput
<1>7. CASE given = "throw"
  <2> DEFINE u == [t EXCEPT !.body = FALSE]
  <2>1. serve_rejected(s, p) = session_want_write(Close(Enqueue(u)))
    BY <1>1, <1>7 DEF serve_rejected
  <2>2. u = [t EXCEPT !.body = FALSE, !.generator = t.generator]
    BY <1>5 DEF Sessions
  <2> HIDE DEF u, t
  <2>3. Calm(u)
    BY <1>6, <2>2
  <2> QED BY <1>7, <2>1, <2>3, SentOn
<1>8. CASE given # "throw" /\ p.kind = "function"
  <2>1. serve_resolved(s, p, given) = ResolvedFunction(t, given)
    BY <1>1, <1>8 DEF serve_resolved
  <2>2. given \in {"response", "bodyless", "other"}
    BY <1>8, ConstantsAssumption DEF Given, AllResults
  <2>3. ASSUME NEW b \in BOOLEAN, NEW g \in {"text", "none"}
        PROVE  On(serve_generator([t EXCEPT !.body = b, !.generator = g], "end").s)
    <3> DEFINE u == [t EXCEPT !.body = b, !.generator = g]
    <3> HIDE DEF t
    <3>1. Calm(u) /\ u.generator # "promise"
      BY <1>6, ZenonT(60)
    <3> HIDE DEF u
    <3>2. "end" \in AllOutcomes
      BY DEF AllOutcomes
    <3>3. On(serve_generator(u, "end").s)
      BY <3>1, <3>2, TurnDone
    <3> QED BY <3>3, SMTT(60) DEF u
  <2>4. On(t) \/ given # "other"
    BY <1>3, <1>4 DEF On, Calm, Plain, Ignored
  <2> HIDE DEF t
  <2>5. On(ResolvedFunction(t, given))
    BY <2>2, <2>3, <2>4 DEF ResolvedFunction
  <2> QED BY <1>8, <2>1, <2>5
<1>9. CASE given # "throw" /\ p.kind # "function"
  <2>1. serve_resolved(s, p, given) = ResolvedIteration(t, given)
    BY <1>1, <1>9 DEF serve_resolved
  <2>2. given \in {"data", "last", "end", "nothing"}
    BY <1>2, <1>9, ConstantsAssumption DEF Given, Allowed, AllOutcomes, Promises
  <2>3. On(t) \/ given # "nothing"
    BY <1>3, <1>4 DEF On, Calm, Plain, Ignored
  <2> HIDE DEF t
  <2>4. On(ResolvedIteration(t, given))
    <3>1. /\ On(session_want_write(Enqueue(t))) /\ On(session_want_write(Close(t)))
          /\ On(session_want_write(Close(session_want_write(Enqueue(t)))))
      BY <1>4, SentOn
    <3> QED BY <2>2, <2>3, <3>1 DEF ResolvedIteration
  <2> QED BY <1>9, <2>1, <2>4
<1> QED BY <1>7, <1>8, <1>9

\* One that goes on can be broken off at any time.
LEMMA OnOver ==
  ASSUME NEW s, Sound(s), On(s), s.completed = 0
  PROVE  Over(s)
<1>1. /\ InOrder(s) /\ s.aborted = "" /\ s.completed = 0
      /\ \A i \in 1 .. Len(s.wire) : ~s.wire[i].final
      /\ ~(s.want_write /\ s.promises # {})
  BY DEF On
<1>2. s.promises = {} \/ \E p : s.promises = {p}
  BY DEF On
<1>3. s.wait_resolve \in {0, 1}
  <2>1. CASE s.promises = {}
    BY <2>1, NoPromises
  <2>2. ASSUME NEW p, s.promises = {p} PROVE s.wait_resolve = 1
    BY <2>2, NoPromises
  <2> QED BY <1>2, <2>1, <2>2
<1>4. s.wait_resolve =< 1
  BY <1>3
<1>5. ~(s.completed > 0)
  OBVIOUS
<1> QED BY <1>1, <1>4, <1>5 DEF Over

\* The first call of the handler.
LEMMA CallbackOn ==
  ASSUME NEW kind \in AllHandlers, NEW outcome \in AllOutcomes, Sound(session_zero)
  PROVE  On(serve_callback(session_zero, kind, outcome).s)
<1> DEFINE t == session_callback(session_zero, kind)
<1>1. session_zero \in Sessions
  BY DEF Sound
<1>2. /\ t \in Sessions /\ t.sendq = queue_zero /\ t.promises = {} /\ t.serial = 0
      /\ t.wait_resolve = 0 /\ t.made = 0 /\ t.wire = <<>> /\ t.aborted = ""
      /\ ~t.want_write /\ ~t.armed
      /\ kind \in {"generator", "async_generator"} => t.generator # "promise"
      /\ kind = "sync" => t.generator = "none"
  <2> DEFINE g == CASE kind = "generator" -> "sync"
                     [] kind = "async_generator" -> "async"
                     [] kind = "async" -> "promise"
                     [] kind = "sync" -> "none"
  <2>1. g \in {"sync", "async", "promise", "none"} /\ (kind = "sync" => g = "none")
        /\ (kind \in {"generator", "async_generator"} => g # "promise")
    BY DEF AllHandlers
  <2>2. t = [session_zero EXCEPT !.runs = session_zero.runs + 1, !.generator = g]
    BY DEF session_callback
  <2> HIDE DEF g, t
  <2>3. session_zero.runs + 1 \in Nat
    BY <1>1 DEF Sessions
  <2>4. t \in Sessions
    BY <1>1, <2>1, <2>2, <2>3 DEF Sessions
  <2> QED BY <2>1, <2>2, <2>4 DEF session_zero
<1> HIDE DEF t
<1>3. Sound(t)
  <2>1. /\ session_zero.sendq = queue_zero /\ session_zero.promises = {}
        /\ session_zero.serial = 0 /\ session_zero.wait_resolve = 0
    BY DEF session_zero
  <2> QED BY <1>2, <2>1, SoundAs
<1>4. t.sendq.items = <<>>
  <2>1. queue_zero.items = <<>> /\ t.sendq = queue_zero
    BY <1>2 DEF queue_zero
  <2> QED BY <2>1
<1>5. Plain(t)
  <2>1. Len(t.wire) = 0 /\ t.made = 0
    BY <1>2
  <2>2. \A i \in 1 .. Len(t.wire) : FALSE
    BY <2>1
  <2>3. InOrder(t)
    BY <1>4, <2>1, <2>2 DEF InOrder
  <2> QED BY <1>2, <2>2, <2>3 DEF Plain
<1>6. CASE kind \in {"generator", "async_generator"}
  <2>1. serve_callback(session_zero, kind, outcome) = serve_generator(t, outcome)
    BY <1>6 DEF serve_callback, t
  <2>2. Calm(t)
    BY <1>2, <1>3, <1>4, <1>5 DEF Calm
  <2> QED BY <1>2, <1>6, <2>1, <2>2, TurnDone
<1>7. CASE kind = "async"
  <2> DEFINE u == serve_promise(t, "function")
             p == [id |-> t.serial + 1, kind |-> "function"]
  <2>1. serve_callback(session_zero, kind, outcome).s = u
    BY <1>7 DEF serve_callback, t
  <2>2. SameOutput(t, u) /\ ~u.want_write /\ u.promises = {p} /\ p.kind = "function"
    <3>1. /\ SameOutput(t, u) /\ u.want_write = t.want_write
          /\ u.promises = t.promises \cup {p}
      BY <1>3, PromiseFields
    <3> HIDE DEF u
    <3> QED BY <1>2, <3>1
  <2> HIDE DEF u, p
  <2>3. Plain(u) /\ u.sendq.items = <<>> /\ u.made = 0
    BY <1>2, <1>4, <1>5, <2>2, PlainAs DEF SameOutput
  <2> QED BY <2>1, <2>2, <2>3, OnPromised
<1>8. CASE kind = "sync"
  <2> DEFINE u == session_want_write(t)
  <2>1. serve_callback(session_zero, kind, outcome).s = u
    BY <1>8 DEF serve_callback, t
  <2>2. /\ SameOutput(t, u) /\ u.promises = {} /\ u.generator = "none"
        /\ u.want_write /\ u.armed
    BY <1>2, <1>3, <1>8, WantFields
  <2> HIDE DEF u
  <2>3. Plain(u)
    BY <1>5, <2>2, PlainAs
  <2> QED BY <2>1, <2>2, <2>3, OnWanted
<1> QED BY <1>6, <1>7, <1>8 DEF AllHandlers

\* What http_server_writeable does: it completes the transaction where it finds no
\* chunk, and else takes the front of the queue to the wire.
LEMMA WriteableFields ==
  ASSUME NEW s, Sound(s), NEW v, v = http_server_writeable(s)
  PROVE  /\ SamePending(s, v) /\ v.wait_resolve = s.wait_resolve
         /\ v.made = s.made /\ v.aborted = s.aborted /\ v.generator = s.generator
         /\ ~Found(s) => SameOutput(s, v) /\ v.completed = s.completed + 1
         /\ Found(s) =>
              /\ v.sendq = queue_next(s.sendq)
              /\ v.wire = Append(s.wire, [chunk |-> queue_front(s.sendq).block[1],
                                          final |-> \/ queue_complete(queue_next(s.sendq))
                                                    \/ queue_closed(s.sendq)])
              /\ v.completed = IF queue_closed(queue_next(s.sendq)) THEN s.completed + 1
                               ELSE s.completed
<1> DEFINE q == queue_next(s.sendq)
           final == queue_complete(q) \/ queue_closed(s.sendq)
           piece == [chunk |-> queue_front(s.sendq).block[1], final |-> final]
           w == [s EXCEPT !.sendq = q, !.wire = Append(s.wire, piece)]
<1>1. s \in Sessions
  BY DEF Sound
<1>2. v = IF Found(s) THEN IF queue_closed(w.sendq) THEN [w EXCEPT !.completed = w.completed + 1]
                           ELSE w
          ELSE [s EXCEPT !.completed = s.completed + 1]
  <2>1. [[s EXCEPT !.sendq = queue_next(s.sendq)] EXCEPT
           !.wire = Append([s EXCEPT !.sendq = queue_next(s.sendq)].wire, piece)] = w
    BY <1>1 DEF Sessions
  <2>2. [s EXCEPT !.sendq = queue_next(s.sendq)].sendq = q
    BY <1>1 DEF Sessions
  <2> HIDE DEF w
  <2> QED BY <1>1, <2>1, <2>2 DEF http_server_writeable, Found, Sessions
<1> HIDE DEF q, piece
<1>3. CASE ~Found(s)
  <2>1. v = [s EXCEPT !.completed = s.completed + 1]
    BY <1>2, <1>3
  <2> QED BY <1>1, <1>3, <2>1 DEF Sessions, SamePending, SameOutput
<1>4. CASE Found(s)
  <2>1. /\ w.sendq = q /\ w.wire = Append(s.wire, piece) /\ w.completed = s.completed
        /\ SamePending(s, w) /\ w.wait_resolve = s.wait_resolve
        /\ w.made = s.made /\ w.aborted = s.aborted /\ w.generator = s.generator
    BY <1>1 DEF Sessions, SamePending
  <2>2. /\ v.sendq = q /\ v.wire = Append(s.wire, piece)
        /\ v.completed = IF queue_closed(q) THEN s.completed + 1 ELSE s.completed
        /\ SamePending(s, v) /\ v.wait_resolve = s.wait_resolve
        /\ v.made = s.made /\ v.aborted = s.aborted /\ v.generator = s.generator
    <3>1. CASE queue_closed(w.sendq)
      <4>1. v = [w EXCEPT !.completed = s.completed + 1]
        BY <1>2, <1>4, <2>1, <3>1
      <4> QED BY <1>1, <2>1, <3>1, <4>1 DEF Sessions, SamePending
    <3>2. CASE ~queue_closed(w.sendq)
      <4>1. v = w
        BY <1>2, <1>4, <3>2
      <4> HIDE DEF w
      <4> QED BY <2>1, <3>2, <4>1
    <3> QED BY <3>1, <3>2
  <2> QED BY <1>4, <2>2 DEF q, piece
<1> QED BY <1>3, <1>4

\* What a writable event finds: nothing is asked for any more, and the response is
\* of one of five shapes.
Due(s) ==
  /\ Sound(s) /\ Plain(s) /\ ~s.want_write /\ s.completed = 0 /\ s.wait_resolve =< 1
  /\ \/ s.promises = {} /\ s.sendq.items # <<>>
     \/ s.sendq.items = <<>> /\ s.body
     \/ s.promises = {} /\ s.sendq.items = <<>> /\ ~s.body /\ s.generator \in {"none", "ended"}

\* It goes on, or it is over.
Goes(t) == (On(t) /\ t.completed = 0) \/ (Over(t) /\ t.completed > 0)

\* The cases of AskAgain where a queue was found or a writable event is asked for.
LEMMA AskCases ==
  ASSUME NEW t, t.q # "none" \/ t.s.want_write, NEW had, NEW outcome, NEW garbage, NEW r,
         r = AskAgain(t, had, outcome, garbage)
  PROVE  ~had \/ queue_closed(t.s.sendq) => r = [s |-> t.s, failed |-> t.failed]
<1> DEFINE a == /\ had /\ ~t.s.want_write /\ t.s.wait_resolve = 0
                /\ ~queue_closed(t.s.sendq) /\ ~queue_complete(t.s.sendq)
           b == t.q = "none" /\ garbage /\ ~t.s.want_write
           turn == CloseWhenDone(serve_generator(t.s, outcome))
           stopped == [s |-> Abort(t.s, "null queue"), failed |-> FALSE]
           same == [s |-> t.s, failed |-> t.failed]
<1>1. r = CASE a -> turn [] b -> stopped [] OTHER -> same
  BY DEF AskAgain
<1>2. ~b /\ (~had \/ queue_closed(t.s.sendq) => ~a)
  OBVIOUS
<1> HIDE DEF a, b, turn, stopped, same
<1>3. ~a => r = same
  BY <1>1, <1>2
<1> QED BY <1>2, <1>3 DEF same

\* The iterator is asked for the next chunk when what there was has been written.
LEMMA AskNext ==
  ASSUME NEW t, NEW had, had, t.q # "none", ~t.s.want_write, t.s.wait_resolve = 0,
         queue_empty(t.s.sendq), NEW outcome, NEW garbage, NEW r,
         r = AskAgain(t, had, outcome, garbage)
  PROVE  r = CloseWhenDone(serve_generator(t.s, outcome))
<1> DEFINE a == /\ had /\ ~t.s.want_write /\ t.s.wait_resolve = 0
                /\ ~queue_closed(t.s.sendq) /\ ~queue_complete(t.s.sendq)
           b == t.q = "none" /\ garbage /\ ~t.s.want_write
           turn == CloseWhenDone(serve_generator(t.s, outcome))
           stopped == [s |-> Abort(t.s, "null queue"), failed |-> FALSE]
           same == [s |-> t.s, failed |-> t.failed]
<1>1. r = CASE a -> turn [] b -> stopped [] OTHER -> same
  BY DEF AskAgain
<1>2. a /\ ~b
  BY DEF queue_closed, queue_complete
<1> HIDE DEF a, b, turn, stopped, same
<1>3. r = turn
  BY <1>1, <1>2
<1> QED BY <1>3 DEF turn

\* What is more than something is not nothing.
LEMMA MoreThanSome == ASSUME NEW i \in Nat, NEW j \in Nat, i > j, j > 0 PROVE i > 0
OBVIOUS

\* A response that was completed is over once the event has done the rest.
LEMMA CompletedOver ==
  ASSUME NEW v, Sound(v), v.completed > 0, InOrder(v), v.aborted = "", Len(v.wire) = v.made,
         \A i \in 1 .. Len(v.wire) : v.wire[i].final => i = Len(v.wire),
         ~v.want_write, v.wait_resolve =< 1, NEW q
  PROVE  Over(FileCompletion(v, q)) /\ FileCompletion(v, q).completed > 0
<1> DEFINE t == FileCompletion(v, q)
<1>1. /\ Sound(t) /\ t.completed > v.completed
      /\ SameOutput(v, t) /\ SamePending(v, t) /\ t.wait_resolve = v.wait_resolve
  BY CompletionFields
<1> HIDE DEF t
<1>2. t.completed > 0
  <2>1. t.completed \in Nat /\ v.completed \in Nat
    BY <1>1 DEF Sound, Sessions
  <2>2. t.completed > v.completed
    BY <1>1
  <2> QED BY <2>1, <2>2, MoreThanSome
<1>3. Over(t)
  BY <1>1, <1>2 DEF Over, InOrder, SameOutput, SamePending
<1> QED BY <1>2, <1>3 DEF t

\* Nothing was queued: the response is asked for more or completed.
LEMMA EmptyGoes ==
  ASSUME NEW s, Due(s), s.sendq.items = <<>>, NEW outcome, NEW garbage, NEW had, ~had,
         NEW r, r = AskAgain(WriteChunk(FillQueue(s, outcome)), had, outcome, garbage)
  PROVE  Goes(r.s)
<1>1. /\ Sound(s) /\ Plain(s) /\ ~s.want_write /\ s.completed = 0 /\ s.wait_resolve =< 1
      /\ s.sendq \in Queues /\ queue_empty(s.sendq)
  BY DEF Due, Sound, Sessions, queue_empty
<1>t. PICK t : t = FillQueue(s, outcome)
  OBVIOUS
<1>w. PICK w : w = WriteChunk(t)
  OBVIOUS
<1>r. r = AskAgain(w, had, outcome, garbage)
  BY <1>t, <1>w
<1>2. CASE s.body
  <2> DEFINE v == http_server_writeable(s)
  <2>1. session_queue(s) = "body"
    BY <1>1, <1>2 DEF session_queue
  <2>2. t = [s |-> s, q |-> "body", failed |-> FALSE]
    BY <1>t, <2>1 DEF FillQueue
  <2>3. ~Found(s)
    BY <2>1 DEF Found
  <2>4. SamePending(s, v) /\ SameOutput(s, v) /\ v.completed = 1 /\ v.wait_resolve = s.wait_resolve
    <3>1. /\ SamePending(s, v) /\ SameOutput(s, v) /\ v.completed = s.completed + 1
          /\ v.wait_resolve = s.wait_resolve
      BY <1>1, <2>3, WriteableFields
    <3> HIDE DEF v
    <3> QED BY <1>1, <3>1
  <2> HIDE DEF v
  <2>5. Sound(v)
    BY <1>1, WrittenKept DEF v
  <2>6. w.q = "body" /\ w.s = FileCompletion(v, "body")
    <3>1. /\ t = [s |-> t.s, q |-> t.q, failed |-> t.failed] /\ Sound(t.s)
          /\ t.s = s /\ t.q = "body"
      BY <1>1, <2>2
    <3>2. v = http_server_writeable(t.s) /\ v.completed # t.s.completed
      BY <1>1, <2>4, <3>1 DEF v
    <3> QED BY <1>w, <3>1, <3>2, ChunkKept
  <2>7. r = [s |-> w.s, failed |-> w.failed]
    BY <1>r, <2>6, AskCases
  <2>8. r.s = w.s
    BY <2>7
  <2>9. Plain(v)
    BY <1>1, <2>4, PlainAs
  <2>10. Len(v.wire) = v.made
    <3>1. \A a, b : <<>> # <<a>> /\ <<>> # <<a, b>>
      OBVIOUS
    <3>2. Len(s.wire) = s.made
      BY <1>1, <3>1 DEF Plain, InOrder
    <3> QED BY <2>4, <3>2 DEF SameOutput
  <2>11. ~v.want_write /\ v.wait_resolve =< 1
    BY <1>1, <2>4 DEF SamePending
  <2>12. InOrder(v) /\ v.aborted = "" /\ \A i \in 1 .. Len(v.wire) : ~v.wire[i].final
    BY <2>9 DEF Plain
  <2>13. Over(w.s) /\ w.s.completed > 0
    <3>1. v.completed = 1
      BY <2>4
    <3>2. \A i \in 1 .. Len(v.wire) : v.wire[i].final => i = Len(v.wire)
      BY <2>12
    <3>3. InOrder(v) /\ v.aborted = ""
      BY <2>12
    <3>4. v.completed > 0
      BY <3>1
    <3> QED BY <2>5, <2>6, <2>10, <2>11, <3>2, <3>3, <3>4, CompletedOver
  <2> QED BY <2>8, <2>13 DEF Goes
<1>3. CASE ~s.body
  <2> DEFINE v == session_want_write(s)
             g == serve_generator(s, outcome)
             turn == IteratorTurn(s, outcome)
  <2>1. s.promises = {} /\ s.generator \in {"none", "ended"} /\ s.wait_resolve = 0
    BY <1>1, <1>3, NoPromises DEF Due
  <2>2. session_queue(s) = "none"
    BY <1>1, <1>3 DEF session_queue
  <2>3. /\ SameOutput(s, v) /\ v.promises = {} /\ v.generator = s.generator /\ v.body = s.body
        /\ v.want_write /\ v.armed
    BY <1>1, <2>1, WantFields
  <2>4. g.s = v /\ g.done
    <3>1. turn = [s |-> s, done |-> TRUE, failed |-> FALSE]
      BY <2>1 DEF IteratorTurn
    <3>2. ~queue_complete(s.sendq)
      BY <1>1 DEF queue_complete
    <3> DEFINE wants == turn.s.wait_resolve = 0 /\ (turn.done \/ queue_bytes(turn.s.sendq) > 0)
    <3>3. g = [turn EXCEPT !.s = IF wants THEN session_want_write(turn.s) ELSE turn.s]
      BY <2>1, <3>2 DEF serve_generator
    <3>4. turn.s = s /\ turn.done /\ wants
      BY <2>1, <3>1
    <3> HIDE DEF turn, wants
    <3>5. g = [turn EXCEPT !.s = v]
      BY <3>3, <3>4
    <3> HIDE DEF g, v
    <3> QED BY <3>1, <3>4, <3>5
  <2>5. t = AfterTurn(g)
    BY <1>t, <2>1, <2>2 DEF FillQueue
  <2> HIDE DEF v, g, turn
  <2>6. session_queue(v) = "none"
    BY <1>1, <1>3, <2>3 DEF session_queue, SameOutput
  <2>7. t.s = v /\ t.q = "none"
    BY <2>4, <2>5, <2>6 DEF AfterTurn
  <2>8. w = t
    BY <1>w, <2>7 DEF WriteChunk
  <2>9. r = [s |-> w.s, failed |-> w.failed]
    BY <1>r, <2>3, <2>7, <2>8, AskCases
  <2>10. Plain(v)
    BY <1>1, <2>3, PlainAs
  <2>11. On(v)
    BY <2>1, <2>3, <2>10, OnWanted
  <2>12. v.completed = 0
    BY <1>1, WantKept DEF Kept, v
  <2> QED BY <2>7, <2>8, <2>9, <2>11, <2>12 DEF Goes
<1> QED BY <1>2, <1>3

\* Something was queued: a chunk is written, and the iterator is asked for the next
\* one unless the end is behind it; or the end has been reached.
LEMMA QueuedGoes ==
  ASSUME NEW s, Due(s), s.sendq.items # <<>>, NEW outcome \in AllOutcomes, NEW garbage,
         NEW had, had <=> Found(s),
         NEW r, r = AskAgain(WriteChunk(FillQueue(s, outcome)), had, outcome, garbage)
  PROVE  Goes(r.s)
<1> DEFINE c == Item(<<s.made>>)
           front == queue_front(s.sendq)
           final == queue_complete(queue_next(s.sendq)) \/ queue_closed(s.sendq)
           piece == [chunk |-> front.block[1], final |-> final]
           v == http_server_writeable(s)
<1>1. /\ Sound(s) /\ Plain(s) /\ ~s.want_write /\ s.completed = 0 /\ s.promises = {}
      /\ s.sendq \in Queues /\ Ordered(s.sendq.items) /\ ~queue_empty(s.sendq)
      /\ s.made \in Nat /\ s.wire \in Seq(Written) /\ s.sendq.items \in Seq(Items)
  BY DEF Due, Sound, Sessions, Queues, queue_empty
<1>2. s.wait_resolve = 0
  BY <1>1, NoPromises
<1>3. /\ c \in Items /\ ~c.done /\ c.block = <<s.made>> /\ Len(c.block) = 1
      /\ EndItem \in Items /\ EndItem.done /\ EndItem.block = <<>>
  BY <1>1, Things
<1> HIDE DEF c
<1>4. \/ s.sendq.items = <<EndItem>> /\ Len(s.wire) = s.made
      \/ s.sendq.items \in {<<c>>, <<c, EndItem>>} /\ Len(s.wire) + 1 = s.made
  BY DEF Due, Plain, InOrder, c
<1>5. session_queue(s) = "sendq"
  BY <1>1 DEF session_queue
<1>t. PICK t : t = FillQueue(s, outcome)
  OBVIOUS
<1>w. PICK w : w = WriteChunk(t)
  OBVIOUS
<1>r. r = AskAgain(w, had, outcome, garbage)
  BY <1>t, <1>w
<1>6. t = [s |-> s, q |-> "sendq", failed |-> FALSE]
  BY <1>t, <1>5 DEF FillQueue
<1>7. w.q = "sendq" /\ w.s = IF v.completed = 0 THEN v ELSE FileCompletion(v, "sendq")
  <2>1. /\ t = [s |-> t.s, q |-> t.q, failed |-> t.failed] /\ Sound(t.s)
        /\ t.s = s /\ t.q = "sendq" /\ t.s.completed = 0
    BY <1>1, <1>6
  <2> QED BY <1>w, <2>1, ChunkKept DEF v
<1>8. /\ SamePending(s, v) /\ v.wait_resolve = 0
      /\ v.made = s.made /\ v.aborted = s.aborted /\ v.generator = s.generator
      /\ ~Found(s) => SameOutput(s, v) /\ v.completed = s.completed + 1
      /\ Found(s) =>
           /\ v.sendq = queue_next(s.sendq) /\ v.wire = Append(s.wire, piece)
           /\ v.completed = IF queue_closed(queue_next(s.sendq)) THEN s.completed + 1
                            ELSE s.completed
  BY <1>1, <1>2, WriteableFields, ZenonT(60)
<1>9. Sound(v)
  BY <1>1, WrittenKept
<1> HIDE DEF v
<1>11. CASE s.sendq.items = <<EndItem>>
  <2>1. queue_bytes(s.sendq) = 0
    BY <1>1, <1>3, <1>11, QueueData
  <2>2. ~Found(s)
    BY <2>1 DEF Found
  <2>3. SameOutput(s, v) /\ v.completed = 1
    BY <1>1, <1>8, <2>2
  <2>4. r = [s |-> w.s, failed |-> w.failed]
    BY <1>r, <1>7, <2>2, AskCases
  <2>5. Len(v.wire) = v.made
    BY <1>3, <1>4, <1>11, <2>3 DEF SameOutput
  <2>6. Plain(v)
    BY <1>1, <2>3, PlainAs
  <2>7. ~v.want_write /\ v.wait_resolve =< 1
    BY <1>1, <1>8 DEF SamePending
  <2>8. InOrder(v) /\ v.aborted = "" /\ \A i \in 1 .. Len(v.wire) : ~v.wire[i].final
    BY <2>6 DEF Plain
  <2>9. Over(w.s) /\ w.s.completed > 0
    <3>0. v.completed = 1
      BY <2>3
    <3>1. v.completed > 0 /\ v.completed # 0
      BY <3>0
    <3>4. InOrder(v) /\ v.aborted = ""
      BY <2>8
    <3>2. \A i \in 1 .. Len(v.wire) : v.wire[i].final => i = Len(v.wire)
      BY <2>8
    <3>3. w.s = FileCompletion(v, "sendq")
      BY <1>7, <3>1
    <3> QED BY <1>9, <2>5, <2>7, <3>1, <3>2, <3>3, <3>4, CompletedOver
  <2>10. r.s = w.s
    BY <2>4
  <2> QED BY <2>9, <2>10 DEF Goes
<1>12. ASSUME s.sendq.items \in {<<c>>, <<c, EndItem>>}
       PROVE  /\ Found(s) /\ front = c /\ piece.chunk = s.made /\ piece \in Written
              /\ v.sendq.items = Tail(s.sendq.items) /\ v.wire = Append(s.wire, piece)
              /\ v.completed = IF queue_closed(v.sendq) THEN 1 ELSE 0
              /\ Len(s.wire) + 1 = s.made /\ ~queue_closed(s.sendq)
              /\ final <=> queue_complete(v.sendq)
  <2>1. queue_bytes(s.sendq) = 1
    BY <1>1, <1>3, <1>12, QueueData
  <2>2. Found(s)
    BY <1>5, <2>1 DEF Found
  <2>3. front = c
    BY <1>12 DEF queue_front
  <2>4. queue_next(s.sendq).items = Tail(s.sendq.items)
    BY <1>1, <2>2, FoundChunk
  <2>5. ~queue_closed(s.sendq)
    BY <1>3, <2>3 DEF queue_closed
  <2>6. v.sendq = queue_next(s.sendq) /\ v.wire = Append(s.wire, piece)
        /\ v.completed = IF queue_closed(queue_next(s.sendq)) THEN 1 ELSE 0
    BY <1>1, <1>8, <2>2
  <2>7. Len(s.wire) + 1 = s.made
    <3>1. EndItem # c /\ <<EndItem>> # <<c, EndItem>> /\ (<<EndItem>> = <<c>> => EndItem = c)
      BY <1>3
    <3> QED BY <1>4, <1>12, <3>1
  <2>8. piece.chunk = s.made /\ piece \in Written
    BY <1>1, <1>3, <2>3 DEF Written
  <2>9. final <=> queue_complete(v.sendq)
    BY <2>5, <2>6
  <2> QED BY <2>2, <2>3, <2>4, <2>5, <2>6, <2>7, <2>8, <2>9
<1>13. ASSUME s.sendq.items \in {<<c>>, <<c, EndItem>>}
       PROVE  /\ Len(v.wire) = v.made
              /\ \A i \in 1 .. Len(v.wire) : v.wire[i].chunk = i
              /\ \A i \in 1 .. Len(v.wire) : v.wire[i].final => i = Len(v.wire) /\ final
              /\ v.aborted = ""
  <2>1. /\ piece.chunk = s.made /\ piece \in Written /\ v.wire = Append(s.wire, piece)
        /\ Len(s.wire) + 1 = s.made
    BY <1>12, <1>13
  <2>2. /\ \A i \in 1 .. Len(s.wire) : s.wire[i].chunk = i /\ ~s.wire[i].final
        /\ s.aborted = ""
    BY <1>1 DEF Plain, InOrder
  <2>3. piece.final <=> final
    OBVIOUS
  <2> HIDE DEF piece, final
  <2>4. /\ Len(v.wire) = Len(s.wire) + 1 /\ Len(s.wire) \in Nat
        /\ \A i \in 1 .. Len(s.wire) : v.wire[i] = s.wire[i]
        /\ v.wire[Len(s.wire) + 1] = piece
    BY <1>1, <2>1, AppendProperties
  <2>5. ASSUME NEW i \in 1 .. Len(v.wire)
        PROVE  v.wire[i].chunk = i /\ (v.wire[i].final => i = Len(v.wire) /\ final)
    <3>1. CASE i \in 1 .. Len(s.wire)
      BY <2>2, <2>4, <3>1
    <3>2. CASE i = Len(s.wire) + 1
      BY <2>1, <2>3, <2>4, <3>2
    <3> QED BY <2>4, <3>1, <3>2
  <2> QED BY <1>8, <2>1, <2>2, <2>4, <2>5
<1> HIDE DEF piece, final
<1>14. CASE s.sendq.items = <<c>>
  <2>1. Tail(<<c>>) = <<>>
    OBVIOUS
  <2>2. v.sendq.items = <<>>
    BY <1>12, <1>14, <2>1
  <2>3. ~queue_closed(v.sendq) /\ ~queue_complete(v.sendq) /\ queue_empty(v.sendq)
    BY <2>2 DEF queue_closed, queue_complete, queue_empty
  <2>4. v.completed = 0 /\ ~final /\ Found(s)
    BY <1>12, <1>14, <2>3
  <2>5. w.s = v /\ w.q = "sendq"
    BY <1>7, <2>4
  <2>6. Calm(v)
    <3>1. InOrder(v)
      BY <1>13, <1>14, <2>2 DEF InOrder
    <3>2. Plain(v)
      BY <1>13, <1>14, <2>4, <3>1 DEF Plain
    <3> QED BY <1>1, <1>8, <1>9, <2>2, <3>2 DEF Calm, SamePending
  <2>7. r = CloseWhenDone(serve_generator(v, outcome))
    <3>1. ~w.s.want_write /\ w.s.wait_resolve = 0 /\ queue_empty(w.s.sendq) /\ had
      BY <1>1, <1>8, <2>3, <2>4, <2>5 DEF SamePending
    <3>2. w.q # "none"
      BY <2>5
    <3>3. r = CloseWhenDone(serve_generator(w.s, outcome))
      BY <1>r, <3>1, <3>2, AskNext
    <3> QED BY <2>5, <3>3
  <2> DEFINE g == serve_generator(v, outcome)
  <2>8. /\ ~g.done => On(g.s)
        /\ g.done => On(Close(g.s))
    BY <2>6, TurnOn, TurnDone
  <2>9. Kept(v, g.s) /\ g.done \in BOOLEAN
    BY <1>9, GeneratorKept
  <2> HIDE DEF g
  <2>10. Kept(g.s, Close(g.s))
    BY <2>9, CloseKept DEF Kept
  <2>11. r.s = IF g.done THEN Close(g.s) ELSE g.s
    BY <2>7 DEF CloseWhenDone, g
  <2>12. r.s.completed = 0
    BY <2>4, <2>9, <2>10, <2>11 DEF Kept
  <2> QED BY <2>8, <2>9, <2>11, <2>12 DEF Goes
<1>15. CASE s.sendq.items = <<c, EndItem>>
  <2>1. Tail(<<c, EndItem>>) = <<EndItem>>
    OBVIOUS
  <2>2. v.sendq.items = <<EndItem>>
    BY <1>12, <1>15, <2>1
  <2>3. queue_closed(v.sendq)
    BY <1>3, <2>2 DEF queue_closed, queue_empty, queue_front
  <2>4. v.completed = 1
    BY <1>12, <1>15, <2>3
  <2>5. w.s.sendq = v.sendq
    BY <1>7, <1>9, CompletionFields DEF SameOutput
  <2>6. r = [s |-> w.s, failed |-> w.failed]
    BY <1>r, <1>7, <2>3, <2>5, AskCases
  <2>7. InOrder(v)
    BY <1>13, <1>15, <2>2 DEF InOrder
  <2>8. ~v.want_write /\ v.wait_resolve =< 1
    BY <1>1, <1>8 DEF SamePending
  <2>9. Over(w.s) /\ w.s.completed > 0
    <3>1. v.completed > 0 /\ v.completed # 0
      BY <2>4
    <3>2. /\ Len(v.wire) = v.made /\ v.aborted = ""
          /\ \A i \in 1 .. Len(v.wire) : v.wire[i].final => i = Len(v.wire)
      BY <1>13, <1>15
    <3>3. w.s = FileCompletion(v, "sendq")
      BY <1>7, <3>1
    <3> QED BY <1>9, <2>7, <2>8, <3>1, <3>2, <3>3, CompletedOver
  <2>10. r.s = w.s
    BY <2>6
  <2> QED BY <2>9, <2>10 DEF Goes
<1> QED BY <1>4, <1>11, <1>14, <1>15

\* The writable event of a response to a GET.
LEMMA EventGoes ==
  ASSUME NEW s, Sound(s), On(s), s.completed = 0,
         s.want_write \/ QueueComplete(s, session_queue(s)),
         NEW outcome \in AllOutcomes, NEW garbage, NEW r,
         r = WriteResponse(session_want_write([s EXCEPT !.armed = FALSE]), outcome, garbage)
  PROVE  Goes(r.s)
<1> DEFINE a == [s EXCEPT !.armed = FALSE]
           b == session_want_write(a)
           d == [b EXCEPT !.want_write = FALSE, !.response_sent = TRUE]
           had == session_queue(d) = "sendq" /\ queue_bytes(d.sendq) > 0
<1>1. s \in Sessions
  BY DEF Sound
<1>2. /\ a \in Sessions /\ SameOutput(s, a) /\ a.promises = s.promises /\ a.serial = s.serial
      /\ a.wait_resolve = s.wait_resolve /\ a.generator = s.generator /\ a.body = s.body
      /\ a.completed = 0
  BY <1>1 DEF Sessions, SameOutput
<1> HIDE DEF a
<1>3. Sound(a)
  BY <1>2, SoundAs DEF SameOutput
<1>4. /\ SameOutput(a, b) /\ b.promises = a.promises /\ b.generator = a.generator
      /\ b.body = a.body /\ b.wait_resolve = a.wait_resolve /\ Sound(b) /\ b.completed = 0
  BY <1>2, <1>3, WantFields, WantKept DEF Kept
<1> HIDE DEF b
<1>5. /\ d \in Sessions /\ SameOutput(b, d) /\ d.promises = b.promises /\ d.serial = b.serial
      /\ d.wait_resolve = b.wait_resolve /\ d.generator = b.generator /\ d.body = b.body
      /\ d.completed = 0 /\ ~d.want_write
  <2>1. b \in Sessions
    BY <1>4 DEF Sound
  <2> QED BY <1>4, <2>1 DEF Sessions, SameOutput
<1>6. r = AskAgain(WriteChunk(FillQueue(d, outcome)), had, outcome, garbage)
  BY DEF WriteResponse, a, b
<1>7. had <=> Found(d)
  BY DEF Found
<1> HIDE DEF d, had
<1>8. Sound(d)
  BY <1>4, <1>5, SoundAs DEF SameOutput
<1>9. /\ SameOutput(s, d) /\ d.promises = s.promises /\ d.generator = s.generator
      /\ d.body = s.body /\ d.wait_resolve = s.wait_resolve
  BY <1>2, <1>4, <1>5 DEF SameOutput
<1>10. Plain(s)
  BY DEF On, Plain
<1>11. Plain(d)
  BY <1>9, <1>10, PlainAs
<1>12. s.wait_resolve =< 1
  BY OnOver DEF Over
<1>13. Due(d)
  <2>1. CASE s.want_write
    BY <1>5, <1>8, <1>9, <1>11, <1>12, <2>1 DEF On, Due, SameOutput
  <2>2. CASE ~s.want_write
    <3>1. s.sendq.items = <<>>
      BY <2>2 DEF On
    <3>2. s.body
      BY <2>2, <3>1 DEF QueueComplete, session_queue, queue_empty
    <3> QED BY <1>5, <1>8, <1>9, <1>11, <1>12, <3>1, <3>2 DEF Due, SameOutput
  <2> QED BY <2>1, <2>2
<1>14. CASE d.sendq.items = <<>>
  <2>1. ~Found(d)
    BY <1>14 DEF Found, session_queue, queue_empty
  <2> QED BY <1>6, <1>7, <1>13, <1>14, <2>1, EmptyGoes
<1>15. CASE d.sendq.items # <<>>
  BY <1>6, <1>7, <1>13, <1>15, QueuedGoes
<1> QED BY <1>14, <1>15

-----------------------------------------------------------------------------
\* The inductive invariant.

\* The session at the start.
LEMMA ZeroSound == Sound(session_zero)
<1>1. queue_zero \in Queues /\ Ordered(queue_zero.items)
  <2>1. <<>> \in Seq(Items) /\ \A i \in 1 .. Len(<<>>) : FALSE
    OBVIOUS
  <2> QED BY <2>1 DEF queue_zero, Queues, Ordered
<1>2. session_zero.sendq = queue_zero /\ session_zero.promises = {}
      /\ session_zero.serial = 0 /\ session_zero.wait_resolve = 0
  BY DEF session_zero
<1>3. session_zero \in Sessions
  <2>1. <<>> \in Seq(Written) /\ 0 \in Nat
    OBVIOUS
  <2> QED BY <1>1, <2>1 DEF session_zero, Sessions, Places
<1>4. IsFiniteSet({}) /\ Cardinality({}) = 0
  BY FS_EmptySet
<1> QED BY <1>1, <1>2, <1>3, <1>4 DEF Sound

\* It holds at first.
LEMMA InitIInv == Init => IInv
<1> SUFFICES ASSUME Init PROVE IInv
  OBVIOUS
<1>1. Sound(session_zero) /\ session_zero.completed = 0
  BY ZeroSound DEF session_zero
<1> QED BY <1>1 DEF Init, IInv, AllHandlers

\* What the iterators of the instance give.
LEMMA AllowedGives == Allowed \subseteq AllOutcomes
BY ConstantsAssumption DEF Allowed

\* A request keeps it.
LEMMA RequestKeeps == IInv /\ Request => IInv'
<1> SUFFICES ASSUME IInv, Request PROVE IInv'
  OBVIOUS
<1>1. PICK m \in Methods, kind \in Handlers, outcome \in Allowed :
        LET r == serve_callback(h, kind, outcome)
        IN  /\ method' = m /\ handler' = kind /\ h' = r.s
            /\ conn' = CASE r.failed -> "closed"
                         [] ~r.failed /\ m = "POST" -> "body"
                         [] OTHER -> "open"
  BY DEF Request
<1> DEFINE r == serve_callback(h, kind, outcome)
<1>2. kind \in AllHandlers /\ m \in {"GET", "POST"} /\ outcome \in AllOutcomes
  BY ConstantsAssumption, AllowedGives
<1>3. Sound(h) /\ h = session_zero /\ h.completed = 0
  BY DEF IInv, Request
<1>4. Kept(h, r.s) /\ r.failed \in BOOLEAN
  BY <1>2, <1>3, CallbackKept
<1>5. On(r.s)
  BY <1>2, <1>3, CallbackOn
<1>6. /\ method' = m /\ handler' = kind /\ h' = r.s
      /\ conn' = CASE r.failed -> "closed"
                   [] ~r.failed /\ m = "POST" -> "body"
                   [] OTHER -> "open"
  BY <1>1
<1> HIDE DEF r
<1>7. Sound(h') /\ h'.completed = 0 /\ On(h')
  BY <1>3, <1>4, <1>5, <1>6 DEF Kept
<1>8. Over(h')
  BY <1>7, OnOver
<1>9. conn' \in {"closed", "body", "open"} /\ (conn' = "body" => m = "POST")
  BY <1>4, <1>6
<1> QED BY <1>2, <1>6, <1>7, <1>8, <1>9 DEF IInv

\* The end of a request's body keeps it.
LEMMA BodyCompletionKeeps == IInv /\ BodyCompletion => IInv'
<1> SUFFICES ASSUME IInv, BodyCompletion PROVE IInv'
  OBVIOUS
<1>1. PICK outcome \in Allowed : h' = session_want_write(serve_callback(h, handler, outcome).s)
  BY DEF BodyCompletion
<1>2. /\ conn = "body" /\ conn' = "open" /\ method' = method /\ handler' = handler
      /\ method = "POST" /\ Sound(h) /\ h.completed = 0 /\ handler \in AllHandlers
  BY DEF BodyCompletion, IInv
<1> DEFINE t == serve_callback(h, handler, outcome).s
<1>3. Kept(h, t)
  BY <1>2, CallbackKept
<1> HIDE DEF t
<1>4. Kept(t, session_want_write(t))
  BY <1>3, WantKept DEF Kept
<1>5. Sound(h') /\ h'.completed = 0
  BY <1>1, <1>2, <1>3, <1>4 DEF Kept, t
<1> QED BY <1>2, <1>5 DEF IInv

\* The writable event keeps it.
LEMMA WriteableKeeps == IInv /\ Writeable => IInv'
<1> SUFFICES ASSUME IInv, Writeable PROVE IInv'
  OBVIOUS
<1> DEFINE asked == [h EXCEPT !.armed = FALSE]
<1>1. /\ conn \in {"body", "open"} /\ method' = method /\ handler' = handler
      /\ method \in {"GET", "POST"} /\ handler \in AllHandlers
      /\ conn = "body" => method = "POST"
      /\ Sound(h) /\ h.completed = 0 /\ h \in Sessions
      /\ method = "GET" => conn = "open" /\ On(h)
  BY DEF Writeable, IInv, Sound
<1>2. /\ asked \in Sessions /\ SameOutput(h, asked) /\ asked.promises = h.promises
      /\ asked.serial = h.serial /\ asked.wait_resolve = h.wait_resolve
      /\ asked.completed = 0 /\ asked.want_write = h.want_write
      /\ asked.generator = h.generator /\ asked.ignored = h.ignored
  BY <1>1 DEF Sessions, SameOutput
<1> HIDE DEF asked
<1>3. Sound(asked)
  BY <1>1, <1>2, SoundAs DEF SameOutput
<1>4. CASE h.want_write \/ QueueComplete(h, session_queue(h))
  <2>1. PICK outcome \in Allowed, garbage \in BOOLEAN :
          LET r == WriteResponse(session_want_write(asked), outcome, garbage)
          IN  /\ h' = r.s
              /\ conn' = CASE r.s.completed > 0 -> "completed"
                           [] r.s.completed = 0 /\ r.failed -> "closed"
                           [] OTHER -> conn
    BY <1>4 DEF Writeable, asked
  <2>2. PICK r : r = WriteResponse(session_want_write(asked), outcome, garbage)
    OBVIOUS
  <2>3. /\ h' = r.s
        /\ conn' = CASE r.s.completed > 0 -> "completed"
                     [] r.s.completed = 0 /\ r.failed -> "closed"
                     [] OTHER -> conn
    BY <2>1, <2>2
  <2>4. Kept(asked, session_want_write(asked))
    BY <1>3, WantKept
  <2>5. Sound(r.s) /\ r.s.completed \in Nat /\ r.failed \in BOOLEAN
    <3> DEFINE b == session_want_write(asked)
    <3>1. Sound(b) /\ r = WriteResponse(b, outcome, garbage)
      BY <2>2, <2>4 DEF Kept
    <3> HIDE DEF b
    <3>2. Sound(r.s) /\ r.failed \in BOOLEAN
      BY <3>1, ResponseKept
    <3> QED BY <3>2 DEF Sound, Sessions
  <2>6. method = "GET" => Goes(r.s)
    <3>1. outcome \in AllOutcomes
      BY AllowedGives
    <3> QED BY <1>1, <1>4, <2>2, <3>1, EventGoes DEF asked
  <2>7. CASE r.s.completed > 0
    <3>1. conn' = "completed" /\ Sound(h') /\ h'.completed # 0
      BY <2>3, <2>5, <2>7
    <3>2. method = "GET" => Over(h')
      BY <2>3, <2>6, <2>7 DEF Goes
    <3> QED BY <1>1, <3>1, <3>2 DEF IInv
  <2>8. CASE r.s.completed = 0
    <3>1. /\ conn' \in {"closed", conn} /\ Sound(h') /\ h'.completed = 0
          /\ ~(r.s.completed > 0)
      BY <2>3, <2>5, <2>8
    <3>2. method = "GET" => On(h')
      BY <2>3, <2>6, <3>1 DEF Goes
    <3>3. method = "GET" => Over(h')
      BY <3>1, <3>2, OnOver
    <3> QED BY <1>1, <3>1, <3>2, <3>3 DEF IInv
  <2> QED BY <2>5, <2>7, <2>8
<1>5. CASE ~(h.want_write \/ QueueComplete(h, session_queue(h)))
  <2>1. h' = asked /\ conn' = conn
    BY <1>5 DEF Writeable, asked
  <2>2. On(h) => On(asked)
    BY <1>2, <1>5 DEF On, InOrder, SameOutput
  <2> QED BY <1>1, <1>2, <1>3, <2>1, <2>2 DEF IInv
<1> QED BY <1>4, <1>5

\* A promise that settles keeps it.
LEMMA SettleKeeps == IInv /\ Settle => IInv'
<1> SUFFICES ASSUME IInv, Settle PROVE IInv'
  OBVIOUS
<1>1. /\ conn \in {"body", "open"} /\ conn' = conn /\ method' = method /\ handler' = handler
      /\ method \in {"GET", "POST"} /\ handler \in AllHandlers
      /\ conn = "body" => method = "POST"
      /\ Sound(h) /\ h.completed = 0
      /\ method = "GET" => conn = "open" /\ On(h)
  BY DEF Settle, IInv
<1>2. PICK p \in h.promises, given \in AllOutcomes \cup AllResults :
        /\ given \in Given(p)
        /\ h' = IF given = "throw" THEN serve_rejected(h, p) ELSE serve_resolved(h, p, given)
  BY DEF Settle
<1>3. Kept(h, h')
  BY <1>1, <1>2, RejectedKept, ResolvedKept
<1>4. method = "GET" => On(h')
  BY <1>1, <1>2, SettleOn
<1> QED BY <1>1, <1>3, <1>4 DEF IInv, Kept

\* A connection that is lost keeps it.
LEMMA DisconnectKeeps == IInv /\ Disconnect => IInv'
<1> SUFFICES ASSUME IInv, Disconnect PROVE IInv'
  OBVIOUS
<1>1. /\ conn \in {"body", "open"} /\ conn' = "closed" /\ UNCHANGED <<h, method, handler>>
      /\ method \in {"GET", "POST"} /\ handler \in AllHandlers
      /\ Sound(h) /\ h.completed = 0
      /\ method = "GET" => On(h)
  BY DEF Disconnect, IInv
<1>2. method = "GET" => Over(h)
  BY <1>1, OnOver
<1> QED BY <1>1, <1>2 DEF IInv

\* Every step keeps it.
LEMMA NextIInv == IInv /\ [Next]_vars => IInv'
<1> SUFFICES ASSUME IInv, [Next]_vars PROVE IInv'
  OBVIOUS
<1>1. CASE UNCHANGED vars
  BY <1>1 DEF vars, IInv
<1> QED
  BY <1>1, RequestKeeps, BodyCompletionKeeps, WriteableKeeps, SettleKeeps, DisconnectKeeps
     DEF Next

\* Every reachable state has it.
THEOREM Invariance == Spec => []IInv
BY InitIInv, NextIInv, PTL DEF Spec

-----------------------------------------------------------------------------
\* The properties.

\* The chunks on the wire and in the queue are those that were made.
LEMMA WireData ==
  ASSUME NEW s, Sound(s), InOrder(s)
  PROVE  [i \in 1 .. Len(s.wire) |-> s.wire[i].chunk] \o queue_data(s.sendq)
           = [i \in 1 .. s.made |-> i]
<1> DEFINE n == Len(s.wire)
           a == [i \in 1 .. n |-> s.wire[i].chunk]
           d == queue_data(s.sendq)
           b == [i \in 1 .. s.made |-> i]
           c == Item(<<s.made>>)
<1>1. s.sendq \in Queues /\ s.made \in Nat /\ n \in Nat
  BY DEF Sound, Sessions
<1>2. \A i \in 1 .. n : a[i] = i
  BY DEF InOrder
<1>3. a \in Seq(Nat) /\ Len(a) = n
  <2>1. \A i \in 1 .. n : s.wire[i].chunk \in Nat
    BY <1>1 DEF InOrder
  <2> HIDE DEF n
  <2> QED BY <1>1, <2>1
<1>4. b \in Seq(Nat) /\ Len(b) = s.made /\ \A i \in 1 .. s.made : b[i] = i
  BY <1>1
<1>5. \/ d = <<>> /\ n = s.made
      \/ d = <<s.made>> /\ n + 1 = s.made
  <2>1. /\ c \in Items /\ c.block = <<s.made>>
        /\ EndItem \in Items /\ EndItem.block = <<>>
    BY <1>1, Things
  <2> HIDE DEF c, d
  <2>2. CASE s.sendq.items \in {<<>>, <<EndItem>>} /\ n = s.made
    <3>1. d = <<>>
      BY <1>1, <2>1, <2>2, QueueData DEF d
    <3> QED BY <2>2, <3>1
  <2>3. CASE s.sendq.items \in {<<c>>, <<c, EndItem>>} /\ n + 1 = s.made
    <3>1. d = <<s.made>>
      BY <1>1, <2>1, <2>3, QueueData DEF d
    <3> QED BY <2>3, <3>1
  <2> QED BY <2>2, <2>3 DEF InOrder, c
<1> HIDE DEF a, b, d, n
<1>6. CASE d = <<>> /\ n = s.made
  <2>1. a \o d = a
    BY <1>3, <1>6
  <2>2. a = b
    BY <1>2, <1>3, <1>4, <1>6, SMTT(60)
  <2> QED BY <2>1, <2>2 DEF a, b, d, n
<1>7. CASE d = <<s.made>> /\ n + 1 = s.made
  <2>1. d \in Seq(Nat) /\ Len(d) = 1 /\ d[1] = s.made
    BY <1>1, <1>7
  <2> DEFINE e == a \o d
  <2>2. /\ e \in Seq(Nat) /\ Len(e) = n + 1
        /\ \A i \in 1 .. n + 1 : e[i] = IF i =< n THEN a[i] ELSE d[i - n]
    <3>1. /\ e \in Seq(Nat) /\ Len(e) = Len(a) + Len(d)
          /\ \A i \in 1 .. Len(a) + Len(d) : e[i] = IF i =< Len(a) THEN a[i] ELSE d[i - Len(a)]
      BY <1>3, <2>1, ConcatProperties
    <3> HIDE DEF e
    <3> QED BY <1>1, <1>3, <2>1, <3>1
  <2> HIDE DEF e
  <2>3. ASSUME NEW i \in 1 .. s.made PROVE e[i] = i
    <3>1. CASE i \in 1 .. n
      BY <1>1, <1>2, <1>7, <2>2, <3>1
    <3>2. CASE i = n + 1
      <4>1. e[i] = d[i - n] /\ i - n = 1
        BY <1>1, <1>7, <2>2, <3>2
      <4> QED BY <1>7, <2>1, <3>2, <4>1
    <3> QED BY <1>1, <1>7, <3>1, <3>2
  <2>4. e = b
    BY <1>4, <1>7, <2>2, <2>3, SMTT(60)
  <2> QED BY <2>4 DEF a, b, d, e, n
<1> QED BY <1>5, <1>6, <1>7

\* wait_resolve is the number of promises that will still call back, whatever the
\* method; a response to a GET that asked for a writable event waits for none, and
\* never for two.
THEOREM WaitsForItsPromisesHolds == Spec => []WaitsForItsPromises
<1>1. IInv => WaitsForItsPromises
  <2> SUFFICES ASSUME IInv PROVE WaitsForItsPromises
    OBVIOUS
  <2>1. h.wait_resolve = Cardinality(h.promises)
    BY DEF IInv, Sound
  <2>2. method = "GET" => ~(h.want_write /\ h.promises # {}) /\ h.wait_resolve =< 1
    <3>1. CASE conn = "idle"
      <4>1. ~session_zero.want_write /\ session_zero.wait_resolve = 0
        BY DEF session_zero
      <4> QED BY <3>1, <4>1 DEF IInv
    <3>2. CASE conn = "open"
      BY <3>2, OnOver DEF IInv, Over
    <3>3. CASE conn \in {"completed", "closed"}
      BY <3>3 DEF IInv, Over
    <3> QED BY <3>1, <3>2, <3>3 DEF IInv
  <2> QED BY <2>1, <2>2 DEF WaitsForItsPromises
<1> QED BY <1>1, Invariance, PTL

\* A response to a GET waits for the writable event it asked for or for a promise,
\* unless the last thing its handler gave was passed over, and no assert of the
\* serve_ functions or of queue_close fails.
THEOREM NeverStuckHolds == Spec => []NeverStuck
<1>1. IInv => NeverStuck
  <2> SUFFICES ASSUME IInv, method = "GET"
               PROVE  /\ Running
                      /\ conn = "open" =>
                           (h.want_write /\ h.armed) \/ h.promises # {} \/ h.ignored
    BY DEF NeverStuck
  <2>1. CASE conn = "idle"
    <3>1. session_zero.aborted = ""
      BY DEF session_zero
    <3> QED BY <2>1, <3>1 DEF IInv, Running
  <2>2. CASE conn = "open"
    BY <2>2 DEF IInv, On, Running
  <2>3. CASE conn \in {"completed", "closed"}
    BY <2>3 DEF IInv, Over, Running
  <2> QED BY <2>1, <2>2, <2>3 DEF IInv
<1> QED BY <1>1, Invariance, PTL

\* What is on the wire and in the queue is what the handler made, in that order, and
\* a completed response has all of it.
THEOREM WireInOrderHolds == Spec => []WireInOrder
<1>1. IInv => WireInOrder
  <2> SUFFICES ASSUME IInv, method = "GET"
               PROVE  LET chunks == [i \in 1 .. Len(h.wire) |-> h.wire[i].chunk]
                      IN  /\ chunks \o queue_data(h.sendq) = [i \in 1 .. h.made |-> i]
                          /\ h.completed > 0 => Len(chunks) = h.made
    BY DEF WireInOrder
  <2>1. Sound(h)
    BY DEF IInv
  <2>2. InOrder(h) /\ (h.completed > 0 => Len(h.wire) = h.made)
    <3>1. CASE conn = "idle"
      <4>1. /\ session_zero.wire = <<>> /\ session_zero.sendq = queue_zero
            /\ session_zero.made = 0 /\ session_zero.completed = 0 /\ queue_zero.items = <<>>
        BY DEF session_zero, queue_zero
      <4>2. h = session_zero
        BY <3>1 DEF IInv
      <4>3. Len(h.wire) = 0 /\ h.made = 0 /\ h.sendq.items = <<>> /\ h.completed = 0
        BY <4>1, <4>2
      <4>4. \A i \in 1 .. Len(h.wire) : FALSE
        BY <4>3
      <4> QED BY <4>3, <4>4 DEF InOrder
    <3>2. CASE conn = "open"
      <4>1. h.completed = 0 /\ InOrder(h)
        BY <3>2 DEF IInv, On
      <4> QED BY <4>1
    <3>3. CASE conn \in {"completed", "closed"}
      BY <3>3 DEF IInv, Over
    <3> QED BY <3>1, <3>2, <3>3 DEF IInv
  <2>3. Len([i \in 1 .. Len(h.wire) |-> h.wire[i].chunk]) = Len(h.wire)
    <3>1. Len(h.wire) \in Nat
      BY <2>1 DEF Sound, Sessions
    <3> QED BY <3>1
  <2> QED BY <2>1, <2>2, <2>3, WireData
<1> QED BY <1>1, Invariance, PTL

\* A chunk marked as the final one is the last that was made, nothing is written
\* after it, and the event that wrote it completed the transaction.
THEOREM FinalIsLastHolds == Spec => []FinalIsLast
<1>1. IInv => FinalIsLast
  <2> SUFFICES ASSUME IInv, method = "GET", NEW i \in 1 .. Len(h.wire), h.wire[i].final
               PROVE  i = Len(h.wire) /\ i = h.made /\ h.completed > 0
    BY DEF FinalIsLast
  <2>1. CASE conn = "idle"
    <3>1. session_zero.wire = <<>> /\ h = session_zero
      BY <2>1 DEF IInv, session_zero
    <3> QED BY <3>1
  <2>2. CASE conn = "open"
    BY <2>2 DEF IInv, On
  <2>3. CASE conn \in {"completed", "closed"}
    BY <2>3 DEF IInv, Over
  <2> QED BY <2>1, <2>2, <2>3 DEF IInv
<1> QED BY <1>1, Invariance, PTL
=============================================================================
