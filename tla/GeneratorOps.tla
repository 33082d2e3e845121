----------------------------- MODULE GeneratorOps -----------------------------
(***************************************************************************)
(* lib/generator.c as operations on a generator, a record of               *)
(*   it           the AsyncIterator it embeds: its reads, closed and       *)
(*                closing are the generator's own (a union in the struct)  *)
(*   hasq, q      whether gen->q is set, and the queue                     *)
(*   buffering, chunk_size, started                                        *)
(*   executor     whether an executor function is still to be called       *)
(*   callback     the function in gen->callback, which shares its storage  *)
(*                with resolve_reject.resolve (a union in the struct)      *)
(*   reject       the push whose promise resolve_reject.reject rejects     *)
(*   thened       whether the promise of the last push has been awaited    *)
(*   pushes       history: the state of each promise push() returned       *)
(*   called       history: calls of continuous()'s callbacks               *)
(*   notified     history: calls of write()'s callbacks                    *)
(*   aborted      "" or the place where the process stopped, an assert or  *)
(*                a null pointer                                           *)
(* The counters bytes_written, chunks_read etc. decide nothing and are     *)
(* left out; a block converted to a JavaScript value stays its bytes.      *)
(***************************************************************************)
EXTENDS AsyncIteratorOps, QueueOps

\* A function: whose it is and its number.
NoFunction == <<"none", 0>>
PushResolver(k) == <<"push", k>>
Continuation(k) == <<"continuous", k>>

generator_zero ==
  [it |-> asynciterator_zero, hasq |-> FALSE, q |-> queue_zero,
   buffering |-> FALSE, chunk_size |-> 0, started |-> FALSE, executor |-> FALSE,
   callback |-> NoFunction, reject |-> 0, thened |-> TRUE,
   pushes |-> <<>>, called |-> <<>>, notified |-> <<>>, aborted |-> ""]

generator_started(g) == ~g.executor

generator_stopped(g) == Stopped(g.it)

Abort(g, where) == [g EXCEPT !.aborted = where]

create_queue(g) == [g EXCEPT !.hasq = TRUE]

BlockValue(block) == IF block = <<>> THEN Undefined ELSE block

\* JS_Call of a function with one argument; a promise settles once.
JS_Call(g, function, value) ==
  CASE function[1] = "push" ->
         [g EXCEPT !.pushes[function[2]] = IF @ = "pending" THEN "resolved" ELSE @]
    [] function[1] = "continuous" ->
         [g EXCEPT !.called = Append(@, [callback |-> function[2], value |-> value])]
    [] OTHER -> g

-----------------------------------------------------------------------------

\* Takes the front of the queue, for whoever asked for it.
dequeue_value(g) ==
  [g EXCEPT !.q = queue_next(@), !.notified = @ \o queue_next_calls(g.q)]

\* Hands the front of the queue to the oldest read.
DequeueToReader(g) ==
  LET i == queue_front(g.q)
  IN  [dequeue_value(g) EXCEPT !.it = asynciterator_emplace(@, BlockValue(i.block), i.done)]

UpdateReader(g) ==
  /\ asynciterator_pending(g.it)
  /\ g.hasq
  /\ ~queue_empty(g.q)
  /\ g.it.closing \/ ~g.buffering \/ Len(queue_front(g.q).block) >= g.chunk_size

\* A turn of the loop serves one read.
UpdateTurn(g) ==
  IF UpdateReader(g)
  THEN [DequeueToReader(g) EXCEPT !.it.closed = @ \/ queue_front(g.q).done]
  ELSE g

\* There are as many turns as reads were waiting at most.
generator_update(g) ==
  LET turns[n \in 0 .. Len(g.it.reads)] == IF n = 0 THEN g ELSE UpdateTurn(turns[n - 1])
  IN  turns[Len(g.it.reads)]

generator_callback(g, argument) ==
  JS_Call([g EXCEPT !.callback = NoFunction], g.callback, argument)

-----------------------------------------------------------------------------

\* Mutant: a piece starts with the last byte of the piece before.
Rechunk_overlap(q, p, n) ==
  LET block == q.items[p].block
      pieces == [k \in 1 .. (Len(block) - 1) \div n |->
                   SubSeq(block, k * n, IF k * n + n < Len(block) THEN k * n + n
                                                                  ELSE Len(block))]
  IN  IF Len(block) > n
      THEN queue_add_all([q EXCEPT !.items[p].block = SubSeq(block, 1, n)], pieces)
      ELSE q

\* Cuts what is gathered in the chunk at position p into pieces of n bytes.
Rechunk(q, p, n) ==
  LET block == q.items[p].block
      pieces == [k \in 1 .. (Len(block) - 1) \div n |->
                   SubSeq(block, k * n + 1, IF k * n + n < Len(block) THEN k * n + n
                                                                      ELSE Len(block))]
  IN  IF Len(block) > n
      THEN queue_add_all([q EXCEPT !.items[p].block = SubSeq(block, 1, n)], pieces)
      ELSE q

\* While buffering, the queue gathers in its last chunk, and what is gathered
\* is cut up again; the flag does not survive the call.  cb is the write's
\* callback, 0 for none.
enqueue_block(g, block, cb) ==
  LET open == [g.q EXCEPT !.continuous = @ \/ g.buffering]
      p    == queue_put_at(open)
      put  == [queue_put(open, block) EXCEPT !.continuous = @ /\ ~g.buffering]
  IN  [create_queue(g) EXCEPT
         !.q = CASE p = 0 -> put
                 [] p # 0 /\ g.buffering -> Rechunk(put, p, g.chunk_size)
                 [] OTHER -> IF cb = 0 THEN put ELSE [put EXCEPT !.items[p].unref = cb]]

\* Mutant: a waiting reader is not looked for.
generator_yield_queues(g, block) == enqueue_block(g, block, 0)

generator_yield(g, block) ==
  IF asynciterator_pending(g.it)
  THEN [g EXCEPT !.it = asynciterator_yield(@, block)]
  ELSE enqueue_block(g, block, 0)

generator_enqueue(g, block) == enqueue_block(create_queue(g), block, 0)

WriteTurn(g) ==
  IF /\ asynciterator_pending(g.it)
     /\ ~queue_empty(g.q)
     /\ Len(queue_front(g.q).block) >= g.chunk_size
  THEN DequeueToReader(g)
  ELSE g

generator_write(g, block, cb) ==
  LET turns[n \in 0 .. Len(g.it.reads)] ==
        IF n = 0 THEN enqueue_block(g, block, cb) ELSE WriteTurn(turns[n - 1])
  IN  IF /\ ~g.buffering
         /\ ~(g.hasq /\ g.q.continuous)
         /\ g.hasq => queue_empty(g.q)
         /\ asynciterator_pending(g.it)
      THEN [g EXCEPT !.it = asynciterator_yield(@, block)]
      ELSE turns[Len(g.it.reads)]

\* The promise push returns settles through resolve_reject; generator_yield
\* does not fail, so it is not rejected here.
generator_push(g, block, thened) ==
  LET k == Len(g.pushes) + 1
  IN  [generator_yield([g EXCEPT !.callback = PushResolver(k), !.reject = k,
                                 !.pushes = Append(@, "pending")], block)
         EXCEPT !.thened = thened]

-----------------------------------------------------------------------------

\* The chunk at position c of q is converted, which empties it, and given to the
\* callback, if there is one.
GiveChunk(g, q, c) ==
  [JS_Call(g, g.callback, BlockValue(q.items[c].block))
     EXCEPT !.q = [q EXCEPT !.items[c].block = <<>>],
            !.notified = IF q.items[c].unref = 0 THEN @ ELSE Append(@, q.items[c].unref)]

\* In continuous mode the last chunk is given.
generator_stop(g, value) ==
  LET q == IF g.hasq THEN queue_close(g.q) ELSE g.q
      c == IF g.hasq /\ q.continuous THEN queue_last_chunk(q) ELSE 0
      given == IF c = 0 THEN [g EXCEPT !.q = q] ELSE GiveChunk(g, q, c)
  IN  CASE g.it.closed -> g
        [] ~g.it.closed /\ g.hasq /\ ~queue_close_assert(g.q) -> Abort(g, "queue_close")
        [] OTHER -> [given EXCEPT !.it = asynciterator_stop(@, value)]

generator_continuous(g, callback) ==
  [create_queue(g) EXCEPT
     !.q = queue_continuous(@),
     !.callback = IF callback = NoFunction THEN @ ELSE callback]

generator_buffering(g, n) ==
  [create_queue(g) EXCEPT !.chunk_size = n, !.buffering = TRUE]

generator_finish(g) ==
  LET closing == [g EXCEPT !.it.closing = TRUE]
      updated == generator_update(closing)
      front == IF queue_empty(g.q) THEN <<>> ELSE queue_front(g.q).block
  IN  CASE g.hasq /\ g.q.continuous /\ g.callback # NoFunction ->
             JS_Call(dequeue_value(closing), g.callback, BlockValue(front))
        [] ~g.hasq -> Abort(updated, "generator_finish")
        [] OTHER -> IF queue_close_assert(updated.q)
                    THEN [updated EXCEPT !.q = queue_close(@)]
                    ELSE Abort(updated, "queue_close")

\* Nothing for an executor to do.
NoExecutor == [blocks |-> <<>>, thened |-> TRUE, stops |-> FALSE]

\* What the executor does before it first awaits: it pushes `blocks' and may stop.
start_executor(g, executor) ==
  LET pushes == Len(executor.blocks)
      pushed[n \in 0 .. pushes] ==
        IF n = 0
        THEN [g EXCEPT !.executor = FALSE]
        ELSE generator_push(pushed[n - 1], executor.blocks[n], executor.thened)
  IN  IF executor.stops THEN generator_stop(pushed[pushes], Undefined) ELSE pushed[pushes]

generator_next(g, argument, executor) ==
  LET asked == [g EXCEPT !.it = asynciterator_next(@)]
      begun == CASE g.executor -> start_executor(asked, executor)
                 [] ~g.executor /\ ~g.started ->
                      [generator_callback(asked, argument) EXCEPT !.started = TRUE]
                 [] OTHER -> asked
      updated == IF begun.hasq THEN generator_update(begun) ELSE begun
      served == Len(updated.it.settled) > Len(begun.it.settled)
  IN  CASE ~asynciterator_next_assert(g.it) -> Abort(g, "asynciterator_next")
        [] asynciterator_next_assert(g.it) /\ begun.aborted # "" -> begun
        [] OTHER -> IF ~served /\ generator_stopped(updated)
                    THEN [updated EXCEPT !.it = asynciterator_stop(@, Undefined)]
                    ELSE updated

\* Rejects the last push's promise, and drops both of resolve_reject.
RejectPush(g) ==
  IF g.reject = 0
  THEN g
  ELSE [g EXCEPT !.callback = NoFunction, !.reject = 0,
                 !.pushes[g.reject] = IF @ = "pending" THEN "rejected" ELSE @]

\* An error nobody in the executor would handle stops the generator, and the
\* caller gets a rejected promise of its own; else it rejects the last push.
generator_throw(g) ==
  IF \/ ~generator_started(g)
     \/ generator_stopped(g)
     \/ g.hasq /\ ~queue_empty(g.q)
     \/ ~g.thened
  THEN generator_stop(g, Undefined)
  ELSE generator_next(RejectPush(g), Undefined, NoExecutor)

\* return(): stops the iterator, the queue stays open.
generator_return(g, value) == [g EXCEPT !.it = asynciterator_stop(@, value)]
=============================================================================
