------------------------------- MODULE QueueOps -------------------------------
(***************************************************************************)
(* lib/queue.c as operations on a queue: a record of its items and its     *)
(* continuous flag (the struct's `size' is the length of the list).  An    *)
(* item is a record                                                        *)
(*   block   the bytes of a chunk, each byte a number                      *)
(*   done    the item that ends the queue                                  *)
(*   unref   which write's callback is attached to the chunk, 0 for none   *)
(* Allocation does not fail.                                               *)
(***************************************************************************)
EXTENDS Naturals, Sequences, SequencesExt

Item(block) == [block |-> block, done |-> FALSE, unref |-> 0]

EndItem == [block |-> <<>>, done |-> TRUE, unref |-> 0]

queue_zero == [items |-> <<>>, continuous |-> FALSE]

queue_empty(q) == q.items = <<>>

queue_front(q) == Head(q.items)

\* The end has reached the front: nothing is left to take.
queue_closed(q) == ~queue_empty(q) /\ queue_front(q).done

\* The end has been put in: nothing more is added.
queue_complete(q) == ~queue_empty(q) /\ Last(q.items).done

\* The position of the last chunk, 0 when there is none.
queue_last_chunk(q) ==
  SelectLastInSeq(q.items, LAMBDA i : i.block # <<>> \/ ~i.done)

queue_data(q) == FlattenSeq([i \in 1 .. Len(q.items) |-> q.items[i].block])

queue_bytes(q) == Len(queue_data(q))

\* Takes the front off; an end item stays where it is.
queue_next(q) ==
  IF queue_empty(q) \/ queue_front(q).done THEN q ELSE [q EXCEPT !.items = Tail(@)]

\* Taking the front calls the callback attached to it, once directly and once
\* more through deferred_call.
queue_next_calls(q) ==
  IF queue_empty(q) \/ queue_front(q).unref = 0
  THEN <<>>
  ELSE <<queue_front(q).unref, queue_front(q).unref>>

\* Mutant: list_add in place of list_add_tail.
queue_add_front(q, block) ==
  IF queue_complete(q) THEN q ELSE [q EXCEPT !.items = <<Item(block)>> \o @]

queue_add(q, block) ==
  IF queue_complete(q) THEN q ELSE [q EXCEPT !.items = Append(@, Item(block))]

\* One after the other.
queue_add_all(q, blocks) ==
  IF queue_complete(q)
  THEN q
  ELSE [q EXCEPT !.items = @ \o [k \in 1 .. Len(blocks) |-> Item(blocks[k])]]

\* Where queue_put puts a chunk: an item's position, 0 when it is refused.
queue_put_at(q) ==
  CASE q.continuous /\ queue_last_chunk(q) # 0 -> queue_last_chunk(q)
    [] ~(q.continuous /\ queue_last_chunk(q) # 0) /\ ~queue_complete(q) -> Len(q.items) + 1
    [] OTHER -> 0

\* queue_write differs from queue_put only in who owns the bytes.
queue_put(q, block) ==
  IF q.continuous /\ queue_last_chunk(q) # 0
  THEN [q EXCEPT !.items[queue_last_chunk(q)].block = @ \o block]
  ELSE queue_add(q, block)

queue_write(q, block) == queue_put(q, block)

\* Mutant: starts an item of its own.
queue_append_adds(q, block) == queue_add(q, block)

queue_append(q, block) ==
  IF queue_last_chunk(q) # 0
  THEN [q EXCEPT !.items[queue_last_chunk(q)].block = @ \o block]
  ELSE queue_add(q, block)

queue_close_assert(q) == queue_complete(q) \/ ~queue_closed(q)

queue_close(q) ==
  IF queue_complete(q) THEN q ELSE [q EXCEPT !.items = Append(@, EndItem)]

\* Mutant: does not look for a chunk to go on with.
queue_continuous_fresh(q) ==
  [items |-> Append(q.items, Item(<<>>)), continuous |-> TRUE]

\* The empty chunk goes behind whatever is there, an end item included.
queue_continuous(q) ==
  [items |-> IF queue_last_chunk(q) # 0 THEN q.items ELSE Append(q.items, Item(<<>>)),
   continuous |-> TRUE]
=============================================================================
