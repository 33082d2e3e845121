--------------------------- MODULE AsyncIteratorOps ---------------------------
(***************************************************************************)
(* lib/asynciterator.c as operations on an iterator.  An iterator is a     *)
(* record                                                                  *)
(*   reads    promises of the pending next() calls, oldest first           *)
(*   closed, closing   the two flags of the struct                         *)
(*   issued   how many promises next() has returned so far; the promises   *)
(*            are numbered by it (it covers the struct's `serial', which   *)
(*            numbers only the promises that had to wait)                  *)
(*   settled  history: the promises settled so far and how, in the order   *)
(*            the code settles them                                        *)
(* Settling a promise calls its resolve or reject function and drops both  *)
(* (js_async_resolve, js_async_reject in lib/js-utils.c).                  *)
(***************************************************************************)
EXTENDS Naturals, Sequences

CONSTANT Undefined        \* JS_UNDEFINED, JS_NULL: a result without a value

Resolved(p, value, done) ==
  [promise |-> p, kind |-> IF done THEN "done" ELSE "value", value |-> value]

Rejected(p) ==
  [promise |-> p, kind |-> "rejected", value |-> Undefined]

asynciterator_zero ==
  [reads |-> <<>>, closed |-> FALSE, closing |-> FALSE,
   issued |-> 0, settled |-> <<>>]

asynciterator_pending(it) == it.reads # <<>>

\* An iterator on which next() answers at once.
Stopped(it) == it.closing \/ it.closed

\* The branch that answers at once starts with assert(list_empty(&it->reads)).
asynciterator_next_assert(it) == Stopped(it) => ~asynciterator_pending(it)

\* Mutant: closed is not looked at.
asynciterator_next_closed(it) ==
  LET p == it.issued + 1
  IN  IF it.closing
      THEN [it EXCEPT !.issued = p, !.closed = TRUE,
                      !.settled = Append(@, Resolved(p, Undefined, TRUE))]
      ELSE [it EXCEPT !.issued = p, !.reads = Append(@, p)]

asynciterator_next(it) ==
  LET p == it.issued + 1
  IN  IF Stopped(it)
      THEN [it EXCEPT !.issued = p, !.closed = TRUE, !.closing = TRUE,
                      !.settled = Append(@, Resolved(p, Undefined, TRUE))]
      ELSE [it EXCEPT !.issued = p, !.reads = Append(@, p)]

\* Mutant: the newest read is taken off.
asynciterator_emplace_newest(it, value, done) ==
  LET n == Len(it.reads)
  IN  IF asynciterator_pending(it)
      THEN [it EXCEPT !.reads = SubSeq(@, 1, n - 1),
                      !.settled = Append(@, Resolved(it.reads[n], value, done))]
      ELSE it

\* asynciterator_shift takes the oldest read off the list.
asynciterator_emplace(it, value, done) ==
  IF asynciterator_pending(it)
  THEN [it EXCEPT !.reads = Tail(@),
                  !.settled = Append(@, Resolved(Head(it.reads), value, done))]
  ELSE it

asynciterator_yield(it, value) == asynciterator_emplace(it, value, FALSE)

\* Mutant: the iterator stays open.
asynciterator_cancel_open(it) ==
  [it EXCEPT !.reads = <<>>,
             !.settled = @ \o [i \in 1 .. Len(it.reads) |-> Rejected(it.reads[i])]]

asynciterator_cancel(it) ==
  [it EXCEPT !.reads = <<>>, !.closed = TRUE,
             !.settled = @ \o [i \in 1 .. Len(it.reads) |-> Rejected(it.reads[i])]]

asynciterator_throw(it) ==
  IF asynciterator_pending(it) THEN asynciterator_cancel(it) ELSE it

\* Mutant: only the first read is answered.
asynciterator_stop_first(it, value) ==
  IF asynciterator_pending(it)
  THEN [asynciterator_emplace(it, value, TRUE) EXCEPT !.closing = FALSE, !.closed = TRUE]
  ELSE [it EXCEPT !.closing = TRUE]

asynciterator_stop(it, value) ==
  IF asynciterator_pending(it)
  THEN asynciterator_cancel([asynciterator_emplace(it, value, TRUE)
                               EXCEPT !.closing = FALSE, !.closed = TRUE])
  ELSE [it EXCEPT !.closing = TRUE]
=============================================================================
