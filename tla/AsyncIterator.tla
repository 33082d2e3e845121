---------------------------- MODULE AsyncIterator ----------------------------
(***************************************************************************)
(* The AsyncIterator object (lib/asynciterator.c, and its JavaScript class *)
(* in src/minnet-asynciterator.c): a list of pending reads shared by       *)
(* consumers, that call next(), and producers, that push values and stop   *)
(* the iteration.  Everything runs on one thread; a call is one step, and  *)
(* consumers and producers call in any order.                              *)
(***************************************************************************)
EXTENDS AsyncIteratorOps

CONSTANTS
  Values,     \* the values a producer pushes
  MaxReads     \* bound: number of next() calls

ASSUME MaxReadsAssumption == MaxReads \in Nat
ASSUME ValuesAssumption == Undefined \notin Values

VARIABLE it

iteratorVars == <<it>>

IteratorInit == it = asynciterator_zero

IteratorRead ==
  /\ it.issued < MaxReads
  /\ it' = asynciterator_next(it)

IteratorPush(v) == it' = asynciterator_yield(it, v)

IteratorStop(v) == it' = asynciterator_stop(it, v)

IteratorThrow == it' = asynciterator_throw(it)

IteratorCancel == it' = asynciterator_cancel(it)

IteratorNext ==
  \/ IteratorRead
  \/ \E v \in Values : IteratorPush(v) \/ IteratorStop(v)
  \/ IteratorThrow
  \/ IteratorCancel

IteratorSpec == IteratorInit /\ [][IteratorNext]_iteratorVars

-----------------------------------------------------------------------------

Settlement ==
  [promise : Nat, kind : {"value", "done", "rejected"}, value : Values \cup {Undefined}]

\* The iterator's state has its type.
IteratorTypeOK ==
  it \in [reads : Seq(Nat), closed : BOOLEAN, closing : BOOLEAN,
          issued : Nat, settled : Seq(Settlement)]

\* Every promise is in exactly one place: the settled ones come first, in the
\* order they were handed out and each once, the others wait in reads, in the
\* same order.  A read that is dropped, settled twice or overtaken breaks it
\* (asynciterator_shift, _emplace and _cancel share the list).
PromisesInOrder ==
  /\ Len(it.settled) + Len(it.reads) = it.issued
  /\ \A i \in 1 .. Len(it.settled) : it.settled[i].promise = i
  /\ \A i \in 1 .. Len(it.reads) : it.reads[i] = Len(it.settled) + i

\* A stopped iterator leaves nobody waiting: this is what the assert in
\* asynciterator_next relies on, and it needs _stop, _cancel and _throw to
\* have emptied the list of reads whenever they set a flag.
StoppedLeavesNoReader == Stopped(it) => it.reads = <<>>

\* After a promise was settled with done or rejected, no later one carries a
\* value, however calls of producers and consumers interleave.
NoValueAfterEnd ==
  \A i, j \in 1 .. Len(it.settled) :
    i < j /\ it.settled[i].kind # "value" => it.settled[j].kind # "value"

\* An end is only given by an iterator that is stopped for good.
EndMeansStopped ==
  \A i \in 1 .. Len(it.settled) : it.settled[i].kind # "value" => Stopped(it)

IteratorInv ==
  /\ IteratorTypeOK
  /\ PromisesInOrder
  /\ StoppedLeavesNoReader
  /\ NoValueAfterEnd
  /\ EndMeansStopped

\* The iterator implements the abstract stream of promises.
IteratorStream ==
  INSTANCE AsyncStream WITH
    requested <- it.issued,
    results <- [i \in 1 .. Len(it.settled) |-> it.settled[i].kind]

IteratorStreamSpec == IteratorStream!StreamSpec
=============================================================================
