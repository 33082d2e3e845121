----------------------------- MODULE AsyncStream -----------------------------
(***************************************************************************)
(* What an async iterator promises to the code that calls next(): the      *)
(* promises it hands out are settled in the order they were handed out,    *)
(* each at most once, and once one of them has been settled with           *)
(* {done: true}, or rejected, none of the later ones carries a value.      *)
(*                                                                         *)
(* lib/asynciterator.c (module AsyncIterator) and lib/generator.c (module  *)
(* Generator) both implement it.                                           *)
(***************************************************************************)
EXTENDS Naturals, Sequences

VARIABLES
  requested,   \* how many promises next() has handed out
  results      \* results[i] is the outcome of the i-th promise:
               \* "value", "done" or "rejected"

streamVars == <<requested, results>>

Outcome == {"value", "done", "rejected"}

\* Whether the outcomes rs respect the end of the stream.
EndIsFinal(rs) ==
  \A i, j \in 1 .. Len(rs) : i < j /\ rs[i] # "value" => rs[j] # "value"

StreamInit ==
  /\ requested = 0
  /\ results = <<>>

\* Outcomes are only ever added behind the ones already given, to promises
\* that have been handed out.
Extends(old, new) ==
  /\ Len(old) =< Len(new)
  /\ \A i \in 1 .. Len(old) : new[i] = old[i]

StreamNext ==
  /\ requested' \in {requested, requested + 1}
  /\ results' \in Seq(Outcome)
  /\ Extends(results, results')
  /\ Len(results') =< requested'
  /\ EndIsFinal(results')

StreamSpec == StreamInit /\ [][StreamNext]_streamVars
=============================================================================
