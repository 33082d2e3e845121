------------------------------ MODULE Generator ------------------------------
(***************************************************************************)
(* A generator between the code that fills it and the code that reads it.  *)
(* Every call runs to its end on the one thread, and the calls come in any *)
(* order the callers' code allows.  Who the caller is decides which        *)
(* operations are used (Uses).  The bytes sent are numbered, so that what  *)
(* comes out can be compared with what went in.                            *)
(***************************************************************************)
EXTENDS GeneratorOps, FiniteSets

CONSTANTS
  Callers,       \* the callers a generator may have, see Uses
  ChunkSize,     \* the size given to buffering()
  MaxBytes,      \* bound: bytes sent
  MaxChunk,      \* bound: bytes in one chunk
  MaxNext,       \* bound: next() and throw() calls
  MaxContinuous  \* bound: callbacks given to continuous()

\* The operations each caller uses: an executor that pushes values without and
\* with awaiting the push; scripts that write and enqueue; a script that reads the
\* messages of a WebSocket client; text() and the like of a request whose body
\* comes in, of a response before and after its first byte; a script that reads
\* a response; one that sets a chunk size.
Uses ==
  [repeater        |-> {"next", "return", "throw", "push", "stop"},
   awaiting        |-> {"next", "return", "throw", "push", "stop"},
   writer          |-> {"next", "write", "stop"},
   enqueuer        |-> {"next", "enqueue", "stop"},
   message_reader  |-> {"next", "yield", "return"},
   request_text    |-> {"body", "continuous", "stop"},
   response_text   |-> {"continuous", "write", "finish"},
   late_text       |-> {"continuous", "write", "finish"},
   response_reader |-> {"next", "write", "finish"},
   chunk_reader    |-> {"next", "write", "buffering", "stop"}]

ASSUME CallersAssumption == Callers \subseteq DOMAIN Uses
ASSUME UndefinedAssumption == Undefined \notin Seq(Nat)
ASSUME BoundAssumption ==
  /\ {MaxBytes, MaxNext, MaxContinuous} \subseteq Nat
  /\ {MaxChunk, ChunkSize} \subseteq Nat \ {0}   \* buffering(0) would not return

VARIABLES
  caller,    \* who fills and reads the generator
  g,         \* the generator
  sent,      \* how many bytes have been sent
  ended,     \* whether a caller has ended it: stop, finish, return or throw
  attached   \* how many callbacks continuous() has been given

vars == <<caller, g, sent, ended, attached>>

HasExecutor == caller \in {"repeater", "awaiting"}

AwaitPush == caller = "awaiting"

Init ==
  /\ caller \in Callers
  /\ g = [generator_zero EXCEPT !.executor = HasExecutor]
  /\ sent = 0
  /\ ended = FALSE
  /\ attached = 0

\* The next n bytes.
Fresh(n) == [i \in 1 .. n |-> sent + i]

Chunks == 1 .. IF MaxChunk < MaxBytes - sent THEN MaxChunk ELSE MaxBytes - sent

Calls(op) == op \in Uses[caller] /\ g.aborted = "" /\ UNCHANGED caller

\* Nothing is sent after the end of an HTTP body.
Sending == caller \in {"request_text", "response_text", "late_text", "response_reader"} => ~ended

\* When callers change the mode, with continuous() or buffering().
ChangingMode ==
  IF caller \in {"response_text", "chunk_reader"}
  THEN sent = 0 /\ g.it.issued = 0 /\ ~ended
  ELSE sent > 0 /\ ~ended

-----------------------------------------------------------------------------

\* The first call starts the executor.  It pushes up to two values, or awaits its
\* first push.
Next_ ==
  /\ Calls("next")
  /\ g.it.issued < MaxNext
  /\ \E pushed \in IF g.executor THEN 0 .. IF AwaitPush THEN 1 ELSE 2 ELSE {0},
        stops \in IF g.executor THEN BOOLEAN ELSE {FALSE},
        thened \in BOOLEAN :
       /\ sent + pushed =< MaxBytes
       /\ AwaitPush /\ pushed > 0 => thened /\ ~stops
       /\ g' = generator_next(g, Undefined,
                  [blocks |-> [k \in 1 .. pushed |-> <<sent + k>>],
                   thened |-> thened, stops |-> stops])
       /\ sent' = sent + pushed
       /\ ended' = (ended \/ stops)
  /\ UNCHANGED attached

Return ==
  /\ Calls("return")
  /\ g' = generator_return(g, Undefined)
  /\ ended' = TRUE
  /\ UNCHANGED <<sent, attached>>

Throw ==
  /\ Calls("throw")
  /\ g.it.issued < MaxNext
  /\ g' = generator_throw(g)
  /\ ended' = (ended \/ g'.it.issued = g.it.issued)
  /\ UNCHANGED <<sent, attached>>

\* push() of the executor, once it runs, and write() of a Response.
Push ==
  /\ Calls("push")
  /\ Sending
  /\ generator_started(g)
  /\ sent < MaxBytes
  /\ AwaitPush => \A k \in 1 .. Len(g.pushes) : g.pushes[k] # "pending"
  /\ \E thened \in BOOLEAN :
       /\ AwaitPush => thened
       /\ g' = generator_push(g, Fresh(1), thened)
  /\ sent' = sent + 1
  /\ UNCHANGED <<ended, attached>>

Yield ==
  /\ Calls("yield")
  /\ Sending
  /\ \E n \in Chunks :
       /\ g' = generator_yield(g, Fresh(n))
       /\ sent' = sent + n
  /\ UNCHANGED <<ended, attached>>

\* The callback of a write is numbered by the write's last byte.
Write ==
  /\ Calls("write")
  /\ Sending
  /\ \E n \in Chunks, withCallback \in BOOLEAN :
       /\ g' = generator_write(g, Fresh(n), IF withCallback THEN sent + n ELSE 0)
       /\ sent' = sent + n
  /\ UNCHANGED <<ended, attached>>

\* Part of a request's body arrives (LWS_CALLBACK_HTTP_BODY).
Body ==
  /\ Calls("body")
  /\ Sending
  /\ \E n \in Chunks :
       LET gathering == IF g.hasq /\ g.q.continuous
                        THEN g ELSE generator_continuous(g, NoFunction)
       IN  /\ g' = generator_write(gathering, Fresh(n), 0)
           /\ sent' = sent + n
  /\ UNCHANGED <<ended, attached>>

Enqueue ==
  /\ Calls("enqueue")
  /\ Sending
  /\ \E n \in Chunks :
       /\ g' = generator_enqueue(g, Fresh(n))
       /\ sent' = sent + n
  /\ UNCHANGED <<ended, attached>>

Continuous ==
  /\ Calls("continuous")
  /\ ChangingMode
  /\ \/ /\ attached < MaxContinuous
        /\ attached' = attached + 1
        /\ g' = generator_continuous(g, Continuation(attached + 1))
     \/ /\ UNCHANGED attached
        /\ g' = generator_continuous(g, NoFunction)
  /\ UNCHANGED <<sent, ended>>

Buffering ==
  /\ Calls("buffering")
  /\ ChangingMode
  /\ g' = generator_buffering(g, ChunkSize)
  /\ UNCHANGED <<sent, ended, attached>>

\* stop() of a generator that runs, or that its executor runs.
Stop ==
  /\ Calls("stop")
  /\ Sending
  /\ g' = generator_stop(g, Undefined)
  /\ ended' = TRUE
  /\ UNCHANGED <<sent, attached>>

\* An HTTP transaction completes once.
Finish ==
  /\ Calls("finish")
  /\ ~ended
  /\ g' = generator_finish(g)
  /\ ended' = TRUE
  /\ UNCHANGED <<sent, attached>>

Next ==
  \/ Next_ \/ Return \/ Throw
  \/ Push \/ Yield \/ Write \/ Body \/ Enqueue
  \/ Continuous \/ Buffering
  \/ Stop \/ Finish

Spec == Init /\ [][Next]_vars

-----------------------------------------------------------------------------

Bytes(value) == IF value = Undefined THEN <<>> ELSE value

\* What the readers have been given, and what waits in the queue.
Delivered == FlattenSeq([i \in 1 .. Len(g.it.settled) |-> Bytes(g.it.settled[i].value)])

AllSent == [i \in 1 .. sent |-> i]

Increasing(s) == \A i, j \in 1 .. Len(s) : i < j => s[i] < s[j]

\* Until somebody ends it, a generator has every byte that was sent either
\* delivered or in its queue, once and in the order of sending: neither the
\* direct way to a waiting reader nor the queue overtakes, drops or repeats.
NothingLost == ~ended => Delivered \o queue_data(g.q) = AllSent

\* What is delivered stays in the order of sending, however it was ended, and the
\* callback of a write is called only once the write's bytes have left the queue.
DeliveredInOrder ==
  /\ Increasing(Delivered \o queue_data(g.q))
  /\ \A k \in ToSet(g.notified) : k \notin ToSet(queue_data(g.q))

\* No reader waits while the queue has something for it (generator_update and
\* the loop in generator_write must have run whenever that became true; only
\* enqueue() leaves it to the next call of next()), nor once the generator was
\* ended, so that the asserts of asynciterator_next and queue_close hold; and while
\* buffering each reader gets just the size asked for.  (A response without a body
\* has no queue to close: generator_finish.)
ReaderServed ==
  /\ caller # "enqueuer" => ~UpdateReader(g)
  /\ ended => ~asynciterator_pending(g.it)
  /\ g.aborted \in {"", "generator_finish"}
  /\ g.buffering => \A i \in 1 .. Len(g.it.settled) :
       g.it.settled[i].kind = "value" => Len(Bytes(g.it.settled[i].value)) = ChunkSize

\* The last callback given to continuous() is called once, with every byte
\* that was sent, when the generator ends; no byte is given to two callbacks, or
\* to a callback and to a reader.
CallbackGetsAll ==
  LET given == [i \in 1 .. Len(g.called) |-> ToSet(Bytes(g.called[i].value))]
  IN  /\ ended /\ attached > 0 =>
           \E i \in 1 .. Len(g.called) :
             /\ g.called[i].callback = attached
             /\ Bytes(g.called[i].value) = AllSent
             /\ \A j \in 1 .. Len(g.called) : g.called[j].callback = attached => j = i
      /\ \A i, j \in 1 .. Len(given) : i # j => given[i] \cap given[j] = {}
      /\ \A i \in 1 .. Len(given) :
           given[i] \cap ToSet(Delivered \o queue_data(g.q)) = {}

\* What the next three say does not hold: see the README, "Findings".

\* Nobody waits in a generator that is stopping when next() is called (the
\* assert in asynciterator_next).
IteratorAssertHolds == g.aborted # "asynciterator_next"

\* generator_finish returns, whatever was written before.
FinishReturns == g.aborted # "generator_finish"

\* The promise of a push resolves at the next call of next().
PushResolvedByNext ==
  [][g'.it.issued > g.it.issued /\ g.pushes # <<>> /\ g'.aborted = ""
       => g'.pushes[Len(g.pushes)] # "pending"]_vars

\* The generator's readers see an AsyncStream.
Stream ==
  INSTANCE AsyncStream WITH
    requested <- g.it.issued,
    results <- [i \in 1 .. Len(g.it.settled) |-> g.it.settled[i].kind]

StreamSpec == Stream!StreamSpec
=============================================================================
