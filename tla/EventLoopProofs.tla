--------------------------- MODULE EventLoopProofs ---------------------------
(***************************************************************************)
(* Proofs about EventLoop, for any connections, descriptors and number of  *)
(* objects: whose functions the loop has (PollInv), how the references of  *)
(* a socket are counted (RefInv), and what is listed (ListInv).            *)
(***************************************************************************)
EXTENDS EventLoop, SequenceTheorems, WellFoundedInduction, TLAPS

States == {"none", "created", "open", "deleted", "destroyed"}

Connections ==
  [state : States, fd : Fds \cup {None}, events : SUBSET Events, opaque : BOOLEAN,
   ws : BOOLEAN, refs : Nat, wraps : Nat, points : BOOLEAN, lwsi : BOOLEAN]

Handlers == [wsi : Wsis \cup {None}, awaited : SUBSET Events]

TypeOK ==
  /\ wsi \in [Wsis -> Connections]
  /\ opaque_list \in Seq(Wsis)
  /\ handlers \in [Fds -> [Events -> Handlers]]
  /\ ready \in [Fds -> SUBSET Events]
  /\ onfd \in BOOLEAN

\* A descriptor is that of one connection, which is open; only it waits for events,
\* and while on.fd is there the loop has its functions and no other.
PollInv ==
  /\ \A w \in Wsis : (wsi[w].state = "open" <=> wsi[w].fd # None)
                     /\ (wsi[w].state # "open" => wsi[w].events = {})
  /\ \A v, w \in Wsis : wsi[v].fd = wsi[w].fd /\ wsi[v].fd # None => v = w
  /\ onfd => \A fd \in Fds, e \in Events :
       /\ \A w \in Wsis : wsi[w].fd = fd /\ e \in wsi[w].events =>
            handlers[fd][e] = [wsi |-> w, awaited |-> wsi[w].events]
       /\ (\A w \in Wsis : ~(wsi[w].fd = fd /\ e \in wsi[w].events)) =>
            handlers[fd][e] = NoHandler
  /\ served.told = served.awaited \cap served.ready

\* The references of a socket: one that is never given back, one for each object,
\* and one while the connection's data has it.
Counted(r) ==
  IF r.ws THEN r.refs = 1 + r.wraps + (IF r.points THEN 1 ELSE 0)
  ELSE r.refs = 0 /\ r.wraps = 0 /\ ~r.points

RefInv == \A w \in Wsis : Counted(wsi[w])

\* A list without doubles of the members of a set.
Lists(list, S) ==
  /\ \A i, j \in 1 .. Len(list) : list[i] = list[j] => i = j
  /\ \A i \in 1 .. Len(list) : list[i] \in S
  /\ \A x \in S : \E i \in 1 .. Len(list) : list[i] = x

\* The connections with opaque data are listed.
ListInv == Lists(opaque_list, {w \in Wsis : wsi[w].opaque})

\* The inductive invariant.
IInv == TypeOK /\ PollInv /\ RefInv /\ ListInv

-----------------------------------------------------------------------------
\* Lists.

LessThan == {ss \in Nat \X Nat : ss[1] < ss[2]}

\* The position at which an element of a list is found.
LEMMA PositionOf ==
  ASSUME NEW S, NEW list \in Seq(S), NEW x, \E i \in 1 .. Len(list) : list[i] = x
  PROVE  Min({i \in 1 .. Len(list) : list[i] = x}) \in {i \in 1 .. Len(list) : list[i] = x}
<1> DEFINE I == {i \in 1 .. Len(list) : list[i] = x}
<1>1. I # {} /\ I \subseteq Nat /\ \A i \in I : i \in Nat
  OBVIOUS
<1>2. Min(I) \in I
  <2>1. IsWellFoundedOn(LessThan, Nat)
    BY NatLessThanWellFounded DEF OpToRel, LessThan
  <2> HIDE DEF I
  <2>2. PICK m \in I : \A k \in I : <<k, m>> \notin LessThan
    BY <1>1, <2>1, WFMin
  <2>3. ASSUME NEW k \in I
        PROVE  m =< k
    <3>1. k \in Nat /\ m \in Nat
      BY <1>1
    <3>2. <<k, m>> \in Nat \X Nat /\ <<k, m>>[1] = k /\ <<k, m>>[2] = m
      BY <3>1
    <3>3. ~(k < m)
      BY <2>2, <3>2 DEF LessThan
    <3> QED BY <3>1, <3>3
  <2> QED BY <2>3 DEF Min
<1> QED BY <1>2

\* Without one of its elements a list has the others, each once.
LEMMA RemoveFirstLists ==
  ASSUME NEW S, NEW list \in Seq(S), NEW T, Lists(list, T), NEW x
  PROVE  RemoveFirst(list, x) \in Seq(S) /\ Lists(RemoveFirst(list, x), T \ {x})
<1> DEFINE n == Len(list)
<1>0. n \in Nat /\ \A k \in 1 .. n : list[k] \in S
  OBVIOUS
<1>1. CASE ~\E i \in 1 .. Len(list) : list[i] = x
  <2>1. RemoveFirst(list, x) = list
    BY <1>1 DEF RemoveFirst
  <2>2. x \notin T
    BY <1>1 DEF Lists
  <2> QED BY <2>1, <2>2 DEF Lists
<1>2. CASE \E i \in 1 .. Len(list) : list[i] = x
  <2> DEFINE I == {i \in 1 .. Len(list) : list[i] = x}
  <2>1. PICK p : p = Min(I)
    OBVIOUS
  <2>2. p \in 1 .. n /\ list[p] = x
    <3>1. Min(I) \in I
      BY <1>2, PositionOf, ZenonT(60)
    <3> QED BY <2>1, <3>1
  <2>3. RemoveFirst(list, x) = SubSeq(list, 1, p - 1) \o SubSeq(list, p + 1, n)
    <3>1. I # {}
      BY <1>2
    <3>2. RemoveFirst(list, x) = RemoveAt(list, IF I # {} THEN Min(I) ELSE 0)
      BY <1>2 DEF RemoveFirst, SelectInSeq, SelectInSubSeq
    <3> QED BY <2>1, <3>1, <3>2 DEF RemoveAt
  <2> DEFINE a == SubSeq(list, 1, p - 1)
             b == SubSeq(list, p + 1, n)
             r == a \o b
  <2> HIDE DEF n
  <2>4. /\ a \in Seq(S) /\ Len(a) = p - 1 /\ \A i \in 1 .. p - 1 : a[i] = list[i]
        /\ b \in Seq(S) /\ Len(b) = n - p /\ \A i \in 1 .. n - p : b[i] = list[i + p]
    <3>1. p - 1 \in Nat /\ n - p \in Nat
      BY <1>0, <2>2
    <3>2. (\A i \in 1 .. p - 1 : list[i] \in S) /\ (\A i \in p + 1 .. n : list[i] \in S)
      BY <1>0, <2>2
    <3>3. /\ a \in Seq(S) /\ Len(a) = IF 1 <= p - 1 THEN p - 1 - 1 + 1 ELSE 0
          /\ \A i \in 1 .. p - 1 - 1 + 1 : a[i] = list[1 + i - 1]
      BY <1>0, <2>2, <3>2, SubSeqProperties
    <3>4. /\ b \in Seq(S) /\ Len(b) = IF p + 1 <= n THEN n - (p + 1) + 1 ELSE 0
          /\ \A i \in 1 .. n - (p + 1) + 1 : b[i] = list[p + 1 + i - 1]
      BY <1>0, <2>2, <3>2, SubSeqProperties
    <3> HIDE DEF a, b
    <3>5. Len(a) = p - 1 /\ \A i \in 1 .. p - 1 : a[i] = list[i]
      BY <1>0, <2>2, <3>1, <3>3
    <3>6. Len(b) = n - p /\ \A i \in 1 .. n - p : b[i] = list[i + p]
      BY <1>0, <2>2, <3>1, <3>4
    <3> QED BY <3>3, <3>4, <3>5, <3>6
  <2> HIDE DEF a, b
  <2>5. /\ r \in Seq(S) /\ Len(r) = n - 1
        /\ \A i \in 1 .. n - 1 : r[i] = list[IF i < p THEN i ELSE i + 1]
    <3>1. /\ r \in Seq(S) /\ Len(r) = p - 1 + (n - p)
          /\ \A i \in 1 .. p - 1 + (n - p) : r[i] = IF i <= p - 1 THEN a[i] ELSE b[i - (p - 1)]
      <4>1. /\ r \in Seq(S) /\ Len(r) = Len(a) + Len(b)
            /\ \A i \in 1 .. Len(a) + Len(b) : r[i] = IF i <= Len(a) THEN a[i] ELSE b[i - Len(a)]
        BY <2>4, ConcatProperties
      <4> QED BY <2>4, <4>1
    <3> HIDE DEF r
    <3>2. ASSUME NEW i \in 1 .. n - 1
          PROVE  r[i] = list[IF i < p THEN i ELSE i + 1]
      <4>1. CASE i < p
        BY <1>0, <2>2, <2>4, <3>1, <4>1
      <4>2. CASE ~(i < p)
        <5>1. i - (p - 1) \in 1 .. n - p /\ i - (p - 1) + p = i + 1
          BY <1>0, <2>2, <4>2
        <5>2. r[i] = b[i - (p - 1)]
          BY <1>0, <2>2, <3>1, <4>2
        <5> QED BY <2>4, <4>2, <5>1, <5>2
      <4> QED BY <4>1, <4>2
    <3> QED BY <1>0, <2>2, <3>1, <3>2
  <2> HIDE DEF r
  <2> DEFINE at(i) == IF i < p THEN i ELSE i + 1
  <2>6. \A i \in 1 .. n - 1 : at(i) \in 1 .. n /\ at(i) # p /\ r[i] = list[at(i)]
    BY <1>0, <2>2, <2>5
  <2>7. \A i, j \in 1 .. n - 1 : at(i) = at(j) => i = j
    BY <1>0, <2>2
  <2>8. \A k \in 1 .. n : k # p => \E i \in 1 .. n - 1 : at(i) = k
    <3> SUFFICES ASSUME NEW k \in 1 .. n, k # p
                 PROVE  \E i \in 1 .. n - 1 : at(i) = k
      OBVIOUS
    <3>1. CASE k < p
      <4>1. k \in 1 .. n - 1 /\ at(k) = k
        BY <1>0, <2>2, <3>1
      <4> QED BY <4>1
    <3>2. CASE ~(k < p)
      <4>1. k - 1 \in 1 .. n - 1 /\ at(k - 1) = k
        BY <1>0, <2>2, <3>2
      <4> QED BY <4>1
    <3> QED BY <3>1, <3>2
  <2> HIDE DEF at
  <2>9. /\ \A i, j \in 1 .. n : list[i] = list[j] => i = j
        /\ \A i \in 1 .. n : list[i] \in T
        /\ \A y \in T : \E i \in 1 .. n : list[i] = y
    BY DEF Lists, n
  <2>10. \A i, j \in 1 .. n - 1 : r[i] = r[j] => i = j
    BY <2>6, <2>7, <2>9
  <2>11. \A i \in 1 .. n - 1 : r[i] \in T \ {x}
    BY <2>2, <2>6, <2>9
  <2>12. \A y \in T \ {x} : \E i \in 1 .. n - 1 : r[i] = y
    <3> SUFFICES ASSUME NEW y \in T \ {x}
                 PROVE  \E i \in 1 .. n - 1 : r[i] = y
      OBVIOUS
    <3>1. PICK k \in 1 .. n : list[k] = y
      BY <2>9
    <3>2. k # p
      BY <2>2, <3>1
    <3>3. PICK i \in 1 .. n - 1 : at(i) = k
      BY <2>8, <3>2
    <3> QED BY <2>6, <3>1, <3>3
  <2>13. Lists(r, T \ {x})
    BY <2>5, <2>10, <2>11, <2>12 DEF Lists
  <2> QED BY <2>3, <2>5, <2>13 DEF r, a, b
<1> QED BY <1>1, <1>2

\* With a new element in front a list has that one as well.
LEMMA PrependLists ==
  ASSUME NEW S, NEW list \in Seq(S), NEW T, Lists(list, T), NEW x \in S, x \notin T
  PROVE  <<x>> \o list \in Seq(S) /\ Lists(<<x>> \o list, T \cup {x})
<1> DEFINE n == Len(list)
           r == <<x>> \o list
<1>1. <<x>> \in Seq(S) /\ Len(<<x>>) = 1 /\ <<x>>[1] = x /\ n \in Nat
  OBVIOUS
<1>2. /\ r \in Seq(S) /\ Len(r) = n + 1
      /\ r[1] = x /\ \A i \in 1 .. n : r[i + 1] = list[i]
  <2>1. /\ r \in Seq(S) /\ Len(r) = 1 + n
        /\ \A i \in 1 .. 1 + n : r[i] = IF i <= 1 THEN <<x>>[i] ELSE list[i - 1]
    BY <1>1, ConcatProperties
  <2> HIDE DEF r, n
  <2>2. \A i \in 1 .. n : i + 1 \in 1 .. 1 + n /\ ~(i + 1 <= 1) /\ i + 1 - 1 = i
    BY <1>1
  <2>3. 1 \in 1 .. 1 + n /\ 1 + n = n + 1
    BY <1>1
  <2> QED BY <1>1, <2>1, <2>2, <2>3
<1>3. \A k \in 1 .. n + 1 : k = 1 \/ \E i \in 1 .. n : k = i + 1
  <2> SUFFICES ASSUME NEW k \in 1 .. n + 1, k # 1
               PROVE  \E i \in 1 .. n : k = i + 1
    OBVIOUS
  <2>1. k - 1 \in 1 .. n /\ k = (k - 1) + 1
    BY <1>1
  <2> QED BY <2>1
<1>4. /\ \A i, j \in 1 .. n : list[i] = list[j] => i = j
      /\ \A i \in 1 .. n : list[i] \in T
      /\ \A y \in T : \E i \in 1 .. n : list[i] = y
  BY DEF Lists
<1>5. 1 \in 1 .. n + 1 /\ \A i \in 1 .. n : i + 1 \in 1 .. n + 1
  BY <1>1
<1> HIDE DEF n, r
<1>6. \A i, j \in 1 .. n + 1 : r[i] = r[j] => i = j
  BY <1>2, <1>3, <1>4
<1>7. \A i \in 1 .. n + 1 : r[i] \in T \cup {x}
  BY <1>2, <1>3, <1>4
<1>8. \A y \in T \cup {x} : \E i \in 1 .. n + 1 : r[i] = y
  BY <1>2, <1>4, <1>5
<1>9. Lists(r, T \cup {x})
  BY <1>2, <1>6, <1>7, <1>8 DEF Lists
<1> QED BY <1>2, <1>9 DEF r

\* The sessions the script is given are the elements of the list, each once.
LEMMA ReverseLists ==
  ASSUME NEW S, NEW list \in Seq(S), NEW T, Lists(list, T)
  PROVE  ToSet(Reverse(list)) = T /\ IsInjective(Reverse(list))
<1> DEFINE n == Len(list)
           r == Reverse(list)
<1>1. n \in Nat /\ DOMAIN r = 1 .. n /\ \A i \in 1 .. n : r[i] = list[n - i + 1]
  BY DEF Reverse
<1>2. \A i \in 1 .. n : n - i + 1 \in 1 .. n /\ n - (n - i + 1) + 1 = i
  BY <1>1
<1>3. /\ \A i, j \in 1 .. n : list[i] = list[j] => i = j
      /\ \A i \in 1 .. n : list[i] \in T
      /\ \A y \in T : \E i \in 1 .. n : list[i] = y
  BY DEF Lists
<1> HIDE DEF n, r
<1>4. \A i, j \in 1 .. n : r[i] = r[j] => i = j
  <2> SUFFICES ASSUME NEW i \in 1 .. n, NEW j \in 1 .. n, r[i] = r[j]
               PROVE  i = j
    OBVIOUS
  <2>1. n - i + 1 = n - j + 1
    BY <1>1, <1>2, <1>3
  <2> QED BY <1>1, <2>1
<1>5. \A y \in T : \E i \in 1 .. n : r[i] = y
  <2> SUFFICES ASSUME NEW y \in T
               PROVE  \E i \in 1 .. n : r[i] = y
    OBVIOUS
  <2>1. PICK k \in 1 .. n : list[k] = y
    BY <1>3
  <2>2. n - k + 1 \in 1 .. n /\ r[n - k + 1] = y
    BY <1>1, <1>2, <2>1
  <2> QED BY <2>2
<1>6. \A i \in 1 .. n : r[i] \in T
  BY <1>1, <1>2, <1>3
<1>7. ToSet(r) = T
  BY <1>1, <1>5, <1>6 DEF ToSet
<1>8. IsInjective(r)
  BY <1>1, <1>4 DEF IsInjective
<1> QED BY <1>7, <1>8 DEF r

-----------------------------------------------------------------------------
\* What a change of one connection does to each part.

\* The connections after a change of one.
LEMMA Changed ==
  ASSUME TypeOK, NEW w \in Wsis, NEW r \in Connections, wsi' = [wsi EXCEPT ![w] = r]
  PROVE  /\ wsi' \in [Wsis -> Connections]
         /\ wsi'[w] = r /\ \A x \in Wsis : x # w => wsi'[x] = wsi[x]
BY DEF TypeOK

\* The functions that are made for a connection.
LEMMA IoHandlers ==
  ASSUME NEW w \in Wsis, NEW events \in SUBSET Events
  PROVE  /\ minnet_io_handlers(w, events) \in [Events -> Handlers]
         /\ \A e \in Events : minnet_io_handlers(w, events)[e] =
              IF e \in events THEN [wsi |-> w, awaited |-> events] ELSE NoHandler
<1>1. [wsi |-> w, awaited |-> events] \in Handlers /\ NoHandler \in Handlers
  BY DEF Handlers, NoHandler
<1> QED BY <1>1 DEF minnet_io_handlers

\* The functions of a descriptor follow a change of the connection that has it, has
\* it now, or had it.
LEMMA PollFollows ==
  ASSUME TypeOK, PollInv, NEW w \in Wsis, NEW r \in Connections,
         wsi' = [wsi EXCEPT ![w] = r], NEW fd \in Fds, NEW events \in SUBSET Events,
         wsi[w].fd \in {None, fd}, \A x \in Wsis : x # w => wsi[x].fd # fd,
         \/ r.state = "open" /\ r.fd = fd /\ r.events = events
         \/ r.state # "open" /\ r.fd = None /\ r.events = {} /\ events = {},
         wsi_iohandler(w, fd, events), UNCHANGED <<onfd, served>>
  PROVE  handlers' \in [Fds -> [Events -> Handlers]] /\ PollInv'
<1> DEFINE h == minnet_io_handlers(w, events)
<1>1. /\ wsi'[w] = r /\ \A x \in Wsis : x # w => wsi'[x] = wsi[x]
  BY Changed
<1>2. /\ h \in [Events -> Handlers]
      /\ \A e \in Events : h[e] = IF e \in events THEN [wsi |-> w, awaited |-> events]
                                                  ELSE NoHandler
  BY IoHandlers
<1>3. handlers' = IF onfd THEN [handlers EXCEPT ![fd] = h] ELSE handlers
  BY DEF wsi_iohandler
<1>4. fd # None
  BY ConstantsAssumption
<1> HIDE DEF h
<1>5. /\ handlers' \in [Fds -> [Events -> Handlers]]
      /\ onfd => handlers'[fd] = h /\ \A f \in Fds : f # fd => handlers'[f] = handlers[f]
  BY <1>2, <1>3 DEF TypeOK
<1>6. /\ \A x \in Wsis : (wsi'[x].state = "open" <=> wsi'[x].fd # None)
                         /\ (wsi'[x].state # "open" => wsi'[x].events = {})
      /\ \A v, x \in Wsis : wsi'[v].fd = wsi'[x].fd /\ wsi'[v].fd # None => v = x
  <2>1. ASSUME NEW x \in Wsis
        PROVE  /\ wsi'[x].state = "open" <=> wsi'[x].fd # None
               /\ wsi'[x].state # "open" => wsi'[x].events = {}
    BY <1>1, <1>4 DEF PollInv
  <2>2. ASSUME NEW v \in Wsis, NEW x \in Wsis, wsi'[v].fd = wsi'[x].fd, wsi'[v].fd # None
        PROVE  v = x
    BY <1>1, <2>2 DEF PollInv
  <2> QED BY <2>1, <2>2
<1>7. ASSUME onfd, NEW f \in Fds, NEW e \in Events
      PROVE  /\ \A x \in Wsis : wsi'[x].fd = f /\ e \in wsi'[x].events =>
                  handlers'[f][e] = [wsi |-> x, awaited |-> wsi'[x].events]
             /\ (\A x \in Wsis : ~(wsi'[x].fd = f /\ e \in wsi'[x].events)) =>
                  handlers'[f][e] = NoHandler
  <2>1. CASE f = fd
    <3>1. \A x \in Wsis : wsi'[x].fd = f => x = w /\ r.state = "open"
      BY <1>1, <1>4, <2>1
    <3>2. handlers'[f][e] = IF e \in events THEN [wsi |-> w, awaited |-> events] ELSE NoHandler
      BY <1>2, <1>5, <1>7, <2>1
    <3>3. e \in events => wsi'[w].fd = f /\ wsi'[w].events = events
      BY <1>1, <2>1
    <3> QED BY <1>1, <3>1, <3>2, <3>3
  <2>2. CASE f # fd
    <3>1. handlers'[f][e] = handlers[f][e]
      BY <1>5, <1>7, <2>2
    <3>2. f # None
      BY ConstantsAssumption
    <3>3. \A x \in Wsis : wsi'[x].fd = f <=> wsi[x].fd = f
      BY <1>1, <2>2, <3>2
    <3>4. \A x \in Wsis : wsi'[x].fd = f => wsi'[x] = wsi[x]
      BY <1>1, <2>2, <3>2
    <3> QED BY <1>7, <3>1, <3>3, <3>4 DEF PollInv
  <2> QED BY <2>1, <2>2
<1>8. PollInv'
  BY <1>6, <1>7 DEF PollInv
<1> QED BY <1>5, <1>8

\* Where descriptors and events stay, so do the functions.
LEMMA PollSame ==
  ASSUME TypeOK, PollInv, NEW w \in Wsis, NEW r \in Connections,
         wsi' = [wsi EXCEPT ![w] = r], r.fd = wsi[w].fd, r.events = wsi[w].events,
         r.state = "open" <=> wsi[w].state = "open",
         UNCHANGED <<handlers, onfd, served>>
  PROVE  PollInv'
<1>1. \A x \in Wsis : /\ wsi'[x].fd = wsi[x].fd /\ wsi'[x].events = wsi[x].events
                      /\ wsi'[x].state = "open" <=> wsi[x].state = "open"
  BY Changed
<1> QED BY <1>1 DEF PollInv

\* The other connections are counted as before.
LEMMA CountsOne ==
  ASSUME TypeOK, RefInv, NEW w \in Wsis, NEW r \in Connections, Counted(r),
         wsi' = [wsi EXCEPT ![w] = r]
  PROVE  RefInv'
<1>1. wsi'[w] = r /\ \A x \in Wsis : x # w => wsi'[x] = wsi[x]
  BY Changed
<1> QED BY <1>1 DEF RefInv, Counted

\* A connection whose data is made is listed.
LEMMA ListsMore ==
  ASSUME TypeOK, ListInv, NEW w \in Wsis, NEW r \in Connections, r.opaque,
         wsi' = [wsi EXCEPT ![w] = r], opaque_list' = lws_opaque(opaque_list, w)
  PROVE  opaque_list' \in Seq(Wsis) /\ ListInv'
<1> DEFINE T == {x \in Wsis : wsi[x].opaque}
<1>1. wsi'[w] = r /\ \A x \in Wsis : x # w => wsi'[x] = wsi[x]
  BY Changed
<1>2. {x \in Wsis : wsi'[x].opaque} = T \cup {w}
  BY <1>1
<1>3. opaque_list \in Seq(Wsis) /\ Lists(opaque_list, T)
  BY DEF TypeOK, ListInv
<1>4. CASE wsi[w].opaque
  <2>1. opaque_list' = opaque_list /\ T \cup {w} = T
    BY <1>4 DEF lws_opaque
  <2> HIDE DEF T
  <2> QED BY <1>2, <1>3, <2>1 DEF ListInv
<1>5. CASE ~wsi[w].opaque
  <2>1. opaque_list' = <<w>> \o opaque_list /\ w \notin T
    BY <1>5 DEF lws_opaque
  <2> HIDE DEF T
  <2> QED BY <1>2, <1>3, <2>1, PrependLists DEF ListInv
<1> QED BY <1>4, <1>5

\* A connection whose data is freed is not listed any more.
LEMMA ListsLess ==
  ASSUME TypeOK, ListInv, NEW w \in Wsis, NEW r \in Connections,
         r.opaque => wsi[w].opaque,
         wsi' = [wsi EXCEPT ![w] = r], opaque_list' = Unlisted(opaque_list, r, w)
  PROVE  opaque_list' \in Seq(Wsis) /\ ListInv'
<1> DEFINE T == {x \in Wsis : wsi[x].opaque}
<1>1. wsi'[w] = r /\ \A x \in Wsis : x # w => wsi'[x] = wsi[x]
  BY Changed
<1>2. opaque_list \in Seq(Wsis) /\ Lists(opaque_list, T)
  BY DEF TypeOK, ListInv
<1>3. CASE r.opaque
  <2>1. opaque_list' = opaque_list /\ {x \in Wsis : wsi'[x].opaque} = T
    BY <1>1, <1>3 DEF Unlisted
  <2> HIDE DEF T
  <2> QED BY <1>2, <2>1 DEF ListInv
<1>4. CASE ~r.opaque
  <2>1. /\ opaque_list' = RemoveFirst(opaque_list, w)
        /\ {x \in Wsis : wsi'[x].opaque} = T \ {w}
    BY <1>1, <1>4 DEF Unlisted
  <2> HIDE DEF T
  <2> QED BY <1>2, <2>1, RemoveFirstLists DEF ListInv
<1> QED BY <1>3, <1>4

-----------------------------------------------------------------------------
\* The steps.

\* The initial state.
LEMMA InitIInv == Init => IInv
<1> SUFFICES ASSUME Init PROVE IInv
  OBVIOUS
<1> USE DEF Init
<1>1. wsi_none \in Connections /\ Counted(wsi_none)
  BY DEF wsi_none, Connections, States, Counted
<1>2. \A w \in Wsis : wsi[w] = wsi_none
  OBVIOUS
<1>3. NoHandler \in Handlers
  BY DEF NoHandler, Handlers
<1>4. TypeOK
  BY <1>1, <1>3 DEF TypeOK
<1>5. PollInv
  <2>1. ~\E fd \in Fds : fd = None
    BY ConstantsAssumption
  <2> QED BY <1>2, <2>1 DEF PollInv, wsi_none
<1>6. RefInv
  BY <1>1, <1>2 DEF RefInv
<1>7. ListInv
  BY <1>2 DEF ListInv, Lists, wsi_none
<1> QED BY <1>4, <1>5, <1>6, <1>7 DEF IInv

\* A connection that gets a descriptor keeps it.
LEMMA AddIInv ==
  ASSUME IInv, NEW w \in Wsis, NEW fd \in Fds, NEW events \in SUBSET Events,
         Add(w, fd, events)
  PROVE  IInv'
<1> DEFINE r == [wsi[w] EXCEPT !.state = "open", !.fd = fd, !.events = events,
                               !.opaque = @ \/ minnet_io_handler(events)]
<1>1. /\ wsi[w].state \in {"none", "created"} /\ \A x \in Wsis : wsi[x].fd # fd
      /\ wsi_iohandler(w, fd, events) /\ wsi' = [wsi EXCEPT ![w] = r]
      /\ opaque_list' = IF minnet_io_handler(events) THEN lws_opaque(opaque_list, w) ELSE opaque_list
      /\ UNCHANGED <<ready, onfd, served>>
  BY DEF Add
<1>2. TypeOK /\ wsi[w] \in Connections /\ minnet_io_handler(events) \in BOOLEAN
  BY DEF IInv, TypeOK, minnet_io_handler
<1>3. /\ r \in Connections /\ r.state = "open" /\ r.fd = fd /\ r.events = events
      /\ r.opaque = (wsi[w].opaque \/ minnet_io_handler(events))
      /\ r.ws = wsi[w].ws /\ r.refs = wsi[w].refs /\ r.wraps = wsi[w].wraps
      /\ r.points = wsi[w].points
  <2>1. (wsi[w].opaque \/ minnet_io_handler(events)) \in BOOLEAN
    BY DEF minnet_io_handler
  <2> QED BY <1>2, <2>1 DEF Connections, States
<1> HIDE DEF r
<1>4. wsi[w].fd \in {None, fd} /\ \A x \in Wsis : x # w => wsi[x].fd # fd
  <2>1. wsi[w].state # "open"
    BY <1>1
  <2>2. wsi[w].fd = None
    BY <2>1 DEF IInv, PollInv
  <2> QED BY <1>1, <2>2
<1>5. handlers' \in [Fds -> [Events -> Handlers]] /\ PollInv'
  BY <1>1, <1>2, <1>3, <1>4, PollFollows, ZenonT(60) DEF IInv
<1>6. RefInv'
  <2>1. Counted(r)
    BY <1>3 DEF IInv, RefInv, Counted
  <2> QED BY <1>1, <1>2, <1>3, <2>1, CountsOne DEF IInv
<1>7. opaque_list' \in Seq(Wsis) /\ ListInv'
  <2>1. CASE minnet_io_handler(events)
    BY <1>1, <1>2, <1>3, <2>1, ListsMore DEF IInv
  <2>2. CASE ~minnet_io_handler(events)
    <3>1. r.opaque = wsi[w].opaque
      BY <1>2, <1>3, <2>2 DEF Connections
    <3>2. \A x \in Wsis : wsi'[x].opaque = wsi[x].opaque
      BY <1>1, <1>2, <1>3, <3>1, Changed
    <3> QED BY <1>1, <2>2, <3>2 DEF IInv, TypeOK, ListInv, Lists
  <2> QED BY <2>1, <2>2
<1>8. TypeOK'
  BY <1>1, <1>2, <1>3, <1>5, <1>7, Changed DEF TypeOK
<1> QED BY <1>5, <1>6, <1>7, <1>8 DEF IInv

\* A connection that waits for other events keeps it.
LEMMA ChangeIInv ==
  ASSUME IInv, NEW w \in Wsis, NEW events \in SUBSET Events, Change(w, events)
  PROVE  IInv'
<1> DEFINE r == [wsi[w] EXCEPT !.events = events, !.opaque = @ \/ minnet_io_handler(events)]
           fd == wsi[w].fd
<1>1. /\ wsi[w].state = "open"
      /\ wsi_iohandler(w, fd, events) /\ wsi' = [wsi EXCEPT ![w] = r]
      /\ opaque_list' = IF minnet_io_handler(events) THEN lws_opaque(opaque_list, w) ELSE opaque_list
      /\ UNCHANGED <<ready, onfd, served>>
  BY DEF Change
<1>2. TypeOK /\ wsi[w] \in Connections /\ minnet_io_handler(events) \in BOOLEAN
  BY DEF IInv, TypeOK, minnet_io_handler
<1>3. /\ r \in Connections /\ r.state = "open" /\ r.fd = fd /\ r.events = events
      /\ r.opaque = (wsi[w].opaque \/ minnet_io_handler(events))
      /\ r.ws = wsi[w].ws /\ r.refs = wsi[w].refs /\ r.wraps = wsi[w].wraps
      /\ r.points = wsi[w].points
  <2>1. (wsi[w].opaque \/ minnet_io_handler(events)) \in BOOLEAN
    BY DEF minnet_io_handler
  <2> QED BY <1>1, <1>2, <2>1 DEF Connections
<1> HIDE DEF r
<1>4. fd \in Fds /\ \A x \in Wsis : x # w => wsi[x].fd # fd
  <2>1. fd # None
    BY <1>1 DEF IInv, PollInv
  <2> QED BY <1>2, <2>1 DEF IInv, PollInv, Connections
<1>5. handlers' \in [Fds -> [Events -> Handlers]] /\ PollInv'
  BY <1>1, <1>2, <1>3, <1>4, PollFollows, ZenonT(60) DEF IInv
<1>6. RefInv'
  <2>1. Counted(r)
    BY <1>3 DEF IInv, RefInv, Counted
  <2> QED BY <1>1, <1>2, <1>3, <2>1, CountsOne DEF IInv
<1>7. opaque_list' \in Seq(Wsis) /\ ListInv'
  <2>1. CASE minnet_io_handler(events)
    BY <1>1, <1>2, <1>3, <2>1, ListsMore DEF IInv
  <2>2. CASE ~minnet_io_handler(events)
    <3>1. r.opaque = wsi[w].opaque
      BY <1>2, <1>3, <2>2 DEF Connections
    <3>2. \A x \in Wsis : wsi'[x].opaque = wsi[x].opaque
      BY <1>1, <1>2, <1>3, <3>1, Changed
    <3> QED BY <1>1, <2>2, <3>2 DEF IInv, TypeOK, ListInv, Lists
  <2> QED BY <2>1, <2>2
<1>8. TypeOK'
  BY <1>1, <1>2, <1>3, <1>5, <1>7, Changed DEF TypeOK
<1> QED BY <1>5, <1>6, <1>7, <1>8 DEF IInv

\* A descriptor that is given up keeps it.
LEMMA DeleteIInv ==
  ASSUME IInv, NEW w \in Wsis, Delete(w)
  PROVE  IInv'
<1> DEFINE r == [wsi[w] EXCEPT !.state = "deleted", !.events = {}, !.fd = None]
           fd == wsi[w].fd
<1>1. /\ wsi[w].state = "open"
      /\ wsi_iohandler(w, fd, {}) /\ wsi' = [wsi EXCEPT ![w] = r]
      /\ ready' = [ready EXCEPT ![fd] = {}]
      /\ UNCHANGED <<opaque_list, onfd, served>>
  BY DEF Delete
<1>2. TypeOK /\ wsi[w] \in Connections
  BY DEF IInv, TypeOK
<1>3. /\ r \in Connections /\ r.state = "deleted" /\ r.fd = None /\ r.events = {}
      /\ r.opaque = wsi[w].opaque
      /\ r.ws = wsi[w].ws /\ r.refs = wsi[w].refs /\ r.wraps = wsi[w].wraps
      /\ r.points = wsi[w].points
  BY <1>2 DEF Connections, States
<1> HIDE DEF r
<1>4. fd \in Fds /\ \A x \in Wsis : x # w => wsi[x].fd # fd
  <2>1. fd # None
    BY <1>1 DEF IInv, PollInv
  <2> QED BY <1>2, <2>1 DEF IInv, PollInv, Connections
<1>5. handlers' \in [Fds -> [Events -> Handlers]] /\ PollInv'
  <2>1. {} \in SUBSET Events
    OBVIOUS
  <2> QED BY <1>1, <1>2, <1>3, <1>4, <2>1, PollFollows, ZenonT(60) DEF IInv
<1>6. RefInv'
  <2>1. Counted(r)
    BY <1>3 DEF IInv, RefInv, Counted
  <2> QED BY <1>1, <1>2, <1>3, <2>1, CountsOne DEF IInv
<1>7. ListInv'
  <2>1. \A x \in Wsis : wsi'[x].opaque = wsi[x].opaque
    BY <1>1, <1>2, <1>3, Changed
  <2> QED BY <1>1, <2>1 DEF IInv, ListInv, Lists
<1>8. TypeOK'
  BY <1>1, <1>2, <1>3, <1>5, Changed DEF TypeOK
<1> QED BY <1>5, <1>6, <1>7, <1>8 DEF IInv

\* on.fd is gone.
LEMMA SetOnfdIInv == ASSUME IInv, SetOnfd PROVE IInv'
<1> USE DEF SetOnfd, IInv
<1>1. TypeOK'
  BY DEF TypeOK
<1>2. PollInv'
  BY DEF PollInv
<1>3. RefInv' /\ ListInv'
  BY DEF RefInv, Counted, ListInv, Lists
<1> QED BY <1>1, <1>2, <1>3

\* The kernel has something ready.
LEMMA ReadyIInv ==
  ASSUME IInv, NEW fd \in Fds, NEW event \in Events, Ready(fd, event)
  PROVE  IInv'
<1> USE DEF Ready, IInv
<1>1. TypeOK'
  BY DEF TypeOK
<1>2. PollInv'
  BY DEF PollInv
<1>3. RefInv' /\ ListInv'
  BY DEF RefInv, Counted, ListInv, Lists
<1> QED BY <1>1, <1>2, <1>3

\* libwebsockets is told of all that is ready and awaited.
LEMMA TurnIInv ==
  ASSUME IInv, NEW fd \in Fds, NEW event \in Events, Turn(fd, event)
  PROVE  IInv'
<1> DEFINE h == handlers[fd][event]
           told == lws_iohandler(h.awaited, event, fd)
<1>1. /\ event \in ready[fd]
      /\ served' = [awaited |-> h.awaited, ready |-> ready[fd], told |-> told]
      /\ ready' = [ready EXCEPT ![fd] = @ \ told]
      /\ UNCHANGED <<wsi, opaque_list, handlers, onfd>>
  BY DEF Turn
<1>2. TypeOK /\ ready[fd] \subseteq Events
  BY DEF IInv, TypeOK
<1>3. told = h.awaited \cap ready[fd]
  <2>1. CASE {event} = h.awaited
    BY <1>1, <2>1 DEF lws_iohandler
  <2>2. CASE {event} # h.awaited
    BY <2>2 DEF lws_iohandler
  <2> QED BY <2>1, <2>2
<1> HIDE DEF told
<1>4. served'.told = served'.awaited \cap served'.ready
  BY <1>1, <1>3
<1>5. TypeOK'
  BY <1>1, <1>2 DEF TypeOK
<1>6. PollInv'
  BY <1>1, <1>4 DEF IInv, PollInv
<1>7. RefInv' /\ ListInv'
  BY <1>1 DEF IInv, RefInv, Counted, ListInv, Lists
<1> QED BY <1>5, <1>6, <1>7 DEF IInv

\* A socket that is made has two references, the data's and the one not given back.
LEMMA CreateIInv ==
  ASSUME IInv, NEW w \in Wsis, Create(w)
  PROVE  IInv'
<1> DEFINE r == [ws_new(wsi[w]) EXCEPT !.state = IF @ = "none" THEN "created" ELSE @,
                                       !.opaque = TRUE]
<1>1. /\ wsi[w].state \in {"none", "open"} /\ ~wsi[w].ws
      /\ wsi' = [wsi EXCEPT ![w] = r]
      /\ opaque_list' = lws_opaque(opaque_list, w)
      /\ UNCHANGED <<handlers, ready, onfd, served>>
  BY DEF Create
<1>2. TypeOK /\ wsi[w] \in Connections
  BY DEF IInv, TypeOK
<1>3. r = [wsi[w] EXCEPT !.ws = TRUE, !.refs = 2, !.points = TRUE, !.lwsi = TRUE,
                         !.state = IF wsi[w].state = "none" THEN "created" ELSE wsi[w].state,
                         !.opaque = TRUE]
  BY <1>2 DEF ws_new, Connections
<1>4. /\ r \in Connections /\ r.opaque /\ r.ws /\ r.refs = 2 /\ r.points
      /\ r.wraps = wsi[w].wraps /\ r.fd = wsi[w].fd /\ r.events = wsi[w].events
      /\ r.state = "open" <=> wsi[w].state = "open"
  <2> HIDE DEF r
  <2>1. CASE wsi[w].state = "none"
    BY <1>2, <1>3, <2>1 DEF Connections, States
  <2>2. CASE wsi[w].state # "none"
    BY <1>2, <1>3, <2>2 DEF Connections, States
  <2> QED BY <2>1, <2>2
<1> HIDE DEF r
<1>5. PollInv'
  BY <1>1, <1>2, <1>4, PollSame DEF IInv
<1>6. RefInv'
  <2>1. wsi[w].wraps = 0
    BY <1>1 DEF IInv, RefInv, Counted
  <2>2. Counted(r)
    BY <1>4, <2>1 DEF Counted
  <2> QED BY <1>1, <1>2, <1>4, <2>2, CountsOne DEF IInv
<1>7. opaque_list' \in Seq(Wsis) /\ ListInv'
  BY <1>1, <1>2, <1>4, ListsMore DEF IInv
<1>8. TypeOK'
  BY <1>1, <1>2, <1>4, <1>7, Changed DEF TypeOK
<1> QED BY <1>5, <1>6, <1>7, <1>8 DEF IInv

\* An object of the script has a reference of its own.
LEMMA WrapIInv ==
  ASSUME IInv, NEW w \in Wsis, Wrap(w)
  PROVE  IInv'
<1> DEFINE r == minnet_ws_wrap(wsi[w])
<1>1. /\ wsi[w].points /\ wsi' = [wsi EXCEPT ![w] = r]
      /\ UNCHANGED <<opaque_list, handlers, ready, onfd, served>>
  BY DEF Wrap
<1>2. TypeOK /\ wsi[w] \in Connections
  BY DEF IInv, TypeOK
<1>3. /\ r \in Connections /\ r.state = wsi[w].state /\ r.fd = wsi[w].fd
      /\ r.events = wsi[w].events /\ r.opaque = wsi[w].opaque /\ r.ws = wsi[w].ws
      /\ r.refs = wsi[w].refs + 1 /\ r.wraps = wsi[w].wraps + 1
      /\ r.points = wsi[w].points
  <2>1. wsi[w].wraps + 1 \in Nat /\ wsi[w].refs + 1 \in Nat
    BY <1>2 DEF Connections
  <2>2. r = [wsi[w] EXCEPT !.wraps = wsi[w].wraps + 1, !.refs = wsi[w].refs + 1]
    BY <1>2 DEF minnet_ws_wrap, Connections
  <2> HIDE DEF r
  <2>3. r \in Connections
    BY <1>2, <2>1, <2>2 DEF Connections
  <2> QED BY <1>2, <2>2, <2>3 DEF Connections
<1> HIDE DEF r
<1>4. PollInv'
  BY <1>1, <1>2, <1>3, PollSame DEF IInv
<1>5. RefInv'
  <2>1. wsi[w].ws /\ wsi[w].refs = 1 + wsi[w].wraps + 1
    BY <1>1 DEF IInv, RefInv, Counted
  <2>2. wsi[w].wraps \in Nat
    BY <1>2 DEF Connections
  <2>3. Counted(r)
    BY <1>1, <1>3, <2>1, <2>2 DEF Counted
  <2> QED BY <1>1, <1>2, <1>3, <2>3, CountsOne DEF IInv
<1>6. ListInv'
  <2>1. \A x \in Wsis : wsi'[x].opaque = wsi[x].opaque
    BY <1>1, <1>2, <1>3, Changed
  <2> QED BY <1>1, <2>1 DEF IInv, ListInv, Lists
<1>7. TypeOK'
  BY <1>1, <1>2, <1>3, Changed DEF TypeOK
<1> QED BY <1>4, <1>5, <1>6, <1>7 DEF IInv

\* A reference that is given back while the socket has another.
LEMMA Released ==
  ASSUME NEW r \in Connections, r.refs > 1
  PROVE  /\ ws_free(r) \in Connections /\ ws_free(r).refs = r.refs - 1 /\ ws_free(r).ws
         /\ ws_free(r).state = r.state /\ ws_free(r).fd = r.fd
         /\ ws_free(r).events = r.events /\ ws_free(r).opaque = r.opaque
         /\ ws_free(r).wraps = r.wraps /\ ws_free(r).points = r.points
<1>1. r.refs \in Nat /\ r.refs - 1 \in Nat /\ r.refs - 1 # 0
  BY DEF Connections
<1>2. r.lwsi \in BOOLEAN
  BY DEF Connections
<1>3. ws_free(r) = [r EXCEPT !.refs = r.refs - 1, !.ws = TRUE]
  BY <1>1, <1>2 DEF ws_free, Connections
<1> QED BY <1>1, <1>3 DEF Connections

\* An object gives its reference back, which is not the last.
LEMMA FinalizeIInv ==
  ASSUME IInv, NEW w \in Wsis, Finalize(w)
  PROVE  IInv'
<1> DEFINE s == [wsi[w] EXCEPT !.wraps = @ - 1]
           r == ws_free(s)
<1>1. /\ wsi[w].wraps > 0 /\ wsi' = [wsi EXCEPT ![w] = r]
      /\ opaque_list' = Unlisted(opaque_list, r, w)
      /\ UNCHANGED <<handlers, ready, onfd, served>>
  BY DEF Finalize
<1>2. TypeOK /\ wsi[w] \in Connections /\ wsi[w].wraps \in Nat
  BY DEF IInv, TypeOK, Connections
<1>3. /\ s \in Connections /\ s.state = wsi[w].state /\ s.fd = wsi[w].fd
      /\ s.events = wsi[w].events /\ s.opaque = wsi[w].opaque /\ s.refs = wsi[w].refs
      /\ s.wraps = wsi[w].wraps - 1 /\ s.points = wsi[w].points
  BY <1>1, <1>2 DEF Connections
<1> HIDE DEF s
<1>4. wsi[w].refs = 1 + wsi[w].wraps + (IF wsi[w].points THEN 1 ELSE 0)
  BY <1>1 DEF IInv, RefInv, Counted
<1>5. s.refs > 1
  BY <1>1, <1>2, <1>3, <1>4
<1>6. /\ r \in Connections /\ r.refs = s.refs - 1 /\ r.ws
      /\ r.state = s.state /\ r.fd = s.fd /\ r.events = s.events /\ r.opaque = s.opaque
      /\ r.wraps = s.wraps /\ r.points = s.points
  BY <1>3, <1>5, Released
<1> HIDE DEF r
<1>7. PollInv'
  BY <1>1, <1>2, <1>3, <1>6, PollSame DEF IInv
<1>8. RefInv'
  <2>1. CASE wsi[w].points
    <3>1. Counted(r)
      BY <1>2, <1>3, <1>4, <1>6, <2>1 DEF Counted
    <3> QED BY <1>1, <1>2, <1>6, <3>1, CountsOne DEF IInv
  <2>2. CASE ~wsi[w].points
    <3>1. Counted(r)
      BY <1>2, <1>3, <1>4, <1>6, <2>2 DEF Counted
    <3> QED BY <1>1, <1>2, <1>6, <3>1, CountsOne DEF IInv
  <2> QED BY <2>1, <2>2
<1>9. opaque_list' \in Seq(Wsis) /\ ListInv'
  BY <1>1, <1>2, <1>3, <1>6, ListsLess DEF IInv
<1>10. TypeOK'
  BY <1>1, <1>2, <1>6, <1>9, Changed DEF TypeOK
<1> QED BY <1>7, <1>8, <1>9, <1>10 DEF IInv

\* The data gives its reference back, and is not listed any more.
LEMMA DestroyIInv ==
  ASSUME IInv, NEW w \in Wsis, Destroy(w)
  PROVE  IInv'
<1> DEFINE s == [wsi[w] EXCEPT !.lwsi = FALSE]
           q == [s EXCEPT !.points = FALSE]
           t == IF s.points THEN ws_free(q) ELSE s
           o == [t EXCEPT !.opaque = FALSE]
           r == [o EXCEPT !.state = "destroyed"]
<1>1. /\ wsi[w].state \in {"created", "deleted"} /\ wsi[w].opaque
      /\ wsi' = [wsi EXCEPT ![w] = [opaque_free(s) EXCEPT !.state = "destroyed"]]
      /\ opaque_list' = Unlisted(opaque_list, opaque_free(s), w)
      /\ UNCHANGED <<handlers, ready, onfd, served>>
  BY DEF Destroy
<1>2. TypeOK /\ wsi[w] \in Connections
  BY DEF IInv, TypeOK
<1>3. opaque_free(s) = o
  BY DEF opaque_free
<1>4. /\ s \in Connections /\ s.state = wsi[w].state /\ s.fd = wsi[w].fd
      /\ s.events = wsi[w].events /\ s.refs = wsi[w].refs /\ s.ws = wsi[w].ws
      /\ s.wraps = wsi[w].wraps /\ s.points = wsi[w].points
      /\ q \in Connections /\ q.state = wsi[w].state /\ q.fd = wsi[w].fd
      /\ q.events = wsi[w].events /\ q.refs = wsi[w].refs
      /\ q.wraps = wsi[w].wraps /\ q.points = FALSE
  BY <1>2 DEF Connections
<1> HIDE DEF s, q
<1>5. wsi[w].wraps \in Nat
  BY <1>2 DEF Connections
<1>6. /\ t \in Connections /\ t.state = wsi[w].state /\ t.fd = wsi[w].fd
      /\ t.events = wsi[w].events /\ ~t.points /\ Counted(t)
  <2>1. CASE wsi[w].points
    <3>1. wsi[w].ws /\ wsi[w].refs = 1 + wsi[w].wraps + 1
      BY <2>1 DEF IInv, RefInv, Counted
    <3>2. q.refs > 1
      BY <1>4, <1>5, <3>1
    <3>3. /\ ws_free(q) \in Connections /\ ws_free(q).refs = q.refs - 1 /\ ws_free(q).ws
          /\ ws_free(q).state = q.state /\ ws_free(q).fd = q.fd
          /\ ws_free(q).events = q.events
          /\ ws_free(q).wraps = q.wraps /\ ws_free(q).points = q.points
      BY <1>4, <3>2, Released
    <3>4. t = ws_free(q)
      BY <1>4, <2>1
    <3> HIDE DEF t
    <3> QED BY <1>4, <1>5, <3>1, <3>3, <3>4 DEF Counted
  <2>2. CASE ~wsi[w].points
    <3>1. t = s
      BY <1>4, <2>2
    <3>2. Counted(wsi[w])
      BY DEF IInv, RefInv
    <3> HIDE DEF t
    <3> QED BY <1>4, <2>2, <3>1, <3>2 DEF Counted
  <2> QED BY <2>1, <2>2
<1> HIDE DEF t
<1>7. /\ o \in Connections /\ o.opaque = FALSE /\ r \in Connections /\ r.opaque = FALSE
      /\ r.state = "destroyed" /\ r.fd = wsi[w].fd /\ r.events = wsi[w].events
      /\ Counted(r)
  BY <1>6 DEF Connections, States, Counted
<1>8. wsi' = [wsi EXCEPT ![w] = r] /\ opaque_list' = Unlisted(opaque_list, r, w)
  BY <1>1, <1>3, <1>7 DEF Unlisted
<1> HIDE DEF o, r
<1>9. PollInv'
  BY <1>1, <1>2, <1>7, <1>8, PollSame DEF IInv
<1>10. RefInv'
  BY <1>2, <1>7, <1>8, CountsOne DEF IInv
<1>11. opaque_list' \in Seq(Wsis) /\ ListInv'
  BY <1>2, <1>7, <1>8, ListsLess DEF IInv
<1>12. TypeOK'
  BY <1>1, <1>2, <1>7, <1>8, <1>11, Changed DEF TypeOK
<1> QED BY <1>9, <1>10, <1>11, <1>12 DEF IInv

\* Every step keeps the inductive invariant.
LEMMA NextIInv == IInv /\ [Next]_vars => IInv'
<1> SUFFICES ASSUME IInv, [Next]_vars PROVE IInv'
  OBVIOUS
<1>1. ASSUME NEW w \in Wsis, NEW fd \in Fds, NEW events \in SUBSET Events,
             Add(w, fd, events)
      PROVE  IInv'
  BY <1>1, AddIInv
<1>2. ASSUME NEW w \in Wsis, NEW events \in SUBSET Events, Change(w, events)
      PROVE  IInv'
  BY <1>2, ChangeIInv
<1>3. ASSUME NEW w \in Wsis, Delete(w) PROVE IInv'
  BY <1>3, DeleteIInv
<1>4. ASSUME NEW w \in Wsis, Create(w) PROVE IInv'
  BY <1>4, CreateIInv
<1>5. ASSUME NEW w \in Wsis, Wrap(w) PROVE IInv'
  BY <1>5, WrapIInv
<1>6. ASSUME NEW w \in Wsis, Finalize(w) PROVE IInv'
  BY <1>6, FinalizeIInv
<1>7. ASSUME NEW w \in Wsis, Destroy(w) PROVE IInv'
  BY <1>7, DestroyIInv
<1>8. CASE SetOnfd
  BY <1>8, SetOnfdIInv
<1>9. ASSUME NEW fd \in Fds, NEW event \in Events, Ready(fd, event) PROVE IInv'
  BY <1>9, ReadyIInv
<1>10. ASSUME NEW fd \in Fds, NEW event \in Events, Turn(fd, event) PROVE IInv'
  BY <1>10, TurnIInv
<1>11. CASE UNCHANGED vars
  <2>1. TypeOK'
    BY <1>11 DEF IInv, TypeOK, vars
  <2>2. PollInv'
    BY <1>11 DEF IInv, PollInv, vars
  <2>3. RefInv' /\ ListInv'
    BY <1>11 DEF IInv, RefInv, Counted, ListInv, Lists, vars
  <2> QED BY <2>1, <2>2, <2>3 DEF IInv
<1> QED
  BY <1>1, <1>2, <1>3, <1>4, <1>5, <1>6, <1>7, <1>8, <1>9, <1>10, <1>11 DEF Next

-----------------------------------------------------------------------------
\* The theorems.

\* The inductive invariant: whatever connections come and go, a descriptor is that
\* of one connection, a socket has a reference for each object and for the data
\* that points to it and one that is never given back, and the data is listed once.
THEOREM Invariance == Spec => []IInv
BY InitIInv, NextIInv, PTL DEF Spec

\* The loop never has a function for a descriptor from before a change of its
\* events or from another connection, and libwebsockets is told of all that is
\* ready and awaited.
THEOREM HandlersFollowHolds == Spec => []HandlersFollow
<1>1. IInv => HandlersFollow
  <2> SUFFICES ASSUME IInv PROVE HandlersFollow
    OBVIOUS
  <2>1. ASSUME onfd, NEW fd \in Fds, NEW e \in Events
        PROVE  LET users == {w \in Wsis : wsi[w].fd = fd /\ e \in wsi[w].events}
               IN  IF users = {} THEN handlers[fd][e] = NoHandler
                   ELSE \E w \in users :
                          handlers[fd][e] = [wsi |-> w, awaited |-> wsi[w].events]
    <3> DEFINE users == {w \in Wsis : wsi[w].fd = fd /\ e \in wsi[w].events}
    <3>1. /\ \A w \in users : handlers[fd][e] = [wsi |-> w, awaited |-> wsi[w].events]
          /\ (\A w \in Wsis : w \notin users) => handlers[fd][e] = NoHandler
      BY <2>1 DEF IInv, PollInv
    <3>2. users \subseteq Wsis
      OBVIOUS
    <3> HIDE DEF users
    <3>3. IF users = {} THEN handlers[fd][e] = NoHandler
          ELSE \E w \in users : handlers[fd][e] = [wsi |-> w, awaited |-> wsi[w].events]
      BY <3>1, <3>2
    <3> QED BY <3>3 DEF users
  <2>2. served.told = served.awaited \cap served.ready
    BY DEF IInv, PollInv
  <2> QED BY <2>1, <2>2 DEF HandlersFollow
<1> QED BY <1>1, Invariance, PTL

\* While an object or the data has a socket it is there, and getSessions() lists
\* each connection that has data once.
THEOREM SocketsKeptHolds == Spec => []SocketsKept
<1>1. IInv => SocketsKept
  <2> SUFFICES ASSUME IInv PROVE SocketsKept
    OBVIOUS
  <2>1. ASSUME NEW w \in Wsis, wsi[w].wraps > 0 \/ wsi[w].points
        PROVE  wsi[w].ws /\ wsi[w].refs > 0
    <3>1. Counted(wsi[w]) /\ wsi[w].wraps \in Nat
      BY DEF IInv, RefInv, TypeOK, Connections
    <3>2. wsi[w].ws
      BY <2>1, <3>1 DEF Counted
    <3> QED BY <3>1, <3>2 DEF Counted
  <2>2. opaque_list \in Seq(Wsis) /\ Lists(opaque_list, {w \in Wsis : wsi[w].opaque})
    BY DEF IInv, TypeOK, ListInv
  <2>3. /\ ToSet(minnet_get_sessions) = {w \in Wsis : wsi[w].opaque}
        /\ IsInjective(minnet_get_sessions)
    BY <2>2, ReverseLists DEF minnet_get_sessions
  <2> QED BY <2>1, <2>3 DEF SocketsKept
<1> QED BY <1>1, Invariance, PTL
=============================================================================
