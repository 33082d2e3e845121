------------------------------ MODULE UrlProofs ------------------------------
(***************************************************************************)
(* Proofs about Url, for any protocols, methods and number of calls.       *)
(***************************************************************************)
EXTENDS Url, SequenceTheorems, FiniteSetTheorems, WellFoundedInduction, TLAPS

-----------------------------------------------------------------------------
\* Texts.

\* The pieces of texts.  A text that is there is never NULL.
Digits == {"0", "80", "443", "8080", "4294967295"}
HostPieces == {"h", "g", "0.0.0.0"}
Marks == {"/", "?", "#", "=", "&", ":"}
Pieces == Protocols \cup protocol_names \cup Digits \cup HostPieces \cup Marks
            \cup {"p", "k", "v", "f", "a", "b", "%26", "null"}
Text == Seq(Pieces)

\* A set of numbers that is not empty has a least one.
LEMMA LeastNat ==
  ASSUME NEW T, T \subseteq Nat, T # {}
  PROVE  \E n \in T : \A m \in T : n =< m
<1>1. PICK n \in T : \A m \in T : ~(<<m, n>> \in OpToRel(<, Nat))
  BY NatLessThanWellFounded, WFMin
<1>2. \A m \in T : ~(m < n)
  BY <1>1 DEF OpToRel
<1> QED BY <1>2

\* n pieces come before the first of chars.
IsBefore(s, chars, n) ==
  /\ n \in 0 .. Len(s)
  /\ \A i \in 1 .. n : s[i] \notin chars
  /\ n < Len(s) => s[n + 1] \in chars

\* Before() says so.
LEMMA BeforeIs ==
  ASSUME NEW S, NEW s \in Seq(S), NEW chars
  PROVE  IsBefore(s, chars, Before(s, chars))
<1> DEFINE I == {i \in 1 .. Len(s) : s[i] \in chars}
<1>0. Len(s) \in Nat
  OBVIOUS
<1>1. Before(s, chars) = LET i == IF I # {} THEN Min(I) ELSE 0 IN IF i = 0 THEN Len(s) ELSE i - 1
  BY DEF Before, SelectInSeq
<1>2. CASE I = {}
  <2>1. Before(s, chars) = Len(s)
    BY <1>1, <1>2
  <2>2. \A i \in 1 .. Len(s) : s[i] \notin chars
    BY <1>2
  <2> QED BY <1>0, <2>1, <2>2 DEF IsBefore
<1>3. CASE I # {}
  <2>1. \E n \in I : \A m \in I : n =< m
    <3>1. I \subseteq Nat
      BY <1>0
    <3> QED BY <1>3, <3>1, LeastNat
  <2>2. Min(I) \in I /\ \A m \in I : Min(I) =< m
    BY <2>1 DEF Min
  <2> DEFINE n == Min(I)
  <2>3. n \in 1 .. Len(s) /\ s[n] \in chars /\ \A m \in 1 .. Len(s) : s[m] \in chars => n =< m
    BY <2>2
  <2>4. Before(s, chars) = n - 1
    BY <1>1, <1>3, <2>3
  <2> HIDE DEF n
  <2> QED BY <1>0, <2>3, <2>4 DEF IsBefore
<1> QED BY <1>2, <1>3

\* And there is one such number.
LEMMA BeforeOnly ==
  ASSUME NEW S, NEW s \in Seq(S), NEW chars, NEW n, IsBefore(s, chars, n)
  PROVE  Before(s, chars) = n
<1>1. PICK m : m = Before(s, chars)
  OBVIOUS
<1>2. IsBefore(s, chars, m)
  BY <1>1, BeforeIs
<1>3. Len(s) \in Nat
  OBVIOUS
<1>4. n \in 0 .. Len(s) /\ m \in 0 .. Len(s)
  BY <1>2 DEF IsBefore
<1>5. ~(m < n)
  <2> SUFFICES ASSUME m < n PROVE FALSE
    OBVIOUS
  <2>1. s[m + 1] \in chars
    BY <1>2, <1>3, <1>4 DEF IsBefore
  <2>2. m + 1 \in 1 .. n
    BY <1>3, <1>4
  <2> QED BY <2>1, <2>2 DEF IsBefore
<1>6. ~(n < m)
  <2> SUFFICES ASSUME n < m PROVE FALSE
    OBVIOUS
  <2>1. s[n + 1] \in chars
    BY <1>3, <1>4 DEF IsBefore
  <2>2. n + 1 \in 1 .. m
    BY <1>3, <1>4
  <2> QED BY <1>2, <2>1, <2>2 DEF IsBefore
<1>7. m = n
  BY <1>3, <1>4, <1>5, <1>6
<1> QED BY <1>1, <1>7

\* NULL is no text.
LEMMA NullIsNone ==
  /\ NULL \notin Text
  /\ \A s \in Text : s # NULL /\ OrNone(s) = s
  /\ OrNone(NULL) = <<>>
<1>1. "NULL" \notin Pieces
  BY ProtocolsAssumption
     DEF Pieces, protocol_names, Digits, HostPieces, Marks
<1>2. NULL \notin Text
  <2> SUFFICES ASSUME NULL \in Text PROVE FALSE
    OBVIOUS
  <2>1. Len(NULL) = 1 /\ NULL[1] = "NULL"
    BY DEF NULL
  <2>2. NULL[1] \in Pieces
    BY <2>1 DEF Text
  <2> QED BY <1>1, <2>1, <2>2
<1> QED BY <1>2 DEF OrNone
\* What From, SubSeq and \o make of a text.
IsRest(s, x, t) ==
  /\ Len(t) = Len(s) - x
  /\ \A i \in 1 .. Len(s) - x : t[i] = s[x + i]

IsStart(s, x, t) ==
  /\ Len(t) = x
  /\ \A i \in 1 .. x : t[i] = s[i]

IsJoin(s, t, st) ==
  /\ Len(st) = Len(s) + Len(t)
  /\ \A i \in 1 .. Len(s) : st[i] = s[i]
  /\ \A i \in 1 .. Len(t) : st[Len(s) + i] = t[i]

\* The rest of a text.
LEMMA FromIs ==
  ASSUME NEW S, NEW s \in Seq(S), NEW x \in 0 .. Len(s)
  PROVE  From(s, x) \in Seq(S) /\ IsRest(s, x, From(s, x))
<1>1. Len(s) \in Nat
  OBVIOUS
<1> QED BY <1>1 DEF From, IsRest

\* The beginning of a text.
LEMMA UpToIs ==
  ASSUME NEW S, NEW s \in Seq(S), NEW x \in 0 .. Len(s)
  PROVE  SubSeq(s, 1, x) \in Seq(S) /\ IsStart(s, x, SubSeq(s, 1, x))
<1>1. Len(s) \in Nat
  OBVIOUS
<1> QED BY <1>1 DEF IsStart

\* Two texts.
LEMMA JoinIs ==
  ASSUME NEW S, NEW s \in Seq(S), NEW t \in Seq(S)
  PROVE  s \o t \in Seq(S) /\ IsJoin(s, t, s \o t)
<1>1. Len(s) \in Nat /\ Len(t) \in Nat
  OBVIOUS
<1> QED BY <1>1 DEF IsJoin

\* There is one rest.
LEMMA RestOnly ==
  ASSUME NEW S, NEW s \in Seq(S), NEW x \in 0 .. Len(s), NEW t \in Seq(S), IsRest(s, x, t)
  PROVE  From(s, x) = t
<1>1. PICK u : u = From(s, x)
  OBVIOUS
<1>2. u \in Seq(S) /\ IsRest(s, x, u)
  BY <1>1, FromIs
<1>3. Len(u) = Len(t) /\ \A i \in 1 .. Len(u) : u[i] = t[i]
  BY <1>2 DEF IsRest
<1>4. u = t
  BY <1>2, <1>3, SeqEqual
<1> QED BY <1>1, <1>4

\* And one beginning.
LEMMA StartOnly ==
  ASSUME NEW S, NEW s \in Seq(S), NEW x \in 0 .. Len(s), NEW t \in Seq(S), IsStart(s, x, t)
  PROVE  SubSeq(s, 1, x) = t
<1>1. PICK u : u = SubSeq(s, 1, x)
  OBVIOUS
<1>2. u \in Seq(S) /\ IsStart(s, x, u)
  BY <1>1, UpToIs
<1>3. Len(u) = Len(t) /\ \A i \in 1 .. Len(u) : u[i] = t[i]
  BY <1>2 DEF IsStart
<1>4. u = t
  BY <1>2, <1>3, SeqEqual
<1> QED BY <1>1, <1>4

\* And one of two texts together.
LEMMA JoinOnly ==
  ASSUME NEW S, NEW s \in Seq(S), NEW t \in Seq(S), NEW st \in Seq(S), IsJoin(s, t, st)
  PROVE  s \o t = st
<1>1. PICK u : u = s \o t
  OBVIOUS
<1>2. u \in Seq(S) /\ IsJoin(s, t, u)
  BY <1>1, JoinIs
<1>3. Len(s) \in Nat /\ Len(t) \in Nat /\ Len(u) = Len(s) + Len(t) /\ Len(st) = Len(u)
  BY <1>2 DEF IsJoin
<1>4. ASSUME NEW i \in 1 .. Len(u) PROVE u[i] = st[i]
  <2>1. CASE i \in 1 .. Len(s)
    <3>1. u[i] = s[i]
      BY <1>2, <2>1 DEF IsJoin
    <3>2. st[i] = s[i]
      BY <2>1 DEF IsJoin
    <3> QED BY <3>1, <3>2
  <2>2. CASE i - Len(s) \in 1 .. Len(t)
    <3>1. i = Len(s) + (i - Len(s))
      BY <1>3
    <3>2. PICK j \in 1 .. Len(t) : i = Len(s) + j
      BY <2>2, <3>1
    <3> QED BY <1>2, <3>2 DEF IsJoin
  <2> QED BY <1>3, <2>1, <2>2
<1>5. u = st
  BY <1>2, <1>3, <1>4, SeqEqual
<1> QED BY <1>1, <1>5

\* The two are found again.
LEMMA JoinParts ==
  ASSUME NEW S, NEW s \in Seq(S), NEW t \in Seq(S)
  PROVE  SubSeq(s \o t, 1, Len(s)) = s /\ From(s \o t, Len(s)) = t
<1>1. PICK st \in Seq(S) : st = s \o t /\ IsJoin(s, t, st)
  BY JoinIs
<1>2. Len(s) \in Nat /\ Len(t) \in Nat /\ Len(s) \in 0 .. Len(st)
  BY <1>1 DEF IsJoin
<1>3. IsStart(st, Len(s), s)
  BY <1>1, <1>2 DEF IsJoin, IsStart
<1>4. IsRest(st, Len(s), t)
  BY <1>1, <1>2 DEF IsJoin, IsRest
<1>5. SubSeq(st, 1, Len(s)) = s
  BY <1>2, <1>3, StartOnly
<1>6. From(st, Len(s)) = t
  BY <1>2, <1>4, RestOnly
<1> QED BY <1>1, <1>5, <1>6

\* A text is its beginning and its rest.
LEMMA SplitIs ==
  ASSUME NEW S, NEW s \in Seq(S), NEW x \in 0 .. Len(s)
  PROVE  SubSeq(s, 1, x) \o From(s, x) = s
<1>1. PICK a \in Seq(S) : a = SubSeq(s, 1, x) /\ IsStart(s, x, a)
  BY UpToIs
<1>2. PICK b \in Seq(S) : b = From(s, x) /\ IsRest(s, x, b)
  BY FromIs
<1>3. Len(s) \in Nat
  OBVIOUS
<1>4. IsJoin(a, b, s)
  BY <1>1, <1>2, <1>3 DEF IsStart, IsRest, IsJoin
<1>5. a \o b = s
  BY <1>4, JoinOnly
<1> QED BY <1>1, <1>2, <1>5

\* What comes before the first of chars of a text whose beginning has one of them,
\* or none.
BeforeTwo(s, t, chars) ==
  /\ Before(s, chars) < Len(s) => Before(s \o t, chars) = Before(s, chars)
  /\ Before(s, chars) = Len(s) => Before(s \o t, chars) = Len(s) + Before(t, chars)
  /\ Before(s, chars) \in 0 .. Len(s)

\* Of two texts the first is looked at first.
LEMMA BeforeJoin ==
  ASSUME NEW S, NEW s \in Seq(S), NEW t \in Seq(S), NEW chars
  PROVE  BeforeTwo(s, t, chars)
<1>1. PICK st \in Seq(S) : st = s \o t /\ IsJoin(s, t, st)
  BY JoinIs
<1>2. PICK m : m = Before(s, chars) /\ IsBefore(s, chars, m)
  BY BeforeIs
<1>3. PICK n : n = Before(t, chars) /\ IsBefore(t, chars, n)
  BY BeforeIs
<1>4. /\ Len(s) \in Nat /\ Len(t) \in Nat /\ Len(st) = Len(s) + Len(t)
      /\ m \in 0 .. Len(s) /\ n \in 0 .. Len(t)
  BY <1>1, <1>2, <1>3 DEF IsBefore, IsJoin
<1>5. ASSUME m < Len(s) PROVE Before(st, chars) = m
  <2>1. IsBefore(st, chars, m)
    BY <1>1, <1>2, <1>4, <1>5 DEF IsBefore, IsJoin
  <2> QED BY <1>1, <2>1, BeforeOnly
<1>6. ASSUME m = Len(s) PROVE Before(st, chars) = Len(s) + n
  <2>1. PICK k \in Nat : k = Len(s) + n
    BY <1>4
  <2>2. k \in 0 .. Len(st)
    BY <1>4, <2>1
  <2>3. ASSUME NEW i \in 1 .. k PROVE st[i] \notin chars
    <3>1. CASE i \in 1 .. Len(s)
      BY <1>1, <1>2, <1>6, <3>1 DEF IsBefore, IsJoin
    <3>2. CASE i - Len(s) \in 1 .. n
      <4>1. PICK j \in 1 .. n : i = Len(s) + j
        BY <1>4, <3>2, SMTT(60)
      <4>2. t[j] \notin chars /\ j \in 1 .. Len(t)
        BY <1>3, <1>4 DEF IsBefore
      <4>3. st[i] = t[j]
        BY <1>1, <4>1, <4>2 DEF IsJoin
      <4> QED BY <4>2, <4>3
    <3> QED BY <1>4, <2>1, <3>1, <3>2
  <2>4. ASSUME k < Len(st) PROVE st[k + 1] \in chars
    <3>1. n < Len(t) /\ n + 1 \in 1 .. Len(t) /\ k + 1 = Len(s) + (n + 1)
      BY <1>4, <2>1, <2>4
    <3>2. t[n + 1] \in chars
      BY <1>3, <3>1 DEF IsBefore
    <3>3. st[k + 1] = t[n + 1]
      BY <1>1, <3>1 DEF IsJoin
    <3> QED BY <3>2, <3>3
  <2>5. IsBefore(st, chars, k)
    BY <2>2, <2>3, <2>4 DEF IsBefore
  <2> QED BY <1>1, <2>1, <2>5, BeforeOnly
<1>7. m < Len(s) => Before(s \o t, chars) = m
  BY <1>1, <1>5
<1>8. m = Len(s) => Before(s \o t, chars) = Len(s) + n
  BY <1>1, <1>6
<1> QED BY <1>2, <1>3, <1>4, <1>7, <1>8 DEF BeforeTwo

-----------------------------------------------------------------------------
\* What a URL's parts are.

\* Texts that do not end with "?".
CleanText == {s \in Text : s # <<>> => s[Len(s)] # "?"}

Protocol == {NULL} \cup {<<x>> : x \in Pieces}
Host == {NULL} \cup {<<x>> : x \in HostPieces}
Port == {-1, 0, 80, 443, 8080}
Path == {NULL} \cup CleanText

Urls == [protocol : Protocol, host : Host, port : Port, path : Path]

\* The rest of a clean text is clean.
LEMMA CleanRest ==
  ASSUME NEW s \in CleanText, NEW x \in 0 .. Len(s)
  PROVE  From(s, x) \in CleanText
<1>1. s \in Seq(Pieces) /\ Len(s) \in Nat
  BY DEF CleanText, Text
<1>2. PICK t \in Seq(Pieces) : t = From(s, x) /\ IsRest(s, x, t)
  BY <1>1, FromIs
<1>3. Len(t) = Len(s) - x
  BY <1>2 DEF IsRest
<1>4. ASSUME t # <<>> PROVE t[Len(t)] # "?"
  <2>1. Len(t) \in Nat /\ Len(t) # 0
    BY <1>2, <1>4
  <2>2. t[Len(t)] = s[Len(s)]
    <3>1. Len(t) \in 1 .. Len(s) - x /\ x + Len(t) = Len(s)
      BY <1>1, <1>3, <2>1
    <3> QED BY <1>2, <3>1 DEF IsRest
  <2>3. s # <<>>
    BY <1>1, <1>3, <2>1
  <2>4. s[Len(s)] # "?"
    BY <2>3 DEF CleanText
  <2> QED BY <2>2, <2>4
<1> QED BY <1>2, <1>4 DEF CleanText, Text

\* So is what comes before the first "?".
LEMMA CleanStart ==
  ASSUME NEW s \in Text, NEW chars, "?" \in chars
  PROVE  SubSeq(s, 1, Before(s, chars)) \in CleanText
<1>1. PICK n : n = Before(s, chars) /\ IsBefore(s, chars, n)
  BY BeforeIs DEF Text
<1>2. s \in Seq(Pieces) /\ Len(s) \in Nat /\ n \in 0 .. Len(s)
  BY <1>1 DEF Text, IsBefore
<1>3. PICK t \in Seq(Pieces) : t = SubSeq(s, 1, n) /\ IsStart(s, n, t)
  BY <1>2, UpToIs
<1>4. Len(t) = n
  BY <1>3 DEF IsStart
<1>5. ASSUME t # <<>> PROVE t[Len(t)] # "?"
  <2>1. n \in 1 .. n
    BY <1>2, <1>3, <1>4, <1>5
  <2>2. t[n] = s[n]
    BY <1>3, <2>1 DEF IsStart
  <2>3. s[n] \notin chars
    BY <1>1, <2>1 DEF IsBefore
  <2> QED BY <1>4, <2>2, <2>3
<1> QED BY <1>1, <1>3, <1>5 DEF CleanText, Text

\* A text with a clean one behind it is clean if that is not empty, or if it is
\* clean itself.
LEMMA CleanJoin ==
  ASSUME NEW s \in Text, NEW t \in CleanText, s \in CleanText \/ t # <<>>
  PROVE  s \o t \in CleanText
<1>1. s \in Seq(Pieces) /\ t \in Seq(Pieces) /\ Len(s) \in Nat /\ Len(t) \in Nat
  BY DEF CleanText, Text
<1>2. PICK st \in Seq(Pieces) : st = s \o t /\ IsJoin(s, t, st)
  BY <1>1, JoinIs
<1>3. Len(st) = Len(s) + Len(t)
  BY <1>2 DEF IsJoin
<1>4. ASSUME t # <<>> PROVE st[Len(st)] # "?"
  <2>1. Len(t) \in 1 .. Len(t)
    BY <1>1, <1>4
  <2>2. st[Len(st)] = t[Len(t)]
    BY <1>2, <1>3, <2>1 DEF IsJoin
  <2>3. t[Len(t)] # "?"
    BY <1>4 DEF CleanText
  <2> QED BY <2>2, <2>3
<1>5. ASSUME t = <<>>, s \in CleanText, st # <<>> PROVE st[Len(st)] # "?"
  <2>1. Len(t) = 0 /\ Len(st) \in Nat /\ Len(st) # 0
    BY <1>2, <1>5
  <2>2. Len(st) = Len(s) /\ Len(s) \in 1 .. Len(s)
    BY <1>1, <1>3, <2>1
  <2>3. st[Len(s)] = s[Len(s)]
    BY <1>2, <2>2 DEF IsJoin
  <2>4. s # <<>>
    BY <2>2
  <2>5. s[Len(s)] # "?"
    BY <1>5, <2>4 DEF CleanText
  <2> QED BY <2>2, <2>3, <2>5
<1>6. st \in CleanText
  BY <1>2, <1>4, <1>5 DEF CleanText, Text
<1> QED BY <1>2, <1>6

\* The pieces that texts are written of in this module.
LEMMA Written ==
  /\ <<>> \in CleanText
  /\ \A x \in Pieces \ {"?"} : <<x>> \in CleanText
  /\ \A x \in Pieces : <<x>> \in Text
<1>1. ASSUME NEW x \in Pieces PROVE <<x>> \in Text /\ Len(<<x>>) = 1 /\ <<x>>[1] = x
  BY DEF Text
<1>2. <<>> \in Text
  BY DEF Text
<1> QED BY <1>1, <1>2 DEF CleanText

\* Paths begin with "/", go on without another, and are clean.
LEMMA PathsClean ==
  \A path \in Paths \ {NULL} :
    path \in CleanText /\ path # <<>> /\ path[1] = "/" /\ (Len(path) > 1 => path[2] # "/")
<1>1. {"/", "p", "?", "k", "=", "v", "#", "f"} \subseteq Pieces
  BY DEF Pieces, Marks
<1>2. ASSUME NEW path, path = <<"/">>
      PROVE  path \in Seq(Pieces) /\ Len(path) = 1 /\ path[1] = "/"
  BY <1>1, <1>2
<1>3. ASSUME NEW path, path = <<"/", "p">>
      PROVE  path \in Seq(Pieces) /\ Len(path) = 2 /\ path[1] = "/" /\ path[2] = "p"
  BY <1>1, <1>3
<1>4. ASSUME NEW path, path = <<"/", "p", "?", "k", "=", "v">>
      PROVE  /\ path \in Seq(Pieces) /\ Len(path) = 6 /\ path[1] = "/" /\ path[2] = "p"
             /\ path[6] = "v"
  BY <1>1, <1>4
<1>5. ASSUME NEW path, path = <<"/", "p", "#", "f">>
      PROVE  /\ path \in Seq(Pieces) /\ Len(path) = 4 /\ path[1] = "/" /\ path[2] = "p"
             /\ path[4] = "f"
  BY <1>1, <1>5
<1>6. ASSUME NEW path, path = <<"/", "p", "?", "k", "=", "v", "#", "f">>
      PROVE  /\ path \in Seq(Pieces) /\ Len(path) = 8 /\ path[1] = "/" /\ path[2] = "p"
             /\ path[8] = "f"
  BY <1>1, <1>6
<1> QED BY <1>2, <1>3, <1>4, <1>5, <1>6 DEF Paths, CleanText, Text

\* Queries are clean.
LEMMA QueriesClean ==
  \A q \in Queries : q \in CleanText /\ q # <<>>
<1>1. {"a", "k", "=", "v", "&", "b", ":", "/"} \subseteq Pieces
  BY DEF Pieces, Marks
<1>2. ASSUME NEW q, q = <<"a">>
      PROVE  q \in Seq(Pieces) /\ Len(q) = 1 /\ q[1] = "a"
  BY <1>1, <1>2
<1>3. ASSUME NEW q, q = <<"k", "=", "v", "&", "a", "=", "b">>
      PROVE  q \in Seq(Pieces) /\ Len(q) = 7 /\ q[7] = "b"
  BY <1>1, <1>3
<1>4. ASSUME NEW q, q = <<"k", "=", ":", "/", "/">>
      PROVE  q \in Seq(Pieces) /\ Len(q) = 5 /\ q[5] = "/"
  BY <1>1, <1>4
<1> QED BY <1>2, <1>3, <1>4 DEF Queries, CleanText, Text

-----------------------------------------------------------------------------
\* Reading a text (url_parse).

\* Where "://" is.
MarksOf(u) == {i \in 1 .. Len(u) - 2 : SubSeq(u, i, i + 2) = <<":", "/", "/">>}

IsMark(u, i) ==
  i \in 1 .. Len(u) - 2 /\ u[i] = ":" /\ u[i + 1] = "/" /\ u[i + 2] = "/"

\* The first.
FirstMark(u) == CHOOSE i \in MarksOf(u) : \A y \in MarksOf(u) : i =< y

\* It ends the protocol.
LEMMA ParseIs ==
  ASSUME NEW u
  PROVE  url_parse(u) =
           IF MarksOf(u) = {} THEN url_parse_rest(NULL, u)
           ELSE url_parse_rest(SubSeq(u, 1, FirstMark(u) - 1), From(u, FirstMark(u) + 2))
BY Zenon DEF url_parse, MarksOf, FirstMark

\* A mark piece by piece.
LEMMA MarkIs ==
  ASSUME NEW u \in Text, NEW i
  PROVE  i \in MarksOf(u) <=> IsMark(u, i)
<1>1. u \in Seq(Pieces) /\ Len(u) \in Nat
  BY DEF Text
<1>2. ASSUME NEW j \in 1 .. Len(u) - 2
      PROVE  SubSeq(u, j, j + 2) = <<":", "/", "/">>
               <=> u[j] = ":" /\ u[j + 1] = "/" /\ u[j + 2] = "/"
  <2>1. PICK s : s = SubSeq(u, j, j + 2)
    OBVIOUS
  <2>2. /\ s \in Seq(Pieces) /\ Len(s) = 3
        /\ s[1] = u[j] /\ s[2] = u[j + 1] /\ s[3] = u[j + 2]
    BY <1>1, <2>1, SMTT(60)
  <2>3. PICK m : m = <<":", "/", "/">>
    OBVIOUS
  <2>4. m \in Seq({":", "/"}) /\ Len(m) = 3 /\ m[1] = ":" /\ m[2] = "/" /\ m[3] = "/"
    BY <2>3
  <2>5. s = m <=> s[1] = m[1] /\ s[2] = m[2] /\ s[3] = m[3]
    <3>1. ASSUME s[1] = m[1], s[2] = m[2], s[3] = m[3]
          PROVE  s = m
      <4>1. s \in Seq(Pieces \cup {":", "/"}) /\ m \in Seq(Pieces \cup {":", "/"})
        BY <2>2, <2>4
      <4>2. \A k \in 1 .. Len(s) : s[k] = m[k]
        BY <2>2, <3>1
      <4> QED BY <2>2, <2>4, <4>1, <4>2, SeqEqual, SMTT(60)
    <3> QED BY <3>1
  <2> QED BY <2>1, <2>2, <2>3, <2>4, <2>5
<1>3. CASE i \in 1 .. Len(u) - 2
  BY <1>2, <1>3 DEF MarksOf, IsMark
<1>4. CASE i \notin 1 .. Len(u) - 2
  BY <1>4 DEF MarksOf, IsMark
<1> QED BY <1>3, <1>4

\* A text without a mark has no protocol.
LEMMA ParsePlain ==
  ASSUME NEW u \in Text, \A i : ~IsMark(u, i)
  PROVE  url_parse(u) = url_parse_rest(NULL, u)
<1>1. MarksOf(u) = {}
  <2>1. \A i : i \notin MarksOf(u)
    BY MarkIs
  <2> QED BY <2>1
<1> QED BY <1>1, ParseIs

\* One that is behind a piece ends there.
LEMMA ParseMarked ==
  ASSUME NEW x \in Pieces, NEW rest \in Text
  PROVE  url_parse(<<x, ":", "/", "/">> \o rest) = url_parse_rest(<<x>>, rest)
<1>1. PICK b : b = <<x, ":", "/", "/">>
  OBVIOUS
<1>2. b \in Seq(Pieces) /\ Len(b) = 4 /\ b[1] = x /\ b[2] = ":" /\ b[3] = "/" /\ b[4] = "/"
  <2>1. {":", "/"} \subseteq Pieces
    BY DEF Pieces, Marks
  <2> QED BY <1>1, <2>1
<1>3. rest \in Seq(Pieces) /\ Len(rest) \in Nat
  BY DEF Text
<1>4. PICK u \in Seq(Pieces) : u = b \o rest /\ IsJoin(b, rest, u)
  BY <1>2, <1>3, JoinIs
<1>5. /\ Len(u) = 4 + Len(rest) /\ u[1] = x /\ u[2] = ":" /\ u[3] = "/" /\ u[4] = "/"
  BY <1>2, <1>4 DEF IsJoin
<1>6. u \in Text
  BY <1>4 DEF Text
<1>7. 2 \in MarksOf(u)
  <2>1. 2 \in 1 .. Len(u) - 2
    BY <1>3, <1>5
  <2> QED BY <1>5, <1>6, <2>1, MarkIs DEF IsMark
<1>8. ASSUME NEW i \in MarksOf(u) PROVE i \in Nat /\ 2 =< i
  <2>1. IsMark(u, i)
    BY <1>6, <1>8, MarkIs
  <2>2. i \in 1 .. Len(u) - 2 /\ Len(u) \in Nat
    BY <1>3, <1>5, <2>1 DEF IsMark
  <2>3. i # 1
    BY <1>5, <2>1 DEF IsMark
  <2> QED BY <2>2, <2>3
<1>9. FirstMark(u) = 2
  BY <1>7, <1>8 DEF FirstMark
<1>10. url_parse(u) = url_parse_rest(SubSeq(u, 1, 1), From(u, 4))
  <2>1. PICK m : m = FirstMark(u)
    OBVIOUS
  <2>2. url_parse(u) = url_parse_rest(SubSeq(u, 1, m - 1), From(u, m + 2))
    BY <1>7, <2>1, ParseIs
  <2>3. m - 1 = 1 /\ m + 2 = 4
    BY <1>9, <2>1
  <2> QED BY <2>2, <2>3
<1>11. From(u, 4) = rest
  <2>1. From(b \o rest, Len(b)) = rest
    BY <1>2, <1>3, JoinParts
  <2> QED BY <1>2, <1>4, <2>1
<1>12. SubSeq(u, 1, 1) = <<x>>
  <2>1. IsStart(u, 1, <<x>>)
    BY <1>5 DEF IsStart
  <2>2. <<x>> \in Seq(Pieces) /\ 1 \in 0 .. Len(u)
    BY <1>3, <1>5
  <2> QED BY <1>4, <2>1, <2>2, StartOnly
<1> QED BY <1>1, <1>4, <1>10, <1>11, <1>12

\* Hosts and ports as a text has them, and the port it says.
HostTexts == {<<>>} \cup {<<x>> : x \in HostPieces}
PortTexts == {<<>>, <<":">>} \cup {<<":", n>> : n \in Digits}

PortSaid(protocol, port) ==
  IF port = <<>>
  THEN IF protocol # NULL THEN protocol_default_port(protocol_number(protocol)) ELSE -1
  ELSE IF port = <<":">> THEN 0 ELSE Numbers[port[2]]

IfAny(text) == IF text = <<>> THEN NULL ELSE text

\* A path that is behind a host and a port.
IsBehind(path) == path \in Text /\ (path # <<>> => path[1] = "/")

IsHostText(host) ==
  /\ host \in Seq(Pieces) /\ Len(host) \in 0 .. 1
  /\ \A i \in 1 .. Len(host) : host[i] \in HostPieces

IsPortText(port) ==
  /\ port \in Seq(Pieces)
  /\ Len(port) \in 0 .. 2
  /\ Len(port) > 0 => port[1] = ":"
  /\ Len(port) > 1 => port[2] \in Digits
  /\ (port = <<>>) <=> (Len(port) = 0)
  /\ (port = <<":">>) <=> (Len(port) = 1)

\* Hosts and ports are texts.
LEMMA HostAndPort ==
  /\ \A host \in HostTexts : IsHostText(host)
  /\ \A port \in PortTexts : IsPortText(port)
<1>1. HostPieces \subseteq Pieces /\ Digits \subseteq Pieces /\ ":" \in Pieces
  BY DEF Pieces, Marks
<1>2. PICK none : none = <<>>
  OBVIOUS
<1>3. PICK colon : colon = <<":">>
  OBVIOUS
<1>4. none \in Seq(Pieces) /\ Len(none) = 0
  BY <1>2
<1>5. colon \in Seq(Pieces) /\ Len(colon) = 1 /\ colon[1] = ":"
  BY <1>1, <1>3
<1>6. \A s \in Seq(Pieces) : Len(s) = 0 => s = none
  BY <1>2
<1>7. \A s \in Seq(Pieces) : Len(s) = 1 /\ s[1] = ":" => s = colon
  <2>1. ASSUME NEW s \in Seq(Pieces), Len(s) = 1, s[1] = ":" PROVE s = colon
    <3>1. \A i \in 1 .. Len(s) : s[i] = colon[i]
      BY <1>5, <2>1
    <3> QED BY <1>5, <2>1, <3>1, SeqEqual
  <2> QED BY <2>1
<1>8. ASSUME NEW host \in HostTexts PROVE IsHostText(host)
  <2>1. CASE host = none
    BY <1>4, <2>1 DEF IsHostText
  <2>2. ASSUME NEW x \in HostPieces, host = <<x>> PROVE IsHostText(host)
    <3>1. Len(host) = 1 /\ host[1] = x /\ host \in Seq(Pieces)
      BY <1>1, <2>2
    <3> QED BY <3>1 DEF IsHostText
  <2> QED BY <1>2, <2>1, <2>2 DEF HostTexts
<1>9. ASSUME NEW port,
             port = none \/ port = colon \/ \E n \in Digits : port = <<":", n>>
      PROVE  /\ port \in Seq(Pieces)
             /\ Len(port) \in 0 .. 2
             /\ Len(port) > 0 => port[1] = ":"
             /\ Len(port) > 1 => port[2] \in Digits
  <2>1. ASSUME NEW n \in Digits, port = <<":", n>>
        PROVE  port \in Seq(Pieces) /\ Len(port) = 2 /\ port[1] = ":" /\ port[2] \in Digits
    BY <1>1, <2>1
  <2>2. \/ port \in Seq(Pieces) /\ Len(port) = 0
        \/ port \in Seq(Pieces) /\ Len(port) = 1 /\ port[1] = ":"
        \/ port \in Seq(Pieces) /\ Len(port) = 2 /\ port[1] = ":" /\ port[2] \in Digits
    BY <1>4, <1>5, <1>9, <2>1
  <2> QED BY <2>2
<1>10. ASSUME NEW port \in PortTexts PROVE IsPortText(port)
  <2>1. port = none \/ port = colon \/ \E n \in Digits : port = <<":", n>>
    BY <1>2, <1>3 DEF PortTexts
  <2>2. /\ port \in Seq(Pieces)
        /\ Len(port) \in 0 .. 2
        /\ Len(port) > 0 => port[1] = ":"
        /\ Len(port) > 1 => port[2] \in Digits
    BY <1>9, <2>1
  <2>3. (port = none) <=> (Len(port) = 0)
    BY <1>4, <1>6, <2>2
  <2>4. (port = colon) <=> (Len(port) = 1)
    BY <1>5, <1>7, <2>2
  <2> QED BY <1>2, <1>3, <2>2, <2>3, <2>4 DEF IsPortText
<1> QED BY <1>8, <1>10

\* What is behind the protocol is the host, the port and the path.
LEMMA RestOfParts ==
  ASSUME NEW protocol, NEW host \in HostTexts, NEW port \in PortTexts,
         NEW path, IsBehind(path)
  PROVE  url_parse_rest(protocol, host \o (port \o path)) =
           URL(protocol, IfAny(host), PortSaid(protocol, port), IfAny(path))
<1>1. /\ host \in Seq(Pieces) /\ Len(host) \in 0 .. 1
      /\ \A i \in 1 .. Len(host) : host[i] \in HostPieces
  BY HostAndPort DEF IsHostText
<1>2. /\ port \in Seq(Pieces) /\ Len(port) \in 0 .. 2
      /\ Len(port) > 0 => port[1] = ":"
      /\ Len(port) > 1 => port[2] \in Digits
      /\ (port = <<>>) <=> (Len(port) = 0)
      /\ (port = <<":">>) <=> (Len(port) = 1)
  BY HostAndPort DEF IsPortText
<1>3. path \in Seq(Pieces) /\ Len(path) \in Nat /\ (Len(path) > 0 => path[1] = "/")
  BY DEF IsBehind, Text
<1>4. PICK after \in Seq(Pieces) : after = port \o path /\ IsJoin(port, path, after)
  BY <1>2, <1>3, JoinIs
<1>5. PICK rest \in Seq(Pieces) : rest = host \o after
  BY <1>1, <1>4, JoinIs
<1>6. SubSeq(rest, 1, Len(host)) = host /\ From(rest, Len(host)) = after
  BY <1>1, <1>4, <1>5, JoinParts
<1>7. From(after, Len(port)) = path
  BY <1>2, <1>3, <1>4, JoinParts
<1>8. Len(after) = Len(port) + Len(path)
  BY <1>4 DEF IsJoin
<1>9. Len(port) > 0 => after[1] = ":"
  BY <1>2, <1>4 DEF IsJoin
<1>10. Len(port) > 1 => after[2] = port[2]
  BY <1>2, <1>4 DEF IsJoin
<1>11. Len(path) > 0 => after[Len(port) + 1] = "/"
  BY <1>3, <1>4 DEF IsJoin
<1>12. Before(rest, {":", "/"}) = Len(host)
  <2>1. Before(host, {":", "/"}) = Len(host)
    <3>1. IsBefore(host, {":", "/"}, Len(host))
      BY <1>1 DEF IsBefore, HostPieces
    <3> QED BY <1>1, <3>1, BeforeOnly
  <2>2. Before(after, {":", "/"}) = 0
    <3>1. IsBefore(after, {":", "/"}, 0)
      <4>1. CASE Len(after) = 0
        BY <4>1 DEF IsBefore
      <4>2. CASE Len(after) > 0
        <5>1. after[1] \in {":", "/"}
          <6>1. CASE Len(port) > 0
            BY <1>9, <6>1
          <6>2. CASE Len(port) = 0
            BY <1>3, <1>8, <1>11, <4>2, <6>2
          <6> QED BY <1>2, <6>1, <6>2
        <5> QED BY <1>4, <4>2, <5>1 DEF IsBefore
      <4> QED BY <1>4, <4>1, <4>2
    <3> QED BY <1>4, <3>1, BeforeOnly
  <2>3. PICK chars : chars = {":", "/"}
    OBVIOUS
  <2>4. Before(host, chars) = Len(host)
    BY <2>1, <2>3
  <2>5. Before(host \o after, chars) = Len(host) + Before(after, chars)
    <3>1. BeforeTwo(host, after, chars)
      BY <1>1, <1>4, BeforeJoin
    <3> QED BY <2>4, <3>1 DEF BeforeTwo
  <2> QED BY <1>1, <1>5, <2>2, <2>3, <2>5
<1>13. (Len(host) = 0) <=> host = <<>>
  BY <1>1
<1>14. DOMAIN Numbers = Digits
  BY DEF Numbers, Digits
<1>15. CASE Len(port) = 0
  <2>1. after = path
    <3>1. port = <<>>
      BY <1>2, <1>15
    <3> QED BY <1>3, <1>4, <3>1, ConcatEmptySeq
  <2>2. ~(after # <<>> /\ after[1] = ":")
    BY <1>3, <2>1
  <2>3. From(after, 0) = path
    BY <1>7, <1>15
  <2>4. PortSaid(protocol, port) =
          IF protocol # NULL THEN protocol_default_port(protocol_number(protocol)) ELSE -1
    BY <1>2, <1>15 DEF PortSaid
  <2> QED
    BY <1>4, <1>5, <1>6, <1>12, <1>13, <2>2, <2>3, <2>4 DEF url_parse_rest, IfAny
<1>16. CASE Len(port) = 1
  <2>1. after # <<>> /\ after[1] = ":"
    BY <1>3, <1>8, <1>9, <1>16
  <2>2. ~(Len(after) > 1 /\ after[2] \in DOMAIN Numbers)
    <3>1. Len(after) > 1 => after[2] = "/"
      BY <1>3, <1>8, <1>11, <1>16
    <3>2. "/" \notin Digits
      BY DEF Digits
    <3> QED BY <1>14, <3>1, <3>2
  <2>3. From(after, 1) = path
    BY <1>7, <1>16
  <2>4. PortSaid(protocol, port) = 0
    BY <1>2, <1>16 DEF PortSaid
  <2> QED
    BY <1>4, <1>5, <1>6, <1>12, <1>13, <2>1, <2>2, <2>3, <2>4 DEF url_parse_rest, IfAny
<1>17. CASE Len(port) = 2
  <2>1. after # <<>> /\ after[1] = ":"
    BY <1>3, <1>8, <1>9, <1>17
  <2>2. Len(after) > 1 /\ after[2] \in DOMAIN Numbers
    BY <1>2, <1>3, <1>8, <1>10, <1>14, <1>17
  <2>3. From(after, 2) = path
    BY <1>7, <1>17
  <2>4. PortSaid(protocol, port) = Numbers[after[2]]
    BY <1>2, <1>10, <1>17 DEF PortSaid
  <2> QED
    BY <1>4, <1>5, <1>6, <1>12, <1>13, <2>1, <2>2, <2>3, <2>4 DEF url_parse_rest, IfAny
<1> QED BY <1>2, <1>15, <1>16, <1>17

\* A mark behind a beginning is one of the rest.
LEMMA MarkBehind ==
  ASSUME NEW s \in Seq(Pieces), NEW t \in Seq(Pieces), NEW st, IsJoin(s, t, st),
         NEW i, IsMark(st, i), i > Len(s)
  PROVE  IsMark(t, i - Len(s))
<1>1. Len(s) \in Nat /\ Len(t) \in Nat /\ Len(st) = Len(s) + Len(t)
  BY DEF IsJoin
<1>2. i \in 1 .. Len(st) - 2
  BY DEF IsMark
<1>3. PICK j \in 1 .. Len(t) - 2 : i = Len(s) + j
  <2>1. i - Len(s) \in 1 .. Len(t) - 2 /\ i = Len(s) + (i - Len(s))
    BY <1>1, <1>2
  <2> QED BY <2>1
<1>4. /\ i + 1 = Len(s) + (j + 1) /\ i + 2 = Len(s) + (j + 2)
      /\ j \in 1 .. Len(t) /\ j + 1 \in 1 .. Len(t) /\ j + 2 \in 1 .. Len(t)
  BY <1>1, <1>3
<1>5. st[i] = t[j] /\ st[i + 1] = t[j + 1] /\ st[i + 2] = t[j + 2]
  BY <1>3, <1>4 DEF IsJoin
<1>6. IsMark(t, j)
  BY <1>3, <1>5 DEF IsMark
<1>7. i - Len(s) = j
  BY <1>1, <1>3
<1> QED BY <1>6, <1>7

\* A path that begins with "/" and has no mark has none with a host and a port
\* before it.
NoMarkBehind(port, path) ==
  /\ \A i : ~IsMark(path, i)
  /\ port = <<":">> /\ Len(path) > 1 => path[2] # "/"

\* A text without a protocol has no mark if its path has none.
LEMMA NoMark ==
  ASSUME NEW host \in HostTexts, NEW port \in PortTexts, NEW path, IsBehind(path),
         NoMarkBehind(port, path), NEW i
  PROVE  ~IsMark(host \o (port \o path), i)
<1> SUFFICES ASSUME IsMark(host \o (port \o path), i) PROVE FALSE
  OBVIOUS
<1>1. /\ host \in Seq(Pieces) /\ Len(host) \in 0 .. 1
      /\ \A k \in 1 .. Len(host) : host[k] \in HostPieces
  BY HostAndPort DEF IsHostText
<1>2. /\ port \in Seq(Pieces) /\ Len(port) \in 0 .. 2
      /\ Len(port) > 1 => port[2] \in Digits
      /\ (port = <<":">>) <=> (Len(port) = 1)
  BY HostAndPort DEF IsPortText
<1>3. path \in Seq(Pieces) /\ Len(path) \in Nat
  BY DEF IsBehind, Text
<1>4. PICK after \in Seq(Pieces) : after = port \o path /\ IsJoin(port, path, after)
  BY <1>2, <1>3, JoinIs
<1>5. PICK rest \in Seq(Pieces) : rest = host \o after /\ IsJoin(host, after, rest)
  BY <1>1, <1>4, JoinIs
<1>6. IsMark(rest, i)
  BY <1>4, <1>5
<1>7. i \in Nat /\ i >= 1 /\ rest[i] = ":"
  BY <1>6 DEF IsMark
<1>8. i > Len(host)
  <2> SUFFICES ASSUME i \in 1 .. Len(host) PROVE FALSE
    BY <1>1, <1>7
  <2>1. rest[i] = host[i] /\ host[i] \in HostPieces
    BY <1>1, <1>5 DEF IsJoin
  <2> QED BY <1>7, <2>1 DEF HostPieces
<1>9. PICK j : IsMark(after, j)
  BY <1>1, <1>4, <1>5, <1>6, <1>8, MarkBehind
<1>10. /\ j \in 1 .. Len(after) - 2 /\ Len(after) = Len(port) + Len(path)
       /\ after[j] = ":" /\ after[j + 1] = "/" /\ after[j + 2] = "/"
  BY <1>4, <1>9 DEF IsMark, IsJoin
<1>11. ~(j > Len(port))
  <2> SUFFICES ASSUME j > Len(port) PROVE FALSE
    OBVIOUS
  <2>1. IsMark(path, j - Len(port))
    BY <1>2, <1>3, <1>4, <1>9, MarkBehind
  <2> QED BY <2>1 DEF NoMarkBehind
<1>12. Len(port) > 1 => after[2] \in Digits
  BY <1>2, <1>4 DEF IsJoin
<1>13. "/" \notin Digits /\ ":" \notin Digits
  BY DEF Digits
<1>14. CASE Len(port) = 0
  BY <1>10, <1>11, <1>14
<1>15. CASE Len(port) = 1
  <2>1. j = 1 /\ Len(path) > 1
    BY <1>3, <1>10, <1>11, <1>15
  <2>2. after[1 + 2] = path[2]
    BY <1>4, <1>15, <2>1 DEF IsJoin
  <2>3. path[2] # "/"
    BY <1>2, <1>15, <2>1 DEF NoMarkBehind
  <2> QED BY <1>10, <2>1, <2>2, <2>3
<1>16. CASE Len(port) = 2
  <2>1. j = 1 \/ j = 2
    BY <1>10, <1>11, <1>16
  <2>2. after[2] = ":" \/ after[2] = "/"
    BY <1>10, <2>1
  <2> QED BY <1>12, <1>13, <1>16, <2>2
<1> QED BY <1>2, <1>14, <1>15, <1>16

\* Texts are texts together, and it does not matter which are joined first.
LEMMA TextsJoin ==
  ASSUME NEW a \in Text, NEW b \in Text
  PROVE  a \o b \in Text
BY JoinIs DEF Text

\* The same of three.
LEMMA TextsAssociate ==
  ASSUME NEW a \in Text, NEW b \in Text, NEW c \in Text
  PROVE  (a \o b) \o c = a \o (b \o c)
BY ConcatAssociative DEF Text

\* What a text begins with.
Begin(protocol) == IF protocol = NULL THEN <<>> ELSE protocol \o <<":", "/", "/">>

\* A text that is written of the parts of a URL is read as these parts.
LEMMA ParseParts ==
  ASSUME NEW protocol \in Protocol, NEW host \in HostTexts, NEW port \in PortTexts,
         NEW path, IsBehind(path), protocol = NULL => NoMarkBehind(port, path)
  PROVE  url_parse(((Begin(protocol) \o host) \o port) \o path) =
           URL(protocol, IfAny(host), PortSaid(protocol, port), IfAny(path))
<1>1. host \in Text /\ port \in Text /\ path \in Text
  BY HostAndPort DEF IsHostText, IsPortText, IsBehind, Text
<1>2. PICK after \in Text : after = port \o path
  BY <1>1, TextsJoin
<1>3. PICK rest \in Text : rest = host \o after
  BY <1>1, <1>2, TextsJoin
<1>4. url_parse_rest(protocol, rest) =
        URL(protocol, IfAny(host), PortSaid(protocol, port), IfAny(path))
  BY <1>2, <1>3, RestOfParts
<1>5. ASSUME NEW b \in Text PROVE ((b \o host) \o port) \o path = b \o rest
  <2>1. PICK bh \in Text : bh = b \o host
    BY <1>1, TextsJoin
  <2>2. (bh \o port) \o path = bh \o (port \o path)
    BY <1>1, <2>1, TextsAssociate, ZenonT(60)
  <2>3. (b \o host) \o after = b \o (host \o after)
    BY <1>1, <1>2, TextsAssociate, ZenonT(60)
  <2> QED BY <1>2, <1>3, <2>1, <2>2, <2>3
<1>6. CASE protocol = NULL
  <2>1. PICK b \in Text : b = <<>>
    <3>1. <<>> \in Text
      BY DEF Text
    <3> QED BY <3>1
  <2>2. Begin(protocol) = b
    BY <1>6, <2>1 DEF Begin
  <2>3. b \o rest = rest
    BY <1>3, <2>1, ConcatEmptySeq DEF Text
  <2>4. \A i : ~IsMark(rest, i)
    BY <1>2, <1>3, <1>6, NoMark
  <2>5. url_parse(rest) = url_parse_rest(NULL, rest)
    BY <1>3, <2>4, ParsePlain
  <2> QED BY <1>4, <1>5, <1>6, <2>2, <2>3, <2>5
<1>7. ASSUME NEW x \in Pieces, protocol = <<x>>, protocol # NULL
      PROVE  url_parse(((Begin(protocol) \o host) \o port) \o path) =
               url_parse_rest(protocol, rest)
  <2>1. PICK b : b = <<x, ":", "/", "/">>
    OBVIOUS
  <2>2. b \in Seq(Pieces)
    <3>1. {":", "/"} \subseteq Pieces
      BY DEF Pieces, Marks
    <3> QED BY <2>1, <3>1
  <2>3. Begin(protocol) = b
    <3>1. PICK m : m = <<":", "/", "/">>
      OBVIOUS
    <3>2. {":", "/"} \subseteq Pieces
      BY DEF Pieces, Marks
    <3>3. m \in Seq(Pieces) /\ Len(m) = 3 /\ m[1] = ":" /\ m[2] = "/" /\ m[3] = "/"
      BY <3>1, <3>2
    <3>4. Len(b) = 4 /\ b[1] = x /\ b[1 + 1] = ":" /\ b[1 + 2] = "/" /\ b[1 + 3] = "/"
      BY <2>1
    <3>5. Len(protocol) = 1 /\ protocol[1] = x /\ protocol \in Seq(Pieces)
      BY <1>7
    <3>6. IsJoin(protocol, m, b)
      BY <3>3, <3>4, <3>5 DEF IsJoin
    <3>7. protocol \o m = b
      BY <2>2, <3>3, <3>5, <3>6, JoinOnly
    <3> QED BY <1>7, <3>1, <3>7 DEF Begin
  <2>4. url_parse(b \o rest) = url_parse_rest(<<x>>, rest)
    BY <1>3, <2>1, ParseMarked
  <2> QED BY <1>5, <1>7, <2>2, <2>3, <2>4 DEF Text
<1> QED BY <1>4, <1>6, <1>7 DEF Protocol

-----------------------------------------------------------------------------
\* The path and the query.

\* What comes before the first of chars.
Start(s, chars) == SubSeq(s, 1, Before(s, chars))

\* It is not changed by what is behind one of them.
LEMMA StartOfJoin ==
  ASSUME NEW s \in Text, NEW t \in Text, NEW chars, t = <<>> \/ t[1] \in chars
  PROVE  Start(s \o t, chars) = Start(s, chars)
<1>1. s \in Seq(Pieces) /\ t \in Seq(Pieces) /\ Len(s) \in Nat /\ Len(t) \in Nat
  BY DEF Text
<1>2. BeforeTwo(s, t, chars)
  BY <1>1, BeforeJoin
<1>3. Before(t, chars) = 0
  <2>1. IsBefore(t, chars, 0)
    BY <1>1 DEF IsBefore
  <2> QED BY <1>1, <2>1, BeforeOnly
<1>4. PICK n : n = Before(s, chars)
  OBVIOUS
<1>5. n \in 0 .. Len(s) /\ Before(s \o t, chars) = n
  BY <1>1, <1>2, <1>3, <1>4 DEF BeforeTwo
<1>6. PICK st \in Seq(Pieces) : st = s \o t /\ IsJoin(s, t, st)
  BY <1>1, JoinIs
<1>7. PICK a \in Seq(Pieces) : a = SubSeq(s, 1, n) /\ IsStart(s, n, a)
  BY <1>1, <1>5, UpToIs
<1>8. IsStart(st, n, a) /\ n \in 0 .. Len(st)
  BY <1>1, <1>5, <1>6, <1>7 DEF IsStart, IsJoin
<1>9. SubSeq(st, 1, n) = a
  BY <1>6, <1>7, <1>8, StartOnly
<1> QED BY <1>4, <1>5, <1>6, <1>7, <1>9 DEF Start

\* A text that has none of them is before all of them.
LEMMA StartOfPlain ==
  ASSUME NEW s \in Text, NEW chars, Before(s, chars) = Len(s)
  PROVE  Start(s, chars) = s
<1>1. s \in Seq(Pieces) /\ Len(s) \in Nat
  BY DEF Text
<1>2. IsStart(s, Len(s), s) /\ Len(s) \in 0 .. Len(s)
  BY <1>1 DEF IsStart
<1>3. SubSeq(s, 1, Len(s)) = s
  BY <1>1, <1>2, StartOnly
<1> QED BY <1>3 DEF Start

\* The text before the first of chars, and the rest that begins with it.
IsCut(s, chars, a, t) ==
  /\ a = Start(s, chars) /\ t = From(s, Before(s, chars))
  /\ s = a \o t
  /\ Len(a) = Before(s, chars)
  /\ Before(a, chars) = Len(a)
  /\ (t = <<>>) <=> (Before(s, chars) = Len(s))
  /\ t = <<>> \/ t[1] \in chars

\* Every text is these two.
LEMMA Cut ==
  ASSUME NEW s \in Text, NEW chars
  PROVE  \E a, t \in Text : IsCut(s, chars, a, t)
<1>1. s \in Seq(Pieces) /\ Len(s) \in Nat
  BY DEF Text
<1>2. PICK n : n = Before(s, chars) /\ IsBefore(s, chars, n)
  BY <1>1, BeforeIs
<1>3. n \in 0 .. Len(s)
  BY <1>2 DEF IsBefore
<1>4. PICK a \in Seq(Pieces) : a = SubSeq(s, 1, n) /\ IsStart(s, n, a)
  BY <1>1, <1>3, UpToIs
<1>5. PICK t \in Seq(Pieces) : t = From(s, n) /\ IsRest(s, n, t)
  BY <1>1, <1>3, FromIs
<1>6. s = a \o t
  BY <1>1, <1>3, <1>4, <1>5, SplitIs
<1>7. Len(a) = n /\ Len(t) = Len(s) - n
  BY <1>4, <1>5 DEF IsStart, IsRest
<1>8. Before(a, chars) = Len(a)
  <2>1. IsBefore(a, chars, n)
    BY <1>2, <1>3, <1>4, <1>7 DEF IsBefore, IsStart
  <2> QED BY <1>4, <1>7, <2>1, BeforeOnly
<1>9. (t = <<>>) <=> (n = Len(s))
  BY <1>1, <1>3, <1>5, <1>7
<1>10. t = <<>> \/ t[1] \in chars
  <2> SUFFICES ASSUME t # <<>> PROVE t[1] \in chars
    OBVIOUS
  <2>1. n < Len(s) /\ 1 \in 1 .. Len(s) - n
    BY <1>1, <1>3, <1>9
  <2>2. t[1] = s[n + 1]
    BY <1>5, <2>1 DEF IsRest
  <2> QED BY <1>2, <2>1, <2>2 DEF IsBefore
<1>11. IsCut(s, chars, a, t)
  BY <1>2, <1>4, <1>5, <1>6, <1>7, <1>8, <1>9, <1>10 DEF IsCut, Start
<1> QED BY <1>4, <1>5, <1>11 DEF Text

\* A query and the "?" before it.
Ask(q) == <<"?">> \o q

\* Where the query of a path begins, and what it is.
LEMMA AskIs ==
  ASSUME NEW q \in Text
  PROVE  /\ Ask(q) \in Text /\ Ask(q) # <<>> /\ Ask(q)[1] = "?" /\ Tail(Ask(q)) = q
<1>1. q \in Seq(Pieces) /\ Len(q) \in Nat
  BY DEF Text
<1>2. PICK m \in Seq(Pieces) : m = <<"?">>
  <2>1. "?" \in Pieces
    BY DEF Pieces, Marks
  <2>2. <<"?">> \in Seq(Pieces)
    BY <2>1
  <2> QED BY <2>2
<1>3. Len(m) = 1 /\ m[1] = "?"
  BY <1>2
<1>4. PICK t \in Seq(Pieces) : t = m \o q /\ IsJoin(m, q, t)
  BY <1>1, <1>2, JoinIs
<1>5. Len(t) = 1 + Len(q) /\ t[1] = "?" /\ \A i \in 1 .. Len(q) : t[1 + i] = q[i]
  BY <1>3, <1>4 DEF IsJoin
<1>6. t # <<>>
  BY <1>1, <1>5
<1>7. Tail(t) = q
  <2>1. PICK r \in Seq(Pieces) : /\ r = Tail(t) /\ Len(r) = Len(t) - 1
                                /\ \A i \in 1 .. Len(r) : r[i] = t[i + 1]
    BY <1>4, <1>6, HeadTailProperties, ZenonT(60)
  <2>2. Len(r) = Len(q) /\ \A i \in 1 .. Len(r) : r[i] = q[i]
    BY <1>1, <1>5, <2>1
  <2>3. r = q
    BY <1>1, <2>1, <2>2, SeqEqual
  <2> QED BY <2>1, <2>3
<1> QED BY <1>2, <1>4, <1>5, <1>6, <1>7 DEF Ask, Text

\* So is the query of a path that is cut there.
LEMMA QueryIs ==
  ASSUME NEW u, NEW a, NEW t, IsCut(u.path, {"?"}, a, t)
  PROVE  url_query(u) = IF t = <<>> THEN NULL ELSE Tail(t)
BY DEF url_query, start_from, IsCut

\* Of a clean path it is clean, and not empty.
LEMMA QueryPart ==
  ASSUME NEW path \in CleanText, NEW a \in Text, NEW t \in Text, IsCut(path, {"?"}, a, t),
         t # <<>>
  PROVE  \E q \in CleanText \ {<<>>} : t = Ask(q)
<1>1. t \in Seq(Pieces) /\ Len(t) \in Nat /\ Len(t) > 0 /\ t[1] = "?"
  BY DEF Text, IsCut
<1>2. t \in CleanText
  <2>1. path \in Text
    BY DEF CleanText
  <2>2. PICK n : n = Before(path, {"?"}) /\ IsBefore(path, {"?"}, n)
    BY <2>1, BeforeIs DEF Text
  <2>3. n \in 0 .. Len(path) /\ t = From(path, n)
    BY <2>2 DEF IsBefore, IsCut
  <2> QED BY <2>3, CleanRest
<1>3. Len(t) # 1
  <2>1. t[Len(t)] # "?"
    BY <1>2 DEF CleanText
  <2> QED BY <1>1, <2>1
<1>4. 1 \in 0 .. Len(t)
  BY <1>1
<1>5. PICK q \in CleanText : q = From(t, 1)
  BY <1>2, <1>4, CleanRest
<1>6. q \in Seq(Pieces) /\ IsRest(t, 1, q)
  BY <1>1, <1>4, <1>5, FromIs
<1>7. Len(q) = Len(t) - 1 /\ \A i \in 1 .. Len(t) - 1 : q[i] = t[1 + i]
  BY <1>6 DEF IsRest
<1>8. q # <<>>
  <2>1. Len(q) # 0
    BY <1>1, <1>3, <1>7
  <2> QED BY <1>6, <2>1
<1>9. PICK m \in Seq(Pieces) : m = <<"?">>
  <2>1. "?" \in Pieces
    BY DEF Pieces, Marks
  <2>2. <<"?">> \in Seq(Pieces)
    BY <2>1
  <2> QED BY <2>2
<1>10. Len(m) = 1 /\ m[1] = "?"
  BY <1>9
<1>11. IsJoin(m, q, t)
  BY <1>1, <1>7, <1>10 DEF IsJoin
<1>12. m \o q = t
  BY <1>1, <1>6, <1>9, <1>11, JoinOnly
<1>13. t = Ask(q)
  BY <1>9, <1>12 DEF Ask
<1> QED BY <1>5, <1>8, <1>13

\* A query that is put behind a text without one is its query.
LEMMA AskBehind ==
  ASSUME NEW a \in Text, Before(a, {"?"}) = Len(a), NEW q \in Text
  PROVE  IsCut(a \o Ask(q), {"?"}, a, Ask(q)) /\ a \o Ask(q) \in Text
<1>1. PICK t \in Text : t = Ask(q) /\ t # <<>> /\ t[1] = "?"
  BY AskIs
<1>2. PICK chars : chars = {"?"}
  OBVIOUS
<1>3. PICK s \in Text : s = a \o t
  BY <1>1, TextsJoin
<1>4. a \in Seq(Pieces) /\ t \in Seq(Pieces) /\ Len(a) \in Nat /\ Len(t) \in Nat
  BY DEF Text
<1>5. Start(s, chars) = a
  <2>1. Start(s, chars) = Start(a, chars)
    BY <1>1, <1>2, <1>3, StartOfJoin
  <2>2. Start(a, chars) = a
    BY <1>2, StartOfPlain
  <2> QED BY <2>1, <2>2
<1>6. Before(t, chars) = 0
  <2>1. IsBefore(t, chars, 0)
    BY <1>1, <1>2, <1>4 DEF IsBefore
  <2> QED BY <1>4, <2>1, BeforeOnly
<1>7. Before(s, chars) = Len(a)
  <2>1. BeforeTwo(a, t, chars)
    BY <1>4, BeforeJoin
  <2> QED BY <1>2, <1>3, <1>4, <1>6, <2>1 DEF BeforeTwo
<1>8. From(s, Len(a)) = t
  BY <1>3, <1>4, JoinParts
<1>9. Len(s) = Len(a) + Len(t) /\ Len(t) # 0
  <2>1. IsJoin(a, t, s)
    BY <1>3, <1>4, JoinIs
  <2> QED BY <1>1, <1>4, <2>1 DEF IsJoin
<1>10. IsCut(s, chars, a, t)
  <2>1. Before(s, chars) # Len(s)
    BY <1>4, <1>7, <1>9
  <2> QED BY <1>1, <1>2, <1>3, <1>5, <1>7, <1>8, <2>1 DEF IsCut
<1> QED BY <1>1, <1>2, <1>3, <1>10

\* A text contains c if it does not end before the first.
LEMMA ContainsIs ==
  ASSUME NEW s \in Text, NEW c
  PROVE  Contains(s, c) <=> Before(s, {c}) # Len(s)
<1>1. PICK n : n = Before(s, {c}) /\ IsBefore(s, {c}, n)
  BY BeforeIs DEF Text
<1>2. Len(s) \in Nat /\ n \in 0 .. Len(s)
  BY <1>1 DEF Text, IsBefore
<1>3. CASE n = Len(s)
  BY <1>1, <1>3 DEF IsBefore, Contains
<1>4. CASE n # Len(s)
  <2>1. n + 1 \in 1 .. Len(s)
    BY <1>2, <1>4
  <2>2. s[n + 1] = c
    BY <1>1, <1>2, <1>4 DEF IsBefore
  <2> QED BY <1>1, <1>4, <2>1, <2>2 DEF Contains
<1> QED BY <1>3, <1>4

\* The hash of two texts is in the first, or in the second.
LEMMA HashOfTwo ==
  ASSUME NEW a \in Text, NEW b \in Text
  PROVE  start_from(a \o b, "#") =
           IF Contains(a, "#") THEN start_from(a, "#") \o b ELSE start_from(b, "#")
<1>1. PICK c : c = {"#"}
  OBVIOUS
<1>2. PICK s \in Text : s = a \o b
  BY TextsJoin
<1>3. a \in Seq(Pieces) /\ b \in Seq(Pieces) /\ Len(a) \in Nat
  BY DEF Text
<1>4. BeforeTwo(a, b, c)
  BY <1>3, BeforeJoin
<1>5. PICK a1 \in Text, h1 \in Text : IsCut(a, c, a1, h1)
  BY Cut
<1>6. PICK a2 \in Text, h2 \in Text : IsCut(b, c, a2, h2)
  BY Cut
<1>7. Contains(a, "#") <=> Before(a, c) # Len(a)
  BY <1>1, ContainsIs
<1>8. CASE Contains(a, "#")
  <2>1. Before(s, c) = Len(a1)
    <3>1. Before(a, c) < Len(a)
      BY <1>3, <1>4, <1>7, <1>8 DEF BeforeTwo
    <3> QED BY <1>2, <1>4, <1>5, <3>1 DEF BeforeTwo, IsCut
  <2>2. s = a1 \o (h1 \o b)
    <3>1. a = a1 \o h1
      BY <1>5 DEF IsCut
    <3>2. (a1 \o h1) \o b = a1 \o (h1 \o b)
      BY TextsAssociate, ZenonT(60)
    <3> QED BY <1>2, <3>1, <3>2
  <2>3. From(s, Len(a1)) = h1 \o b
    <3>1. h1 \o b \in Text
      BY TextsJoin
    <3> QED BY <2>2, <3>1, JoinParts DEF Text
  <2>4. start_from(a, "#") = h1
    BY <1>1, <1>5 DEF IsCut, start_from
  <2> QED BY <1>1, <1>2, <1>8, <2>1, <2>3, <2>4 DEF start_from
<1>9. CASE ~Contains(a, "#")
  <2>1. PICK m \in Text : m = a \o a2
    BY TextsJoin
  <2>2. Before(s, c) = Len(m)
    <3>1. IsJoin(a, a2, m)
      BY <2>1, JoinIs DEF Text
    <3>2. Before(s, c) = Len(a) + Before(b, c)
      BY <1>2, <1>4, <1>7, <1>9 DEF BeforeTwo
    <3>3. Before(b, c) = Len(a2)
      BY <1>6 DEF IsCut
    <3> QED BY <3>1, <3>2, <3>3 DEF IsJoin
  <2>3. s = m \o h2
    <3>1. b = a2 \o h2
      BY <1>6 DEF IsCut
    <3>2. a2 \in Text /\ h2 \in Text
      BY <1>6
    <3>3. (a \o a2) \o h2 = a \o (a2 \o h2)
      BY <3>2, TextsAssociate, SMTT(60)
    <3> QED BY <1>2, <2>1, <3>1, <3>3
  <2>4. From(s, Len(m)) = h2
    BY <2>3, JoinParts DEF Text
  <2>5. start_from(b, "#") = h2
    BY <1>1, <1>6 DEF IsCut, start_from
  <2> QED BY <1>1, <1>2, <1>9, <2>2, <2>4, <2>5 DEF start_from
<1> QED BY <1>8, <1>9

\* A path that is NULL has no query.
LEMMA QueryOfNull ==
  ASSUME NEW u, u.path = NULL
  PROVE  url_query(u) = NULL
<1>1. PICK s : s = NULL
  OBVIOUS
<1>2. s \in Seq({"NULL"}) /\ Len(s) = 1 /\ s[1] = "NULL"
  BY <1>1 DEF NULL
<1>3. Before(s, {"?"}) = 1
  <2>1. IsBefore(s, {"?"}, 1)
    BY <1>2 DEF IsBefore
  <2> QED BY <1>2, <2>1, BeforeOnly
<1>4. From(s, 1) = <<>>
  <2>1. 1 \in 0 .. Len(s)
    BY <1>2
  <2>2. From(s, 1) \in Seq({"NULL"}) /\ IsRest(s, 1, From(s, 1))
    BY <1>2, <2>1, FromIs
  <2>3. Len(From(s, 1)) = 0
    BY <1>2, <2>2 DEF IsRest
  <2> QED BY <2>2, <2>3
<1> QED BY <1>1, <1>3, <1>4 DEF url_query, start_from

\* The path without what is behind "?" or "#".
Ends == {"?", "#"}

\* What is told of a URL v whose path was set to path, and before was u.
PathWas(u, path, v) ==
  /\ v \in Urls /\ v = [u EXCEPT !.path = v.path]
  /\ v.path # NULL /\ Start(v.path, Ends) = Start(path, Ends)
  /\ Start(v.path, {"?"}) = Start(path, {"?"})
  /\ url_query(v) = IF Contains(path, "?") THEN url_query([u EXCEPT !.path = path])
                    ELSE url_query(u)

\* A URL is its parts.
LEMMA UrlWith ==
  ASSUME NEW u \in Urls, NEW path \in Path
  PROVE  /\ [u EXCEPT !.path = path] \in Urls
         /\ [u EXCEPT !.path = path].path = path
BY DEF Urls

\* To set the path keeps the query unless the path has one.
LEMMA SetPath ==
  ASSUME NEW u \in Urls, NEW path \in CleanText
  PROVE  PathWas(u, path, url_set_path_len(u, path))
<1>1. path \in Text /\ path \in Path /\ path # NULL
  BY NullIsNone DEF CleanText, Path
<1>2. PICK v : v = url_set_path_len(u, path)
  OBVIOUS
<1>3. PICK old : old = url_query(u)
  OBVIOUS
<1>4. CASE Contains(path, "?")
  <2>1. v = [u EXCEPT !.path = path]
    BY <1>2, <1>4 DEF url_set_path_len
  <2>2. v \in Urls /\ v.path = path
    BY <1>1, <2>1, UrlWith
  <2> QED BY <1>1, <1>2, <1>4, <2>1, <2>2 DEF PathWas
<1>5. Contains(path, "?") \/ Before(path, {"?"}) = Len(path)
  BY <1>1, ContainsIs
<1>6. CASE ~Contains(path, "?") /\ old = NULL
  <2>1. v = [u EXCEPT !.path = path]
    BY <1>2, <1>3, <1>6 DEF url_set_path_len
  <2>2. v \in Urls /\ v.path = path
    BY <1>1, <2>1, UrlWith
  <2>3. url_query(v) = NULL
    <3>1. PICK a \in Text, t \in Text : IsCut(path, {"?"}, a, t)
      BY <1>1, Cut
    <3>2. t = <<>>
      BY <1>5, <1>6, <3>1 DEF IsCut
    <3> QED BY <2>2, <3>1, <3>2, QueryIs
  <2>4. url_query(v) = url_query(u)
    BY <1>3, <1>6, <2>3
  <2> QED BY <1>1, <1>2, <1>6, <2>1, <2>2, <2>4 DEF PathWas
<1>7. CASE ~Contains(path, "?") /\ old # NULL
  <2>1. u.path \in CleanText
    <3>1. u.path # NULL
      BY <1>3, <1>7, QueryOfNull
    <3> QED BY <3>1 DEF Urls, Path
  <2>2. PICK a \in Text, t \in Text : IsCut(u.path, {"?"}, a, t)
    BY <2>1, Cut DEF CleanText
  <2>3. t # <<>>
    BY <1>3, <1>7, <2>2, QueryIs
  <2>4. PICK q \in CleanText : t = Ask(q) /\ q # <<>>
    BY <2>1, <2>2, <2>3, QueryPart
  <2>5. q \in Text
    BY <2>4 DEF CleanText
  <2>6. old = q
    <3>1. old = Tail(t)
      BY <1>3, <2>2, <2>3, QueryIs
    <3> QED BY <2>4, <2>5, <3>1, AskIs
  <2>7. PICK ask \in Text : ask = Ask(q) /\ ask # <<>> /\ ask[1] = "?" /\ Tail(ask) = q
    BY <2>5, AskIs
  <2>8. PICK new : new = path \o ask /\ new \in Text /\ IsCut(new, {"?"}, path, ask)
    BY <1>1, <1>5, <1>7, <2>5, <2>7, AskBehind
  <2>9. path \o <<"?">> \o old = new
    <3>1. <<"?">> \in Text
      BY Written DEF Pieces, Marks
    <3>2. (path \o <<"?">>) \o q = path \o (<<"?">> \o q)
      BY <1>1, <2>5, <3>1, TextsAssociate, SMTT(60)
    <3> QED BY <2>6, <2>7, <2>8, <3>2 DEF Ask
  <2>10. v = [u EXCEPT !.path = new]
    BY <1>2, <1>3, <1>7, <2>9 DEF url_set_path_len
  <2>11. new \in CleanText
    <3>1. ask \in CleanText
      <4>1. <<"?">> \in Text
        BY Written DEF Pieces, Marks
      <4> QED BY <2>4, <2>7, <4>1, CleanJoin DEF Ask
    <3> QED BY <1>1, <2>8, <3>1, CleanJoin
  <2>12. new \in Path /\ new # NULL
    BY <2>8, <2>11, NullIsNone DEF Path
  <2>13. v \in Urls /\ v.path = new
    BY <2>10, <2>12, UrlWith
  <2>14. url_query(v) = url_query(u)
    BY <1>3, <2>6, <2>7, <2>8, <2>13, QueryIs
  <2>15. Start(new, Ends) = Start(path, Ends)
    <3>1. ask[1] \in Ends
      BY <2>7 DEF Ends
    <3> QED BY <1>1, <2>7, <2>8, <3>1, StartOfJoin
  <2>16. v = [u EXCEPT !.path = v.path]
    BY <2>10, <2>13
  <2>17. Start(new, {"?"}) = Start(path, {"?"})
    BY <1>1, <2>7, <2>8, StartOfJoin
  <2> QED BY <1>2, <1>7, <2>12, <2>13, <2>14, <2>15, <2>16, <2>17 DEF PathWas
<1> QED BY <1>4, <1>6, <1>7

\* What is told of a URL v whose query was set to q, and before was u.
QueryWas(u, q, v) ==
  /\ v \in Urls /\ v = [u EXCEPT !.path = v.path]
  /\ v.path # NULL /\ Start(v.path, Ends) = Start(OrNone(u.path), Ends)
  /\ Start(v.path, {"?"}) = Start(OrNone(u.path), {"?"})
  /\ url_query(v) = q

\* The path of a URL, or none, is a clean text.
LEMMA PathOrNone ==
  ASSUME NEW u \in Urls
  PROVE  OrNone(u.path) \in CleanText /\ OrNone(u.path) \in Text
<1>1. CASE u.path = NULL
  BY <1>1, NullIsNone, Written DEF CleanText
<1>2. CASE u.path \in CleanText
  BY <1>2, NullIsNone DEF CleanText
<1> QED BY <1>1, <1>2 DEF Urls, Path

\* To set the query keeps the path.
LEMMA SetQueryIs ==
  ASSUME NEW u \in Urls, NEW q \in CleanText, q # <<>>
  PROVE  QueryWas(u, q, url_set_query_len(u, q))
<1>1. PICK v : v = url_set_query_len(u, q)
  OBVIOUS
<1>2. PICK path \in Text : path = OrNone(u.path)
  BY PathOrNone
<1>3. PICK a \in Text, t \in Text : IsCut(path, {"?"}, a, t)
  BY Cut
<1>4. q \in Text
  BY DEF CleanText
<1>5. PICK ask \in Text : ask = Ask(q) /\ ask # <<>> /\ ask[1] = "?" /\ Tail(ask) = q
  BY <1>4, AskIs
<1>6. PICK new : new = a \o ask /\ new \in Text /\ IsCut(new, {"?"}, a, ask)
  <2>1. Before(a, {"?"}) = Len(a)
    BY <1>3 DEF IsCut
  <2> QED BY <1>4, <1>5, <2>1, AskBehind
<1>7. v = [u EXCEPT !.path = new]
  <2>1. <<"?">> \in Text
    BY Written DEF Pieces, Marks
  <2>2. (a \o <<"?">>) \o q = a \o (<<"?">> \o q)
    BY <1>4, <2>1, TextsAssociate, SMTT(60)
  <2>3. a \o <<"?">> \o q = new
    BY <1>5, <1>6, <2>2 DEF Ask
  <2>4. a = SubSeq(path, 1, Before(path, {"?"}))
    BY <1>3 DEF IsCut, Start
  <2> QED BY <1>1, <1>2, <2>3, <2>4 DEF url_set_query_len
<1>8. new \in CleanText
  <2>1. ask \in CleanText
    <3>1. <<"?">> \in Text
      BY Written DEF Pieces, Marks
    <3> QED BY <1>5, <3>1, CleanJoin DEF Ask
  <2> QED BY <1>5, <1>6, <2>1, CleanJoin
<1>9. new \in Path /\ new # NULL
  BY <1>6, <1>8, NullIsNone DEF Path
<1>10. v \in Urls /\ v.path = new
  BY <1>7, <1>9, UrlWith
<1>11. url_query(v) = q
  BY <1>5, <1>6, <1>10, QueryIs
<1>12. Start(new, Ends) = Start(path, Ends)
  <2>1. "?" \in Ends
    BY DEF Ends
  <2>2. Start(new, Ends) = Start(a, Ends)
    BY <1>5, <1>6, <2>1, StartOfJoin
  <2>3. t = <<>> \/ t[1] \in Ends
    BY <1>3, <2>1 DEF IsCut
  <2>4. Start(path, Ends) = Start(a, Ends)
    <3>1. Start(a \o t, Ends) = Start(a, Ends)
      BY <2>3, StartOfJoin
    <3>2. path = a \o t
      BY <1>3 DEF IsCut
    <3> QED BY <3>1, <3>2
  <2> QED BY <2>2, <2>4
<1>13. v = [u EXCEPT !.path = v.path]
  BY <1>7, <1>10
<1>14. Start(new, {"?"}) = Start(path, {"?"})
  BY <1>3, <1>6 DEF IsCut
<1> QED BY <1>1, <1>2, <1>9, <1>10, <1>11, <1>12, <1>13, <1>14 DEF QueryWas

-----------------------------------------------------------------------------
\* The text of a URL.

\* Every port has a number that is printed for it.
LEMMA PrintedIs ==
  ASSUME NEW n \in Port
  PROVE  Printed(n) \in Digits /\ Numbers[Printed(n)] = n
<1>1. DOMAIN Numbers = Digits
  BY DEF Numbers, Digits
<1>2. \E t \in Digits : Numbers[t] = n
  BY DEF Port, Numbers, Digits
<1> QED BY <1>1, <1>2 DEF Printed

\* The ports of protocols and of numbers are some.
LEMMA PortsAre ==
  /\ \A p : protocol_default_port(p) \in {0, 80, 443}
  /\ \A t \in Digits : Numbers[t] \in Port
  /\ DOMAIN Numbers = Digits
  /\ {0, 80, 443} \subseteq Port /\ -1 \in Port
BY DEF protocol_default_port, Numbers, Digits, Port

\* A URL with a port of its own, if it has a protocol.
OwnPort(u) ==
  IF u.port < 0 /\ u.protocol # NULL
  THEN protocol_default_port(protocol_number(u.protocol)) ELSE u.port

\* A URL that a text can say has a path to write behind a host and a port.
LEMMA SayablePath ==
  ASSUME NEW u \in Urls, Sayable(u), NEW port \in PortTexts \ {<<":">>}
  PROVE  /\ IsBehind(OrNone(u.path)) /\ u.host \in HostTexts /\ u.host # <<>>
         /\ OrNone(u.host) = u.host
         /\ u.protocol = NULL => NoMarkBehind(port, OrNone(u.path))
<1>1. PICK path \in Text : path = OrNone(u.path)
  BY PathOrNone
<1>2. path # <<>> => path[1] = "/"
  <2> SUFFICES ASSUME path # <<>> PROVE path[1] = "/"
    OBVIOUS
  <2>1. u.path # NULL
    BY <1>1, NullIsNone
  <2>2. path = u.path
    BY <1>1, <2>1 DEF OrNone
  <2> QED BY <2>1, <2>2 DEF Sayable
<1>3. PICK x \in HostPieces : u.host = <<x>>
  BY DEF Sayable, Urls, Host
<1>4. u.host \in HostTexts /\ u.host # <<>> /\ u.host # NULL
  <2>1. Len(<<x>>) = 1 /\ Len(<<>>) = 0
    OBVIOUS
  <2>2. <<x>> # <<>>
    BY <2>1
  <2> QED BY <1>3, <2>2 DEF HostTexts, Sayable
<1>5. port # <<":">>
  OBVIOUS
<1>6. ASSUME u.protocol = NULL PROVE NoMarkBehind(port, path)
  <2>1. ASSUME NEW i PROVE ~IsMark(path, i)
    <3>1. CASE u.path = NULL
      <4>1. Len(path) = 0
        BY <1>1, <3>1, NullIsNone
      <4> QED BY <4>1 DEF IsMark
    <3>2. CASE u.path # NULL
      <4>1. path = u.path
        BY <1>1, <3>2 DEF OrNone
      <4>2. \A j \in 1 .. Len(path) - 2 : SubSeq(path, j, j + 2) # <<":", "/", "/">>
        BY <1>1, <1>6, <4>1, ZenonT(60) DEF Sayable
      <4>3. i \notin MarksOf(path)
        BY <4>2, ZenonT(60) DEF MarksOf
      <4> QED BY <4>3, MarkIs
    <3> QED BY <3>1, <3>2
  <2> QED BY <1>5, <2>1 DEF NoMarkBehind
<1> QED BY <1>1, <1>2, <1>4, <1>6 DEF IsBehind, OrNone

\* What is written before the host.
LEMMA PrefixIs ==
  ASSUME NEW u \in Urls
  PROVE  /\ Prefix(u) = Begin(u.protocol)
         /\ (IF u.protocol \in {NULL, <<>>} THEN <<>> ELSE Prefix(u)) = Begin(u.protocol)
<1>1. u.protocol # <<>>
  <2>1. ASSUME NEW x PROVE <<x>> # <<>>
    <3>1. Len(<<x>>) = 1 /\ Len(<<>>) = 0
      OBVIOUS
    <3> QED BY <3>1
  <2> QED BY <2>1 DEF Urls, Protocol, NULL
<1> QED BY <1>1 DEF Prefix, Begin

\* The text of a URL is read as its parts, with its own port.
LEMMA FormatRead ==
  ASSUME NEW u \in Urls, Sayable(u)
  PROVE  url_parse(url_format(u)) =
           URL(u.protocol, u.host, OwnPort(u), IfAny(OrNone(u.path)))
<1>1. u.port \in Port /\ u.protocol \in Protocol
  BY DEF Urls
<1>2. PICK n \in Digits : n = Printed(u.port) /\ Numbers[n] = u.port
  BY <1>1, PrintedIs
<1>3. HostOr(u) = u.host /\ u.host # NULL
  BY DEF HostOr, Sayable
<1>4. PICK own \in BOOLEAN :
        own = (/\ u.protocol # NULL
               /\ \/ u.port = protocol_default_port(protocol_number(u.protocol))
                  \/ u.port < 0)
  OBVIOUS
<1>5. PICK port : port = IF own THEN <<>> ELSE <<":", n>>
  OBVIOUS
<1>6. port \in PortTexts \ {<<":">>}
  <2>1. Len(<<>>) = 0 /\ Len(<<":">>) = 1 /\ Len(<<":", n>>) = 2
    OBVIOUS
  <2>2. <<>> # <<":">> /\ <<":", n>> # <<":">>
    BY <2>1, SMTT(60)
  <2> QED BY <1>5, <2>2 DEF PortTexts
<1>7. url_format(u) = ((Begin(u.protocol) \o OrNone(u.host)) \o port) \o OrNone(u.path)
  BY <1>2, <1>3, <1>4, <1>5, PrefixIs DEF url_format
<1>8. /\ IsBehind(OrNone(u.path)) /\ u.host \in HostTexts /\ u.host # <<>>
      /\ OrNone(u.host) = u.host
      /\ u.protocol = NULL => NoMarkBehind(port, OrNone(u.path))
  BY <1>6, SayablePath
<1>9. url_parse(url_format(u)) =
        URL(u.protocol, IfAny(u.host), PortSaid(u.protocol, port), IfAny(OrNone(u.path)))
  BY <1>1, <1>6, <1>7, <1>8, ParseParts
<1>10. PortSaid(u.protocol, port) = OwnPort(u)
  <2>1. CASE own
    <3>1. PortSaid(u.protocol, port) = protocol_default_port(protocol_number(u.protocol))
      BY <1>4, <1>5, <2>1 DEF PortSaid
    <3> QED BY <1>4, <2>1, <3>1 DEF OwnPort
  <2>2. CASE ~own
    <3>1. port = <<":", n>> /\ port # <<>> /\ port # <<":">>
      <4>1. Len(<<>>) = 0 /\ Len(<<":", n>>) = 2
        OBVIOUS
      <4> QED BY <1>5, <1>6, <2>2, <4>1
    <3>2. PortSaid(u.protocol, port) = u.port
      BY <1>2, <3>1 DEF PortSaid
    <3> QED BY <1>4, <2>2, <3>2 DEF OwnPort
  <2> QED BY <2>1, <2>2
<1> QED BY <1>8, <1>9, <1>10 DEF IfAny

\* So is the text that is logged, if the port is not 0.
LEMMA PrintRead ==
  ASSUME NEW u \in Urls, Sayable(u), u.port # 0
  PROVE  url_parse(url_print(u)) =
           URL(u.protocol, u.host, u.port, IfAny(OrNone(u.path)))
<1>1. u.port \in Port /\ u.protocol \in Protocol
  BY DEF Urls
<1>2. PICK n \in Digits : n = Printed(u.port) /\ Numbers[n] = u.port
  BY <1>1, PrintedIs
<1>3. PICK port : port = <<":", n>>
  OBVIOUS
<1>4. port \in PortTexts \ {<<":">>} /\ port # <<>>
  <2>1. Len(<<>>) = 0 /\ Len(<<":">>) = 1 /\ Len(<<":", n>>) = 2
    OBVIOUS
  <2>2. <<":", n>> # <<>> /\ <<":", n>> # <<":">>
    BY <2>1
  <2> QED BY <1>3, <2>2 DEF PortTexts
<1>5. url_print(u) = ((Begin(u.protocol) \o OrNone(u.host)) \o port) \o OrNone(u.path)
  BY <1>2, <1>3, PrefixIs DEF url_print
<1>6. /\ IsBehind(OrNone(u.path)) /\ u.host \in HostTexts /\ u.host # <<>>
      /\ OrNone(u.host) = u.host
      /\ u.protocol = NULL => NoMarkBehind(port, OrNone(u.path))
  BY <1>4, SayablePath
<1>7. url_parse(url_print(u)) =
        URL(u.protocol, IfAny(u.host), PortSaid(u.protocol, port), IfAny(OrNone(u.path)))
  BY <1>1, <1>4, <1>5, <1>6, ParseParts
<1>8. PortSaid(u.protocol, port) = u.port
  BY <1>2, <1>3, <1>4 DEF PortSaid
<1> QED BY <1>6, <1>7, <1>8 DEF IfAny

\* What is compared of the two.
Shown(u) == [Own(u) EXCEPT !.path = OrNone(@)]

\* It is the URL with its own port and a path that is never NULL.
LEMMA ShownIs ==
  ASSUME NEW p \in Protocol, NEW h \in Host, NEW n \in Port, NEW x
  PROVE  Shown(URL(p, h, n, x)) = URL(p, h, OwnPort(URL(p, h, n, x)), OrNone(x))
<1>1. PICK u : u = URL(p, h, n, x)
  OBVIOUS
<1>2. u = [protocol |-> p, host |-> h, port |-> n, path |-> x]
  BY <1>1 DEF URL
<1>3. Own(u) = [u EXCEPT !.port = OwnPort(u)]
  BY <1>2 DEF Own, OwnPort
<1>4. PICK m : m = OwnPort(u)
  OBVIOUS
<1>5. PICK y : y = OrNone(x)
  OBVIOUS
<1>6. Own(u) = [protocol |-> p, host |-> h, port |-> m, path |-> x]
  BY <1>2, <1>3, <1>4
<1>7. Shown(u) = [protocol |-> p, host |-> h, port |-> m, path |-> y]
  BY <1>5, <1>6 DEF Shown
<1> QED BY <1>1, <1>4, <1>5, <1>7 DEF URL

\* A URL that is read of a text that says its parts, with its port or its own, is
\* shown as it is.
LEMMA ShownAlike ==
  ASSUME NEW u \in Urls, NEW n, n = u.port \/ n = OwnPort(u)
  PROVE  Shown(URL(u.protocol, u.host, n, IfAny(OrNone(u.path)))) = Shown(u)
<1>1. PICK p \in Protocol, h \in Host, m \in Port, x \in Path :
        u = [protocol |-> p, host |-> h, port |-> m, path |-> x]
  BY DEF Urls
<1>2. u = URL(p, h, m, x) /\ u.protocol = p /\ u.host = h /\ u.port = m /\ u.path = x
  BY <1>1 DEF URL
<1>3. PICK k : k = OwnPort(u)
  OBVIOUS
<1>4. k = IF m < 0 /\ p # NULL THEN protocol_default_port(protocol_number(p)) ELSE m
  BY <1>2, <1>3 DEF OwnPort
<1>5. k \in Port /\ (p # NULL => k >= 0) /\ (p = NULL => k = m)
  <2>1. CASE m < 0 /\ p # NULL
    <3>1. k = protocol_default_port(protocol_number(p))
      BY <1>4, <2>1
    <3>2. k \in {0, 80, 443}
      BY <3>1, PortsAre
    <3> QED BY <2>1, <3>2, PortsAre
  <2>2. CASE ~(m < 0 /\ p # NULL)
    <3>1. k = m
      BY <1>4, <2>2
    <3> QED BY <2>2, <3>1 DEF Port
  <2> QED BY <2>1, <2>2
<1>6. PICK y : y = IfAny(OrNone(x))
  OBVIOUS
<1>7. OrNone(y) = OrNone(x)
  <2>1. OrNone(x) \in Text
    BY <1>2, PathOrNone
  <2>2. PICK t \in Text : t = OrNone(x)
    BY <2>1
  <2>3. CASE t = <<>>
    <3>1. y = NULL
      BY <1>6, <2>2, <2>3 DEF IfAny
    <3> QED BY <2>2, <2>3, <3>1, NullIsNone
  <2>4. CASE t # <<>>
    <3>1. y = t
      BY <1>6, <2>2, <2>4 DEF IfAny
    <3> QED BY <2>2, <3>1, NullIsNone
  <2> QED BY <2>3, <2>4
<1>8. Shown(u) = URL(p, h, k, OrNone(x))
  BY <1>2, <1>3, ShownIs
<1>9. PICK v : v = URL(p, h, n, y)
  OBVIOUS
<1>10. n \in Port
  BY <1>2, <1>3, <1>5
<1>11. OwnPort(v) = k
  <2>1. v.protocol = p /\ v.port = n
    BY <1>9 DEF URL
  <2>2. OwnPort(v) = IF n < 0 /\ p # NULL THEN protocol_default_port(protocol_number(p)) ELSE n
    BY <2>1 DEF OwnPort
  <2>3. CASE n = m
    BY <1>4, <2>2, <2>3
  <2>4. CASE n = k
    <3>1. ~(n < 0 /\ p # NULL)
      BY <1>5, <2>4 DEF Port
    <3> QED BY <2>2, <2>4, <3>1
  <2> QED BY <1>2, <1>3, <2>3, <2>4
<1>12. Shown(v) = URL(p, h, k, OrNone(y))
  BY <1>9, <1>10, <1>11, ShownIs
<1> QED BY <1>2, <1>6, <1>7, <1>8, <1>9, <1>12

\* So the text of a URL says all of its parts.
LEMMA SaysAll ==
  ASSUME url \in Urls
  PROVE  TextSaysAll
<1> SUFFICES ASSUME Sayable(url) PROVE TextSaysAll
  BY DEF TextSaysAll
<1>1. PICK v : v = url_parse(url_format(url))
  OBVIOUS
<1>2. PICK w : w = url_parse(url_print(url))
  OBVIOUS
<1>3. Shown(v) = Shown(url)
  <2>1. v = URL(url.protocol, url.host, OwnPort(url), IfAny(OrNone(url.path)))
    BY <1>1, FormatRead
  <2> QED BY <2>1, ShownAlike
<1>4. url.port # 0 => Shown(w) = Shown(url)
  <2> SUFFICES ASSUME url.port # 0 PROVE Shown(w) = Shown(url)
    OBVIOUS
  <2>1. w = URL(url.protocol, url.host, url.port, IfAny(OrNone(url.path)))
    BY <1>2, PrintRead
  <2> QED BY <2>1, ShownAlike
<1> QED BY <1>1, <1>2, <1>3, <1>4 DEF TextSaysAll, Shown

-----------------------------------------------------------------------------
\* The URL object.

\* The path of PathsClean has no ":".
LEMMA PathsPlain ==
  \A path \in Paths \ {NULL} : \A i : ~IsMark(path, i)
<1> DEFINE S == {"/", "p", "?", "k", "=", "v", "#", "f"}
<1>1. ASSUME NEW path, path = <<"/">> PROVE path \in Seq(S)
  BY <1>1
<1>2. ASSUME NEW path, path = <<"/", "p">> PROVE path \in Seq(S)
  BY <1>2
<1>3. ASSUME NEW path, path = <<"/", "p", "?", "k", "=", "v">> PROVE path \in Seq(S)
  BY <1>3
<1>4. ASSUME NEW path, path = <<"/", "p", "#", "f">> PROVE path \in Seq(S)
  BY <1>4
<1>5. ASSUME NEW path, path = <<"/", "p", "?", "k", "=", "v", "#", "f">> PROVE path \in Seq(S)
  BY <1>5
<1>6. ":" \notin S
  OBVIOUS
<1> HIDE DEF S
<1>7. \A path \in Paths \ {NULL} : path \in Seq(S)
  BY <1>1, <1>2, <1>3, <1>4, <1>5 DEF Paths
<1>8. ASSUME NEW path \in Seq(S), NEW i PROVE ~IsMark(path, i)
  <2> SUFFICES ASSUME IsMark(path, i) PROVE FALSE
    OBVIOUS
  <2>1. Len(path) \in Nat /\ i \in 1 .. Len(path) - 2 /\ path[i] = ":"
    BY DEF IsMark
  <2>2. i \in 1 .. Len(path)
    BY <2>1
  <2>3. path[i] \in S
    BY <2>2
  <2> QED BY <1>6, <2>1, <2>3
<1> QED BY <1>7, <1>8

\* Written parts are those of a URL.
LEMMA PartsAreUrl ==
  ASSUME NEW protocol \in Protocol, NEW host \in HostTexts, NEW port \in PortTexts,
         NEW path \in CleanText
  PROVE  URL(protocol, IfAny(host), PortSaid(protocol, port), IfAny(path)) \in Urls
<1>1. IfAny(host) \in Host
  BY DEF IfAny, HostTexts, Host
<1>2. IfAny(path) \in Path
  BY DEF IfAny, Path
<1>3. PortSaid(protocol, port) \in Port
  <2>1. protocol_default_port(protocol_number(protocol)) \in Port
    BY PortsAre
  <2>2. -1 \in Port /\ 0 \in Port
    BY DEF Port
  <2>3. IsPortText(port)
    BY HostAndPort
  <2>4. port # <<>> /\ port # <<":">> => port[2] \in Digits
    BY <2>3 DEF IsPortText
  <2>5. port # <<>> /\ port # <<":">> => Numbers[port[2]] \in Port
    BY <2>4, PortsAre
  <2> QED BY <2>1, <2>2, <2>5 DEF PortSaid
<1> QED BY <1>1, <1>2, <1>3 DEF URL, Urls

\* What a text begins with has its mark.
LEMMA BeginIs ==
  ASSUME NEW x \in Pieces
  PROVE  Begin(<<x>>) = <<x, ":", "/", "/">> /\ <<x>> \in Protocol
<1>1. <<x>> # NULL
  BY Written, NullIsNone
<1>2. PICK b : b = <<x, ":", "/", "/">>
  OBVIOUS
<1>3. PICK m : m = <<":", "/", "/">>
  OBVIOUS
<1>4. PICK p : p = <<x>>
  OBVIOUS
<1>5. {":", "/"} \subseteq Pieces
  BY DEF Pieces, Marks
<1>6. m \in Seq(Pieces) /\ Len(m) = 3 /\ m[1] = ":" /\ m[2] = "/" /\ m[3] = "/"
  BY <1>3, <1>5
<1>7. /\ b \in Seq(Pieces)
      /\ Len(b) = 4 /\ b[1] = x /\ b[1 + 1] = ":" /\ b[1 + 2] = "/" /\ b[1 + 3] = "/"
  BY <1>2, <1>5
<1>8. Len(p) = 1 /\ p[1] = x /\ p \in Seq(Pieces)
  BY <1>4
<1>9. IsJoin(p, m, b)
  BY <1>6, <1>7, <1>8 DEF IsJoin
<1>10. p \o m = b
  BY <1>6, <1>7, <1>8, <1>9, JoinOnly
<1> QED BY <1>1, <1>2, <1>3, <1>4, <1>10 DEF Begin, Protocol

\* Texts and objects are made of their parts.
LEMMA TextOf ==
  ASSUME NEW B, NEW P, NEW text,
         text \in {b \o OrNone(h) \o n \o OrNone(x) : b \in B, h \in Hosts, n \in P, x \in Paths}
  PROVE  \E b \in B, h \in Hosts, n \in P, x \in Paths :
           text = ((b \o OrNone(h)) \o n) \o OrNone(x)
OBVIOUS

\* So is a text of this module.
LEMMA TextParts ==
  ASSUME NEW text \in Texts
  PROVE  \E b \in Begins, h \in Hosts, n \in Numbered, x \in Paths :
           text = ((b \o OrNone(h)) \o n) \o OrNone(x)
BY TextOf DEF Texts

\* The same of objects.
LEMMA ObjectOf ==
  ASSUME NEW P, NEW N, NEW X, NEW o,
         o \in {[protocol |-> p, hostname |-> h, port |-> n, pathname |-> x] :
                  p \in P, h \in Hosts, n \in N, x \in X}
  PROVE  \E p \in P, h \in Hosts, n \in N, x \in X :
           o = [protocol |-> p, hostname |-> h, port |-> n, pathname |-> x]
OBVIOUS

\* The texts the constructor is given are read as URLs.
LEMMA TextsRead ==
  ASSUME NEW text \in Texts
  PROVE  url_parse(text) \in Urls
<1>0. PICK b \in Begins, h \in Hosts, port \in Numbered, x \in Paths :
        text = ((b \o OrNone(h)) \o port) \o OrNone(x)
  BY TextParts
<1>1. /\ b = <<>> \/ \E p \in Protocols : b = <<p, ":", "/", "/">>
      /\ port = <<>> \/ port = <<":">> \/ \E n \in Ports : port = <<":", n>>
  BY <1>0, ZenonT(60) DEF Begins, Numbered
<1>2. PICK protocol \in Protocol : b = Begin(protocol)
  <2>1. CASE b = <<>>
    BY <2>1 DEF Begin, Protocol
  <2>2. ASSUME NEW p \in Protocols, b = <<p, ":", "/", "/">>
        PROVE  b = Begin(<<p>>) /\ <<p>> \in Protocol
    <3>1. p \in Pieces
      BY DEF Pieces
    <3> QED BY <2>2, <3>1, BeginIs
  <2> QED BY <1>1, <2>1, <2>2
<1>3. PICK host \in HostTexts : host = OrNone(h)
  <2>1. CASE h = NULL
    BY <2>1, NullIsNone DEF HostTexts
  <2>2. CASE h = <<"h">>
    <3>1. "h" \in HostPieces /\ "h" \in Pieces
      BY DEF HostPieces, Pieces
    <3>2. h # NULL
      BY <2>2, <3>1, Written, NullIsNone
    <3> QED BY <2>2, <3>1, <3>2 DEF HostTexts, OrNone
  <2> QED BY <2>1, <2>2 DEF Hosts
<1>4. port \in PortTexts
  <2>1. Ports \subseteq Digits
    BY PortsAssumption, PortsAre
  <2> QED BY <1>1, <2>1 DEF PortTexts
<1>5. PICK path \in CleanText : path = OrNone(x) /\ IsBehind(path) /\ NoMarkBehind(port, path)
  <2>1. CASE x = NULL
    <3>1. PICK path \in CleanText : path = <<>>
      BY Written
    <3>2. OrNone(x) = path
      BY <2>1, <3>1, NullIsNone
    <3>3. path \in Text /\ Len(path) = 0
      BY <3>1 DEF CleanText
    <3>4. IsBehind(path)
      BY <3>1, <3>3 DEF IsBehind
    <3>5. NoMarkBehind(port, path)
      BY <3>3 DEF NoMarkBehind, IsMark
    <3> QED BY <3>2, <3>4, <3>5
  <2>2. CASE x # NULL
    <3>1. x \in CleanText /\ x # <<>> /\ x[1] = "/" /\ (Len(x) > 1 => x[2] # "/")
      BY <2>2, PathsClean
    <3>2. OrNone(x) = x /\ x \in Text
      BY <2>2, <3>1 DEF OrNone, CleanText
    <3>3. IsBehind(x)
      BY <3>1, <3>2 DEF IsBehind
    <3>4. NoMarkBehind(port, x)
      BY <2>2, <3>1, PathsPlain DEF NoMarkBehind
    <3> QED BY <3>1, <3>2, <3>3, <3>4
  <2> QED BY <2>1, <2>2
<1>6. url_parse(text) = URL(protocol, IfAny(host), PortSaid(protocol, port), IfAny(path))
  <2>1. text = ((Begin(protocol) \o host) \o port) \o path
    BY <1>0, <1>2, <1>3, <1>5
  <2> QED BY <1>4, <1>5, <2>1, ParseParts
<1> QED BY <1>4, <1>6, PartsAreUrl

\* Names of protocols are one piece.
LEMMA ProtocolName ==
  ASSUME NEW text
  PROVE  protocol_string(protocol_number(text)) \in Protocol
<1>1. protocol_number(text) \in protocol_names
  BY DEF protocol_number, protocol_names
<1>2. protocol_number(text) \in Pieces
  BY <1>1 DEF Pieces
<1> QED BY <1>2 DEF protocol_string, Protocol

\* The objects URL.from() is given are URLs.
LEMMA ObjectsRead ==
  ASSUME NEW o \in Objects
  PROVE  url_fromobj(o) \in Urls
<1>0. PICK p \in {NULL} \cup {<<t>> : t \in Protocols}, h \in Hosts,
           n \in {-1} \cup {Numbers[t] : t \in Ports}, x \in {NULL, <<"/", "p">>} :
             o = [protocol |-> p, hostname |-> h, port |-> n, pathname |-> x]
  BY ObjectOf DEF Objects
<1>1. n = -1 \/ \E t \in Ports : n = Numbers[t]
  BY ZenonT(60)
<1>2. (IF p = NULL THEN NULL
        ELSE protocol_string(IF p = NULL THEN "none" ELSE protocol_number(p))) \in Protocol
  BY ProtocolName DEF Protocol
<1>3. (IF h \in {NULL, <<>>} THEN <<"0.0.0.0">> ELSE h) \in Host
  <2>1. "0.0.0.0" \in HostPieces /\ "h" \in HostPieces
    BY DEF HostPieces
  <2> QED BY <2>1 DEF Host, Hosts
<1>4. n \in Port
  <2>1. Ports \subseteq Digits
    BY PortsAssumption, PortsAre
  <2> QED BY <1>1, <2>1, PortsAre
<1>5. ASSUME NEW q
      PROVE  (IF URL_IS_VALID_PORT(n) THEN n ELSE protocol_default_port(q)) \in Port
  BY <1>4, PortsAre
<1>6. OrNone(x) \in Path
  <2>1. CASE x = NULL
    BY <2>1, NullIsNone, Written DEF Path
  <2>2. CASE x # NULL
    <3>1. x \in Paths \ {NULL}
      BY <2>2 DEF Paths
    <3>2. x \in CleanText
      BY <3>1, PathsClean
    <3> QED BY <2>2, <3>2 DEF OrNone, Path
  <2> QED BY <2>1, <2>2
<1>7. o.protocol = p /\ o.hostname = h /\ o.port = n /\ o.pathname = x
  BY <1>0
<1>8. url_fromobj(o) = url_init(p, h, n, x)
  BY <1>7 DEF url_fromobj
<1> QED BY <1>2, <1>3, <1>5, <1>6, <1>8 DEF url_init, URL, Urls

\* At the beginning there is one.
LEMMA InitUrl ==
  ASSUME Init
  PROVE  url \in Urls
<1>1. (\E text \in Texts : url = url_parse(text)) \/ (\E o \in Objects : url = url_fromobj(o))
  BY DEF Init, url_fromvalue
<1> QED BY <1>1, TextsRead, ObjectsRead
-----------------------------------------------------------------------------
(* An object of entries is written as a query, and read back.              *)

IsFlattened(s, t) ==
  /\ Len(s) = 1 => t = s[1]
  /\ Len(s) = 2 => t = s[1] \o s[2]

\* One text or two.
LEMMA FlattenTwo ==
  ASSUME NEW s, Len(s) \in {1, 2}
  PROVE  IsFlattened(s, FlattenSeq(s))
<1>0. PICK n \in {1, 2} : n = Len(s)
  OBVIOUS
<1> DEFINE Joined(h) == h = [i \in 1 .. n |-> IF i = 1 THEN s[i] ELSE h[i - 1] \o s[i]]
           flatten == CHOOSE h : Joined(h)
<1>1. FlattenSeq(s) = flatten[n]
  BY <1>0, SMTT(60) DEF FlattenSeq
<1>2. \E h : Joined(h)
  <2>1. PICK two : two = s[1] \o s[2]
    OBVIOUS
  <2> DEFINE h == [i \in 1 .. n |-> IF i = 1 THEN s[1] ELSE two]
  <2>2. \A i \in 1 .. n : /\ i = 1 \/ (i = 2 /\ n = 2)
                          /\ h[i] = IF i = 1 THEN s[1] ELSE two
    OBVIOUS
  <2>3. \A i \in 1 .. n : h[i] = IF i = 1 THEN s[i] ELSE h[i - 1] \o s[i]
    <3>1. h[1] = s[1]
      OBVIOUS
    <3> HIDE DEF h
    <3> SUFFICES ASSUME NEW i \in 1 .. n PROVE h[i] = IF i = 1 THEN s[i] ELSE h[i - 1] \o s[i]
      OBVIOUS
    <3>2. CASE i = 1
      BY <2>2, <3>2
    <3>3. CASE i # 1
      <4>1. i = 2 /\ i - 1 = 1 /\ h[i] = two
        BY <2>2, <3>3
      <4> QED BY <2>1, <3>1, <4>1
    <3> QED BY <3>2, <3>3
  <2>4. h = [i \in 1 .. n |-> h[i]]
    OBVIOUS
  <2> HIDE DEF h
  <2>5. Joined(h)
    BY <2>3, <2>4
  <2> QED BY <2>5
<1>3. Joined(flatten)
  <2> HIDE DEF Joined
  <2> QED BY <1>2
<1> HIDE DEF flatten
<1>4. flatten[1] = s[1]
  BY <1>3
<1>5. n = 2 => flatten[2] = s[1] \o s[2]
  <2>1. n = 2 => 2 \in 1 .. n
    OBVIOUS
  <2>2. 2 # 1 /\ 2 - 1 = 1
    OBVIOUS
  <2>3. 2 \in 1 .. n => flatten[2] = IF 2 = 1 THEN s[2] ELSE flatten[2 - 1] \o s[2]
    BY <1>3, Zenon
  <2> QED BY <1>4, <2>1, <2>2, <2>3, Zenon
<1> QED BY <1>0, <1>1, <1>4, <1>5 DEF IsFlattened

\* A query of one entry.
IsEntry(q, k, v) ==
  /\ q \in Seq(Pieces) /\ Len(q) = 3
  /\ q[1] = k /\ q[2] = "=" /\ q[3] = v

\* The entry is read back.
LEMMA EntryRead ==
  ASSUME NEW q, NEW k \in Pieces, NEW v \in Pieces, IsEntry(q, k, v), k # "=", k # "&", v # "&"
  PROVE  query_object_len(q) = <<[key |-> <<k>>, value |-> <<lws_urldecode(v)>>]>>
<1>0. /\ q \in Seq(Pieces) /\ q \in Text /\ Len(q) = 3
      /\ q[1] = k /\ q[2] = "=" /\ q[3] = v
  BY DEF IsEntry, Text
<1>1. Before(q, {"&"}) = Len(q)
  <2>1. \A i \in 1 .. 3 : q[i] \notin {"&"}
    BY <1>0
  <2>2. IsBefore(q, {"&"}, 3)
    BY <1>0, <2>1 DEF IsBefore
  <2> QED BY <1>0, <2>2, BeforeOnly
<1>2. Before(q, {"="}) = 1
  <2>1. IsBefore(q, {"="}, 1)
    BY <1>0 DEF IsBefore
  <2> QED BY <1>0, <2>1, BeforeOnly
<1>3. From(q, 0) = q
  <2>1. IsRest(q, 0, q)
    BY <1>0 DEF IsRest
  <2>2. 0 \in 0 .. Len(q)
    BY <1>0
  <2> QED BY <1>0, <2>1, <2>2, RestOnly
<1>4. SubSeq(q, 1, Before(q, {"&"})) = q
  BY <1>0, <1>1, StartOfPlain DEF Start
<1>5. query_entry(q) = <<[key |-> <<k>>, value |-> <<lws_urldecode(v)>>]>>
  <2>1. PICK a : a = <<k>>
    OBVIOUS
  <2>2. PICK b : b = <<v>>
    OBVIOUS
  <2>3. a \in Seq(Pieces) /\ Len(a) = 1 /\ a[1] = k
    BY <2>1
  <2>4. b \in Seq(Pieces) /\ Len(b) = 1 /\ b[1] = v
    BY <2>2
  <2>5. 1 \in 0 .. Len(q) /\ 2 \in 0 .. Len(q)
    BY <1>0
  <2>6. SubSeq(q, 1, 1) = a
    <3>1. IsStart(q, 1, a)
      BY <1>0, <2>3 DEF IsStart
    <3> QED BY <1>0, <2>3, <2>5, <3>1, StartOnly
  <2>7. From(q, 2) = b
    <3>1. IsRest(q, 2, b)
      BY <1>0, <2>4 DEF IsRest
    <3> QED BY <1>0, <2>4, <2>5, <3>1, RestOnly
  <2>8. [i \in DOMAIN b |-> lws_urldecode(b[i])] = <<lws_urldecode(v)>>
    <3>1. \A x : [i \in DOMAIN <<v>> |-> x] = <<x>>
      OBVIOUS
    <3>2. [i \in DOMAIN b |-> lws_urldecode(b[i])] = [i \in DOMAIN <<v>> |-> lws_urldecode(v)]
      BY <2>2
    <3> QED BY <3>1, <3>2
  <2>9. query_entry(q) =
          IF 1 = Len(q) THEN <<>>
          ELSE <<[key |-> SubSeq(q, 1, 1),
                  value |-> [i \in DOMAIN From(q, 1 + 1) |-> lws_urldecode(From(q, 1 + 1)[i])]]>>
    BY <1>2, Zenon DEF query_entry
  <2> QED BY <1>0, <2>1, <2>6, <2>7, <2>8, <2>9
<1>6. {0} \cup {i \in DOMAIN q : q[i] = "&"} = {0}
  BY <1>0
<1>7. Cardinality({0}) = 1
  BY FS_Singleton
<1> DEFINE starts == {0} \cup {i \in DOMAIN q : q[i] = "&"}
           part(x) == SubSeq(From(q, x), 1, Before(From(q, x), {"&"}))
           any == CHOOSE f \in [1 .. Cardinality(starts) -> starts] :
                    \A i, j \in DOMAIN f : i < j => f[i] < f[j]
           at == CHOOSE f \in [1 .. 1 -> {0}] : \A i, j \in DOMAIN f : i < j => f[i] < f[j]
<1>8. at \in [1 .. 1 -> {0}]
  <2>1. \E f \in [1 .. 1 -> {0}] : \A i, j \in DOMAIN f : i < j => f[i] < f[j]
    <3> DEFINE f == [i \in 1 .. 1 |-> 0]
    <3>1. f \in [1 .. 1 -> {0}] /\ \A i, j \in DOMAIN f : ~(i < j)
      OBVIOUS
    <3> QED BY <3>1
  <2> QED BY <2>1
<1>9. query_object_len(q) = FlattenSeq([i \in DOMAIN at |-> query_entry(part(at[i]))])
  <2>1. query_object_len(q) = FlattenSeq([i \in DOMAIN any |-> query_entry(part(any[i]))])
    BY Zenon DEF query_object_len
  <2>2. any = at
    BY <1>6, <1>7
  <2> HIDE DEF any, at, part
  <2> QED BY <2>1, <2>2
<1>10. part(0) = q
  BY <1>3, <1>4
<1> HIDE DEF at, part
<1>11. PICK r : r = [i \in DOMAIN at |-> query_entry(part(at[i]))]
  OBVIOUS
<1>12. Len(r) = 1 /\ r[1] = query_entry(q)
  <2>1. DOMAIN at = 1 .. 1 /\ at[1] = 0
    BY <1>8
  <2>2. r = [i \in 1 .. 1 |-> query_entry(part(at[i]))]
    BY <1>11, <2>1
  <2> QED BY <1>10, <2>1, <2>2
<1>13. FlattenSeq(r) = query_entry(q)
  <2>1. Len(r) \in {1, 2}
    BY <1>12
  <2>2. IsFlattened(r, FlattenSeq(r))
    BY <2>1, FlattenTwo
  <2> QED BY <1>12, <2>2 DEF IsFlattened
<1> QED BY <1>5, <1>9, <1>11, <1>13

\* Entries that are there are one or two.
OneEntry(entries) ==
  \E v \in Values : entries = <<[key |-> "k", value |-> v]>>
TwoEntries(entries) ==
  entries = <<[key |-> "k", value |-> "v"], [key |-> "a", value |-> "b"]>>

\* What entries are written to is a query that is there, and one is read back.
EntriesRead(entries, q) ==
  /\ q \in CleanText /\ q # <<>>
  /\ Len(entries) = 1 =>
       query_object_len(q) = <<[key |-> <<entries[1].key>>, value |-> <<entries[1].value>>]>>

\* One entry.
LEMMA OneWritten ==
  ASSUME NEW k \in {"k", "a"}, NEW v \in {"v", "b", "%26"}
  PROVE  /\ IsEntry(<<k, "=", v>>, k, v) /\ k \in Pieces /\ v \in Pieces
         /\ <<k, "=", v>> \in CleanText /\ <<k, "=", v>> # <<>>
<1>1. k \in Pieces /\ v \in Pieces /\ "=" \in Pieces
  BY DEF Pieces, Marks
<1>2. PICK q : q = <<k, "=", v>>
  OBVIOUS
<1>3. q \in Seq(Pieces) /\ Len(q) = 3 /\ q[1] = k /\ q[2] = "=" /\ q[3] = v
  BY <1>1, <1>2
<1>4. q \in CleanText
  <2>1. q[Len(q)] # "?"
    BY <1>3
  <2>2. q \in Text
    BY <1>3 DEF Text
  <2> QED BY <2>1, <2>2 DEF CleanText
<1>5. q # <<>>
  <2>1. q = <<>> => Len(q) = 0
    OBVIOUS
  <2>2. Len(q) # 0
    BY <1>3
  <2> QED BY <2>1, <2>2
<1> QED BY <1>1, <1>2, <1>3, <1>4, <1>5 DEF IsEntry

\* The values of entries are encoded and decoded.
LEMMA ValuesEncoded ==
  /\ \A v \in Values : /\ lws_urlencode(v) \in {"v", "b", "%26"}
                       /\ lws_urlencode(v) # "&"
                       /\ lws_urldecode(lws_urlencode(v)) = v
  /\ lws_urlencode("v") = "v" /\ lws_urlencode("b") = "b"
BY DEF Values, lws_urlencode, lws_urldecode

\* The entries of this module.
LEMMA EntriesWritten ==
  ASSUME NEW entries \in Entries, entries # <<>>
  PROVE  query_from(entries) # NULL /\ EntriesRead(entries, query_from(entries))
<1>1. OneEntry(entries) \/ TwoEntries(entries)
  BY DEF Entries, OneEntry, TwoEntries
<1> DEFINE piece(i) == <<entries[i].key, "=", lws_urlencode(entries[i].value)>>
<1>2. PICK s : s = [i \in DOMAIN entries |-> piece(i)]
  OBVIOUS
<1>3. query_from(entries) = FlattenSeq(s)
  BY <1>2 DEF query_from
<1>4. EntriesRead(entries, FlattenSeq(s))
  <2>1. CASE OneEntry(entries)
    <3>1. PICK v \in Values : entries = <<[key |-> "k", value |-> v]>>
      BY <2>1 DEF OneEntry
    <3>2. Len(entries) = 1 /\ DOMAIN entries = 1 .. 1 /\ entries[1].key = "k" /\ entries[1].value = v
      BY <3>1
    <3>3. Len(s) = 1 /\ s[1] = piece(1)
      <4>1. s = [i \in 1 .. 1 |-> piece(i)]
        BY <1>2, <3>2
      <4> HIDE DEF piece
      <4> QED BY <4>1
    <3>4. PICK w : w = lws_urlencode(v) /\ w \in {"v", "b", "%26"} /\ w # "&" /\ lws_urldecode(w) = v
      BY ValuesEncoded
    <3>5. FlattenSeq(s) = <<"k", "=", w>>
      <4>1. Len(s) \in {1, 2}
        BY <3>3
      <4>2. IsFlattened(s, FlattenSeq(s))
        BY <4>1, FlattenTwo
      <4>3. FlattenSeq(s) = s[1]
        BY <3>3, <4>2 DEF IsFlattened
      <4> QED BY <3>2, <3>3, <3>4, <4>3
    <3>6. PICK q : q = <<"k", "=", w>>
      OBVIOUS
    <3>7. IsEntry(q, "k", w) /\ "k" \in Pieces /\ w \in Pieces /\ q \in CleanText /\ q # <<>>
      BY <3>4, <3>6, OneWritten
    <3>8. query_object_len(q) = <<[key |-> <<"k">>, value |-> <<v>>]>>
      BY <3>4, <3>7, EntryRead
    <3> QED BY <3>2, <3>5, <3>6, <3>7, <3>8 DEF EntriesRead
  <2>2. CASE TwoEntries(entries)
    <3>1. /\ Len(entries) = 2 /\ DOMAIN entries = 1 .. 2
          /\ entries[1].key = "k" /\ entries[1].value = "v"
          /\ entries[2].key = "a" /\ entries[2].value = "b"
      BY <2>2 DEF TwoEntries
    <3>2. Len(s) = 2 /\ s[1] = piece(1) /\ s[2] = piece(2)
      <4>1. s = [i \in 1 .. 2 |-> piece(i)]
        BY <1>2, <3>1
      <4> HIDE DEF piece
      <4> QED BY <4>1
    <3>3. PICK p : p = <<"k", "=", "v">>
      OBVIOUS
    <3>4. PICK r : r = <<"a", "=", "b">>
      OBVIOUS
    <3>5. p \in CleanText /\ p # <<>> /\ r \in CleanText /\ r # <<>>
      BY <3>3, <3>4, OneWritten
    <3>6. s[1] = p /\ s[2] = r
      BY <3>1, <3>2, <3>3, <3>4, ValuesEncoded
    <3>7. FlattenSeq(s) = p \o r
      <4>1. Len(s) \in {1, 2}
        BY <3>2
      <4>2. IsFlattened(s, FlattenSeq(s))
        BY <4>1, FlattenTwo
      <4>3. FlattenSeq(s) = s[1] \o s[2]
        BY <3>2, <4>2 DEF IsFlattened
      <4> QED BY <3>6, <4>3
    <3>8. p \o r \in CleanText
      BY <3>5, CleanJoin DEF CleanText
    <3>9. p \o r # <<>>
      <4>1. p \in Seq(Pieces) /\ r \in Seq(Pieces)
        BY <3>5 DEF CleanText, Text
      <4>2. Len(p) > 0 /\ Len(p \o r) >= Len(p)
        BY <3>5, <4>1
      <4> QED BY <4>2
    <3> QED BY <3>1, <3>7, <3>8, <3>9 DEF EntriesRead
  <2> QED BY <1>1, <2>1, <2>2
<1>5. FlattenSeq(s) # NULL
  BY <1>4, NullIsNone DEF EntriesRead, CleanText
<1> QED BY <1>3, <1>4, <1>5

-----------------------------------------------------------------------------
(* The URL stays one.                                                      *)

\* Ports that are given are ports.
LEMMA PortsGiven ==
  ASSUME NEW n \in {-1} \cup {Numbers[t] : t \in Ports}
  PROVE  n \in Port
<1>1. n = -1 \/ \E t \in Ports : n = Numbers[t]
  BY ZenonT(60)
<1>2. Ports \subseteq Digits
  BY PortsAssumption, PortsAre
<1> QED BY <1>1, <1>2, PortsAre

\* The parts of a URL are set to what they may be.
LEMMA PartSet ==
  ASSUME NEW u \in Urls
  PROVE  /\ \A x \in Protocol : [u EXCEPT !.protocol = x] \in Urls
         /\ \A x \in Host : [u EXCEPT !.host = x] \in Urls
         /\ \A x \in Port : [u EXCEPT !.port = x] \in Urls
BY DEF Urls

\* What an action does to the URL.
UrlStays ==
  (url \in Urls) /\ [Next]_vars => url' \in Urls

\* Each call leaves a URL.
LEMMA UrlNext == UrlStays
<1> SUFFICES ASSUME url \in Urls, [Next]_vars PROVE url' \in Urls
  BY DEF UrlStays
<1>1. ASSUME NEW text \in {NULL} \cup {<<p>> : p \in Protocols}, SetProtocol(text)
      PROVE  url' \in Urls
  <2>1. CASE text = NULL
    <3>1. NULL \in Protocol
      BY DEF Protocol
    <3>2. url' = [url EXCEPT !.protocol = NULL]
      BY <1>1, <2>1 DEF SetProtocol
    <3> QED BY <3>1, <3>2, PartSet
  <2>2. CASE text # NULL
    <3>1. url' = [url EXCEPT !.protocol = protocol_string(protocol_number(text))]
      BY <1>1, <2>2 DEF SetProtocol, url_set_protocol
    <3> QED BY <3>1, PartSet, ProtocolName
  <2> QED BY <2>1, <2>2
<1>2. ASSUME SetHostname(<<"g">>) PROVE url' \in Urls
  <2>1. <<"g">> \in Host
    BY DEF Host, HostPieces
  <2>2. url' = [url EXCEPT !.host = <<"g">>]
    BY <1>2 DEF SetHostname
  <2> QED BY <2>1, <2>2, PartSet
<1>3. ASSUME NEW n \in {-1} \cup {Numbers[t] : t \in Ports}, SetPort(n) PROVE url' \in Urls
  <2>1. n \in Port /\ -1 \in Port
    BY PortsGiven, PortsAre
  <2>2. url' = [url EXCEPT !.port = IF URL_IS_VALID_PORT(n) THEN n ELSE -1]
    BY <1>3 DEF SetPort
  <2> QED BY <2>1, <2>2, PartSet
<1>4. ASSUME NEW path \in Paths \ {NULL}, SetPathname(path) PROVE url' \in Urls
  <2>1. path \in CleanText
    BY PathsClean
  <2>2. url_set_path_len(url, path) \in Urls
    BY <2>1, SetPath DEF PathWas
  <2> QED BY <1>4, <2>2 DEF SetPathname
<1>5. ASSUME NEW text \in Queries, SetQuery(text) PROVE url' \in Urls
  <2>1. text \in CleanText /\ text # <<>>
    BY QueriesClean
  <2>2. url_set_query_len(url, text) \in Urls
    BY <2>1, SetQueryIs DEF QueryWas
  <2> QED BY <1>5, <2>2 DEF SetQuery
<1>6. ASSUME NEW entries \in Entries, SetQueryObject(entries) PROVE url' \in Urls
  <2>1. url' = IF query_from(entries) = NULL THEN url ELSE url_set_query_len(url, query_from(entries))
    BY <1>6 DEF SetQueryObject
  <2>2. CASE entries = <<>>
    BY <2>1, <2>2 DEF query_from
  <2>3. CASE entries # <<>>
    <3>1. query_from(entries) \in CleanText /\ query_from(entries) # <<>>
      BY <2>3, EntriesWritten DEF EntriesRead
    <3>2. url_set_query_len(url, query_from(entries)) \in Urls
      BY <3>1, SetQueryIs DEF QueryWas
    <3> QED BY <2>1, <3>2
  <2> QED BY <2>2, <2>3
<1>7. ASSUME SetQueryNull PROVE url' \in Urls
  <2>1. died' = (url.path = NULL)
    BY <1>7 DEF SetQueryNull
  <2>2. url' = IF died' THEN url ELSE [url EXCEPT !.path = SubSeq(@, 1, Before(@, {"?"}))]
    BY <1>7 DEF SetQueryNull
  <2>3. CASE url.path # NULL
    <3>1. PICK path : path = SubSeq(url.path, 1, Before(url.path, {"?"}))
      OBVIOUS
    <3>2. url.path \in Text
      BY <2>3 DEF Urls, Path, CleanText
    <3>3. path \in Path
      BY <3>1, <3>2, CleanStart DEF Path
    <3>4. url' = [url EXCEPT !.path = path]
      BY <2>1, <2>2, <2>3, <3>1
    <3> QED BY <3>3, <3>4, UrlWith
  <2> QED BY <2>1, <2>2, <2>3
<1>8. minnet_url_set => url' \in Urls
  BY <1>1, <1>2, <1>3, <1>4, <1>5, <1>6, <1>7 DEF minnet_url_set
<1>9. CASE GetQuery
  BY <1>9 DEF GetQuery
<1>10. ASSUME NEW kind \in {"string", "object"}, NEW method \in Methods, minnet_client(kind, method)
       PROVE  url' \in Urls
  BY <1>10 DEF minnet_client
<1>11. ASSUME NEW named \in BOOLEAN, Serve(named) PROVE url' \in Urls
  BY <1>11 DEF Serve
<1>12. CASE UNCHANGED vars
  BY <1>12 DEF vars
<1> QED BY <1>8, <1>9, <1>10, <1>11, <1>12 DEF Next

\* For any protocols, ports and methods and any number of calls, the URL is one
\* (url_parse, url_init, url_set_path_len, url_set_query_len).
THEOREM UrlIsUrl == Spec => [](url \in Urls)
<1>1. Init => url \in Urls
  BY InitUrl
<1>2. (url \in Urls) /\ [Next]_vars => (url \in Urls)'
  BY UrlNext DEF UrlStays
<1> QED BY <1>1, <1>2, PTL DEF Spec

\* Whatever a script set, and in whatever order, the text of a URL says all of its
\* parts (url_format, url_print, url_parse).
THEOREM TextsSayAll == Spec => []TextSaysAll
<1>1. (url \in Urls) => TextSaysAll
  BY SaysAll
<1> QED BY <1>1, UrlIsUrl, PTL

-----------------------------------------------------------------------------
(* A part is set alone.                                                    *)

\* What PartWasSet says of a call op with value that left v of u.
PartTold(u, v, op, value, dead) ==
  /\ op \in {"pathname", "query", "entries", "noquery"} =>
       /\ [v EXCEPT !.path = NULL] = [u EXCEPT !.path = NULL]
       /\ v.path # NULL =>
            url_hash(v) =
              HashOf(BeforeQuery(IF op = "pathname" THEN value ELSE OrNone(u.path)), url_query(v))
  /\ op = "pathname" /\ ~dead =>
       /\ pathname(v) = pathname([u EXCEPT !.path = value])
       /\ url_query(v) = IF Contains(value, "?") THEN url_query([u EXCEPT !.path = value])
                         ELSE url_query(u)
  /\ op \in {"query", "entries", "noquery"} => pathname(v) = pathname(u)
  /\ op = "query" => url_query(v) = value
  /\ op = "noquery" => url_query(v) = NULL
  /\ op = "entries" /\ Len(value) = 1 =>
       query_object_len(url_query(v)) = <<[key |-> <<value[1].key>>, value |-> <<value[1].value>>]>>

\* The path's part is its start.
LEMMA PathnameIs ==
  \A u : pathname(u) = Start(OrNone(u.path), Ends)
BY DEF pathname, Start, Ends

\* Two URLs that differ in their path.
LEMMA ButPath ==
  ASSUME NEW u \in Urls, NEW v, v = [u EXCEPT !.path = v.path]
  PROVE  [v EXCEPT !.path = NULL] = [u EXCEPT !.path = NULL]
BY DEF Urls

\* What stands before the query and the query say what the hash is.
LEMMA HashIs ==
  ASSUME NEW u \in Urls, u.path # NULL
  PROVE  url_hash(u) = HashOf(Start(u.path, {"?"}), url_query(u))
<1>1. PICK path \in Text : path = u.path
  BY DEF Urls, Path, CleanText
<1>2. PICK a \in Text, t \in Text : IsCut(path, {"?"}, a, t)
  BY Cut
<1>3. a = Start(path, {"?"}) /\ path = a \o t
  BY <1>2 DEF IsCut
<1>4. url_query(u) = IF t = <<>> THEN NULL ELSE Tail(t)
  BY <1>1, <1>2, QueryIs
<1>5. start_from(path, "#") =
        IF Contains(a, "#") THEN start_from(a, "#") \o t ELSE start_from(t, "#")
  BY <1>3, HashOfTwo
<1>6. CASE t = <<>>
  <2>1. url_query(u) = NULL /\ OrNone(url_query(u)) = <<>>
    BY <1>4, <1>6, NullIsNone
  <2> QED BY <1>1, <1>3, <1>5, <1>6, <2>1 DEF HashOf, url_hash
<1>7. CASE t # <<>>
  <2>1. PICK q \in Text : t = Ask(q)
    <3>1. path \in CleanText
      BY <1>1 DEF Urls, Path
    <3>2. \E q \in CleanText \ {<<>>} : t = Ask(q)
      BY <1>2, <1>7, <3>1, QueryPart
    <3> QED BY <3>2 DEF CleanText
  <2>2. url_query(u) = q /\ q # NULL /\ OrNone(q) = q
    BY <1>4, <1>7, <2>1, AskIs, NullIsNone
  <2>3. start_from(t, "#") = start_from(q, "#")
    <3>1. PICK m \in Text : m = <<"?">>
      BY Written DEF Pieces, Marks
    <3>2. ~Contains(m, "#")
      BY <3>1 DEF Contains
    <3>3. start_from(m \o q, "#") = start_from(q, "#")
      BY <3>2, HashOfTwo
    <3> QED BY <2>1, <3>1, <3>3 DEF Ask
  <2> QED BY <1>1, <1>3, <1>5, <2>1, <2>2, <2>3 DEF HashOf, url_hash, Ask
<1> QED BY <1>6, <1>7

\* What comes before the query.
LEMMA BeforeQueryIs == \A path : BeforeQuery(path) = Start(path, {"?"})
BY DEF BeforeQuery, Start

\* To set the path.
LEMMA PathTold ==
  ASSUME NEW u \in Urls, NEW path \in CleanText, NEW v, PathWas(u, path, v), NEW dead
  PROVE  PartTold(u, v, "pathname", path, dead)
<1>1. v.path # NULL /\ OrNone(v.path) = v.path
  BY DEF PathWas, OrNone
<1>2. path # NULL /\ OrNone(path) = path
  BY NullIsNone DEF CleanText
<1>3. [u EXCEPT !.path = path].path = path
  BY UrlWith DEF Path
<1>4. pathname(v) = pathname([u EXCEPT !.path = path])
  BY <1>1, <1>2, <1>3, PathnameIs DEF PathWas
<1>5. [v EXCEPT !.path = NULL] = [u EXCEPT !.path = NULL]
  BY ButPath DEF PathWas
<1>6. url_query(v) = IF Contains(path, "?") THEN url_query([u EXCEPT !.path = path])
                     ELSE url_query(u)
  BY DEF PathWas
<1>7. url_hash(v) = HashOf(BeforeQuery(path), url_query(v))
  BY HashIs, BeforeQueryIs DEF PathWas
<1> QED BY <1>4, <1>5, <1>6, <1>7 DEF PartTold

\* What setting a query leaves alone.
LEMMA QueryTold ==
  ASSUME NEW u \in Urls, NEW q, NEW v, QueryWas(u, q, v)
  PROVE  /\ [v EXCEPT !.path = NULL] = [u EXCEPT !.path = NULL]
         /\ pathname(v) = pathname(u) /\ url_query(v) = q
         /\ url_hash(v) = HashOf(BeforeQuery(OrNone(u.path)), url_query(v))
<1>1. OrNone(v.path) = v.path
  BY DEF QueryWas, OrNone
<1>2. pathname(v) = pathname(u)
  BY <1>1, PathnameIs DEF QueryWas
<1>3. [v EXCEPT !.path = NULL] = [u EXCEPT !.path = NULL]
  BY ButPath DEF QueryWas
<1>4. url_hash(v) = HashOf(BeforeQuery(OrNone(u.path)), url_query(v))
  BY HashIs, BeforeQueryIs DEF QueryWas
<1> QED BY <1>2, <1>3, <1>4 DEF QueryWas

\* A URL that stays as it is.
LEMMA SameTold ==
  ASSUME NEW u \in Urls, u.path # NULL
  PROVE  url_hash(u) = HashOf(BeforeQuery(OrNone(u.path)), url_query(u))
<1>1. OrNone(u.path) = u.path
  BY DEF OrNone
<1> QED BY <1>1, HashIs, BeforeQueryIs

\* To remove the query.
LEMMA NoQueryTold ==
  ASSUME NEW u \in Urls, u.path # NULL, NEW v, v = [u EXCEPT !.path = Start(u.path, {"?"})]
  PROVE  /\ [v EXCEPT !.path = NULL] = [u EXCEPT !.path = NULL]
         /\ pathname(v) = pathname(u) /\ url_query(v) = NULL
         /\ url_hash(v) = HashOf(BeforeQuery(OrNone(u.path)), url_query(v))
<1>1. PICK path \in Text : path = u.path /\ path \in CleanText
  BY DEF Urls, Path, CleanText
<1>2. PICK a \in Text, t \in Text : IsCut(path, {"?"}, a, t)
  BY Cut
<1>3. /\ a = Start(path, {"?"}) /\ path = a \o t /\ Before(a, {"?"}) = Len(a)
      /\ t = <<>> \/ t[1] = "?"
  BY <1>2 DEF IsCut
<1>4. a # NULL /\ OrNone(a) = a /\ OrNone(path) = path
  BY NullIsNone
<1>5. a \in CleanText
  <2>1. a = SubSeq(path, 1, Before(path, {"?"}))
    BY <1>3 DEF Start
  <2>2. Before(path, {"?"}) \in 0 .. Len(path)
    BY BeforeIs DEF Text, IsBefore
  <2>3. a # <<>> => a[Len(a)] # "?"
    <3>1. IsBefore(a, {"?"}, Len(a)) /\ Len(a) \in Nat
      BY <1>3, BeforeIs DEF Text
    <3>2. a # <<>> => Len(a) \in 1 .. Len(a)
      BY <3>1 DEF Text
    <3> QED BY <3>1, <3>2 DEF IsBefore
  <2> QED BY <2>3 DEF CleanText
<1>6. v = [u EXCEPT !.path = a] /\ v \in Urls /\ v.path = a
  BY <1>1, <1>3, <1>5, UrlWith DEF Path
<1>7. Start(a, {"?"}) = a
  BY <1>3, StartOfPlain
<1>8. url_query(v) = NULL
  <2>1. PICK b \in Text, e \in Text : IsCut(a, {"?"}, b, e)
    BY Cut
  <2>2. e = <<>>
    BY <1>3, <2>1 DEF IsCut
  <2> QED BY <1>6, <2>1, <2>2, QueryIs
<1>9. pathname(v) = pathname(u)
  <2>1. t = <<>> \/ t[1] \in Ends
    BY <1>3 DEF Ends
  <2>2. Start(a \o t, Ends) = Start(a, Ends)
    BY <2>1, StartOfJoin
  <2>3. pathname(v) = Start(a, Ends) /\ pathname(u) = Start(path, Ends)
    BY <1>1, <1>4, <1>6, PathnameIs
  <2> QED BY <1>3, <2>2, <2>3
<1>10. url_hash(v) = HashOf(a, url_query(v))
  BY <1>4, <1>6, <1>7, HashIs
<1>11. BeforeQuery(OrNone(u.path)) = a
  BY <1>1, <1>3, <1>4, BeforeQueryIs
<1>12. [v EXCEPT !.path = NULL] = [u EXCEPT !.path = NULL]
  BY <1>6, ButPath
<1> QED BY <1>8, <1>9, <1>10, <1>11, <1>12

\* A call that sets nothing of the path.
LEMMA NothingTold ==
  ASSUME NEW u, NEW v, NEW op, NEW value, NEW dead,
         op \notin {"pathname", "query", "entries", "noquery"}
  PROVE  PartTold(u, v, op, value, dead)
BY DEF PartTold

\* What is told of the last call.
Told == PartTold(url, url', last'.op, last'.value, died')

\* Each call sets its part alone.
LEMMA PartsTold ==
  ASSUME url \in Urls, Next
  PROVE  Told
<1>0. \A op, value : Setting(op, value) => last'.op = op /\ last'.value = value
  BY DEF Setting
<1>1. ASSUME NEW text, SetProtocol(text) PROVE Told
  <2>1. last'.op = "protocol"
    BY <1>0, <1>1 DEF SetProtocol
  <2> QED BY <2>1, NothingTold DEF Told
<1>2. ASSUME SetHostname(<<"g">>) PROVE Told
  <2>1. last'.op = "hostname"
    BY <1>0, <1>2 DEF SetHostname
  <2> QED BY <2>1, NothingTold DEF Told
<1>3. ASSUME NEW n, SetPort(n) PROVE Told
  <2>1. last'.op = "port"
    BY <1>0, <1>3 DEF SetPort
  <2> QED BY <2>1, NothingTold DEF Told
<1>4. ASSUME NEW path \in Paths \ {NULL}, SetPathname(path) PROVE Told
  <2>1. path \in CleanText
    BY PathsClean
  <2>2. last'.op = "pathname" /\ last'.value = path
    BY <1>0, <1>4 DEF SetPathname
  <2>3. url' = IF died' THEN url ELSE url_set_path_len(url, path)
    BY <1>4 DEF SetPathname
  <2>4. CASE died'
    <3>1. url' = url /\ url.path = NULL
      BY <1>4, <2>3, <2>4 DEF SetPathname
    <3> QED BY <2>2, <2>4, <3>1 DEF Told, PartTold
  <2>5. CASE ~died'
    <3>1. PathWas(url, path, url')
      BY <2>1, <2>3, <2>5, SetPath
    <3> QED BY <2>1, <2>2, <3>1, PathTold DEF Told
  <2> QED BY <2>4, <2>5
<1>5. ASSUME NEW text \in Queries, SetQuery(text) PROVE Told
  <2>1. text \in CleanText /\ text # <<>>
    BY QueriesClean
  <2>2. last'.op = "query" /\ last'.value = text
    BY <1>0, <1>5 DEF SetQuery
  <2>3. url' = url_set_query_len(url, text)
    BY <1>5 DEF SetQuery
  <2>4. QueryWas(url, text, url')
    BY <2>1, <2>3, SetQueryIs
  <2>5. /\ [url' EXCEPT !.path = NULL] = [url EXCEPT !.path = NULL]
        /\ pathname(url') = pathname(url) /\ url_query(url') = text
        /\ url_hash(url') = HashOf(BeforeQuery(OrNone(url.path)), url_query(url'))
    BY <2>4, QueryTold
  <2> QED BY <2>2, <2>5 DEF Told, PartTold
<1>6. ASSUME NEW entries \in Entries, SetQueryObject(entries) PROVE Told
  <2>1. last'.op = "entries" /\ last'.value = entries
    BY <1>0, <1>6 DEF SetQueryObject
  <2>2. url' = IF query_from(entries) = NULL THEN url ELSE url_set_query_len(url, query_from(entries))
    BY <1>6 DEF SetQueryObject
  <2>3. CASE entries = <<>>
    <3>1. url' = url
      BY <2>2, <2>3 DEF query_from
    <3>2. Len(entries) # 1
      BY <2>3
    <3>3. url.path # NULL => url_hash(url) = HashOf(BeforeQuery(OrNone(url.path)), url_query(url))
      BY SameTold
    <3> QED BY <2>1, <3>1, <3>2, <3>3 DEF Told, PartTold
  <2>4. CASE entries # <<>>
    <3>1. PICK q : q = query_from(entries)
      OBVIOUS
    <3>2. q # NULL /\ EntriesRead(entries, q)
      BY <2>4, <3>1, EntriesWritten
    <3>3. QueryWas(url, q, url')
      BY <2>2, <3>1, <3>2, SetQueryIs DEF EntriesRead
    <3>4. /\ [url' EXCEPT !.path = NULL] = [url EXCEPT !.path = NULL]
          /\ pathname(url') = pathname(url) /\ url_query(url') = q
          /\ url_hash(url') = HashOf(BeforeQuery(OrNone(url.path)), url_query(url'))
      BY <3>3, QueryTold
    <3>5. Len(entries) = 1 =>
            query_object_len(q) = <<[key |-> <<entries[1].key>>, value |-> <<entries[1].value>>]>>
      BY <3>2 DEF EntriesRead
    <3> QED BY <2>1, <3>4, <3>5 DEF Told, PartTold
  <2> QED BY <2>3, <2>4
<1>7. ASSUME SetQueryNull PROVE Told
  <2>1. last'.op = "noquery"
    BY <1>0, <1>7 DEF SetQueryNull
  <2>2. url' = IF died' THEN url ELSE [url EXCEPT !.path = SubSeq(@, 1, Before(@, {"?"}))]
    BY <1>7 DEF SetQueryNull
  <2>3. CASE url.path = NULL
    <3>1. url' = url /\ url_query(url) = NULL
      BY <1>7, <2>2, <2>3, QueryOfNull DEF SetQueryNull
    <3> QED BY <2>1, <2>3, <3>1 DEF Told, PartTold
  <2>4. CASE url.path # NULL
    <3>1. url' = [url EXCEPT !.path = Start(url.path, {"?"})]
      BY <1>7, <2>2, <2>4 DEF SetQueryNull, Start
    <3>2. /\ [url' EXCEPT !.path = NULL] = [url EXCEPT !.path = NULL]
          /\ pathname(url') = pathname(url) /\ url_query(url') = NULL
          /\ url_hash(url') = HashOf(BeforeQuery(OrNone(url.path)), url_query(url'))
      BY <2>4, <3>1, NoQueryTold
    <3> QED BY <2>1, <3>2 DEF Told, PartTold
  <2> QED BY <2>3, <2>4
<1>8. minnet_url_set => Told
  BY <1>1, <1>2, <1>3, <1>4, <1>5, <1>6, <1>7 DEF minnet_url_set
<1>9. ASSUME last' = NoSet PROVE Told
  <2>1. last'.op = "none"
    BY <1>9 DEF NoSet
  <2> QED BY <2>1, NothingTold DEF Told
<1>10. CASE GetQuery
  BY <1>9, <1>10 DEF GetQuery
<1>11. ASSUME NEW kind \in {"string", "object"}, NEW method \in Methods, minnet_client(kind, method)
       PROVE  Told
  BY <1>9, <1>11 DEF minnet_client
<1>12. ASSUME NEW named \in BOOLEAN, Serve(named) PROVE Told
  BY <1>9, <1>12 DEF Serve
<1> QED BY <1>8, <1>10, <1>11, <1>12 DEF Next

\* To set the path keeps the query, to set or remove the query keeps the pathname,
\* and the hash goes with what it stands behind, for any protocols, ports and number
\* of calls (url_set_path_len, url_set_query_len, minnet_url_set).
THEOREM PartsAreSetAlone == Spec => OnlyItsPart
<1>1. (url \in Urls) /\ [Next]_vars => [PartWasSet]_vars
  <2> SUFFICES ASSUME url \in Urls, Next PROVE PartWasSet
    OBVIOUS
  <2>1. Told
    BY PartsTold
  <2> QED BY <2>1 DEF Told, PartTold, PartWasSet
<1> QED BY <1>1, UrlIsUrl, PTL DEF Spec, OnlyItsPart

-----------------------------------------------------------------------------
(* A Request has the path of a URL.                                        *)

\* What is behind the protocol of a text has a path.
LEMMA RestPath ==
  ASSUME NEW protocol, NEW rest \in CleanText
  PROVE  url_parse_rest(protocol, rest).path \in Path
<1> DEFINE h == Before(rest, {":", "/"})
           after == From(rest, h)
           colon == after # <<>> /\ after[1] = ":"
           digits == colon /\ Len(after) > 1 /\ after[2] \in DOMAIN Numbers
           x == IF digits THEN 2 ELSE IF colon THEN 1 ELSE 0
           path == From(after, x)
<1>1. rest \in Seq(Pieces)
  BY DEF CleanText, Text
<1>2. h \in 0 .. Len(rest)
  BY <1>1, BeforeIs DEF IsBefore
<1>3. after \in CleanText
  <2> HIDE DEF h
  <2> QED BY <1>2, CleanRest
<1>4. url_parse_rest(protocol, rest).path = IF path = <<>> THEN NULL ELSE path
  BY Zenon DEF url_parse_rest, URL
<1>5. path \in CleanText
  <2> HIDE DEF after
  <2>1. after \in Seq(Pieces)
    BY <1>3 DEF CleanText, Text
  <2>2. after # <<>> => Len(after) > 0
    BY <2>1
  <2>3. Len(after) \in Nat
    BY <2>1
  <2>4. x \in 0 .. Len(after)
    BY <2>2, <2>3
  <2> HIDE DEF x
  <2> QED BY <1>3, <2>4, CleanRest
<1> HIDE DEF path
<1> QED BY <1>4, <1>5 DEF Path

\* So does a text.
LEMMA ParsePath ==
  ASSUME NEW u \in CleanText
  PROVE  url_parse(u).path \in Path
<1>1. u \in Text /\ Len(u) \in Nat
  BY DEF CleanText, Text
<1>2. CASE MarksOf(u) = {}
  <2>1. url_parse(u) = url_parse_rest(NULL, u)
    BY <1>2, ParseIs
  <2> QED BY <2>1, RestPath
<1>3. CASE MarksOf(u) # {}
  <2>1. PICK i : i = FirstMark(u) /\ i \in 1 .. Len(u) - 2
    <3>1. MarksOf(u) \subseteq Nat
      BY <1>1 DEF MarksOf
    <3>2. \E i \in MarksOf(u) : \A y \in MarksOf(u) : i =< y
      BY <1>3, <3>1, LeastNat
    <3>3. FirstMark(u) \in MarksOf(u)
      BY <3>2 DEF FirstMark
    <3>4. \A i : i \in MarksOf(u) => i \in 1 .. Len(u) - 2
      BY DEF MarksOf
    <3> QED BY <3>3, <3>4
  <2>2. i + 2 \in 0 .. Len(u)
    BY <1>1, <2>1
  <2>3. From(u, i + 2) \in CleanText
    BY <2>2, CleanRest
  <2>4. url_parse(u) = url_parse_rest(SubSeq(u, 1, i - 1), From(u, i + 2))
    BY <1>3, <2>1, ParseIs
  <2> QED BY <2>3, <2>4, RestPath
<1> QED BY <1>2, <1>3

\* Clean texts are joined to one.
LEMMA CleanTwo ==
  ASSUME NEW s \in CleanText, NEW t \in CleanText
  PROVE  s \o t \in CleanText
BY CleanJoin DEF CleanText

\* The text of a URL is clean.
LEMMA FormatClean ==
  ASSUME NEW u \in Urls
  PROVE  url_format(u) \in CleanText
<1>1. Prefix(u) \in CleanText
  <2>1. CASE u.protocol = NULL
    BY <2>1, Written DEF Prefix
  <2>2. CASE u.protocol # NULL
    <3>1. PICK x \in Pieces : u.protocol = <<x>>
      BY <2>2 DEF Urls, Protocol
    <3>2. PICK m : m = <<":", "/", "/">>
      OBVIOUS
    <3>3. {":", "/"} \subseteq Pieces
      BY DEF Pieces, Marks
    <3>4. m \in Seq(Pieces) /\ Len(m) = 3 /\ m[3] = "/"
      BY <3>2, <3>3
    <3>5. m[Len(m)] # "?"
      BY <3>4
    <3>6. m \in Text
      BY <3>4 DEF Text
    <3>7. m \in CleanText
      BY <3>5, <3>6 DEF CleanText
    <3>8. m # <<>>
      <4>1. m = <<>> => Len(m) = 0
        OBVIOUS
      <4> QED BY <3>4, <4>1
    <3>9. u.protocol \in Text
      BY <3>1, Written
    <3>10. u.protocol \o m \in CleanText
      BY <3>7, <3>8, <3>9, CleanJoin
    <3> QED BY <2>2, <3>2, <3>10 DEF Prefix
  <2> QED BY <2>1, <2>2
<1>2. OrNone(HostOr(u)) \in CleanText
  <2>1. HostOr(u) \in Host
    <3>1. u.host \in Host
      BY DEF Urls
    <3>2. <<"0.0.0.0">> \in Host
      BY DEF Host, HostPieces
    <3> QED BY <3>1, <3>2 DEF HostOr
  <2>2. \A x \in HostPieces : <<x>> \in CleanText
    <3>1. HostPieces \subseteq Pieces \ {"?"}
      BY DEF HostPieces, Pieces
    <3> QED BY <3>1, Written
  <2>3. HostOr(u) = NULL \/ HostOr(u) \in CleanText
    BY <2>1, <2>2 DEF Host
  <2> QED BY <2>3, Written DEF OrNone
<1> DEFINE own == /\ u.protocol # NULL
                  /\ \/ u.port = protocol_default_port(protocol_number(u.protocol))
                     \/ u.port < 0
           port == IF own \/ HostOr(u) = NULL THEN <<>> ELSE <<":", Printed(u.port)>>
<1>3. port \in CleanText
  <2>1. u.port \in Port
    BY DEF Urls
  <2>2. PICK n \in Digits : n = Printed(u.port)
    BY <2>1, PrintedIs
  <2>3. <<":", n>> \in CleanText
    <3>1. PICK s : s = <<":", n>>
      OBVIOUS
    <3>2. ":" \in Pieces /\ n \in Pieces /\ n # "?"
      BY DEF Pieces, Marks, Digits
    <3>3. s \in Seq(Pieces) /\ Len(s) = 2 /\ s[2] = n
      BY <3>1, <3>2
    <3>4. s[Len(s)] # "?"
      BY <3>2, <3>3
    <3>5. s \in Text
      BY <3>3 DEF Text
    <3> QED BY <3>1, <3>4, <3>5 DEF CleanText
  <2>4. port = <<>> \/ port = <<":", n>>
    BY <2>2
  <2> HIDE DEF port
  <2> QED BY <2>3, <2>4, Written
<1>4. url_format(u) = ((Prefix(u) \o OrNone(HostOr(u))) \o port) \o OrNone(u.path)
  BY Zenon DEF url_format
<1> HIDE DEF port
<1>5. OrNone(u.path) \in CleanText
  BY PathOrNone
<1> QED BY <1>1, <1>2, <1>3, <1>4, <1>5, CleanTwo

\* The URL of a Request has a path, for the text and the object of a URL.
LEMMA RequestPath ==
  ASSUME NEW u \in Urls, NEW kind \in {"string", "object"}
  PROVE  url_fromvalue(kind, IF kind = "object" THEN UrlAsObject(u) ELSE url_format(u)).path \in Path
<1>1. CASE kind = "string"
  <2>1. url_fromvalue(kind, IF kind = "object" THEN UrlAsObject(u) ELSE url_format(u))
          = url_parse(url_format(u))
    BY <1>1 DEF url_fromvalue
  <2>2. url_parse(url_format(u)).path \in Path
    BY FormatClean, ParsePath
  <2> QED BY <2>1, <2>2
<1>2. CASE kind = "object"
  <2>1. PICK o : o = UrlAsObject(u)
    OBVIOUS
  <2>2. url_fromvalue(kind, IF kind = "object" THEN UrlAsObject(u) ELSE url_format(u))
          = url_fromobj(o)
    BY <1>2, <2>1 DEF url_fromvalue
  <2>3. o.pathname = Start(OrNone(u.path), Ends)
    BY <2>1, PathnameIs DEF UrlAsObject
  <2>4. Start(OrNone(u.path), Ends) \in CleanText
    BY PathOrNone, CleanStart DEF Start, Ends
  <2>5. url_fromobj(o).path = OrNone(o.pathname)
    BY DEF url_fromobj, url_init, URL
  <2>6. OrNone(o.pathname) = o.pathname
    BY <2>3, <2>4, NullIsNone DEF CleanText
  <2> QED BY <2>2, <2>3, <2>4, <2>5, <2>6 DEF Path
<1> QED BY <1>1, <1>2

\* A Request that is there has a path, and GET unless it is for HTTP; nothing is served
\* before.
ReqInv ==
  /\ req # Nothing =>
       /\ req.request.url.path \in Path
       /\ url_info(req.request.url).protocol # "http" => req.sent = "GET"
  /\ req = Nothing => served = Nothing

\* A Request is not changed.
LEMMA ReqStays ==
  ASSUME url \in Urls, ReqInv, Next
  PROVE  ReqInv'
<1>1. ASSUME NEW kind \in {"string", "object"}, NEW method \in Methods, minnet_client(kind, method)
      PROVE  ReqInv'
  <2>1. PICK v : v = url_fromvalue(kind, IF kind = "object" THEN UrlAsObject(url) ELSE url_format(url))
    OBVIOUS
  <2>2. v.path \in Path
    BY <2>1, RequestPath
  <2>3. PICK r \in {request_new(u, "GET") : u \in {x \in {v} : url_valid(x)}} :
          req' = [request |-> r,
                  sent |-> IF url_info(r.url).protocol = "http" THEN method ELSE "GET"]
    BY <1>1, <2>1 DEF minnet_client, request_from
  <2>4. r.url = v
    BY <2>3 DEF request_new, request_init
  <2>5. req' = [request |-> r, sent |-> IF url_info(r.url).protocol = "http" THEN method ELSE "GET"]
    BY <2>3
  <2>6. /\ req'.request = r
        /\ req'.sent = IF url_info(r.url).protocol = "http" THEN method ELSE "GET"
    BY <2>5
  <2>7. req' # Nothing
    BY <2>5 DEF Nothing
  <2> QED BY <2>2, <2>4, <2>6, <2>7 DEF ReqInv
<1>2. ASSUME NEW named \in BOOLEAN, Serve(named) PROVE ReqInv'
  BY <1>2 DEF Serve, ReqInv
<1>3. CASE GetQuery
  BY <1>3 DEF GetQuery, ReqInv
<1>4. CASE minnet_url_set
  <2>1. req' = req /\ served' = served
    BY <1>4 DEF minnet_url_set, SetProtocol, SetHostname, SetPort, SetPathname, SetQuery,
                SetQueryObject, SetQueryNull, Setting
  <2> QED BY <2>1 DEF ReqInv
<1> QED BY <1>1, <1>2, <1>3, <1>4 DEF Next

-----------------------------------------------------------------------------
(* What a server makes of a Request.                                       *)

\* What libwebsockets passes on of a path: the part before the query, and the query.
IsPassed(path, uri, args) ==
  \/ uri = path /\ args = <<>> /\ Before(path, {"?"}) = Len(path)
  \/ /\ args # <<>> /\ path = uri \o Ask(args)

IsReceived(path, uri, args) ==
  /\ uri \in Text /\ args \in Text
  /\ Before(uri, {"?"}) = Len(uri)
  /\ IsPassed(path, uri, args)

\* Every clean path is passed on so.
LEMMA PassedOn ==
  ASSUME NEW path \in CleanText
  PROVE  IsReceived(path, SubSeq(path, 1, Before(path, {"?"})), From(path, Before(path, {"?"}) + 1))
<1>0. path \in Text /\ path \in Seq(Pieces) /\ Len(path) \in Nat
  BY DEF CleanText, Text
<1>1. PICK n : n = Before(path, {"?"}) /\ n \in 0 .. Len(path)
  BY <1>0, BeforeIs DEF IsBefore
<1>2. PICK a \in Text, t \in Text : IsCut(path, {"?"}, a, t)
  BY <1>0, Cut
<1>3. SubSeq(path, 1, n) = a /\ Before(a, {"?"}) = Len(a) /\ path = a \o t /\ Len(a) = n
  BY <1>1, <1>2 DEF IsCut, Start
<1>4. CASE t = <<>>
  <2>1. n = Len(path)
    BY <1>1, <1>2, <1>4 DEF IsCut
  <2>2. From(path, n + 1) = <<>>
    BY <1>0, <2>1 DEF From
  <2>3. a = path
    BY <1>0, <1>1, <1>3, <2>1, StartOfPlain DEF Start
  <2>4. <<>> \in Text
    BY Written DEF CleanText
  <2> QED BY <1>1, <1>3, <2>1, <2>2, <2>3, <2>4 DEF IsReceived, IsPassed
<1>5. CASE t # <<>>
  <2>1. PICK q \in CleanText \ {<<>>} : t = Ask(q)
    BY <1>2, <1>5, QueryPart
  <2>2. q \in Text /\ q \in Seq(Pieces)
    BY <2>1 DEF CleanText, Text
  <2>3. From(path, n + 1) = q
    <3>1. PICK x : x = <<"?">>
      OBVIOUS
    <3>2. "?" \in Pieces
      BY DEF Pieces, Marks
    <3>3. x \in Seq(Pieces) /\ Len(x) = 1
      BY <3>1, <3>2
    <3>4. t = x \o q
      BY <2>1, <3>1 DEF Ask
    <3>5. a \in Seq(Pieces)
      BY DEF Text
    <3>6. (a \o x) \o q = path
      <4>1. x \in Text
        BY <3>1, <3>2, Written
      <4>2. (a \o x) \o q = a \o (x \o q)
        BY <2>2, <4>1, TextsAssociate, SMTT(60)
      <4> QED BY <1>3, <3>4, <4>2
    <3>7. a \o x \in Seq(Pieces) /\ Len(a \o x) = n + 1
      <4>1. a \o x \in Seq(Pieces) /\ IsJoin(a, x, a \o x)
        BY <3>3, <3>5, JoinIs
      <4> QED BY <1>3, <3>3, <4>1 DEF IsJoin
    <3>8. From((a \o x) \o q, Len(a \o x)) = q
      BY <2>2, <3>7, JoinParts
    <3> QED BY <3>6, <3>7, <3>8
  <2> QED BY <1>1, <1>3, <2>1, <2>2, <2>3 DEF IsReceived, IsPassed
<1> QED BY <1>4, <1>5

\* A text without "?" has no query.
LEMMA PlainQuery ==
  ASSUME NEW u, u.path \in Text, Before(u.path, {"?"}) = Len(u.path)
  PROVE  url_query(u) = NULL
<1>1. PICK a \in Text, t \in Text : IsCut(u.path, {"?"}, a, t)
  BY Cut
<1>2. t = <<>>
  BY <1>1 DEF IsCut
<1> QED BY <1>1, <1>2, QueryIs

\* A URL one of whose parts is changed.
LEMMA PartOf ==
  ASSUME NEW p, NEW h, NEW n, NEW x, NEW y
  PROVE  /\ [URL(p, h, n, x) EXCEPT !.path = y] = URL(p, h, n, y)
         /\ [URL(p, h, n, x) EXCEPT !.protocol = y] = URL(y, h, n, x)
         /\ URL(p, h, n, x).protocol = p /\ URL(p, h, n, x).port = n
         /\ URL(p, h, n, x).path = x
BY DEF URL

\* A query is put behind a text without one.
LEMMA SetQueryOf ==
  ASSUME NEW p, NEW h, NEW n, NEW x \in Text, Before(x, {"?"}) = Len(x), NEW q \in Text
  PROVE  url_set_query_len(URL(p, h, n, x), q) = URL(p, h, n, x \o Ask(q))
<1>1. PICK u : u = URL(p, h, n, x)
  OBVIOUS
<1>2. u.path = x /\ \A y : [u EXCEPT !.path = y] = URL(p, h, n, y)
  BY <1>1, PartOf
<1>3. OrNone(u.path) = x
  BY <1>2, NullIsNone
<1>4. SubSeq(x, 1, Before(x, {"?"})) = x
  BY StartOfPlain DEF Start
<1>5. url_set_query_len(u, q) = [u EXCEPT !.path = (x \o <<"?">>) \o q]
  BY <1>3, <1>4 DEF url_set_query_len
<1>6. (x \o <<"?">>) \o q = x \o Ask(q)
  <2>1. <<"?">> \in Text
    <3>1. "?" \in Pieces
      BY DEF Pieces, Marks
    <3> QED BY <3>1, Written
  <2> QED BY <2>1, TextsAssociate DEF Ask
<1> QED BY <1>1, <1>2, <1>5, <1>6

WsiProtocol(w) ==
  LET p == protocol_number(<<w.protocol>>)
      secure == [ws |-> "wss", http |-> "https", raw |-> "tls"]
  IN  protocol_string(IF ~protocol_is_tls(p) /\ w.tls THEN secure[p] ELSE p)

WsiPort(w) == IF URL_IS_VALID_PORT(w.hostport) THEN w.hostport ELSE w.vport

\* The URL that url_fromwsi makes.
IsWsiUrl(w, u) ==
  \E h : \E x \in Text :
    /\ u = URL(WsiProtocol(w), h, WsiPort(w), IF w.args = <<>> THEN x ELSE x \o Ask(w.args))
    /\ Before(x, {"?"}) = Len(x)

\* It makes it of the four.
LEMMA WsiIs ==
  ASSUME NEW path, NEW w, IsReceived(path, w.uri, w.args)
  PROVE  IsWsiUrl(w, url_fromwsi(w))
<1> DEFINE header == wsi_host_and_port(w)
           at == IF URL_IS_VALID_PORT(header.port) THEN header ELSE wsi_vhost_and_port(w)
           plain == URL(NULL, at.host, at.port, wsi_uri_and_method(w))
           args == wsi_query_string_len(w)
           asked == IF url_query(plain) = NULL /\ args # NULL THEN url_set_query_len(plain, args) ELSE plain
<1>1. url_fromwsi(w) = [asked EXCEPT !.protocol = WsiProtocol(w)]
  BY Zenon DEF url_fromwsi, WsiProtocol
<1>2. PICK x : x = wsi_uri_and_method(w)
  OBVIOUS
<1>3. x \in Text /\ Before(x, {"?"}) = Len(x)
  <2>1. <<>> \in Text
    BY Written DEF CleanText
  <2>2. IsBefore(<<>>, {"?"}, 0) /\ Len(<<>>) = 0 /\ <<>> \in Seq(Pieces)
    BY DEF IsBefore
  <2>3. Before(<<>>, {"?"}) = Len(<<>>)
    BY <2>2, BeforeOnly
  <2> QED BY <1>2, <2>1, <2>3 DEF wsi_uri_and_method, IsReceived
<1>4. PICK h, n : h = at.host /\ n = at.port
  OBVIOUS
<1>5. n = WsiPort(w)
  BY <1>4 DEF wsi_host_and_port, wsi_vhost_and_port, WsiPort
<1>6. plain = URL(NULL, h, n, x)
  BY <1>2, <1>4
<1>7. args = IF w.args = <<>> THEN NULL ELSE w.args
  BY DEF wsi_query_string_len
<1> HIDE DEF plain, args
<1>8. url_query(plain) = NULL
  <2>1. plain.path = x
    BY <1>6, PartOf
  <2> QED BY <1>3, <2>1, PlainQuery
<1>9. asked = URL(NULL, h, n, IF w.args = <<>> THEN x ELSE x \o Ask(w.args))
  <2>1. CASE w.args = <<>>
    BY <1>6, <1>7, <2>1
  <2>2. CASE w.args # <<>>
    <3>1. w.args \in Text /\ w.args # NULL
      BY NullIsNone DEF IsReceived
    <3>2. asked = url_set_query_len(plain, w.args)
      BY <1>7, <1>8, <2>2, <3>1
    <3> QED BY <1>3, <1>6, <2>2, <3>1, <3>2, SetQueryOf
  <2> QED BY <2>1, <2>2
<1> HIDE DEF asked
<1>10. url_fromwsi(w) = URL(WsiProtocol(w), h, n, IF w.args = <<>> THEN x ELSE x \o Ask(w.args))
  BY <1>1, <1>9, PartOf
<1> QED BY <1>3, <1>5, <1>10 DEF IsWsiUrl

\* The path is the one that was asked for when the filter has put it before the query.
LEMMA PathAgain ==
  ASSUME NEW path, NEW w, IsReceived(path, w.uri, w.args), NEW u, IsWsiUrl(w, u)
  PROVE  \E h : url_set_path_len(u, w.uri) = URL(WsiProtocol(w), h, WsiPort(w), path)
<1>1. PICK h : \E x \in Text :
        /\ u = URL(WsiProtocol(w), h, WsiPort(w), IF w.args = <<>> THEN x ELSE x \o Ask(w.args))
        /\ Before(x, {"?"}) = Len(x)
  BY DEF IsWsiUrl
<1>2. PICK x \in Text :
        /\ u = URL(WsiProtocol(w), h, WsiPort(w), IF w.args = <<>> THEN x ELSE x \o Ask(w.args))
        /\ Before(x, {"?"}) = Len(x)
  BY <1>1
<1>3. /\ u.path = IF w.args = <<>> THEN x ELSE x \o Ask(w.args)
      /\ \A y : [u EXCEPT !.path = y] = URL(WsiProtocol(w), h, WsiPort(w), y)
  BY <1>2, PartOf
<1>4. w.uri \in Text /\ w.args \in Text /\ ~Contains(w.uri, "?")
  BY ContainsIs DEF IsReceived
<1>5. CASE w.args = <<>>
  <2>1. url_query(u) = NULL
    BY <1>2, <1>3, <1>5, PlainQuery
  <2>2. url_set_path_len(u, w.uri) = [u EXCEPT !.path = w.uri]
    BY <2>1 DEF url_set_path_len
  <2>3. w.uri = path
    BY <1>5 DEF IsReceived, IsPassed
  <2> QED BY <1>3, <2>2, <2>3
<1>6. CASE w.args # <<>>
  <2>1. IsCut(x \o Ask(w.args), {"?"}, x, Ask(w.args))
    BY <1>2, <1>4, AskBehind
  <2>2. Ask(w.args) # <<>> /\ Tail(Ask(w.args)) = w.args
    BY <1>4, AskIs
  <2>3. url_query(u) = w.args
    <3>1. u.path = x \o Ask(w.args)
      BY <1>3, <1>6
    <3>2. IsCut(u.path, {"?"}, x, Ask(w.args))
      BY <2>1, <3>1
    <3> QED BY <2>2, <3>2, QueryIs
  <2>4. w.args # NULL
    BY <1>4, NullIsNone
  <2>5. url_set_path_len(u, w.uri) = [u EXCEPT !.path = (w.uri \o <<"?">>) \o w.args]
    BY <1>4, <2>3, <2>4 DEF url_set_path_len
  <2>6. (w.uri \o <<"?">>) \o w.args = path
    <3>1. "?" \in Pieces
      BY DEF Pieces, Marks
    <3>2. <<"?">> \in Text
      BY <3>1, Written
    <3>3. (w.uri \o <<"?">>) \o w.args = w.uri \o Ask(w.args)
      BY <1>4, <3>2, TextsAssociate, ZenonT(60) DEF Ask
    <3> QED BY <1>6, <3>3 DEF IsReceived, IsPassed
  <2> QED BY <1>3, <2>5, <2>6
<1> QED BY <1>5, <1>6

\* What a server has of a Request.
IsServed(r, method, secure, protocol, port) ==
  /\ r.method = method /\ r.secure = secure
  /\ r.url.protocol = protocol /\ r.url.port = port

\* Over HTTP.
LEMMA FilterIs ==
  ASSUME NEW path, NEW w, IsReceived(path, w.uri, w.args)
  PROVE  /\ IsServed(FilterHttpConnection(w), w.method, w.tls,
                     IF w.tls THEN <<"https">> ELSE <<"http">>, WsiPort(w))
         /\ FilterHttpConnection(w).url.path = path
<1>1. PICK u : u = url_fromwsi(w)
  OBVIOUS
<1>2. PICK r : r = request_fromwsi(w)
  OBVIOUS
<1>3. r = [url |-> u, method |-> w.method, secure |-> w.tls, body |-> w.method = "POST"]
  BY <1>1, <1>2 DEF request_fromwsi, request_new, request_init, wsi_method
<1>4. IsWsiUrl(w, u)
  BY <1>1, WsiIs
<1>5. PICK h : url_set_path_len(u, w.uri) = URL(WsiProtocol(w), h, WsiPort(w), path)
  BY <1>4, PathAgain
<1>6. PICK scheme : scheme = IF w.tls THEN <<"https">> ELSE <<"http">>
  OBVIOUS
<1>7. protocol_string(protocol_number(scheme)) = scheme
  BY <1>6 DEF protocol_string, protocol_number, protocol_names
<1>8. url_set_protocol(url_set_path_len(u, w.uri), scheme) = URL(scheme, h, WsiPort(w), path)
  BY <1>5, <1>7, PartOf DEF url_set_protocol
<1>9. r.url = u
  BY <1>3
<1>10. FilterHttpConnection(w) =
         [r EXCEPT !.url = url_set_protocol(url_set_path_len(u, w.uri), scheme)]
  BY <1>2, <1>6, <1>9 DEF FilterHttpConnection
<1>11. PICK v : v = URL(scheme, h, WsiPort(w), path)
  OBVIOUS
<1>12. v.protocol = scheme /\ v.port = WsiPort(w) /\ v.path = path
  BY <1>11, PartOf
<1>13. FilterHttpConnection(w) = [r EXCEPT !.url = v]
  BY <1>8, <1>10, <1>11
<1>14. FilterHttpConnection(w) =
         [url |-> v, method |-> w.method, secure |-> w.tls, body |-> w.method = "POST"]
  BY <1>3, <1>13
<1> QED BY <1>6, <1>12, <1>14 DEF IsServed

\* Over WebSocket.
LEMMA ConfirmIs ==
  ASSUME NEW path, NEW w, IsReceived(path, w.uri, w.args)
  PROVE  IsServed(ConfirmUpgrade(w), "GET", w.tls, WsiProtocol(w), WsiPort(w))
<1>1. PICK u : u = url_fromwsi(w)
  OBVIOUS
<1>2. u.protocol = WsiProtocol(w) /\ u.port = WsiPort(w)
  <2>1. PICK h, y : u = URL(WsiProtocol(w), h, WsiPort(w), y)
    BY <1>1, WsiIs DEF IsWsiUrl
  <2> QED BY <2>1, PartOf
<1>3. PICK r : r = ConfirmUpgrade(w)
  OBVIOUS
<1>4. r.url = u /\ r.method = "GET" /\ r.secure = w.tls
  BY <1>1, <1>3 DEF ConfirmUpgrade, request_new, request_init
<1> QED BY <1>2, <1>3, <1>4 DEF IsServed

\* What ServedAsAsked says of a Request for u by a method, and what a server has of it.
AsAsked(u, method, s) ==
  LET asked == url_info(u)
  IN  /\ s.method = method
      /\ s.secure = asked.ssl
      /\ s.url.port = asked.port
      /\ protocol_number(s.url.protocol) = protocol_number(u.protocol)
      /\ asked.protocol = "http" => s.url.path = asked.path

\* The protocols of texts of one piece.
LEMMA ProtocolOf ==
  /\ protocol_number(<<"http">>) = "http" /\ protocol_number(<<"https">>) = "https"
  /\ protocol_number(<<"ws">>) = "ws" /\ protocol_number(<<"wss">>) = "wss"
  /\ protocol_number(NULL) = "raw"
<1>1. \A x : Len(<<x>>) = 1 /\ <<x>>[1] = x
  OBVIOUS
<1>2. \A x : protocol_number(<<x>>) = IF x \in protocol_names THEN x ELSE "raw"
  BY <1>1 DEF protocol_number
<1> QED BY <1>2 DEF protocol_names, NULL

\* What is connected to, of a Request that libwebsockets can make.
LEMMA InfoIs ==
  ASSUME NEW u, Reaches(url_info(u)), u.path \in Path
  PROVE  LET p == protocol_number(u.protocol)
             info == url_info(u)
         IN  /\ info.port = u.port /\ URL_IS_VALID_PORT(info.port) /\ info.path \in CleanText
             /\ \/ p \in {"http", "https"} /\ info.protocol = "http" /\ info.ssl = (p = "https")
                \/ p \in {"ws", "wss"} /\ info.protocol = "ws" /\ info.ssl = (p = "wss")
<1>1. PICK p : p = IF u.protocol = NULL THEN "raw" ELSE protocol_number(u.protocol)
  OBVIOUS
<1>2. p = protocol_number(u.protocol)
  BY <1>1, ProtocolOf
<1>3. PICK info : info = url_info(u)
  OBVIOUS
<1>4. /\ info.protocol = (CASE p \in {"http", "https"} -> "http"
                            [] p \in {"ws", "wss"} -> "ws"
                            [] OTHER -> "raw")
      /\ info.port = u.port /\ info.ssl = protocol_is_tls(p)
      /\ info.path = IF u.path = NULL THEN <<"/">> ELSE u.path
  BY <1>1, <1>3 DEF url_info
<1>5. info.protocol \in {"http", "ws"} /\ URL_IS_VALID_PORT(info.port)
  BY <1>3 DEF Reaches
<1>6. info.path \in CleanText
  <2>1. "/" \in Pieces \ {"?"}
    BY DEF Pieces, Marks
  <2>2. <<"/">> \in CleanText
    BY <2>1, Written
  <2> QED BY <1>4, <2>2 DEF Path
<1>7. CASE p \in {"http", "https"}
  <2>1. info.protocol = "http" /\ info.ssl = (p = "https")
    BY <1>4, <1>7 DEF protocol_is_tls
  <2> QED BY <1>2, <1>3, <1>4, <1>5, <1>6, <1>7, <2>1
<1>8. CASE p \in {"ws", "wss"}
  <2>1. info.protocol = "ws" /\ info.ssl = (p = "wss")
    BY <1>4, <1>8 DEF protocol_is_tls
  <2> QED BY <1>2, <1>3, <1>4, <1>5, <1>6, <1>8, <2>1
<1>9. p \in {"http", "https"} \/ p \in {"ws", "wss"}
  BY <1>4, <1>5
<1> QED BY <1>7, <1>8, <1>9

\* No port.
LEMMA NoPort == ~URL_IS_VALID_PORT(-1)
BY DEF URL_IS_VALID_PORT

\* A server's Request is what was asked for.
LEMMA ServesAsAsked ==
  ASSUME NEW u, u.path \in Path, Reaches(url_info(u)), NEW method,
         url_info(u).protocol # "http" => method = "GET", NEW named \in BOOLEAN
  PROVE  LET w == Received(url_info(u), method, named)
         IN  AsAsked(u, method, IF w.protocol = "http" THEN FilterHttpConnection(w) ELSE ConfirmUpgrade(w))
<1>1. PICK info : info = url_info(u)
  OBVIOUS
<1>2. PICK w : w = Received(info, method, named)
  OBVIOUS
<1>3. PICK p : p = protocol_number(u.protocol)
  OBVIOUS
<1>4. /\ info.port = u.port /\ URL_IS_VALID_PORT(info.port) /\ info.path \in CleanText
      /\ \/ p \in {"http", "https"} /\ info.protocol = "http" /\ info.ssl = (p = "https")
         \/ p \in {"ws", "wss"} /\ info.protocol = "ws" /\ info.ssl = (p = "wss")
  BY <1>1, <1>3, InfoIs
<1>5. /\ w.method = method /\ w.protocol = info.protocol /\ w.tls = info.ssl
      /\ w.hostport = (IF named THEN info.port ELSE -1) /\ w.vport = info.port
      /\ w.uri = SubSeq(info.path, 1, Before(info.path, {"?"}))
      /\ w.args = From(info.path, Before(info.path, {"?"}) + 1)
  BY <1>2 DEF Received
<1>6. IsReceived(info.path, w.uri, w.args)
  BY <1>4, <1>5, PassedOn
<1>7. WsiPort(w) = info.port
  BY <1>4, <1>5, NoPort DEF WsiPort
<1>8. CASE info.protocol = "http"
  <2>1. p \in {"http", "https"} /\ info.ssl = (p = "https")
    BY <1>4, <1>8
  <2>2. PICK s : s = FilterHttpConnection(w)
    OBVIOUS
  <2>3. /\ IsServed(s, w.method, w.tls, IF w.tls THEN <<"https">> ELSE <<"http">>, WsiPort(w))
        /\ s.url.path = info.path
    BY <1>6, <2>2, FilterIs
  <2>4. protocol_number(s.url.protocol) = p
    BY <1>5, <2>1, <2>3, ProtocolOf DEF IsServed
  <2>5. AsAsked(u, method, s)
    BY <1>1, <1>3, <1>5, <1>7, <2>3, <2>4 DEF AsAsked, IsServed
  <2> QED BY <1>1, <1>2, <1>5, <1>8, <2>2, <2>5
<1>9. CASE info.protocol = "ws"
  <2>1. p \in {"ws", "wss"} /\ info.ssl = (p = "wss")
    BY <1>4, <1>9
  <2>2. PICK s : s = ConfirmUpgrade(w)
    OBVIOUS
  <2>3. IsServed(s, "GET", w.tls, WsiProtocol(w), WsiPort(w))
    BY <1>6, <2>2, ConfirmIs
  <2>4. WsiProtocol(w) = <<p>>
    <3>1. protocol_number(<<w.protocol>>) = "ws"
      BY <1>5, <1>9, ProtocolOf
    <3>2. ~protocol_is_tls("ws")
      BY DEF protocol_is_tls
    <3>3. [ws |-> "wss", http |-> "https", raw |-> "tls"]["ws"] = "wss"
      OBVIOUS
    <3>4. WsiProtocol(w) = protocol_string(IF w.tls THEN "wss" ELSE "ws")
      BY <3>1, <3>2, <3>3 DEF WsiProtocol
    <3> QED BY <1>5, <2>1, <3>4 DEF protocol_string
  <2>5. protocol_number(s.url.protocol) = p
    BY <2>1, <2>3, <2>4, ProtocolOf DEF IsServed
  <2>6. method = "GET" /\ info.protocol # "http"
    BY <1>1, <1>9
  <2>7. AsAsked(u, method, s)
    BY <1>1, <1>3, <1>5, <1>7, <2>3, <2>5, <2>6 DEF AsAsked, IsServed
  <2> QED BY <1>1, <1>2, <1>5, <2>2, <2>6, <2>7
<1> QED BY <1>4, <1>8, <1>9

\* The invariant of a Request and what is made of it.
ServedInv == url \in Urls /\ ReqInv /\ ServedAsAsked

\* Every call keeps it.
LEMMA ServedNext ==
  ASSUME ServedInv, Next
  PROVE  ServedAsAsked'
<1>0. ServedAsAsked <=> (served # Nothing => AsAsked(req.request.url, req.sent, served))
  BY DEF ServedAsAsked, AsAsked
<1>1. ASSUME req' = req, served' = served PROVE ServedAsAsked'
  BY <1>1 DEF ServedInv, ServedAsAsked
<1>2. ASSUME NEW kind \in {"string", "object"}, NEW method \in Methods, minnet_client(kind, method)
      PROVE  ServedAsAsked'
  <2>1. req = Nothing /\ served' = served
    BY <1>2 DEF minnet_client
  <2>2. served' = Nothing
    BY <2>1 DEF ServedInv, ReqInv
  <2> QED BY <2>2 DEF ServedAsAsked
<1>3. ASSUME NEW named \in BOOLEAN, Serve(named) PROVE ServedAsAsked'
  <2>1. PICK u, method : u = req.request.url /\ method = req.sent
    OBVIOUS
  <2>2. /\ u.path \in Path
        /\ url_info(u).protocol # "http" => method = "GET"
    BY <1>3, <2>1 DEF Serve, ServedInv, ReqInv
  <2>3. PICK w : w = Received(url_info(u), method, named)
    OBVIOUS
  <2>4. /\ Reaches(url_info(u)) /\ req' = req
        /\ served' = IF w.protocol = "http" THEN FilterHttpConnection(w) ELSE ConfirmUpgrade(w)
    BY <1>3, <2>1, <2>3 DEF Serve
  <2>5. AsAsked(u, method, served')
    BY <2>2, <2>3, <2>4, ServesAsAsked
  <2>6. req'.request.url = u /\ req'.sent = method
    BY <2>1, <2>4
  <2> QED BY <2>5, <2>6 DEF ServedAsAsked, AsAsked
<1>4. CASE GetQuery
  BY <1>1, <1>4 DEF GetQuery
<1>5. CASE minnet_url_set
  <2>1. req' = req /\ served' = served
    BY <1>5 DEF minnet_url_set, SetProtocol, SetHostname, SetPort, SetPathname, SetQuery,
                SetQueryObject, SetQueryNull, Setting
  <2> QED BY <1>1, <2>1
<1> QED BY <1>2, <1>3, <1>4, <1>5 DEF Next

\* A server's Request says what the client asked for, for any protocols, ports, methods
\* and number of calls, whatever a script set before (url_fromwsi, request_fromwsi).
THEOREM ServesWhatWasAsked == Spec => []ServedAsAsked
<1>1. Init => ServedInv
  BY InitUrl DEF Init, ServedInv, ReqInv, ServedAsAsked
<1>2. ServedInv /\ [Next]_vars => ServedInv'
  <2> SUFFICES ASSUME ServedInv, [Next]_vars PROVE ServedInv'
    OBVIOUS
  <2>1. url' \in Urls
    BY UrlNext DEF UrlStays, ServedInv
  <2>2. CASE Next
    <3>1. ReqInv'
      BY <2>2, ReqStays DEF ServedInv
    <3>2. ServedAsAsked'
      BY <2>2, ServedNext
    <3> QED BY <2>1, <3>1, <3>2 DEF ServedInv
  <2>3. CASE UNCHANGED vars
    BY <2>1, <2>3 DEF vars, ServedInv, ReqInv, ServedAsAsked
  <2> QED BY <2>2, <2>3
<1>3. ServedInv => ServedAsAsked
  BY DEF ServedInv
<1> QED BY <1>1, <1>2, <1>3, PTL DEF Spec
=============================================================================
