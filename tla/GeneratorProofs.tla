--------------------------- MODULE GeneratorProofs ---------------------------
(***************************************************************************)
(* Proofs about Generator, for any bounds and chunk size, and the callers  *)
(* that use a generator as it is meant (Usual).  Every byte that was sent  *)
(* is where it belongs (Flow), and readers are served (Ready); who asks    *)
(* for the text has one chunk that gathers it (Text...).                   *)
(***************************************************************************)
EXTENDS Generator, AsyncIterator, SequenceTheorems, WellFoundedInduction, TLAPS


-----------------------------------------------------------------------------
\* Sequences of sequences.

\* A set of numbers that is not empty has a least one.
LEMMA LeastNat ==
  ASSUME NEW T, T \subseteq Nat, T # {}
  PROVE  \E n \in T : \A m \in T : n =< m
<1>1. PICK n \in T : \A m \in T : ~(<<m, n>> \in OpToRel(<, Nat))
  BY NatLessThanWellFounded, WFMin
<1>2. \A m \in T : ~(m < n)
  BY <1>1 DEF OpToRel
<1> QED BY <1>2

\* f gives what the first elements of s join to (the function FlattenSeq defines).
Joins(s, f) ==
  f = [i \in 1 .. Len(s) |-> IF i = 1 THEN s[i] ELSE f[i - 1] \o s[i]]

\* The first n elements of s join.
LEMMA JoinsPrefix ==
  ASSUME NEW S, NEW s \in Seq(Seq(S)), NEW n \in 1 .. Len(s)
  PROVE  \E h \in [1 .. n -> Seq(S)] :
           \A i \in 1 .. n : h[i] = IF i = 1 THEN s[i] ELSE h[i - 1] \o s[i]
<1> DEFINE Ok(k) == \E h \in [1 .. k -> Seq(S)] :
                      \A i \in 1 .. k : h[i] = IF i = 1 THEN s[i] ELSE h[i - 1] \o s[i]
           T == {k \in 1 .. Len(s) : ~Ok(k)}
<1>0. Len(s) \in Nat /\ \A i \in 1 .. Len(s) : s[i] \in Seq(S)
  OBVIOUS
<1> SUFFICES ASSUME T # {} PROVE FALSE
  OBVIOUS
<1>1. PICK k \in T : \A m \in T : k =< m
  <2>1. T \subseteq Nat
    BY <1>0
  <2> HIDE DEF T
  <2> QED BY <2>1, LeastNat
<1>2. k \in 1 .. Len(s) /\ ~Ok(k)
  BY <1>1
<1>3. CASE k = 1
  <2> DEFINE h == [i \in 1 .. 1 |-> s[1]]
  <2>1. h \in [1 .. 1 -> Seq(S)]
    BY <1>0, <1>2, <1>3
  <2>2. \A i \in 1 .. 1 : h[i] = IF i = 1 THEN s[i] ELSE h[i - 1] \o s[i]
    OBVIOUS
  <2> QED BY <1>2, <1>3, <2>1, <2>2
<1>4. CASE k # 1
  <2>1. k - 1 \in 1 .. Len(s) /\ k \in Nat /\ k - 1 < k /\ k > 1
    BY <1>0, <1>2, <1>4
  <2>2. Ok(k - 1)
    <3>1. ~(k =< k - 1)
      BY <2>1
    <3> QED BY <1>1, <2>1, <3>1
  <2>3. PICK h \in [1 .. k - 1 -> Seq(S)] :
          \A i \in 1 .. k - 1 : h[i] = IF i = 1 THEN s[i] ELSE h[i - 1] \o s[i]
    BY <2>2
  <2> DEFINE e == h[k - 1] \o s[k]
             f == [i \in 1 .. k |-> IF i = k THEN e ELSE h[i]]
  <2>4. e \in Seq(S)
    <3>1. h[k - 1] \in Seq(S) /\ s[k] \in Seq(S)
      BY <1>0, <1>2, <2>1
    <3> QED BY <3>1, ConcatProperties
  <2> HIDE DEF e
  <2>5. \A i \in 1 .. k : i # k => i \in 1 .. k - 1
    BY <2>1
  <2>6. f \in [1 .. k -> Seq(S)]
    BY <2>4, <2>5
  <2>7. \A i \in 1 .. k : f[i] = IF i = 1 THEN s[i] ELSE f[i - 1] \o s[i]
    <3> SUFFICES ASSUME NEW i \in 1 .. k
                 PROVE  f[i] = IF i = 1 THEN s[i] ELSE f[i - 1] \o s[i]
      OBVIOUS
    <3>1. CASE i = k
      <4>1. f[i] = e /\ i # 1 /\ i - 1 \in 1 .. k /\ i - 1 # k
        BY <2>1, <3>1
      <4>2. f[i - 1] = h[k - 1]
        BY <3>1, <4>1
      <4> QED BY <3>1, <4>1, <4>2 DEF e
    <3>2. CASE i # k
      <4>1. f[i] = h[i] /\ i \in 1 .. k - 1
        BY <2>5, <3>2
      <4>2. i # 1 => i - 1 \in 1 .. k /\ i - 1 # k
        BY <2>1, <4>1
      <4>3. i # 1 => f[i - 1] = h[i - 1]
        BY <4>2
      <4> QED BY <2>3, <4>1, <4>3
    <3> QED BY <3>1, <3>2
  <2> HIDE DEF f
  <2>8. Ok(k)
    BY <2>6, <2>7
  <2> QED BY <1>2, <2>8
<1> QED BY <1>3, <1>4

\* A sequence has a function that joins it, whose values are sequences.
LEMMA JoinsExist ==
  ASSUME NEW S, NEW s \in Seq(Seq(S)), s # <<>>
  PROVE  \E f \in [1 .. Len(s) -> Seq(S)] : Joins(s, f)
<1>1. Len(s) \in 1 .. Len(s)
  BY EmptySeq
<1>2. PICK n : n = Len(s) /\ n \in 1 .. Len(s)
  BY <1>1
<1>3. PICK f \in [1 .. n -> Seq(S)] :
        \A i \in 1 .. n : f[i] = IF i = 1 THEN s[i] ELSE f[i - 1] \o s[i]
  <2>1. \A k \in 1 .. Len(s) : \E h \in [1 .. k -> Seq(S)] :
          \A i \in 1 .. k : h[i] = IF i = 1 THEN s[i] ELSE h[i - 1] \o s[i]
    BY JoinsPrefix
  <2> QED BY <1>2, <2>1
<1>4. f = [i \in 1 .. n |-> IF i = 1 THEN s[i] ELSE f[i - 1] \o s[i]]
  BY <1>3
<1> QED BY <1>2, <1>4 DEF Joins

\* s and t are the same up to n.
SameTo(n, s, t) == \A i \in 1 .. n : s[i] = t[i]

\* Functions that join two sequences join what they have in common alike.
LEMMA JoinsAlike ==
  ASSUME NEW s, NEW f, NEW t, NEW e, Len(s) \in Nat, Len(t) \in Nat,
         Joins(s, f), Joins(t, e), NEW n \in Nat, n =< Len(s), n =< Len(t),
         SameTo(n, s, t), NEW j \in 1 .. n
  PROVE  f[j] = e[j]
<1> DEFINE T == {k \in 1 .. n : f[k] # e[k]}
<1>1. \A i \in 1 .. n : /\ i \in 1 .. Len(s) /\ i \in 1 .. Len(t)
                        /\ i # 1 => i - 1 \in 1 .. n
  OBVIOUS
<1> SUFFICES ASSUME T # {} PROVE FALSE
  OBVIOUS
<1>2. PICK k \in T : \A m \in T : k =< m
  <2>1. T \subseteq Nat
    OBVIOUS
  <2> HIDE DEF T
  <2> QED BY <2>1, LeastNat
<1>3. k \in 1 .. n /\ f[k] # e[k]
  BY <1>2
<1>4. /\ f[k] = IF k = 1 THEN s[k] ELSE f[k - 1] \o s[k]
      /\ e[k] = IF k = 1 THEN t[k] ELSE e[k - 1] \o t[k]
  BY <1>1, <1>3 DEF Joins
<1>6. s[k] = t[k]
  BY <1>3 DEF SameTo
<1>5. k # 1 => f[k - 1] = e[k - 1]
  <2>1. ~(k =< k - 1)
    BY <1>3
  <2> QED BY <1>1, <1>2, <1>3, <2>1
<1> QED BY <1>3, <1>4, <1>5, <1>6

\* What a sequence joins to.
LEMMA Flattened ==
  ASSUME NEW S, NEW s \in Seq(Seq(S)), NEW f, Joins(s, f), s # <<>>
  PROVE  FlattenSeq(s) = f[Len(s)]
<1> DEFINE flatten == CHOOSE h : h = [i \in 1 .. Len(s) |-> IF i = 1 THEN s[i] ELSE h[i - 1] \o s[i]]
<1>1. Len(s) \in Nat /\ Len(s) # 0
  BY EmptySeq
<1>2. FlattenSeq(s) = flatten[Len(s)]
  BY <1>1, SMTT(60) DEF FlattenSeq
<1>3. flatten = [i \in 1 .. Len(s) |-> IF i = 1 THEN s[i] ELSE flatten[i - 1] \o s[i]]
  BY ZenonT(60) DEF Joins
<1> HIDE DEF flatten
<1>4. Joins(s, flatten)
  BY <1>3 DEF Joins
<1>5. flatten[Len(s)] = f[Len(s)]
  <2>1. Len(s) \in 1 .. Len(s)
    BY <1>1
  <2>2. SameTo(Len(s), s, s) /\ Len(s) =< Len(s)
    BY <1>1 DEF SameTo
  <2> QED BY <1>1, <1>4, <2>1, <2>2, JoinsAlike
<1> QED BY <1>2, <1>5

\* Nothing joins to nothing, and what is joined is a sequence.
LEMMA FlattenIsSeq ==
  ASSUME NEW S, NEW s \in Seq(Seq(S))
  PROVE  FlattenSeq(s) \in Seq(S) /\ (s = <<>> => FlattenSeq(s) = <<>>)
<1>1. CASE s = <<>>
  <2>1. Len(s) = 0
    BY <1>1
  <2>2. FlattenSeq(s) = s
    BY <2>1 DEF FlattenSeq
  <2> QED BY <1>1, <2>2, EmptySeq
<1>2. CASE s # <<>>
  <2>1. PICK f \in [1 .. Len(s) -> Seq(S)] : Joins(s, f)
    BY <1>2, JoinsExist
  <2>2. Len(s) \in 1 .. Len(s)
    BY <1>2, EmptySeq
  <2>3. FlattenSeq(s) = f[Len(s)]
    BY <1>2, <2>1, Flattened
  <2> QED BY <1>2, <2>1, <2>2, <2>3
<1> QED BY <1>1, <1>2

\* A sequence one longer than another, and the same as it up to there, joins to
\* what the other does and its last element.
LEMMA JoinsOneMore ==
  ASSUME NEW S, NEW s \in Seq(Seq(S)), NEW t \in Seq(Seq(S)),
         Len(t) = Len(s) + 1, SameTo(Len(s), s, t),
         NEW f, NEW e, Joins(s, f), Joins(t, e)
  PROVE  e[Len(t)] = IF s = <<>> THEN t[Len(t)] ELSE f[Len(s)] \o t[Len(t)]
<1>1. PICK k : k = Len(t)
  OBVIOUS
<1>2. k \in 1 .. Len(t) /\ k - 1 = Len(s) /\ (s = <<>> <=> k = 1)
  BY <1>1, EmptySeq
<1>3. e[k] = IF k = 1 THEN t[k] ELSE e[k - 1] \o t[k]
  BY <1>2 DEF Joins
<1>4. s # <<>> => f[Len(s)] = e[Len(s)]
  <2> SUFFICES ASSUME s # <<>> PROVE f[Len(s)] = e[Len(s)]
    OBVIOUS
  <2>1. PICK n : n = Len(s)
    OBVIOUS
  <2>2. Len(s) \in Nat /\ Len(t) \in Nat /\ n \in Nat /\ n =< Len(s) /\ n =< Len(t)
    BY <2>1
  <2>3. n \in 1 .. n
    BY <1>2, <2>1, <2>2
  <2>4. SameTo(n, s, t)
    BY <2>1
  <2>5. \A j \in 1 .. n : f[j] = e[j]
    BY <2>2, <2>4, JoinsAlike, SMTT(60)
  <2> QED BY <2>1, <2>3, <2>5
<1> QED BY <1>1, <1>2, <1>3, <1>4

\* An element behind the others is joined behind them.
LEMMA FlattenAppend ==
  ASSUME NEW S, NEW s \in Seq(Seq(S)), NEW x \in Seq(S)
  PROVE  FlattenSeq(Append(s, x)) = FlattenSeq(s) \o x
<1>1. PICK t : t = Append(s, x)
  OBVIOUS
<1>2. /\ t \in Seq(Seq(S)) /\ Len(t) = Len(s) + 1 /\ t # <<>>
      /\ t[Len(t)] = x /\ SameTo(Len(s), s, t)
  <2>1. /\ t \in Seq(Seq(S)) /\ Len(t) = Len(s) + 1 /\ t[Len(s) + 1] = x
        /\ \A i \in 1 .. Len(s) : s[i] = t[i]
    BY <1>1, AppendProperties
  <2> QED BY <2>1, EmptySeq DEF SameTo
<1>3. PICK e : Joins(t, e)
  BY <1>2, JoinsExist
<1>4. FlattenSeq(t) = e[Len(t)]
  BY <1>2, <1>3, Flattened
<1>5. CASE s = <<>>
  <2>1. FlattenSeq(s) = <<>>
    BY <1>5, FlattenIsSeq
  <2>2. <<>> \o x = x
    BY ConcatEmptySeq
  <2>3. PICK f : f = [i \in 1 .. Len(s) |-> s[i]]
    OBVIOUS
  <2>4. \A i : i \notin 1 .. Len(s)
    BY <1>5
  <2>5. Joins(s, f)
    BY <2>3, <2>4 DEF Joins
  <2>6. e[Len(t)] = t[Len(t)]
    BY <1>2, <1>3, <1>5, <2>5, JoinsOneMore
  <2> QED BY <1>1, <1>2, <1>4, <2>1, <2>2, <2>6
<1>6. CASE s # <<>>
  <2>1. PICK f : Joins(s, f)
    BY <1>6, JoinsExist
  <2>2. FlattenSeq(s) = f[Len(s)]
    BY <1>6, <2>1, Flattened
  <2>3. e[Len(t)] = f[Len(s)] \o t[Len(t)]
    BY <1>2, <1>3, <1>6, <2>1, JoinsOneMore
  <2> QED BY <1>1, <1>2, <1>4, <2>2, <2>3
<1> QED BY <1>5, <1>6

\* What holds of 0, and of each number if it does of the one before, holds of all.
LEMMA Counting ==
  ASSUME NEW N \in Nat, NEW T, 0 \in T, \A n \in 1 .. N : n - 1 \in T => n \in T
  PROVE  \A n \in 0 .. N : n \in T
<1> DEFINE F == {n \in 0 .. N : n \notin T}
<1> SUFFICES ASSUME F # {} PROVE FALSE
  OBVIOUS
<1>1. PICK n \in F : \A m \in F : n =< m
  <2>1. F \subseteq Nat
    OBVIOUS
  <2> HIDE DEF F
  <2> QED BY <2>1, LeastNat
<1>2. n \in 1 .. N /\ n \notin T
  BY <1>1
<1>3. n - 1 \in 0 .. N /\ ~(n =< n - 1)
  BY <1>2
<1>4. n - 1 \in T
  BY <1>1, <1>3
<1> QED BY <1>2, <1>4

\* One sequence is joined to itself.
LEMMA FlattenOne ==
  ASSUME NEW S, NEW x \in Seq(S)
  PROVE  FlattenSeq(<<x>>) = x
<1>1. <<>> \in Seq(Seq(S)) /\ <<x>> = Append(<<>>, x)
  OBVIOUS
<1>2. FlattenSeq(<<x>>) = FlattenSeq(<<>>) \o x
  BY <1>1, FlattenAppend
<1>3. FlattenSeq(<<>>) = <<>>
  BY <1>1, FlattenIsSeq
<1> QED BY <1>2, <1>3, ConcatEmptySeq

\* A prefix of a sequence is one.
LEMMA Prefix ==
  ASSUME NEW S, NEW s \in Seq(S), NEW n \in 0 .. Len(s)
  PROVE  /\ SubSeq(s, 1, n) \in Seq(S) /\ Len(SubSeq(s, 1, n)) = n
         /\ \A i \in 1 .. n : SubSeq(s, 1, n)[i] = s[i]
<1>1. n \in Int /\ 1 \in Int /\ \A i \in 1 .. n : s[i] \in S
  OBVIOUS
<1> QED BY <1>1, SubSeqProperties

\* Three sequences.
LEMMA Associative ==
  \A S : \A s, t, u \in Seq(S) : (s \o t) \o u = s \o (t \o u)
BY ConcatAssociative

\* What two sequences join to is what one and the other do.
LEMMA FlattenConcat ==
  ASSUME NEW S, NEW s \in Seq(Seq(S)), NEW t \in Seq(Seq(S))
  PROVE  FlattenSeq(s \o t) = FlattenSeq(s) \o FlattenSeq(t)
<1>a. \A u, v, w \in Seq(S) : (u \o v) \o w = u \o (v \o w)
  BY Associative
<1> DEFINE Pre(n) == SubSeq(t, 1, n)
           Joined(u) == FlattenSeq(s \o u) = FlattenSeq(s) \o FlattenSeq(u)
           T == {n \in 0 .. Len(t) : Joined(Pre(n))}
<1>0. Len(t) \in Nat
  OBVIOUS
<1>1. PICK x \in Seq(S) : x = FlattenSeq(s)
  BY FlattenIsSeq
<1>2. 0 \in T
  <2>1. Pre(0) = <<>>
    BY SubSeqEmpty
  <2>2. s \o <<>> = s /\ x \o <<>> = x /\ FlattenSeq(<<>>) = <<>>
    BY <1>1, ConcatEmptySeq, FlattenIsSeq, EmptySeq
  <2>3. Joined(<<>>)
    BY <1>1, <2>2
  <2> HIDE DEF Joined, Pre
  <2> QED BY <1>0, <2>1, <2>3
<1>3. ASSUME NEW n \in 1 .. Len(t), n - 1 \in T
      PROVE  n \in T
  <2>1. PICK u \in Seq(Seq(S)) : u = Pre(n - 1)
    <3>1. n - 1 \in 0 .. Len(t)
      BY <1>0
    <3> QED BY <3>1, Prefix
  <2>2. t[n] \in Seq(S)
    OBVIOUS
  <2>3. Pre(n) = Append(u, t[n])
    <3>1. Pre(n) = u \o <<t[n]>>
      <4>1. 1 \in 1 .. Len(t) /\ n \in 1 .. Len(t)
        BY <1>0
      <4> QED BY <2>1, <4>1, SubSeqRecursiveSecond
    <3> QED BY <2>1, <2>2, <3>1, AppendIsConcat
  <2>4. s \o Append(u, t[n]) = Append(s \o u, t[n]) /\ s \o u \in Seq(Seq(S))
    BY <2>1, <2>2, SMTT(60)
  <2>5. FlattenSeq(Append(s \o u, t[n])) = FlattenSeq(s \o u) \o t[n]
    BY <2>2, <2>4, FlattenAppend
  <2>6. PICK y \in Seq(S) : y = FlattenSeq(u)
    BY <2>1, FlattenIsSeq
  <2>7. FlattenSeq(Append(u, t[n])) = y \o t[n]
    BY <2>1, <2>2, <2>6, FlattenAppend
  <2>8. FlattenSeq(s \o u) = x \o y
    <3>1. Joined(u)
      <4> HIDE DEF Joined
      <4> QED BY <1>3, <2>1
    <3> QED BY <1>1, <2>6, <3>1
  <2>9. (x \o y) \o t[n] = x \o (y \o t[n])
    BY <1>1, <1>a, <2>2, <2>6, ZenonT(60)
  <2>10. Joined(Append(u, t[n]))
    BY <1>1, <2>4, <2>5, <2>7, <2>8, <2>9
  <2>11. n \in 0 .. Len(t)
    BY <1>0
  <2> HIDE DEF Joined, Pre
  <2> QED BY <2>3, <2>10, <2>11
<1>4. Len(t) \in T
  <2>1. Len(t) \in 0 .. Len(t)
    BY <1>0
  <2> HIDE DEF T
  <2> QED BY <1>0, <1>2, <1>3, <2>1, Counting
<1>5. Pre(Len(t)) = t
  BY SubSeqFull
<1>6. Joined(t)
  <2> HIDE DEF Joined, Pre
  <2> QED BY <1>4, <1>5
<1> QED BY <1>6

\* What is in one of the sequences is in what they join to.
LEMMA FlattenHas ==
  ASSUME NEW S, NEW s \in Seq(Seq(S)), NEW i \in 1 .. Len(s), NEW j \in 1 .. Len(s[i])
  PROVE  \E k \in 1 .. Len(FlattenSeq(s)) : FlattenSeq(s)[k] = s[i][j]
<1>0. Len(s) \in Nat /\ s[i] \in Seq(S) /\ \A k \in 1 .. Len(s) : s[k] \in Seq(S)
  OBVIOUS
<1>1. PICK a \in Seq(Seq(S)), b \in Seq(Seq(S)) :
        a = SubSeq(s, 1, i - 1) /\ b = SubSeq(s, i + 1, Len(s))
  <2>1. SubSeq(s, 1, i - 1) \in Seq(Seq(S))
    BY <1>0, SubSeqProperties
  <2>2. SubSeq(s, i + 1, Len(s)) \in Seq(Seq(S))
    BY <1>0, SubSeqProperties
  <2> QED BY <2>1, <2>2
<1>2. s = a \o (<<s[i]>> \o b)
  <2>1. SubSeq(s, i, Len(s)) = <<s[i]>> \o b
    BY <1>0, <1>1, SubSeqRecursiveFirst, SMTT(60)
  <2>2. SubSeq(s, 1, i - 1) \o SubSeq(s, i, Len(s)) = SubSeq(s, 1, Len(s))
    <3>1. PICK k : k = i - 1
      OBVIOUS
    <3>2. k \in 1 - 1 .. Len(s) /\ Len(s) \in k .. Len(s) /\ 1 \in 1 .. Len(s) + 1 /\ k + 1 = i
      BY <1>0, <3>1
    <3>3. SubSeq(s, 1, k) \o SubSeq(s, k + 1, Len(s)) = SubSeq(s, 1, Len(s))
      BY <3>2, ConcatAdjacentSubSeq
    <3> QED BY <3>1, <3>2, <3>3
  <2> QED BY <1>1, <2>1, <2>2, SubSeqFull
<1>3. PICK x \in Seq(S), y \in Seq(S) : x = FlattenSeq(a) /\ y = FlattenSeq(b)
  BY FlattenIsSeq
<1>4. FlattenSeq(s) = x \o (s[i] \o y)
  <2>1. <<s[i]>> \in Seq(Seq(S)) /\ <<s[i]>> \o b \in Seq(Seq(S))
    BY <1>0
  <2>2. FlattenSeq(s) = x \o FlattenSeq(<<s[i]>> \o b)
    BY <1>2, <1>3, <2>1, FlattenConcat
  <2>3. FlattenSeq(<<s[i]>> \o b) = FlattenSeq(<<s[i]>>) \o y
    BY <1>3, <2>1, FlattenConcat
  <2>4. FlattenSeq(<<s[i]>>) = s[i]
    BY <1>0, FlattenOne
  <2> QED BY <2>2, <2>3, <2>4
<1>5. PICK z \in Seq(S) : z = s[i] \o y /\ Len(z) = Len(s[i]) + Len(y) /\ z[j] = s[i][j]
  <2>1. PICK w \in Seq(S) : w = s[i]
    BY <1>0
  <2>2. w \o y \in Seq(S) /\ Len(w \o y) = Len(w) + Len(y)
    BY <1>3, <2>1, ConcatProperties
  <2>3. (w \o y)[j] = w[j]
    <3>1. j \in 1 .. Len(w) + Len(y) /\ j =< Len(w)
      BY <1>3, <2>1
    <3> QED BY <1>3, <2>1, <3>1, ConcatProperties
  <2> QED BY <2>1, <2>2, <2>3
<1>6. PICK k : k = Len(x) + j
  OBVIOUS
<1>7. k \in 1 .. Len(x \o z) /\ (x \o z)[k] = z[j]
  BY <1>0, <1>5, <1>6, ConcatProperties, SMTT(60)
<1> QED BY <1>4, <1>5, <1>7

-----------------------------------------------------------------------------
\* What was sent and where it is.

\* What the readers were given, what is in the queue, whose callbacks were called:
\* with n bytes sent, all there is is in order, until the end nothing is missing, and
\* what was notified has left the queue.
Flow(given, data, notified, n, over) ==
  /\ given \in Seq(Nat) /\ data \in Seq(Nat) /\ notified \in Seq(Nat)
  /\ Increasing(given \o data)
  /\ \A i \in 1 .. Len(given \o data) : (given \o data)[i] \in 1 .. n
  /\ ~over => given \o data = [i \in 1 .. n |-> i]
  /\ \A k \in 1 .. Len(notified) :
       notified[k] \in 1 .. n /\ \A i \in 1 .. Len(data) : data[i] # notified[k]

\* The next m bytes, and those of a generator to which n were sent.
After(n, m) == [i \in 1 .. m |-> n + i]

\* a is s and t behind it.
Cat(s, t, a) ==
  /\ a \in Seq(Nat) /\ Len(a) = Len(s) + Len(t)
  /\ \A i \in 1 .. Len(s) : i \in 1 .. Len(a) /\ a[i] = s[i]
  /\ \A i \in 1 .. Len(t) : Len(s) + i \in 1 .. Len(a) /\ a[Len(s) + i] = t[i]
  /\ \A i \in 1 .. Len(a) : i \in 1 .. Len(s) \/ \E j \in 1 .. Len(t) : i = Len(s) + j

\* Where an element of two sequences is.
LEMMA Halves ==
  ASSUME NEW s \in Seq(Nat), NEW t \in Seq(Nat)
  PROVE  Cat(s, t, s \o t)
<1>1. PICK u : u = s \o t
  OBVIOUS
<1>2. u \in Seq(Nat) /\ Len(u) = Len(s) + Len(t) /\ Len(s) \in Nat /\ Len(t) \in Nat
  BY <1>1, ConcatProperties
<1>3. \A i \in 1 .. Len(s) + Len(t) : u[i] = IF i =< Len(s) THEN s[i] ELSE t[i - Len(s)]
  BY <1>1, ConcatProperties
<1>4. \A i \in 1 .. Len(s) : i \in 1 .. Len(u) /\ u[i] = s[i]
  BY <1>2, <1>3
<1>5. ASSUME NEW i \in 1 .. Len(t)
      PROVE  Len(s) + i \in 1 .. Len(u) /\ u[Len(s) + i] = t[i]
  <2>1. PICK k : k = Len(s) + i
    OBVIOUS
  <2>2. k \in 1 .. Len(s) + Len(t) /\ ~(k =< Len(s)) /\ k - Len(s) = i
    BY <1>2, <2>1, SMTT(60)
  <2> QED BY <1>2, <1>3, <2>1, <2>2
<1>6. ASSUME NEW i \in 1 .. Len(u)
      PROVE  i \in 1 .. Len(s) \/ \E j \in 1 .. Len(t) : i = Len(s) + j
  <2>1. ASSUME i \notin 1 .. Len(s)
        PROVE  i - Len(s) \in 1 .. Len(t) /\ i = Len(s) + (i - Len(s))
    BY <1>2, <2>1
  <2> QED BY <2>1
<1> QED BY <1>1, <1>2, <1>4, <1>5, <1>6 DEF Cat

\* What Flow says of all that is there.
Sorted(a, n, over) ==
  /\ a \in Seq(Nat) /\ Increasing(a) /\ \A i \in 1 .. Len(a) : a[i] \in 1 .. n
  /\ ~over => a = [i \in 1 .. n |-> i]

Left(data, notified, n) ==
  \A k \in 1 .. Len(notified) :
    notified[k] \in 1 .. n /\ \A i \in 1 .. Len(data) : data[i] # notified[k]

\* Its parts.
LEMMA FlowParts ==
  ASSUME NEW given, NEW data, NEW notified, NEW n, NEW over
  PROVE  Flow(given, data, notified, n, over) <=>
           /\ given \in Seq(Nat) /\ data \in Seq(Nat) /\ notified \in Seq(Nat)
           /\ Sorted(given \o data, n, over)
           /\ Left(data, notified, n)
<1>1. given \in Seq(Nat) /\ data \in Seq(Nat) => given \o data \in Seq(Nat)
  BY ConcatProperties
<1> QED BY <1>1 DEF Flow, Sorted, Left

\* Less of what is there.
LEMMA FlowCut ==
  ASSUME NEW given, NEW data, NEW notified, NEW n \in Nat, NEW k \in 0 .. Len(data),
         NEW over, over, Flow(given, data, notified, n, over)
  PROVE  Flow(given, SubSeq(data, 1, k), notified, n, over)
<1>1. given \in Seq(Nat) /\ data \in Seq(Nat) /\ notified \in Seq(Nat)
  BY FlowParts
<1>2. Sorted(given \o data, n, over) /\ Left(data, notified, n)
  BY FlowParts
<1>3. PICK d : d = SubSeq(data, 1, k)
  OBVIOUS
<1>4. d \in Seq(Nat) /\ Len(d) = k /\ \A i \in 1 .. k : d[i] = data[i]
  BY <1>1, <1>3, Prefix
<1>5. PICK a : a = given \o data /\ Cat(given, data, a)
  BY <1>1, Halves
<1>6. PICK b : b = given \o d /\ Cat(given, d, b)
  BY <1>1, <1>4, Halves
<1>7. Len(given) \in Nat /\ Len(data) \in Nat /\ 1 .. k \subseteq 1 .. Len(data)
  BY <1>1
<1>8. \A i \in 1 .. Len(b) : i \in 1 .. Len(a) /\ b[i] = a[i]
  <2> SUFFICES ASSUME NEW i \in 1 .. Len(b) PROVE i \in 1 .. Len(a) /\ b[i] = a[i]
    OBVIOUS
  <2>1. CASE i \in 1 .. Len(given)
    BY <1>5, <1>6, <2>1 DEF Cat
  <2>2. CASE \E j \in 1 .. Len(d) : i = Len(given) + j
    <3>1. PICK j \in 1 .. Len(d) : i = Len(given) + j
      BY <2>2
    <3>2. j \in 1 .. Len(data) /\ d[j] = data[j]
      BY <1>4, <1>7
    <3>3. b[i] = d[j]
      BY <1>6, <3>1 DEF Cat
    <3>4. i \in 1 .. Len(a) /\ a[i] = data[j]
      BY <1>5, <3>1, <3>2 DEF Cat
    <3> QED BY <3>2, <3>3, <3>4
  <2> QED BY <1>6, <2>1, <2>2 DEF Cat
<1>9. Sorted(b, n, over)
  <2>1. /\ Increasing(a) /\ \A i \in 1 .. Len(a) : a[i] \in 1 .. n
        /\ a \in Seq(Nat) /\ b \in Seq(Nat)
    BY <1>2, <1>5, <1>6 DEF Sorted, Cat
  <2>2. Increasing(b)
    BY <1>8, <2>1 DEF Increasing
  <2> QED BY <1>8, <2>1, <2>2 DEF Sorted
<1>10. Left(d, notified, n)
  BY <1>2, <1>4, <1>7 DEF Left
<1> QED BY <1>1, <1>3, <1>4, <1>6, <1>9, <1>10, FlowParts

\* All that is there, and m bytes more.
LEMMA SortedMore ==
  ASSUME NEW a, NEW n \in Nat, NEW over, NEW m \in Nat, NEW c, NEW b,
         Sorted(a, n, over), c \in Seq(Nat), Len(c) = m, \A i \in 1 .. m : c[i] = n + i,
         Cat(a, c, b)
  PROVE  Sorted(b, n + m, over)
<1>1. a \in Seq(Nat) /\ Increasing(a) /\ \A i \in 1 .. Len(a) : a[i] \in 1 .. n
  BY DEF Sorted
<1>2. Len(a) \in Nat /\ b \in Seq(Nat) /\ Len(b) = Len(a) + m
  BY <1>1 DEF Cat
<1>3. \A i \in 1 .. Len(b) : \/ i \in 1 .. Len(a) /\ b[i] = a[i] /\ b[i] \in 1 .. n
                             \/ \E j \in 1 .. m : i = Len(a) + j /\ b[i] = n + j
  <2> SUFFICES ASSUME NEW i \in 1 .. Len(b)
               PROVE  \/ i \in 1 .. Len(a) /\ b[i] = a[i] /\ b[i] \in 1 .. n
                      \/ \E j \in 1 .. m : i = Len(a) + j /\ b[i] = n + j
    OBVIOUS
  <2>1. CASE i \in 1 .. Len(a)
    BY <1>1, <2>1 DEF Cat
  <2>2. CASE \E j \in 1 .. Len(c) : i = Len(a) + j
    <3>1. PICK j \in 1 .. Len(c) : i = Len(a) + j
      BY <2>2
    <3>2. b[i] = c[j] /\ c[j] = n + j
      BY <3>1 DEF Cat
    <3> QED BY <3>1, <3>2
  <2> QED BY <2>1, <2>2 DEF Cat
<1>4. Increasing(b)
  <2> SUFFICES ASSUME NEW i \in 1 .. Len(b), NEW j \in 1 .. Len(b), i < j
               PROVE  b[i] < b[j]
    BY DEF Increasing
  <2>1. CASE j \in 1 .. Len(a)
    <3>1. i \in 1 .. Len(a)
      BY <1>2, <2>1
    <3>2. b[i] = a[i] /\ b[j] = a[j]
      BY <2>1, <3>1 DEF Cat
    <3> QED BY <1>1, <2>1, <3>1, <3>2 DEF Increasing
  <2>2. ASSUME NEW l \in 1 .. m, j = Len(a) + l /\ b[j] = n + l
        PROVE  b[i] < b[j]
    <3>1. CASE b[i] \in 1 .. n
      BY <2>2, <3>1
    <3>2. CASE \E k \in 1 .. m : i = Len(a) + k /\ b[i] = n + k
      <4>1. PICK k \in 1 .. m : i = Len(a) + k /\ b[i] = n + k
        BY <3>2
      <4> QED BY <1>2, <2>2, <4>1
    <3> QED BY <1>3, <3>1, <3>2
  <2> QED BY <1>3, <2>1, <2>2
<1>5. \A i \in 1 .. Len(b) : b[i] \in 1 .. n + m
  BY <1>2, <1>3, SMTT(60)
<1>6. ASSUME ~over
      PROVE  b = [i \in 1 .. n + m |-> i]
  <2>1. a = [i \in 1 .. n |-> i]
    BY <1>6 DEF Sorted
  <2>2. Len(a) = n /\ \A i \in 1 .. n : a[i] = i
    BY <2>1
  <2>3. Len(b) = n + m
    BY <1>2, <2>2
  <2>4. \A i \in 1 .. n + m : b[i] = i
    BY <1>3, <2>2, <2>3
  <2>5. PICK t : t = [i \in 1 .. n + m |-> i]
    OBVIOUS
  <2>6. t \in Seq(Nat) /\ Len(t) = n + m /\ \A i \in 1 .. n + m : t[i] = i
    BY <2>5
  <2>7. t = b
    BY <1>2, <2>3, <2>4, <2>6, SeqEqual
  <2> QED BY <2>5, <2>7
<1> QED BY <1>2, <1>4, <1>5, <1>6 DEF Sorted

\* More is sent, behind the rest.
LEMMA FlowMore ==
  ASSUME NEW given, NEW data, NEW notified, NEW n \in Nat, NEW over, NEW m \in Nat,
         Flow(given, data, notified, n, over)
  PROVE  Flow(given, data \o After(n, m), notified, n + m, over)
<1>1. given \in Seq(Nat) /\ data \in Seq(Nat) /\ notified \in Seq(Nat)
  BY FlowParts
<1>2. Sorted(given \o data, n, over) /\ Left(data, notified, n)
  BY FlowParts
<1>3. PICK c : c = After(n, m)
  OBVIOUS
<1>4. c \in Seq(Nat) /\ Len(c) = m /\ \A i \in 1 .. m : c[i] = n + i
  BY <1>3 DEF After
<1>5. PICK d : d = data \o c /\ Cat(data, c, d)
  BY <1>1, <1>4, Halves
<1>6. d \in Seq(Nat)
  BY <1>5 DEF Cat
<1>7. Sorted(given \o d, n + m, over)
  <2>1. given \o data \in Seq(Nat)
    BY <1>1, ConcatProperties
  <2>2. Cat(given \o data, c, (given \o data) \o c)
    BY <1>4, <2>1, Halves
  <2>3. Sorted((given \o data) \o c, n + m, over)
    BY <1>2, <1>4, <2>2, SortedMore
  <2>4. (given \o data) \o c = given \o (data \o c)
    <3>1. given \in Seq(Nat) /\ data \in Seq(Nat) /\ c \in Seq(Nat)
      BY <1>1, <1>4
    <3> QED BY ONLY <3>1, Associative, SMTT(60)
  <2> QED BY <1>5, <2>3, <2>4
<1>8. Left(d, notified, n + m)
  <2> SUFFICES ASSUME NEW j \in 1 .. Len(notified)
               PROVE  notified[j] \in 1 .. n + m /\ \A i \in 1 .. Len(d) : d[i] # notified[j]
    BY DEF Left
  <2>1. notified[j] \in 1 .. n /\ \A i \in 1 .. Len(data) : data[i] # notified[j]
    BY <1>2 DEF Left
  <2>2. ASSUME NEW i \in 1 .. Len(d)
        PROVE  d[i] # notified[j]
    <3>1. CASE i \in 1 .. Len(data)
      BY <1>5, <2>1, <3>1 DEF Cat
    <3>2. CASE \E l \in 1 .. Len(c) : i = Len(data) + l
      <4>1. PICK l \in 1 .. Len(c) : i = Len(data) + l
        BY <3>2
      <4>2. d[i] = n + l
        BY <1>4, <1>5, <4>1 DEF Cat
      <4> QED BY <1>4, <2>1, <4>1, <4>2
    <3> QED BY <1>5, <3>1, <3>2 DEF Cat
  <2> QED BY <2>1, <2>2
<1> QED BY <1>1, <1>3, <1>5, <1>6, <1>7, <1>8, FlowParts

\* More is sent and refused.
LEMMA FlowDrop ==
  ASSUME NEW given, NEW data, NEW notified, NEW n \in Nat, NEW m \in Nat,
         NEW over, over, Flow(given, data, notified, n, over)
  PROVE  Flow(given, data, notified, n + m, over)
<1>1. 1 .. n \subseteq 1 .. n + m
  OBVIOUS
<1> QED BY <1>1 DEF Flow

\* The generator is ended.
LEMMA FlowOver ==
  ASSUME NEW given, NEW data, NEW notified, NEW n \in Nat, NEW over, NEW end, end,
         Flow(given, data, notified, n, over)
  PROVE  Flow(given, data, notified, n, end)
BY DEF Flow

\* Two elements of what increases are not the same.
LEMMA Apart ==
  ASSUME NEW a \in Seq(Nat), Increasing(a),
         NEW x \in 1 .. Len(a), NEW y \in 1 .. Len(a), x < y
  PROVE  a[x] # a[y]
<1>1. a[x] \in Nat /\ a[y] \in Nat
  OBVIOUS
<1>2. a[x] < a[y]
  BY DEF Increasing
<1> QED BY <1>1, <1>2

\* What is at the front of the queue is given, and its callbacks are called.
LEMMA FlowGive ==
  ASSUME NEW given, NEW notified, NEW n \in Nat, NEW over,
         NEW h \in Seq(Nat), NEW w \in Seq(Nat), NEW calls \in Seq(Nat),
         Flow(given, h \o w, notified, n, over),
         \A k \in 1 .. Len(calls) : \E j \in 1 .. Len(h) : h[j] = calls[k]
  PROVE  Flow(given \o h, w, notified \o calls, n, over)
<1>1. PICK d : d = h \o w /\ Cat(h, w, d)
  BY Halves
<1>2. given \in Seq(Nat) /\ d \in Seq(Nat) /\ notified \in Seq(Nat)
  BY <1>1, FlowParts
<1>3. Sorted(given \o d, n, over) /\ Left(d, notified, n)
  BY <1>1, FlowParts
<1>4. PICK a : a = given \o d /\ Cat(given, d, a)
  BY <1>2, Halves
<1>5. PICK e : e = given \o h /\ Cat(given, h, e)
  BY <1>2, Halves
<1>6. PICK o : o = notified \o calls /\ Cat(notified, calls, o)
  BY <1>2, Halves
<1>7. e \o w = a
  <2>1. given \in Seq(Nat) /\ h \in Seq(Nat) /\ w \in Seq(Nat)
    BY <1>2
  <2>2. (given \o h) \o w = given \o (h \o w)
    BY ONLY <2>1, Associative, SMTT(60)
  <2> QED BY <1>1, <1>4, <1>5, <2>2
<1>8. Len(given) \in Nat /\ Len(h) \in Nat /\ Len(w) \in Nat
  BY <1>2
<1>9. ASSUME NEW j \in 1 .. Len(o)
      PROVE  o[j] \in 1 .. n /\ \A i \in 1 .. Len(w) : w[i] # o[j]
  <2>1. CASE j \in 1 .. Len(notified)
    <3>1. o[j] = notified[j] /\ o[j] \in 1 .. n /\ \A i \in 1 .. Len(d) : d[i] # o[j]
      BY <1>3, <1>6, <2>1 DEF Cat, Left
    <3>2. \A i \in 1 .. Len(w) : \E l \in 1 .. Len(d) : d[l] = w[i]
      BY <1>1 DEF Cat
    <3> QED BY <3>1, <3>2
  <2>2. CASE \E l \in 1 .. Len(calls) : j = Len(notified) + l
    <3>1. PICK l \in 1 .. Len(calls) : j = Len(notified) + l
      BY <2>2
    <3>2. o[j] = calls[l]
      BY <1>6, <3>1 DEF Cat
    <3>3. PICK p \in 1 .. Len(h) : h[p] = o[j]
      BY <3>2
    <3>4. p \in 1 .. Len(d) /\ d[p] = o[j]
      BY <1>1, <3>3 DEF Cat
    <3>5. PICK x : x = Len(given) + p
      OBVIOUS
    <3>8. x \in 1 .. Len(a) /\ a[x] = o[j]
      BY <1>4, <3>4, <3>5 DEF Cat
    <3>6. ASSUME NEW i \in 1 .. Len(w)
          PROVE  w[i] # o[j]
      <4>0. PICK q : q = Len(h) + i
        OBVIOUS
      <4>1. q = Len(h) + i /\ q \in 1 .. Len(d) /\ d[q] = w[i]
        BY <1>1, <4>0 DEF Cat
      <4>2. PICK y : y = Len(given) + q
        OBVIOUS
      <4>5. y \in 1 .. Len(a) /\ a[y] = w[i]
        BY <1>4, <4>1, <4>2 DEF Cat
      <4>3. x < y
        BY <1>8, <3>3, <3>5, <4>1, <4>2, SMTT(60)
      <4>7. Increasing(a) /\ a \in Seq(Nat)
        BY <1>3, <1>4 DEF Sorted, Cat
      <4>4. a[x] # a[y]
        BY <3>8, <4>5, <4>3, <4>7, Apart
      <4> QED BY <3>8, <4>5, <4>4
    <3>7. o[j] \in 1 .. n
      BY <1>3, <1>4, <3>8 DEF Sorted
    <3> QED BY <3>6, <3>7
  <2> QED BY <1>6, <2>1, <2>2 DEF Cat
<1>10. Left(w, o, n)
  BY <1>9 DEF Left
<1>11. e \in Seq(Nat) /\ o \in Seq(Nat)
  BY <1>5, <1>6 DEF Cat
<1>12. Sorted(e \o w, n, over)
  BY <1>3, <1>4, <1>7
<1>13. Flow(e, w, o, n, over)
  BY <1>10, <1>11, <1>12, FlowParts
<1> QED BY <1>5, <1>6, <1>13

\* More is sent and given at once.
LEMMA FlowDirect ==
  ASSUME NEW given, NEW notified, NEW n \in Nat, NEW over, NEW m \in Nat,
         Flow(given, <<>>, notified, n, over)
  PROVE  Flow(given \o After(n, m), <<>>, notified, n + m, over)
<1>1. PICK c : c = After(n, m)
  OBVIOUS
<1>0. c \in Seq(Nat)
  BY <1>1 DEF After
<1>2. <<>> \o c = c /\ c \o <<>> = c /\ <<>> \in Seq(Nat) /\ Len(<<>>) = 0
  BY <1>0, ConcatEmptySeq, EmptySeq
<1>3. Flow(given, c \o <<>>, notified, n + m, over)
  BY <1>1, <1>2, FlowMore
<1>4. PICK none : none = <<>>
  OBVIOUS
<1>5. none \in Seq(Nat) /\ \A k \in 1 .. Len(none) : \E j \in 1 .. Len(c) : c[j] = none[k]
  BY <1>2, <1>4
<1>6. PICK t \in Nat : t = n + m
  OBVIOUS
<1>7. Flow(given, c \o none, notified, t, over)
  BY <1>3, <1>4, <1>6
<1>8. Flow(given \o c, none, notified \o none, t, over)
  BY <1>0, <1>5, <1>7, FlowGive
<1>9. notified \o <<>> = notified
  BY ConcatEmptySeq DEF Flow
<1> QED BY <1>1, <1>4, <1>6, <1>8, <1>9

-----------------------------------------------------------------------------
\* The iterator of a generator.

ResultValues == Seq(Nat) \cup {Undefined}

Results == [promise : Nat, kind : {"value", "done", "rejected"}, value : ResultValues]

\* The results s are no less than those in `was'; before the end they are values,
\* none is one after the end, and while buffering they are `size' bytes long.
Settles(s, was, over, size) ==
  /\ s \in Seq(Results)
  /\ Len(was) =< Len(s) /\ \A i \in 1 .. Len(was) : s[i] = was[i]
  /\ ~over => \A i \in 1 .. Len(s) : s[i].kind = "value"
  /\ \A i, j \in 1 .. Len(s) : i < j /\ s[i].kind # "value" => s[j].kind # "value"
  /\ size # 0 => \A i \in 1 .. Len(s) : s[i].kind = "value" => Len(Bytes(s[i].value)) = size

IterType(iter) ==
  /\ iter = [reads |-> iter.reads, closed |-> iter.closed, closing |-> iter.closing,
           issued |-> iter.issued, settled |-> iter.settled]
  /\ iter.reads \in Seq(Nat) /\ iter.closed \in BOOLEAN /\ iter.closing \in BOOLEAN

\* An iterator whose next() has been called p times.
Iter(iter, was, p, over, size) ==
  /\ IterType(iter)
  /\ iter.issued = p
  /\ Len(iter.settled) + Len(iter.reads) = p
  /\ Stopped(iter) <=> over
  /\ over => iter.reads = <<>>
  /\ Settles(iter.settled, was, over, size)

Gives(s) == FlattenSeq([i \in 1 .. Len(s) |-> Bytes(s[i].value)])

\* A sequence that has the elements of one and then those of another.
LEMMA IsConcat ==
  ASSUME NEW S, NEW s \in Seq(S), NEW t \in Seq(S), NEW u \in Seq(S),
         Len(u) = Len(s) + Len(t), \A i \in 1 .. Len(s) : u[i] = s[i],
         \A i \in 1 .. Len(t) : u[Len(s) + i] = t[i]
  PROVE  u = s \o t
<1>0. Len(s) \in Nat /\ Len(t) \in Nat
  OBVIOUS
<1>1. PICK v : v = s \o t
  OBVIOUS
<1>2. v \in Seq(S) /\ Len(v) = Len(s) + Len(t)
  BY <1>1, ConcatProperties
<1>3. \A i \in 1 .. Len(s) + Len(t) : v[i] = IF i =< Len(s) THEN s[i] ELSE t[i - Len(s)]
  BY <1>1, ConcatProperties
<1>4. ASSUME NEW i \in 1 .. Len(u)
      PROVE  u[i] = v[i]
  <2>1. CASE i =< Len(s)
    BY <1>0, <1>3, <2>1
  <2>2. CASE ~(i =< Len(s))
    <3>1. PICK k : k = i - Len(s)
      OBVIOUS
    <3>2. k \in 1 .. Len(t) /\ Len(s) + k = i
      BY <1>0, <2>2, <3>1
    <3>3. u[Len(s) + k] = t[k]
      BY <3>2
    <3> QED BY <1>0, <1>3, <2>2, <3>1, <3>2, <3>3
  <2> QED BY <2>1, <2>2
<1>5. u = v
  BY <1>2, <1>4, SeqEqual
<1> QED BY <1>1, <1>5

\* What the value of a result is.
LEMMA BytesType ==
  ASSUME NEW v \in ResultValues
  PROVE  /\ Bytes(v) \in Seq(Nat) /\ (v = Undefined => Bytes(v) = <<>>)
         /\ (v \in Seq(Nat) => Bytes(v) = v)
BY UndefinedAssumption DEF Bytes, ResultValues

\* What results give.
LEMMA GivesType ==
  ASSUME NEW s \in Seq(Results)
  PROVE  /\ [i \in 1 .. Len(s) |-> Bytes(s[i].value)] \in Seq(Seq(Nat))
         /\ Gives(s) \in Seq(Nat)
<1>1. \A i \in 1 .. Len(s) : Bytes(s[i].value) \in Seq(Nat)
  <2>1. \A i \in 1 .. Len(s) : s[i] \in Results
    OBVIOUS
  <2>2. \A i \in 1 .. Len(s) : s[i].value \in ResultValues
    BY <2>1 DEF Results
  <2> QED BY <2>2, BytesType
<1>2. [i \in 1 .. Len(s) |-> Bytes(s[i].value)] \in Seq(Seq(Nat))
  BY <1>1
<1> QED BY <1>2, FlattenIsSeq DEF Gives

\* One result more.
LEMMA GivesMore ==
  ASSUME NEW s \in Seq(Results), NEW r \in Results
  PROVE  Gives(Append(s, r)) = Gives(s) \o Bytes(r.value)
<1> DEFINE b == [i \in 1 .. Len(s) |-> Bytes(s[i].value)]
           c == [i \in 1 .. Len(Append(s, r)) |-> Bytes(Append(s, r)[i].value)]
<1>1. b \in Seq(Seq(Nat))
  BY GivesType
<1>2. Bytes(r.value) \in Seq(Nat)
  BY BytesType DEF Results
<1>3. c = Append(b, Bytes(r.value))
  <2>1. Len(Append(s, r)) = Len(s) + 1
    OBVIOUS
  <2>2. \A i \in 1 .. Len(s) : Append(s, r)[i] = s[i]
    OBVIOUS
  <2>3. Append(s, r)[Len(s) + 1] = r
    OBVIOUS
  <2> QED BY <2>1, <2>2, <2>3
<1>4. FlattenSeq(Append(b, Bytes(r.value))) = FlattenSeq(b) \o Bytes(r.value)
  <2> HIDE DEF b
  <2> QED BY <1>1, <1>2, FlattenAppend
<1> QED BY <1>3, <1>4 DEF Gives

\* Sequences that are empty join to one that is.
LEMMA FlattenNone ==
  ASSUME NEW S, NEW s \in Seq(Seq(S)), \A i \in 1 .. Len(s) : s[i] = <<>>
  PROVE  FlattenSeq(s) = <<>>
<1> DEFINE Pre(n) == SubSeq(s, 1, n)
           T == {n \in 0 .. Len(s) : FlattenSeq(Pre(n)) = <<>>}
<1>0. Len(s) \in Nat
  OBVIOUS
<1>1. 0 \in T
  <2>1. Pre(0) = <<>>
    BY SubSeqEmpty
  <2>2. FlattenSeq(<<>>) = <<>>
    BY FlattenIsSeq, EmptySeq
  <2> HIDE DEF Pre
  <2>3. 0 \in 0 .. Len(s)
    BY <1>0
  <2> QED BY <2>1, <2>2, <2>3
<1>2. ASSUME NEW n \in 1 .. Len(s), n - 1 \in T
      PROVE  n \in T
  <2>1. n - 1 \in 0 .. Len(s) /\ n \in 0 .. Len(s)
    BY <1>0
  <2>2. PICK u \in Seq(Seq(S)) : u = Pre(n - 1)
    BY <2>1, Prefix
  <2>3. Pre(n) = Append(u, <<>>)
    <3>1. Pre(n) = u \o <<s[n]>>
      <4>1. 1 \in 1 .. Len(s) /\ n \in 1 .. Len(s)
        BY <1>0
      <4> QED BY <2>2, <4>1, SubSeqRecursiveSecond
    <3>2. s[n] = <<>> /\ s[n] \in Seq(S)
      OBVIOUS
    <3> QED BY <2>2, <3>1, <3>2, AppendIsConcat
  <2>4. FlattenSeq(Append(u, <<>>)) = FlattenSeq(u) \o <<>>
    <3>1. <<>> \in Seq(S)
      BY EmptySeq
    <3> QED BY <2>2, <3>1, FlattenAppend
  <2>5. FlattenSeq(u) = <<>>
    BY <1>2, <2>2
  <2>6. <<>> \o <<>> = <<>>
    OBVIOUS
  <2> HIDE DEF Pre
  <2> QED BY <2>1, <2>3, <2>4, <2>5, <2>6
<1>3. Len(s) \in T
  <2>1. Len(s) \in 0 .. Len(s)
    BY <1>0
  <2> HIDE DEF T
  <2> QED BY <1>0, <1>1, <1>2, <2>1, Counting
<1>4. Pre(Len(s)) = s
  BY SubSeqFull
<1> QED BY <1>3, <1>4

\* Results without a value.
LEMMA GivesSame ==
  ASSUME NEW s \in Seq(Results), NEW t \in Seq(Results),
         \A i \in 1 .. Len(t) : t[i].value = Undefined
  PROVE  Gives(s \o t) = Gives(s)
<1>1. PICK u \in Seq(Results) : u = s \o t
  BY ConcatProperties
<1> DEFINE b == [i \in 1 .. Len(s) |-> Bytes(s[i].value)]
           c == [i \in 1 .. Len(t) |-> Bytes(t[i].value)]
           d == [i \in 1 .. Len(u) |-> Bytes(u[i].value)]
<1>2. b \in Seq(Seq(Nat)) /\ c \in Seq(Seq(Nat)) /\ d \in Seq(Seq(Nat))
  BY GivesType
<1>3. Len(b) = Len(s) /\ Len(c) = Len(t) /\ Len(d) = Len(s) + Len(t)
  <2>1. Len(u) = Len(s) + Len(t)
    BY <1>1, ConcatProperties
  <2> QED BY <2>1
<1>4. \A i \in 1 .. Len(s) + Len(t) : u[i] = IF i =< Len(s) THEN s[i] ELSE t[i - Len(s)]
  BY <1>1, ConcatProperties
<1>0. Len(s) \in Nat /\ Len(t) \in Nat /\ Len(u) = Len(s) + Len(t)
  BY <1>1, ConcatProperties
<1>5. \A i \in 1 .. Len(s) : d[i] = b[i]
  BY <1>0, <1>4
<1>6. ASSUME NEW i \in 1 .. Len(t)
      PROVE  d[Len(s) + i] = c[i]
  <2>1. PICK k : k = Len(s) + i
    OBVIOUS
  <2>2. k \in 1 .. Len(u) /\ ~(k =< Len(s)) /\ k - Len(s) = i
    BY <1>0, <2>1
  <2>3. u[k] = t[i]
    BY <1>0, <1>4, <2>2
  <2> QED BY <2>1, <2>2, <2>3
<1>7. \A i \in 1 .. Len(t) : c[i] = <<>>
  BY BytesType DEF ResultValues
<1>12. \A i \in 1 .. Len(b) : d[i] = b[i]
  BY <1>3, <1>5
<1>13. \A i \in 1 .. Len(c) : d[Len(b) + i] = c[i]
  BY <1>3, <1>6
<1>14. Len(d) = Len(b) + Len(c)
  BY <1>3
<1> HIDE DEF b, c, d
<1>8. d = b \o c
  BY <1>2, <1>12, <1>13, <1>14, IsConcat
<1>9. FlattenSeq(d) = FlattenSeq(b) \o FlattenSeq(c)
  BY <1>2, <1>8, FlattenConcat
<1>10. FlattenSeq(c) = <<>>
  BY <1>2, <1>3, <1>7, FlattenNone
<1>11. FlattenSeq(b) \o <<>> = FlattenSeq(b)
  BY <1>2, FlattenIsSeq, ConcatEmptySeq
<1> QED BY <1>1, <1>9, <1>10, <1>11 DEF Gives, b, d

\* A value more, before the end.
LEMMA SettleValue ==
  ASSUME NEW s, NEW was, NEW over, NEW size, ~over, Settles(s, was, over, size),
         NEW r \in Results, r.kind = "value", size # 0 => Len(Bytes(r.value)) = size
  PROVE  Settles(Append(s, r), was, over, size)
<1>1. PICK u : u = Append(s, r)
  OBVIOUS
<1>2. s \in Seq(Results) /\ Len(was) =< Len(s)
  BY DEF Settles
<1>3. /\ u \in Seq(Results) /\ Len(u) = Len(s) + 1 /\ Len(s) \in Nat
      /\ u[Len(s) + 1] = r /\ \A i \in 1 .. Len(s) : u[i] = s[i]
  BY <1>1, <1>2, AppendProperties
<1>4. \A i \in 1 .. Len(u) : (i \in 1 .. Len(s) /\ u[i] = s[i]) \/ u[i] = r
  BY <1>3
<1>5. \A i \in 1 .. Len(s) : s[i].kind = "value"
  BY DEF Settles
<1>6. \A i \in 1 .. Len(u) : u[i].kind = "value"
  BY <1>4, <1>5
<1>7. Len(was) =< Len(u) /\ \A i \in 1 .. Len(was) : u[i] = s[i]
  <2>2. \A i \in 1 .. Len(was) : i \in 1 .. Len(s)
    BY <1>2, <1>3
  <2> QED BY <1>2, <1>3, <2>2
<1>8. \A i \in 1 .. Len(was) : u[i] = was[i]
  BY <1>7 DEF Settles
<1>9. size # 0 => \A i \in 1 .. Len(u) : Len(Bytes(u[i].value)) = size
  BY <1>4, <1>5 DEF Settles
<1>10. Settles(u, was, over, size)
  BY <1>3, <1>6, <1>7, <1>8, <1>9 DEF Settles
<1> QED BY <1>1, <1>10

\* Results that are not values more.
LEMMA SettleEnd ==
  ASSUME NEW s, NEW was \in Seq(Results), NEW over, NEW size, Settles(s, was, over, size),
         NEW end, end, NEW t \in Seq(Results), \A i \in 1 .. Len(t) : t[i].kind # "value"
  PROVE  Settles(s \o t, was, end, size)
<1>1. PICK u : u = s \o t
  OBVIOUS
<1>2. s \in Seq(Results) /\ Len(was) =< Len(s) /\ Len(s) \in Nat /\ Len(t) \in Nat /\ Len(was) \in Nat
  BY DEF Settles
<1>3. /\ u \in Seq(Results) /\ Len(u) = Len(s) + Len(t)
      /\ \A i \in 1 .. Len(s) + Len(t) : u[i] = IF i =< Len(s) THEN s[i] ELSE t[i - Len(s)]
  BY <1>1, <1>2, ConcatProperties
<1>4. \A i \in 1 .. Len(s) : u[i] = s[i] /\ i \in 1 .. Len(u)
  BY <1>2, <1>3
<1>5. ASSUME NEW i \in 1 .. Len(u), ~(i \in 1 .. Len(s))
      PROVE  u[i].kind # "value"
  <2>1. PICK k : k = i - Len(s)
    OBVIOUS
  <2>2. k \in 1 .. Len(t) /\ u[i] = t[k]
    BY <1>2, <1>3, <1>5, <2>1
  <2> QED BY <2>2
<1>6. Len(was) =< Len(u) /\ \A i \in 1 .. Len(was) : u[i] = was[i]
  <2>1. \A i \in 1 .. Len(was) : i \in 1 .. Len(s) /\ s[i] = was[i]
    BY <1>2 DEF Settles
  <2> QED BY <1>2, <1>3, <1>4, <2>1
<1>7. ASSUME NEW i \in 1 .. Len(u), NEW j \in 1 .. Len(u), i < j, u[i].kind # "value"
      PROVE  u[j].kind # "value"
  <2>1. CASE j \in 1 .. Len(s)
    <3>1. i \in 1 .. Len(s)
      BY <1>7, <2>1
    <3>2. s[i].kind # "value"
      BY <1>4, <1>7, <3>1
    <3>3. s[j].kind # "value"
      BY <1>7, <2>1, <3>1, <3>2 DEF Settles
    <3> QED BY <1>4, <2>1, <3>3
  <2> QED BY <1>5, <2>1
<1>8. size # 0 => \A i \in 1 .. Len(u) : u[i].kind = "value" => Len(Bytes(u[i].value)) = size
  <2> SUFFICES ASSUME size # 0, NEW i \in 1 .. Len(u), u[i].kind = "value"
               PROVE  Len(Bytes(u[i].value)) = size
    OBVIOUS
  <2>1. i \in 1 .. Len(s) /\ u[i] = s[i]
    BY <1>4, <1>5
  <2> QED BY <2>1 DEF Settles
<1>9. Settles(u, was, end, size)
  BY <1>3, <1>6, <1>7, <1>8 DEF Settles
<1> QED BY <1>1, <1>9

\* What an iterator says of its fields.
Fields(iter, was, p, over, size) ==
  /\ iter.reads \in Seq(Nat) /\ iter.closed \in BOOLEAN /\ iter.closing \in BOOLEAN
  /\ iter.settled \in Seq(Results) /\ Settles(iter.settled, was, over, size)
  /\ iter = [reads |-> iter.reads, closed |-> iter.closed, closing |-> iter.closing,
           issued |-> iter.issued, settled |-> iter.settled]
  /\ iter.issued = p /\ Len(iter.settled) + Len(iter.reads) = p
  /\ Stopped(iter) <=> over
  /\ over => iter.reads = <<>>

\* An iterator has the fields it should.
LEMMA IterFields ==
  ASSUME NEW iter, NEW was, NEW p, NEW over, NEW size, Iter(iter, was, p, over, size)
  PROVE  Fields(iter, was, p, over, size)
<1>1. iter.settled \in Seq(Results)
  BY DEF Iter, Settles
<1> QED BY <1>1 DEF Iter, IterType, Fields

\* next(): a read that waits, or a result without a value.
LEMMA IterNext ==
  ASSUME NEW iter, NEW was \in Seq(Results), NEW p \in Nat, NEW over, NEW size,
         Iter(iter, was, p, over, size)
  PROVE  /\ Iter(asynciterator_next(iter), was, p + 1, over, size)
         /\ Gives(asynciterator_next(iter).settled) = Gives(iter.settled)
         /\ ~over => asynciterator_next(iter).reads = Append(iter.reads, p + 1)
<1>0. /\ iter.reads \in Seq(Nat) /\ iter.closed \in BOOLEAN /\ iter.closing \in BOOLEAN
      /\ iter.settled \in Seq(Results) /\ Settles(iter.settled, was, over, size)
      /\ iter = [reads |-> iter.reads, closed |-> iter.closed, closing |-> iter.closing,
               issued |-> iter.issued, settled |-> iter.settled]
      /\ iter.issued = p /\ Len(iter.settled) + Len(iter.reads) = p
      /\ Stopped(iter) <=> over
      /\ over => iter.reads = <<>>
  <2>1. Fields(iter, was, p, over, size)
    BY IterFields
  <2> QED BY <2>1 DEF Fields
<1>1. PICK next : next = asynciterator_next(iter)
  OBVIOUS
<1>2. CASE over
  <2>1. PICK r : r = Resolved(p + 1, Undefined, TRUE)
    OBVIOUS
  <2>2. r \in Results /\ r.kind # "value" /\ r.value = Undefined
    BY <2>1 DEF Resolved, Results, ResultValues
  <2>3. next = [iter EXCEPT !.issued = p + 1, !.closed = TRUE, !.closing = TRUE,
                          !.settled = Append(@, r)]
    BY <1>0, <1>1, <1>2, <2>1 DEF asynciterator_next
  <2>4. /\ next.issued = p + 1 /\ next.reads = iter.reads /\ next.settled = Append(iter.settled, r)
        /\ next.closed /\ next.closing
    BY <1>0, <2>3
  <2>5. IterType(next) /\ Stopped(next)
    BY <1>0, <2>3 DEF IterType, Stopped
  <2>6. <<r>> \in Seq(Results) /\ Append(iter.settled, r) = iter.settled \o <<r>>
        /\ Len(<<r>>) = 1 /\ <<r>>[1] = r
    BY <1>0, <2>2, AppendIsConcat
  <2>7. \A i \in 1 .. Len(<<r>>) : <<r>>[i].kind # "value" /\ <<r>>[i].value = Undefined
    BY <2>2, <2>6
  <2>8. Settles(next.settled, was, over, size) /\ Gives(next.settled) = Gives(iter.settled)
    <3>1. PICK t \in Seq(Results) :
            /\ next.settled = iter.settled \o t
            /\ \A i \in 1 .. Len(t) : t[i].kind # "value" /\ t[i].value = Undefined
      BY <2>4, <2>6, <2>7
    <3>2. Settles(iter.settled \o t, was, over, size)
      BY <1>0, <1>2, <3>1, SettleEnd
    <3>3. Gives(iter.settled \o t) = Gives(iter.settled)
      BY <1>0, <3>1, GivesSame
    <3> QED BY <3>1, <3>2, <3>3
  <2>9. Len(next.settled) = Len(iter.settled) + 1
    BY <1>0, <2>2, <2>4, AppendProperties
  <2>10. Settles(next.settled, was, over, size)
    BY <1>2, <2>8 DEF Settles
  <2>11. Len(next.settled) + Len(next.reads) = p + 1
    BY <1>0, <2>4, <2>9
  <2>12. next.reads = <<>>
    BY <1>0, <1>2, <2>4
  <2>13. Iter(next, was, p + 1, over, size)
    BY <1>2, <2>4, <2>5, <2>10, <2>11, <2>12 DEF Iter
  <2> QED BY <1>1, <1>2, <2>8, <2>13
<1>3. CASE ~over
  <2>1. next = [iter EXCEPT !.issued = p + 1, !.reads = Append(@, p + 1)]
    BY <1>0, <1>1, <1>3 DEF asynciterator_next
  <2>2. /\ next.issued = p + 1 /\ next.reads = Append(iter.reads, p + 1)
        /\ next.settled = iter.settled /\ next.closed = iter.closed /\ next.closing = iter.closing
    BY <1>0, <2>1
  <2>3. Append(iter.reads, p + 1) \in Seq(Nat) /\ Len(Append(iter.reads, p + 1)) = Len(iter.reads) + 1
    BY <1>0, AppendProperties
  <2>4. IterType(next) /\ ~Stopped(next)
    <3>1. next = [reads |-> next.reads, closed |-> next.closed, closing |-> next.closing,
                  issued |-> next.issued, settled |-> next.settled]
      BY <1>0, <2>1
    <3>2. ~Stopped(next)
      BY <1>0, <1>3, <2>2 DEF Stopped
    <3> QED BY <1>0, <2>2, <2>3, <3>1, <3>2 DEF IterType
  <2>5. Len(next.settled) + Len(next.reads) = p + 1
    BY <1>0, <2>2, <2>3
  <2>6. Iter(next, was, p + 1, over, size)
    BY <1>0, <1>3, <2>2, <2>4, <2>5 DEF Iter
  <2> QED BY <1>1, <2>2, <2>6
<1> QED BY <1>2, <1>3

\* The oldest read is given a value.
LEMMA IterGive ==
  ASSUME NEW iter, NEW was, NEW p \in Nat, NEW over, NEW size \in Nat, Iter(iter, was, p, over, size),
         asynciterator_pending(iter), NEW v \in Seq(Nat), size # 0 => Len(v) = size
  PROVE  /\ Iter(asynciterator_yield(iter, v), was, p, over, size)
         /\ Gives(asynciterator_yield(iter, v).settled) = Gives(iter.settled) \o v
         /\ asynciterator_yield(iter, v).closed = iter.closed
         /\ Len(asynciterator_yield(iter, v).reads) = Len(iter.reads) - 1
<1>0. /\ iter.reads \in Seq(Nat) /\ iter.closed \in BOOLEAN /\ iter.closing \in BOOLEAN
      /\ iter.settled \in Seq(Results) /\ Settles(iter.settled, was, over, size)
      /\ iter = [reads |-> iter.reads, closed |-> iter.closed, closing |-> iter.closing,
               issued |-> iter.issued, settled |-> iter.settled]
      /\ iter.issued = p /\ Len(iter.settled) + Len(iter.reads) = p
      /\ Stopped(iter) <=> over
      /\ over => iter.reads = <<>>
  <2>1. Fields(iter, was, p, over, size)
    BY IterFields
  <2> QED BY <2>1 DEF Fields
<1>1. PICK given : given = asynciterator_yield(iter, v)
  OBVIOUS
<1>2. iter.reads # <<>> /\ ~over
  BY <1>0 DEF asynciterator_pending
<1>3. /\ Tail(iter.reads) \in Seq(Nat) /\ Len(Tail(iter.reads)) = Len(iter.reads) - 1
      /\ Head(iter.reads) \in Nat
  <2>1. iter.reads \in Seq(Nat) /\ iter.reads # <<>>
    BY <1>0, <1>2
  <2> QED BY ONLY <2>1, HeadTailProperties
<1>4. PICK r : r = Resolved(Head(iter.reads), v, FALSE)
  OBVIOUS
<1>5. r \in Results /\ r.kind = "value" /\ r.value = v
  BY <1>3, <1>4 DEF Resolved, Results, ResultValues
<1>6. given = [iter EXCEPT !.reads = Tail(@), !.settled = Append(@, r)]
  BY <1>1, <1>2, <1>4 DEF asynciterator_yield, asynciterator_emplace, asynciterator_pending
<1>7. /\ given.reads = Tail(iter.reads) /\ given.settled = Append(iter.settled, r)
      /\ given.closed = iter.closed /\ given.closing = iter.closing /\ given.issued = p
  BY <1>0, <1>6
<1>8. given = [reads |-> given.reads, closed |-> given.closed, closing |-> given.closing,
               issued |-> given.issued, settled |-> given.settled]
  BY <1>0, <1>6
<1>9. Bytes(r.value) = v
  BY <1>5, BytesType DEF ResultValues
<1>10. Settles(given.settled, was, over, size)
  BY <1>0, <1>2, <1>5, <1>7, <1>9, SettleValue
<1>11. Gives(given.settled) = Gives(iter.settled) \o v
  BY <1>0, <1>5, <1>7, <1>9, GivesMore
<1>12. Len(given.settled) = Len(iter.settled) + 1
  BY <1>0, <1>5, <1>7, AppendProperties
<1>13. Len(given.settled) + Len(given.reads) = p
  BY <1>0, <1>3, <1>7, <1>12
<1>14. ~Stopped(given)
  BY <1>0, <1>2, <1>7 DEF Stopped
<1>15. IterType(given)
  BY <1>0, <1>3, <1>7, <1>8 DEF IterType
<1>16. Iter(given, was, p, over, size)
  BY <1>2, <1>7, <1>10, <1>13, <1>14, <1>15 DEF Iter
<1> QED BY <1>1, <1>3, <1>7, <1>11, <1>16

\* stop(): the oldest read is given the end, the others are rejected.
LEMMA IterStop ==
  ASSUME NEW iter, NEW was \in Seq(Results), NEW p \in Nat, NEW over, NEW size,
         Iter(iter, was, p, over, size), NEW end, end
  PROVE  /\ Iter(asynciterator_stop(iter, Undefined), was, p, end, size)
         /\ Gives(asynciterator_stop(iter, Undefined).settled) = Gives(iter.settled)
<1>a. \A u, v, w \in Seq(Results) : (u \o v) \o w = u \o (v \o w)
  BY Associative, SMTT(60)
<1>0. /\ iter.reads \in Seq(Nat) /\ iter.closed \in BOOLEAN /\ iter.closing \in BOOLEAN
      /\ iter.settled \in Seq(Results) /\ Settles(iter.settled, was, over, size)
      /\ iter = [reads |-> iter.reads, closed |-> iter.closed, closing |-> iter.closing,
               issued |-> iter.issued, settled |-> iter.settled]
      /\ iter.issued = p /\ Len(iter.settled) + Len(iter.reads) = p
      /\ Stopped(iter) <=> over
      /\ over => iter.reads = <<>>
  <2>1. Fields(iter, was, p, over, size)
    BY IterFields
  <2> QED BY <2>1 DEF Fields
<1>1. PICK stop : stop = asynciterator_stop(iter, Undefined)
  OBVIOUS
<1>2. CASE iter.reads # <<>>
  <2>1. PICK r : r = Resolved(Head(iter.reads), Undefined, TRUE)
    OBVIOUS
  <2>2. PICK rest : rest = Tail(iter.reads)
    OBVIOUS
  <2>3. rest \in Seq(Nat) /\ Len(rest) = Len(iter.reads) - 1 /\ Head(iter.reads) \in Nat
    <3>1. iter.reads \in Seq(Nat) /\ iter.reads # <<>>
      BY <1>0, <1>2
    <3> QED BY ONLY <2>2, <3>1, HeadTailProperties
  <2>4. r \in Results /\ r.kind # "value" /\ r.value = Undefined
    BY <2>1, <2>3 DEF Resolved, Results, ResultValues
  <2>5. PICK t : t = [i \in 1 .. Len(rest) |-> Rejected(rest[i])]
    OBVIOUS
  <2>6. /\ t \in Seq(Results) /\ Len(t) = Len(rest)
        /\ \A i \in 1 .. Len(t) : t[i].kind # "value" /\ t[i].value = Undefined
    <3>1. \A i \in 1 .. Len(rest) :
            /\ Rejected(rest[i]) \in Results /\ Rejected(rest[i]).kind # "value"
            /\ Rejected(rest[i]).value = Undefined
      BY <2>3 DEF Rejected, Results, ResultValues
    <3> QED BY <2>3, <2>5, <3>1
  <2>7. PICK one : one = asynciterator_emplace(iter, Undefined, TRUE)
    OBVIOUS
  <2>8. one = [iter EXCEPT !.reads = rest, !.settled = Append(@, r)]
    BY <1>0, <1>2, <2>1, <2>2, <2>7 DEF asynciterator_emplace, asynciterator_pending
  <2>9. PICK two : two = [one EXCEPT !.closing = FALSE, !.closed = TRUE]
    OBVIOUS
  <2>10. /\ two.reads = rest /\ two.settled = Append(iter.settled, r) /\ two.issued = p
         /\ two = [reads |-> two.reads, closed |-> two.closed, closing |-> two.closing,
                   issued |-> two.issued, settled |-> two.settled]
         /\ two.closing \in BOOLEAN
    BY <1>0, <2>8, <2>9
  <2>11. stop = asynciterator_cancel(two)
    BY <1>1, <1>2, <2>7, <2>9 DEF asynciterator_stop, asynciterator_pending
  <2>12. stop = [two EXCEPT !.reads = <<>>, !.closed = TRUE, !.settled = @ \o t]
    BY <2>5, <2>10, <2>11 DEF asynciterator_cancel
  <2>13. /\ stop.reads = <<>> /\ stop.settled = Append(iter.settled, r) \o t /\ stop.issued = p
         /\ stop = [reads |-> stop.reads, closed |-> stop.closed, closing |-> stop.closing,
                    issued |-> stop.issued, settled |-> stop.settled]
         /\ stop.closing \in BOOLEAN /\ stop.closed \in BOOLEAN /\ stop.closed
    BY <2>10, <2>12
  <2>14. PICK u \in Seq(Results) :
           /\ iter.settled \o u = Append(iter.settled, r) \o t
           /\ Len(u) = Len(t) + 1
           /\ \A i \in 1 .. Len(u) : u[i].kind # "value" /\ u[i].value = Undefined
    <3>1. PICK e : e = <<r>>
      OBVIOUS
    <3>2. e \in Seq(Results) /\ Len(e) = 1 /\ e[1] = r
      BY <2>4, <3>1
    <3>3. Append(iter.settled, r) = iter.settled \o e
      BY <1>0, <2>4, <3>1, AppendIsConcat
    <3>4. iter.settled \in Seq(Results) /\ e \in Seq(Results) /\ t \in Seq(Results)
      BY <1>0, <2>6, <3>2
    <3>5. (iter.settled \o e) \o t = iter.settled \o (e \o t)
      BY <1>a, <3>4, ZenonT(60)
    <3>6. PICK u : u = e \o t
      OBVIOUS
    <3>7. /\ u \in Seq(Results) /\ Len(u) = Len(e) + Len(t)
          /\ \A i \in 1 .. Len(e) + Len(t) : u[i] = IF i =< Len(e) THEN e[i] ELSE t[i - Len(e)]
      BY <3>4, <3>6, ConcatProperties
    <3>8. ASSUME NEW i \in 1 .. Len(u)
          PROVE  u[i].kind # "value" /\ u[i].value = Undefined
      <4>1. CASE i = 1
        <5>1. u[i] = r
          BY <3>2, <3>7, <4>1
        <5> QED BY <2>4, <5>1
      <4>2. CASE i # 1
        <5>1. PICK k : k = i - 1
          OBVIOUS
        <5>2. k \in 1 .. Len(t) /\ u[i] = t[k]
          BY <2>6, <3>2, <3>7, <4>2, <5>1
        <5> QED BY <2>6, <5>2
      <4> QED BY <4>1, <4>2
    <3>9. Len(u) = Len(t) + 1
      BY <2>6, <3>2, <3>7
    <3> QED BY <3>3, <3>5, <3>6, <3>7, <3>8, <3>9
  <2>15. Settles(stop.settled, was, end, size) /\ Gives(stop.settled) = Gives(iter.settled)
    BY <1>0, <2>13, <2>14, SettleEnd, GivesSame, ZenonT(60)
  <2>16. Len(stop.settled) + Len(stop.reads) = p
    <3>1. Len(iter.settled \o u) = Len(iter.settled) + Len(u)
      BY <1>0, <2>14, ConcatProperties
    <3>2. Len(stop.reads) = 0
      BY <2>13
    <3> QED BY <1>0, <2>3, <2>6, <2>13, <2>14, <3>1, <3>2
  <2>17. IterType(stop)
    <3>1. <<>> \in Seq(Nat)
      OBVIOUS
    <3> QED BY <2>13, <3>1 DEF IterType
  <2>18. Iter(stop, was, p, end, size)
    BY <2>13, <2>15, <2>16, <2>17 DEF Iter, Stopped
  <2> QED BY <1>1, <2>15, <2>18
<1>3. CASE iter.reads = <<>>
  <2>1. stop = [iter EXCEPT !.closing = TRUE]
    BY <1>1, <1>3 DEF asynciterator_stop, asynciterator_pending
  <2>2. /\ stop.reads = iter.reads /\ stop.settled = iter.settled /\ stop.issued = p
        /\ stop = [reads |-> stop.reads, closed |-> stop.closed, closing |-> stop.closing,
                   issued |-> stop.issued, settled |-> stop.settled]
        /\ stop.closing \in BOOLEAN /\ stop.closed \in BOOLEAN /\ stop.closing
    BY <1>0, <2>1
  <2>3. Settles(stop.settled, was, end, size)
    BY <1>0, <2>2 DEF Settles
  <2>4. IterType(stop)
    BY <1>0, <2>2 DEF IterType
  <2>5. Iter(stop, was, p, end, size)
    BY <1>0, <1>3, <2>2, <2>3, <2>4 DEF Iter, Stopped
  <2> QED BY <1>1, <2>2, <2>5
<1> QED BY <1>2, <1>3

-----------------------------------------------------------------------------
\* The queue of a generator that is read.

Items == [block : Seq(Nat), done : BOOLEAN, unref : Nat]

\* A chunk is not empty, is no longer than `size' while buffering, and the callback of
\* a write is attached to a chunk with the write's last byte.
Chunk(i, size) ==
  /\ i.block # <<>>
  /\ size # 0 => Len(i.block) =< size /\ i.unref = 0
  /\ i.unref # 0 => \E j \in 1 .. Len(i.block) : i.block[j] = i.unref

\* The end comes last, once the generator is ended.
End(i) == i.done /\ i.block = <<>> /\ i.unref = 0

Filled(items, size, over) ==
  /\ items \in Seq(Items)
  /\ \A i \in 1 .. Len(items) : \/ ~items[i].done /\ Chunk(items[i], size)
                                \/ End(items[i]) /\ i = Len(items) /\ over

Queue(q, size, over) ==
  /\ q = [items |-> q.items, continuous |-> q.continuous]
  /\ q.continuous = FALSE
  /\ Filled(q.items, size, over)

Blocks(items) == [i \in 1 .. Len(items) |-> items[i].block]

Holds(items) == FlattenSeq(Blocks(items))

\* What is in the queue.
LEMMA HoldsType ==
  ASSUME NEW s \in Seq(Items)
  PROVE  Blocks(s) \in Seq(Seq(Nat)) /\ Len(Blocks(s)) = Len(s) /\ Holds(s) \in Seq(Nat)
<1>0. Len(s) \in Nat
  OBVIOUS
<1>1. \A i \in 1 .. Len(s) : s[i].block \in Seq(Nat)
  <2>1. \A i \in 1 .. Len(s) : s[i] \in Items
    OBVIOUS
  <2> QED BY <2>1 DEF Items
<1>2. Blocks(s) \in Seq(Seq(Nat)) /\ Len(Blocks(s)) = Len(s)
  BY <1>0, <1>1 DEF Blocks
<1> QED BY <1>2, FlattenIsSeq DEF Holds

\* What two queues hold.
LEMMA HoldsConcat ==
  ASSUME NEW s \in Seq(Items), NEW t \in Seq(Items)
  PROVE  Holds(s \o t) = Holds(s) \o Holds(t)
<1>1. PICK u : u = s \o t
  OBVIOUS
<1>2. /\ u \in Seq(Items) /\ Len(u) = Len(s) + Len(t)
      /\ \A i \in 1 .. Len(s) + Len(t) : u[i] = IF i =< Len(s) THEN s[i] ELSE t[i - Len(s)]
  BY <1>1, ConcatProperties
<1>3. PICK b \in Seq(Seq(Nat)), c \in Seq(Seq(Nat)), d \in Seq(Seq(Nat)) :
        b = Blocks(s) /\ c = Blocks(t) /\ d = Blocks(u)
  BY <1>2, HoldsType
<1>4. Len(b) = Len(s) /\ Len(c) = Len(t) /\ Len(d) = Len(u) /\ Len(s) \in Nat /\ Len(t) \in Nat
  BY <1>2, <1>3, HoldsType
<1>5. \A i \in 1 .. Len(b) : d[i] = b[i]
  BY <1>2, <1>3, <1>4 DEF Blocks
<1>6. ASSUME NEW i \in 1 .. Len(c)
      PROVE  d[Len(b) + i] = c[i]
  <2>1. PICK k : k = Len(b) + i
    OBVIOUS
  <2>2. k \in 1 .. Len(s) + Len(t) /\ ~(k =< Len(s)) /\ k - Len(s) = i
    BY <1>4, <2>1
  <2>3. u[k] = t[i]
    BY <1>2, <2>2
  <2>4. d[k] = u[k].block /\ c[i] = t[i].block
    BY <1>2, <1>3, <1>4, <2>2 DEF Blocks
  <2> QED BY <2>1, <2>3, <2>4
<1>7. Len(d) = Len(b) + Len(c)
  BY <1>2, <1>4
<1>8. d = b \o c
  BY <1>5, <1>6, <1>7, IsConcat
<1>9. FlattenSeq(b \o c) = FlattenSeq(b) \o FlattenSeq(c)
  BY FlattenConcat
<1> QED BY <1>1, <1>3, <1>8, <1>9 DEF Holds

\* A queue of one chunk.
LEMMA HoldsOne ==
  ASSUME NEW x \in Items
  PROVE  /\ Holds(<<x>>) = x.block /\ <<x>> \in Seq(Items)
         /\ Len(<<x>>) = 1 /\ <<x>>[1] = x
<1>1. Blocks(<<x>>) = <<x.block>>
  BY DEF Blocks
<1>2. x.block \in Seq(Nat)
  BY DEF Items
<1>3. FlattenSeq(<<x.block>>) = x.block
  BY <1>2, FlattenOne
<1> QED BY <1>1, <1>3 DEF Holds

\* A chunk more.
LEMMA HoldsMore ==
  ASSUME NEW s \in Seq(Items), NEW x \in Items
  PROVE  Holds(Append(s, x)) = Holds(s) \o x.block
<1>1. PICK e : e = <<x>>
  OBVIOUS
<1>2. e \in Seq(Items) /\ Holds(e) = x.block
  BY <1>1, HoldsOne
<1>3. Append(s, x) = s \o e
  BY <1>1, AppendIsConcat
<1>4. Holds(s \o e) = Holds(s) \o Holds(e)
  BY <1>2, HoldsConcat
<1> QED BY <1>2, <1>3, <1>4

\* The front and the rest.
LEMMA HoldsFront ==
  ASSUME NEW s \in Seq(Items), s # <<>>
  PROVE  Holds(s) = Head(s).block \o Holds(Tail(s))
<1>1. PICK x, t, e : x = Head(s) /\ t = Tail(s) /\ e = <<Head(s)>>
  OBVIOUS
<1>2. x \in Items /\ t \in Seq(Items) /\ Len(t) = Len(s) - 1
      /\ x = s[1] /\ \A i \in 1 .. Len(t) : t[i] = s[i + 1]
  BY <1>1, HeadTailProperties
<1>3. e \in Seq(Items) /\ Holds(e) = x.block /\ Len(e) = 1 /\ e[1] = x
  BY <1>1, <1>2, HoldsOne
<1>4. s = e \o t
  <2>1. Len(s) \in Nat /\ Len(s) = 1 + Len(t) /\ Len(t) \in Nat
    BY <1>2
  <2>2. \A i \in 1 .. Len(e) : s[i] = e[i]
    BY <1>2, <1>3
  <2>3. \A i \in 1 .. Len(t) : s[Len(e) + i] = t[i]
    BY <1>2, <1>3, <2>1
  <2>4. s \in Seq(Items) /\ e \in Seq(Items) /\ t \in Seq(Items)
    BY <1>2, <1>3
  <2>5. Len(s) = Len(e) + Len(t)
    BY <1>3, <2>1
  <2> QED BY <2>2, <2>3, <2>4, <2>5, IsConcat
<1>5. Holds(e \o t) = Holds(e) \o Holds(t)
  BY <1>2, <1>3, HoldsConcat
<1> QED BY <1>1, <1>3, <1>4, <1>5

\* The front is taken.
LEMMA QueueTake ==
  ASSUME NEW q, NEW size \in Nat, NEW over, Queue(q, size, over), ~queue_empty(q), ~queue_front(q).done
  PROVE  LET h == queue_front(q).block
             c == queue_next_calls(q)
         IN  /\ Queue(queue_next(q), size, over)
             /\ h \in Seq(Nat) /\ h # <<>> /\ (size # 0 => Len(h) =< size)
             /\ queue_data(q) = h \o queue_data(queue_next(q))
             /\ c \in Seq(Nat) /\ \A k \in 1 .. Len(c) : \E j \in 1 .. Len(h) : h[j] = c[k]
<1>1. PICK s, x, t, r : s = q.items /\ x = Head(s) /\ t = Tail(s) /\ r = queue_next(q)
  OBVIOUS
<1>2. /\ q = [items |-> q.items, continuous |-> q.continuous] /\ q.continuous = FALSE
      /\ s \in Seq(Items) /\ s # <<>> /\ Filled(s, size, over)
  BY <1>1 DEF Queue, Filled, queue_empty
<1>3. x \in Items /\ t \in Seq(Items) /\ Len(t) = Len(s) - 1
      /\ x = s[1] /\ \A i \in 1 .. Len(t) : t[i] = s[i + 1]
  BY <1>1, <1>2, HeadTailProperties
<1>4. 1 \in 1 .. Len(s) /\ Len(s) \in Nat /\ \A i \in 1 .. Len(t) : i + 1 \in 1 .. Len(s)
  BY <1>2, <1>3, EmptySeq
<1>5. x = queue_front(q) /\ ~x.done
  BY <1>1 DEF queue_front
<1>6. Chunk(x, size)
  BY <1>2, <1>3, <1>4, <1>5 DEF Filled, End
<1>7. Filled(t, size, over)
  <2> SUFFICES ASSUME NEW i \in 1 .. Len(t)
               PROVE  \/ ~t[i].done /\ Chunk(t[i], size)
                      \/ End(t[i]) /\ i = Len(t) /\ over
    BY <1>3 DEF Filled
  <2>1. PICK k : k = i + 1
    OBVIOUS
  <2>2. k \in 1 .. Len(s) /\ t[i] = s[k] /\ (k = Len(s) => i = Len(t))
    BY <1>3, <1>4, <2>1
  <2> QED BY <1>2, <2>2 DEF Filled
<1>8. r = [q EXCEPT !.items = t]
  BY <1>1, <1>2, <1>5 DEF queue_next, queue_empty
<1>9. /\ r = [items |-> r.items, continuous |-> r.continuous]
      /\ r.items = t /\ r.continuous = q.continuous
  BY <1>2, <1>8
<1>10. Queue(r, size, over)
  BY <1>2, <1>7, <1>9 DEF Queue
<1>11. x.block \in Seq(Nat) /\ x.unref \in Nat
  BY <1>3 DEF Items
<1>12. x.block # <<>> /\ (size # 0 => Len(x.block) =< size)
  BY <1>6, SMTT(60) DEF Chunk
<1>13. queue_data(q) = x.block \o queue_data(r)
  <2>1. Holds(s) = x.block \o Holds(t)
    BY <1>1, <1>2, HoldsFront
  <2> QED BY <1>1, <1>9, <2>1 DEF Holds, Blocks, queue_data
<1>14. PICK c : c = queue_next_calls(q)
  OBVIOUS
<1>15. c = IF x.unref = 0 THEN <<>> ELSE <<x.unref, x.unref>>
  BY <1>1, <1>2, <1>5, <1>14 DEF queue_next_calls, queue_empty
<1>16. c \in Seq(Nat) /\ \A k \in 1 .. Len(c) : \E j \in 1 .. Len(x.block) : x.block[j] = c[k]
  <2>1. CASE x.unref = 0
    BY <1>15, <2>1
  <2>2. CASE x.unref # 0
    <3>1. c \in Seq(Nat) /\ \A k \in 1 .. Len(c) : c[k] = x.unref
      BY <1>11, <1>15, <2>2
    <3> QED BY <1>6, <2>2, <3>1 DEF Chunk
  <2> QED BY <2>1, <2>2
<1> QED BY <1>1, <1>5, <1>10, <1>11, <1>12, <1>13, <1>14, <1>16

\* Whether a queue has its end.
LEMMA QueueEnds ==
  ASSUME NEW q, NEW size \in Nat, NEW over, Queue(q, size, over)
  PROVE  /\ queue_complete(q) <=> \E i \in 1 .. Len(q.items) : q.items[i].done
         /\ queue_complete(q) => over
         /\ queue_close_assert(q)
<1>1. PICK s : s = q.items
  OBVIOUS
<1>2. s \in Seq(Items) /\ Filled(s, size, over) /\ Len(s) \in Nat /\ (s # <<>> <=> Len(s) # 0)
  BY <1>1, EmptySeq DEF Queue, Filled
<1>3. s # <<>> => Last(s) = s[Len(s)] /\ Len(s) \in 1 .. Len(s) /\ Head(s) = s[1] /\ 1 \in 1 .. Len(s)
  BY <1>2 DEF Last
<1>4. \A i \in 1 .. Len(s) : s[i].done => i = Len(s) /\ over
  BY <1>2 DEF Filled
<1>5. queue_complete(q) <=> s # <<>> /\ s[Len(s)].done
  BY <1>1, <1>3 DEF queue_complete, queue_empty
<1>6. queue_closed(q) <=> s # <<>> /\ s[1].done
  BY <1>1, <1>3 DEF queue_closed, queue_empty, queue_front
<1>7. queue_complete(q) <=> \E i \in 1 .. Len(s) : s[i].done
  BY <1>2, <1>3, <1>4, <1>5
<1>8. queue_complete(q) => over
  BY <1>3, <1>4, <1>5
<1>9. queue_closed(q) => queue_complete(q)
  BY <1>3, <1>6, <1>7
<1> QED BY <1>1, <1>7, <1>8, <1>9 DEF queue_close_assert

\* The end is put in.
LEMMA QueueClose ==
  ASSUME NEW q, NEW size \in Nat, NEW over, Queue(q, size, over), NEW end, end
  PROVE  Queue(queue_close(q), size, end) /\ queue_data(queue_close(q)) = queue_data(q)
<1>1. PICK s : s = q.items
  OBVIOUS
<1>2. /\ s \in Seq(Items) /\ Filled(s, size, over) /\ Len(s) \in Nat
      /\ q = [items |-> q.items, continuous |-> q.continuous] /\ q.continuous = FALSE
  BY <1>1 DEF Queue, Filled
<1>3. CASE queue_complete(q)
  <2>1. Filled(s, size, end)
    BY <1>2 DEF Filled
  <2>2. queue_close(q) = q
    BY <1>3 DEF queue_close
  <2> QED BY <1>1, <1>2, <2>1, <2>2 DEF Queue
<1>4. CASE ~queue_complete(q)
  <2>1. PICK e : e = EndItem
    OBVIOUS
  <2>2. e \in Items /\ End(e) /\ e.block = <<>>
    BY <2>1 DEF EndItem, Items, End
  <2>3. PICK t : t = Append(s, e)
    OBVIOUS
  <2>4. /\ t \in Seq(Items) /\ Len(t) = Len(s) + 1 /\ t[Len(s) + 1] = e
        /\ \A i \in 1 .. Len(s) : t[i] = s[i]
    BY <1>2, <2>2, <2>3, AppendProperties
  <2>5. \A i \in 1 .. Len(s) : ~s[i].done /\ Chunk(s[i], size)
    BY <1>1, <1>2, <1>4, QueueEnds DEF Filled, End
  <2>6. Filled(t, size, end)
    <3> SUFFICES ASSUME NEW i \in 1 .. Len(t)
                 PROVE  \/ ~t[i].done /\ Chunk(t[i], size)
                        \/ End(t[i]) /\ i = Len(t)
      BY <2>4 DEF Filled
    <3>1. CASE i \in 1 .. Len(s)
      BY <2>4, <2>5, <3>1
    <3>2. CASE i = Len(s) + 1
      BY <2>2, <2>4, <3>2
    <3> QED BY <1>2, <2>4, <3>1, <3>2
  <2>7. PICK r : r = queue_close(q)
    OBVIOUS
  <2>8. r = [q EXCEPT !.items = t]
    BY <1>1, <1>4, <2>1, <2>3, <2>7 DEF queue_close
  <2>9. /\ r = [items |-> r.items, continuous |-> r.continuous]
        /\ r.items = t /\ r.continuous = FALSE
    BY <1>2, <2>8
  <2>10. Queue(r, size, end)
    BY <2>6, <2>9 DEF Queue
  <2>11. Holds(t) = Holds(s)
    <3>1. Holds(t) = Holds(s) \o <<>>
      BY <1>2, <2>2, <2>3, HoldsMore
    <3>2. Holds(s) \in Seq(Nat)
      BY <1>2, HoldsType
    <3> QED BY <3>1, <3>2, ConcatEmptySeq
  <2> QED BY <1>1, <2>7, <2>9, <2>10, <2>11 DEF Holds, Blocks, queue_data
<1> QED BY <1>3, <1>4

-----------------------------------------------------------------------------
\* The generator.

Rec(x) ==
  x = [it |-> x.it, hasq |-> x.hasq, q |-> x.q, buffering |-> x.buffering,
       chunk_size |-> x.chunk_size, started |-> x.started, executor |-> x.executor,
       callback |-> x.callback, reject |-> x.reject, thened |-> x.thened,
       pushes |-> x.pushes, called |-> x.called, notified |-> x.notified,
       aborted |-> x.aborted]

\* A generator that is read.
Shape(x) ==
  /\ Rec(x)
  /\ x.hasq \in BOOLEAN /\ x.buffering \in BOOLEAN /\ x.executor \in BOOLEAN
  /\ x.chunk_size \in Nat /\ (x.buffering <=> x.chunk_size # 0)
  /\ x.callback[1] # "continuous" /\ x.called = <<>> /\ x.aborted = ""
  /\ ~x.hasq => x.q.items = <<>>

\* All is in its place: with the results that were there before, p calls of next()
\* and n bytes sent.
Ready(x, was, p, n, over) ==
  /\ Shape(x)
  /\ Iter(x.it, was, p, over, x.chunk_size)
  /\ Queue(x.q, x.chunk_size, over)
  /\ Flow(Gives(x.it.settled), queue_data(x.q), x.notified, n, over)

\* What a call that only moves bytes leaves.
Alike(x, y) ==
  /\ y.hasq = x.hasq /\ y.buffering = x.buffering
  /\ y.chunk_size = x.chunk_size /\ y.executor = x.executor

\* The turns of generator_update exist.
LEMMA TurnsExist ==
  ASSUME NEW x, NEW k \in Nat
  PROVE  \E f : f = [n \in 0 .. k |-> IF n = 0 THEN x ELSE UpdateTurn(f[n - 1])]
<1> DEFINE Ok(m) == \E f : f = [n \in 0 .. m |-> IF n = 0 THEN x ELSE UpdateTurn(f[n - 1])]
           T == {m \in 0 .. k : Ok(m)}
<1>1. 0 \in T
  <2>1. PICK f : f = [n \in 0 .. 0 |-> x]
    OBVIOUS
  <2>2. f = [n \in 0 .. 0 |-> IF n = 0 THEN x ELSE UpdateTurn(f[n - 1])]
    BY <2>1
  <2> QED BY <2>2
<1>2. ASSUME NEW m \in 1 .. k, m - 1 \in T
      PROVE  m \in T
  <2>1. PICK f : f = [n \in 0 .. m - 1 |-> IF n = 0 THEN x ELSE UpdateTurn(f[n - 1])]
    BY <1>2
  <2>2. PICK e : e = UpdateTurn(f[m - 1])
    OBVIOUS
  <2>3. PICK h : h = [n \in 0 .. m |-> IF n = m THEN e ELSE f[n]]
    OBVIOUS
  <2>4. ASSUME NEW n \in 0 .. m
        PROVE  h[n] = IF n = 0 THEN x ELSE UpdateTurn(h[n - 1])
    <3>1. n # 0 => n - 1 \in 0 .. m /\ n - 1 # m
      OBVIOUS
    <3>2. n # 0 => h[n - 1] = f[n - 1]
      BY <2>3, <3>1
    <3>3. CASE n = m
      BY <2>2, <2>3, <3>2, <3>3
    <3>4. CASE n # m
      <4>1. n \in 0 .. m - 1 /\ h[n] = f[n]
        BY <2>3, <3>4
      <4>2. f[n] = IF n = 0 THEN x ELSE UpdateTurn(f[n - 1])
        BY <2>1, <4>1
      <4> QED BY <3>2, <4>1, <4>2
    <3> QED BY <3>3, <3>4
  <2>5. h = [n \in 0 .. m |-> IF n = 0 THEN x ELSE UpdateTurn(h[n - 1])]
    BY <2>3, <2>4
  <2>6. Ok(m) /\ m \in 0 .. k
    BY <2>5
  <2> HIDE DEF Ok
  <2> QED BY <2>6
<1>3. k \in T
  <2> HIDE DEF T
  <2> QED BY <1>1, <1>2, Counting
<1> QED BY <1>3

\* f has the first k turns of generator_write, that begin with x.
WriteTurns(f, x, k) == f = [n \in 0 .. k |-> IF n = 0 THEN x ELSE WriteTurn(f[n - 1])]

\* They exist.
LEMMA WriteTurnsExist ==
  ASSUME NEW x, NEW k \in Nat
  PROVE  \E f : WriteTurns(f, x, k)
<1> DEFINE Ok(m) == \E f : f = [n \in 0 .. m |-> IF n = 0 THEN x ELSE WriteTurn(f[n - 1])]
           T == {m \in 0 .. k : Ok(m)}
<1>1. 0 \in T
  <2>1. PICK f : f = [n \in 0 .. 0 |-> x]
    OBVIOUS
  <2>2. f = [n \in 0 .. 0 |-> IF n = 0 THEN x ELSE WriteTurn(f[n - 1])]
    BY <2>1
  <2> QED BY <2>2
<1>2. ASSUME NEW m \in 1 .. k, m - 1 \in T
      PROVE  m \in T
  <2>1. PICK f : f = [n \in 0 .. m - 1 |-> IF n = 0 THEN x ELSE WriteTurn(f[n - 1])]
    BY <1>2
  <2>2. PICK e : e = WriteTurn(f[m - 1])
    OBVIOUS
  <2>3. PICK h : h = [n \in 0 .. m |-> IF n = m THEN e ELSE f[n]]
    OBVIOUS
  <2>4. ASSUME NEW n \in 0 .. m
        PROVE  h[n] = IF n = 0 THEN x ELSE WriteTurn(h[n - 1])
    <3>1. n # 0 => n - 1 \in 0 .. m /\ n - 1 # m
      OBVIOUS
    <3>2. n # 0 => h[n - 1] = f[n - 1]
      BY <2>3, <3>1
    <3>3. CASE n = m
      BY <2>2, <2>3, <3>2, <3>3
    <3>4. CASE n # m
      <4>1. n \in 0 .. m - 1 /\ h[n] = f[n]
        BY <2>3, <3>4
      <4>2. f[n] = IF n = 0 THEN x ELSE WriteTurn(f[n - 1])
        BY <2>1, <4>1
      <4> QED BY <3>2, <4>1, <4>2
    <3> QED BY <3>3, <3>4
  <2>5. h = [n \in 0 .. m |-> IF n = 0 THEN x ELSE WriteTurn(h[n - 1])]
    BY <2>3, <2>4
  <2>6. Ok(m) /\ m \in 0 .. k
    BY <2>5
  <2> HIDE DEF Ok
  <2> QED BY <2>6
<1>3. k \in T
  <2> HIDE DEF T
  <2> QED BY <1>1, <1>2, Counting
<1> QED BY <1>3 DEF WriteTurns

\* A turn gives the front of the queue to the oldest read.
LEMMA TurnGives ==
  ASSUME NEW x, NEW was, NEW p \in Nat, NEW n \in Nat, NEW over, Ready(x, was, p, n, over),
         UpdateReader(x)
  PROVE  /\ Ready(UpdateTurn(x), was, p, n, over) /\ Alike(x, UpdateTurn(x))
         /\ WriteTurn(x) = UpdateTurn(x)
         /\ Len(UpdateTurn(x).it.reads) = Len(x.it.reads) - 1
<1>1. /\ Shape(x) /\ Iter(x.it, was, p, over, x.chunk_size) /\ Queue(x.q, x.chunk_size, over)
      /\ Flow(Gives(x.it.settled), queue_data(x.q), x.notified, n, over)
  BY DEF Ready
<1>2. Rec(x) /\ x.chunk_size \in Nat /\ (x.buffering <=> x.chunk_size # 0)
  BY <1>1 DEF Shape
<1>3. Fields(x.it, was, p, over, x.chunk_size)
  BY <1>1, IterFields
<1>4. ~over /\ ~Stopped(x.it) /\ asynciterator_pending(x.it) /\ ~queue_empty(x.q) /\ x.hasq
  BY <1>3 DEF Fields, UpdateReader, asynciterator_pending
<1>5. PICK i : i = queue_front(x.q)
  OBVIOUS
<1>6. i.done = FALSE /\ i \in Items
  <2>1. PICK s : s = x.q.items
    OBVIOUS
  <2>2. s \in Seq(Items) /\ s # <<>> /\ Filled(s, x.chunk_size, over)
    BY <1>1, <1>4, <2>1 DEF Queue, Filled, queue_empty
  <2>3. i = s[1] /\ 1 \in 1 .. Len(s)
    BY <1>5, <2>1, <2>2, EmptySeq DEF queue_front
  <2>4. ~i.done
    BY <1>4, <2>2, <2>3 DEF Filled
  <2>5. i \in Items
    BY <2>2, <2>3
  <2> QED BY <2>4, <2>5 DEF Items
<1>7. PICK r : r = queue_next(x.q)
  OBVIOUS
<1>8. PICK c : c = queue_next_calls(x.q)
  OBVIOUS
<1>9. /\ Queue(r, x.chunk_size, over) /\ i.block \in Seq(Nat) /\ i.block # <<>>
      /\ (x.chunk_size # 0 => Len(i.block) =< x.chunk_size)
      /\ queue_data(x.q) = i.block \o queue_data(r)
      /\ c \in Seq(Nat) /\ \A k \in 1 .. Len(c) : \E j \in 1 .. Len(i.block) : i.block[j] = c[k]
  BY <1>1, <1>2, <1>4, <1>5, <1>6, <1>7, <1>8, QueueTake, ZenonT(60)
<1>10. x.chunk_size # 0 => Len(i.block) = x.chunk_size
  <2>1. ~x.it.closing
    BY <1>4 DEF Stopped
  <2>2. Len(i.block) \in Nat
    BY <1>9
  <2>3. x.chunk_size # 0 => Len(i.block) >= x.chunk_size
    BY <1>2, <1>5, <2>1 DEF UpdateReader
  <2> QED BY <1>2, <1>9, <2>2, <2>3
<1>11. PICK iter : iter = asynciterator_yield(x.it, i.block)
  OBVIOUS
<1>12. /\ Iter(iter, was, p, over, x.chunk_size)
       /\ Gives(iter.settled) = Gives(x.it.settled) \o i.block
       /\ iter.closed = x.it.closed
       /\ Len(iter.reads) = Len(x.it.reads) - 1
  <2>1. PICK b, a, k : b = i.block /\ a = x.it /\ k = x.chunk_size
    OBVIOUS
  <2>5. k \in Nat
    BY <1>2, <2>1
  <2>2. b \in Seq(Nat) /\ Iter(a, was, p, over, k) /\ asynciterator_pending(a) /\ (k # 0 => Len(b) = k)
    BY <1>1, <1>4, <1>9, <1>10, <2>1
  <2>3. iter = asynciterator_yield(a, b)
    BY <1>11, <2>1
  <2>4. /\ Iter(iter, was, p, over, k) /\ Gives(iter.settled) = Gives(a.settled) \o b
        /\ iter.closed = a.closed /\ Len(iter.reads) = Len(a.reads) - 1
    <3>0. Iter(asynciterator_yield(a, b), was, p, over, k)
      BY <2>2, <2>5, IterGive
    <3>1. /\ Gives(asynciterator_yield(a, b).settled) = Gives(a.settled) \o b
          /\ asynciterator_yield(a, b).closed = a.closed
          /\ Len(asynciterator_yield(a, b).reads) = Len(a.reads) - 1
      BY <2>2, <2>5, <3>0, IterGive
    <3> QED BY <2>3, <3>0, <3>1
  <2> QED BY <2>1, <2>4
<1>13. Fields(iter, was, p, over, x.chunk_size)
  BY <1>12, IterFields
<1>14. PICK y : y = DequeueToReader(x)
  OBVIOUS
<1>15. y = [x EXCEPT !.q = r, !.notified = x.notified \o c, !.it = iter]
  <2>1. BlockValue(i.block) = i.block
    BY <1>9 DEF BlockValue
  <2>2. PICK F : F = FALSE
    OBVIOUS
  <2>3. i.done = F /\ iter = asynciterator_emplace(x.it, i.block, F)
    BY <1>6, <1>11, <2>2 DEF asynciterator_yield
  <2>4. dequeue_value(x) = [x EXCEPT !.q = r, !.notified = x.notified \o c]
    BY <1>7, <1>8 DEF dequeue_value
  <2>5. dequeue_value(x).it = x.it
    BY <1>2, <2>4 DEF Rec
  <2>6. y = [dequeue_value(x) EXCEPT !.it = iter]
    BY <1>5, <1>14, <2>1, <2>3, <2>5 DEF DequeueToReader
  <2> QED BY <1>2, <2>4, <2>6 DEF Rec
<1>16. /\ Rec(y) /\ y.it = iter /\ y.q = r /\ y.notified = x.notified \o c
       /\ Alike(x, y)
       /\ y.callback = x.callback /\ y.called = x.called /\ y.aborted = x.aborted
  BY <1>2, <1>15 DEF Rec, Alike
<1>17. Flow(Gives(iter.settled), queue_data(r), x.notified \o c, n, over)
  <2>1. queue_data(r) \in Seq(Nat) /\ Gives(x.it.settled) \in Seq(Nat)
    <3>1. r.items \in Seq(Items)
      BY <1>9 DEF Queue, Filled
    <3> QED BY <1>1, <3>1, HoldsType, FlowParts DEF Holds, Blocks, queue_data
  <2>2. Flow(Gives(x.it.settled), i.block \o queue_data(r), x.notified, n, over)
    BY <1>1, <1>9
  <2> QED BY <1>9, <1>12, <2>1, <2>2, FlowGive, ZenonT(60)
<1>18. Shape(y)
  <2>1. x.hasq /\ x.called = <<>> /\ x.aborted = "" /\ x.callback[1] # "continuous"
        /\ x.hasq \in BOOLEAN /\ x.buffering \in BOOLEAN /\ x.executor \in BOOLEAN
    BY <1>1, <1>4 DEF Shape
  <2> QED BY <1>2, <1>16, <2>1 DEF Shape, Alike
<1>19. Ready(y, was, p, n, over)
  BY <1>9, <1>12, <1>16, <1>17, <1>18 DEF Ready, Alike
<1>20. UpdateTurn(x) = y
  <2>1. UpdateTurn(x) = [y EXCEPT !.it.closed = iter.closed \/ i.done]
    BY <1>5, <1>14, <1>16 DEF UpdateTurn
  <2>2. (iter.closed \/ i.done) = iter.closed
    BY <1>6, <1>13 DEF Fields
  <2>3. [y.it EXCEPT !.closed = iter.closed] = y.it
    BY <1>13, <1>16 DEF Fields
  <2>4. [y EXCEPT !.it = y.it] = y
    BY <1>16 DEF Rec
  <2> QED BY <2>1, <2>2, <2>3, <2>4
<1>21. WriteTurn(x) = y
  <2>1. Len(i.block) >= x.chunk_size
    <3>1. Len(i.block) \in Nat
      BY <1>9
    <3> QED BY <1>2, <1>10, <3>1
  <2> QED BY <1>4, <1>5, <1>14, <2>1 DEF WriteTurn
<1> QED BY <1>12, <1>16, <1>19, <1>20, <1>21

\* Without it a turn does nothing.
LEMMA TurnWaits ==
  ASSUME NEW x, NEW was, NEW p \in Nat, NEW n \in Nat, NEW over, Ready(x, was, p, n, over),
         ~UpdateReader(x)
  PROVE  UpdateTurn(x) = x /\ (x.hasq => WriteTurn(x) = x)
<1>1. UpdateTurn(x) = x
  BY DEF UpdateTurn
<1>2. ASSUME x.hasq
      PROVE  WriteTurn(x) = x
  <2>1. CASE asynciterator_pending(x.it) /\ ~queue_empty(x.q)
    <3>1. x.buffering /\ ~(Len(queue_front(x.q).block) >= x.chunk_size)
      BY <1>2, <2>1 DEF UpdateReader
    <3> QED BY <3>1 DEF WriteTurn
  <2>2. CASE ~(asynciterator_pending(x.it) /\ ~queue_empty(x.q))
    BY <2>2 DEF WriteTurn
  <2> QED BY <2>1, <2>2
<1> QED BY <1>1, <1>2

\* After m turns all is in its place, and no reader waits in vain or m were served.
Served(x, y, m, was, p, n, over) ==
  /\ Ready(y, was, p, n, over) /\ Alike(x, y)
  /\ ~UpdateReader(y) \/ Len(y.it.reads) = Len(x.it.reads) - m

\* One turn more.
LEMMA ServesMore ==
  ASSUME NEW x, NEW y, NEW m \in Nat, NEW was, NEW p \in Nat, NEW n \in Nat, NEW over,
         Len(x.it.reads) \in Nat, Served(x, y, m - 1, was, p, n, over)
  PROVE  /\ Served(x, UpdateTurn(y), m, was, p, n, over)
         /\ x.hasq => WriteTurn(y) = UpdateTurn(y)
<1>1. Ready(y, was, p, n, over) /\ Alike(x, y)
  BY DEF Served
<1>2. CASE UpdateReader(y)
  <2>1. PICK z : z = UpdateTurn(y)
    OBVIOUS
  <2>2. Ready(z, was, p, n, over)
    BY <1>1, <1>2, <2>1, TurnGives
  <2>3. Alike(y, z) /\ WriteTurn(y) = z /\ Len(z.it.reads) = Len(y.it.reads) - 1
    BY <1>1, <1>2, <2>1, <2>2, TurnGives
  <2>4. Len(y.it.reads) = Len(x.it.reads) - (m - 1)
    BY <1>2 DEF Served
  <2>5. Len(z.it.reads) = Len(x.it.reads) - m
    BY <2>3, <2>4
  <2>6. Alike(x, z)
    BY <1>1, <2>3 DEF Alike
  <2> QED BY <2>1, <2>2, <2>3, <2>5, <2>6 DEF Served
<1>3. CASE ~UpdateReader(y)
  <2>1. UpdateTurn(y) = y /\ (y.hasq => WriteTurn(y) = y)
    BY <1>1, <1>3, TurnWaits
  <2> QED BY <1>1, <1>3, <2>1 DEF Served, Alike
<1> QED BY <1>2, <1>3

\* After as many turns as reads, none waits in vain.
LEMMA ServedAll ==
  ASSUME NEW x, NEW y, NEW was, NEW p, NEW n, NEW over,
         Len(x.it.reads) \in Nat, Served(x, y, Len(x.it.reads), was, p, n, over)
  PROVE  Ready(y, was, p, n, over) /\ Alike(x, y) /\ ~UpdateReader(y)
<1>1. Ready(y, was, p, n, over) /\ Alike(x, y)
  BY DEF Served
<1>2. ASSUME UpdateReader(y)
      PROVE  FALSE
  <2>1. Len(y.it.reads) = 0
    BY <1>2 DEF Served
  <2>2. y.it.reads # <<>>
    BY <1>2 DEF UpdateReader, asynciterator_pending
  <2>3. y.it.reads \in Seq(Nat)
    BY <1>1 DEF Ready, Iter, IterType
  <2> QED BY <2>1, <2>2, <2>3, EmptySeq
<1> QED BY <1>1, <1>2

\* Before the first.
LEMMA ServesNone ==
  ASSUME NEW x, NEW was, NEW p \in Nat, NEW n, NEW over, Ready(x, was, p, n, over)
  PROVE  Len(x.it.reads) \in Nat /\ Served(x, x, 0, was, p, n, over)
<1>1. Len(x.it.reads) \in Nat
  BY DEF Ready, Iter, IterType
<1> QED BY <1>1 DEF Served, Alike

\* generator_update serves whoever waits.
LEMMA UpdateServes ==
  ASSUME NEW x, NEW was, NEW p \in Nat, NEW n \in Nat, NEW over, Ready(x, was, p, n, over)
  PROVE  /\ Ready(generator_update(x), was, p, n, over)
         /\ Alike(x, generator_update(x))
         /\ ~UpdateReader(generator_update(x))
<1>1. PICK L \in Nat : L = Len(x.it.reads)
  BY ServesNone
<1> DEFINE turns == CHOOSE h : h = [i \in 0 .. Len(x.it.reads) |->
                                      IF i = 0 THEN x ELSE UpdateTurn(h[i - 1])]
<1>3. generator_update(x) = turns[Len(x.it.reads)]
  BY DEF generator_update
<1>4. turns = [i \in 0 .. Len(x.it.reads) |-> IF i = 0 THEN x ELSE UpdateTurn(turns[i - 1])]
  <2>1. \E h : h = [i \in 0 .. Len(x.it.reads) |-> IF i = 0 THEN x ELSE UpdateTurn(h[i - 1])]
    <3>1. \E h : h = [i \in 0 .. L |-> IF i = 0 THEN x ELSE UpdateTurn(h[i - 1])]
      BY TurnsExist, ZenonT(60)
    <3> QED BY <1>1, <3>1
  <2> QED BY <2>1
<1> HIDE DEF turns
<1> DEFINE T == {m \in 0 .. L : Served(x, turns[m], m, was, p, n, over)}
<1>5. 0 \in T
  <2>1. turns[0] = x
    BY <1>1, <1>4
  <2> QED BY <2>1, ServesNone
<1>6. ASSUME NEW m \in 1 .. L, m - 1 \in T
      PROVE  m \in T
  <2>1. turns[m] = UpdateTurn(turns[m - 1])
    BY <1>1, <1>4, SMTT(60)
  <2>2. m \in Nat /\ m \in 0 .. L /\ Served(x, turns[m - 1], m - 1, was, p, n, over)
    BY <1>6
  <2>3. Served(x, UpdateTurn(turns[m - 1]), m, was, p, n, over)
    BY <1>1, <2>2, ServesMore
  <2> QED BY <2>1, <2>2, <2>3
<1>7. L \in T
  <2>1. L \in 0 .. L
    OBVIOUS
  <2> HIDE DEF T
  <2> QED BY <1>5, <1>6, <2>1, Counting
<1>8. Served(x, turns[L], L, was, p, n, over)
  BY <1>7
<1> QED BY <1>1, <1>3, <1>8, ServedAll

\* A chunk with the block b is put at the end of x's queue, unless it is closed: r is the
\* queue then.
Adds(x, b, cb, r, i) ==
  /\ enqueue_block(x, b, cb) = [create_queue(x) EXCEPT !.q = r]
  /\ r = [items |-> r.items, continuous |-> r.continuous] /\ r.continuous = FALSE
  /\ i \in Items /\ i.block = b /\ ~i.done /\ i.unref = cb
  /\ r.items = IF queue_complete(x.q) THEN x.q.items ELSE Append(x.q.items, i)

\* That is what enqueue_block does when the queue does not gather.
LEMMA EnqueueAdds ==
  ASSUME NEW x, NEW size \in Nat, NEW over, Rec(x), Queue(x.q, size, over), x.buffering = FALSE,
         NEW b \in Seq(Nat), NEW cb \in Nat
  PROVE  \E r, i : Adds(x, b, cb, r, i)
<1>1. PICK F : F = FALSE
  OBVIOUS
<1>2. PICK q : q = x.q
  OBVIOUS
<1>3. /\ q = [items |-> q.items, continuous |-> q.continuous] /\ q.continuous = F
      /\ q.items \in Seq(Items)
  BY <1>1, <1>2 DEF Queue, Filled
<1>4. PICK open : open = [q EXCEPT !.continuous = @ \/ x.buffering]
  OBVIOUS
<1>5. open = q
  <2>1. (q.continuous \/ x.buffering) = F
    BY <1>1, <1>3
  <2>2. open = [q EXCEPT !.continuous = F]
    BY <1>4, <2>1
  <2> QED BY <1>3, <2>2
<1>6. ~q.continuous
  BY <1>1, <1>3
<1>7. queue_put_at(open) = IF queue_complete(q) THEN 0 ELSE Len(q.items) + 1
  BY <1>5, <1>6 DEF queue_put_at
<1>8. queue_put(open, b) = queue_add(q, b)
  BY <1>5, <1>6 DEF queue_put
<1>9. PICK put : put = [queue_put(open, b) EXCEPT !.continuous = @ /\ ~x.buffering]
  OBVIOUS
<1>10. PICK p : p = queue_put_at(open)
  OBVIOUS
<1>11. PICK r : r = CASE p = 0 -> put
                      [] p # 0 /\ x.buffering -> Rechunk(put, p, x.chunk_size)
                      [] OTHER -> IF cb = 0 THEN put ELSE [put EXCEPT !.items[p].unref = cb]
  OBVIOUS
<1>12. enqueue_block(x, b, cb) = [create_queue(x) EXCEPT !.q = r]
  BY <1>2, <1>4, <1>9, <1>10, <1>11 DEF enqueue_block
<1>13. CASE queue_complete(q)
  <2>1. p = 0 /\ r = put
    BY <1>7, <1>10, <1>11, <1>13
  <2>2. put = [q EXCEPT !.continuous = @ /\ ~x.buffering]
    BY <1>8, <1>9, <1>13 DEF queue_add
  <2>3. (q.continuous /\ ~x.buffering) = F
    BY <1>1, <1>3
  <2>4. put = q
    BY <1>3, <2>2, <2>3
  <2>5. PICK i : i = [block |-> b, done |-> F, unref |-> cb]
    OBVIOUS
  <2>6. i \in Items /\ i.block = b /\ ~i.done /\ i.unref = cb
    BY <1>1, <2>5 DEF Items
  <2> QED BY <1>1, <1>2, <1>3, <1>12, <1>13, <2>1, <2>4, <2>6 DEF Adds
<1>14. CASE ~queue_complete(q)
  <2>1. PICK k : k = Len(q.items) + 1
    OBVIOUS
  <2>2. k \in Nat /\ k # 0 /\ p = k
    BY <1>3, <1>7, <1>10, <1>14, <2>1
  <2>3. r = IF cb = 0 THEN put ELSE [put EXCEPT !.items[k].unref = cb]
    BY <1>11, <2>2
  <2>4. PICK new : new = [block |-> b, done |-> F, unref |-> 0]
    OBVIOUS
  <2>5. new = Item(b)
    BY <1>1, <2>4 DEF Item
  <2>6. PICK s : s = Append(q.items, new)
    OBVIOUS
  <2>7. queue_add(q, b) = [q EXCEPT !.items = s]
    BY <1>14, <2>5, <2>6 DEF queue_add
  <2>8. put = [items |-> s, continuous |-> F]
    <3>1. queue_add(q, b) = [items |-> s, continuous |-> F]
      BY <1>3, <2>7
    <3>2. put = [[items |-> s, continuous |-> F] EXCEPT !.continuous = @ /\ ~x.buffering]
      BY <1>8, <1>9, <3>1
    <3>3. (F /\ ~x.buffering) = F
      BY <1>1
    <3> QED BY <3>2, <3>3
  <2>9. new \in Items
    BY <1>1, <2>4 DEF Items
  <2>10. PICK i : i = [block |-> b, done |-> F, unref |-> cb]
    OBVIOUS
  <2>11. i \in Items /\ i.block = b /\ ~i.done /\ i.unref = cb
    BY <1>1, <2>10 DEF Items
  <2>12. r = [items |-> Append(q.items, i), continuous |-> F]
    <3>1. CASE cb = 0
      <4>1. i = new
        BY <2>4, <2>10, <3>1
      <4> QED BY <2>3, <2>6, <2>8, <3>1, <4>1
    <3>2. CASE cb # 0
      <4>1. r = [put EXCEPT !.items[k].unref = cb]
        BY <2>3, <3>2
      <4>2. r = [items |-> [s EXCEPT ![k].unref = cb], continuous |-> F]
        BY <2>8, <4>1
      <4>3. [s EXCEPT ![k].unref = cb] = Append(q.items, i)
        <5>1. /\ s \in Seq(Items) /\ Len(s) = k /\ s[k] = new
              /\ \A j \in 1 .. Len(q.items) : s[j] = q.items[j]
          BY <1>3, <2>1, <2>6, <2>9, AppendProperties
        <5>2. PICK t : t = [s EXCEPT ![k].unref = cb]
          OBVIOUS
        <5>3. t = [s EXCEPT ![k] = i]
          <6>1. [new EXCEPT !.unref = cb] = i
            BY <2>4, <2>10
          <6> QED BY <5>1, <5>2, <6>1
        <5>4. t \in Seq(Items) /\ Len(t) = k /\ t[k] = i /\ \A j \in 1 .. k : j # k => t[j] = s[j]
          BY <2>1, <2>2, <2>11, <5>1, <5>3
        <5>5. PICK u : u = Append(q.items, i)
          OBVIOUS
        <5>6. /\ u \in Seq(Items) /\ Len(u) = k /\ u[k] = i
              /\ \A j \in 1 .. Len(q.items) : u[j] = q.items[j]
          BY <1>3, <2>1, <2>11, <5>5, AppendProperties
        <5>7. \A j \in 1 .. k : t[j] = u[j]
          <6>1. \A j \in 1 .. k : j # k => j \in 1 .. Len(q.items)
            BY <1>3, <2>1
          <6> QED BY <5>1, <5>4, <5>6, <6>1
        <5>8. t = u
          BY <5>4, <5>6, <5>7, SeqEqual
        <5> QED BY <5>2, <5>5, <5>8
      <4> QED BY <4>2, <4>3
    <3> QED BY <3>1, <3>2
  <2>13. r = [items |-> r.items, continuous |-> r.continuous] /\ r.continuous = F
         /\ r.items = Append(q.items, i)
    BY <2>12
  <2>14. r.continuous = FALSE
    BY <1>1, <2>13
  <2>15. r.items = IF queue_complete(x.q) THEN x.q.items ELSE Append(x.q.items, i)
    BY <1>2, <1>14, <2>13
  <2> QED BY <1>12, <2>11, <2>13, <2>14, <2>15 DEF Adds
<1> QED BY <1>13, <1>14

\* The next bytes.
LEMMA AfterType ==
  ASSUME NEW n \in Nat, NEW m \in Nat \ {0}
  PROVE  /\ After(n, m) \in Seq(Nat) /\ Len(After(n, m)) = m /\ After(n, m) # <<>>
         /\ m \in 1 .. m /\ After(n, m)[m] = n + m
<1>1. After(n, m) \in Seq(Nat) /\ Len(After(n, m)) = m /\ m \in 1 .. m /\ After(n, m)[m] = n + m
  BY DEF After
<1>2. After(n, m) # <<>>
  BY <1>1
<1> QED BY <1>1, <1>2

\* A chunk more at the end.
LEMMA FilledMore ==
  ASSUME NEW s, NEW size, NEW over, Filled(s, size, over),
         NEW i \in Items, ~i.done, Chunk(i, size), \A k \in 1 .. Len(s) : ~s[k].done
  PROVE  Filled(Append(s, i), size, over)
<1>1. PICK t : t = Append(s, i)
  OBVIOUS
<1>2. /\ t \in Seq(Items) /\ Len(t) = Len(s) + 1 /\ t[Len(s) + 1] = i /\ Len(s) \in Nat
      /\ \A k \in 1 .. Len(s) : t[k] = s[k]
  BY <1>1, AppendProperties DEF Filled
<1>3. \A k \in 1 .. Len(s) : Chunk(s[k], size)
  BY DEF Filled, End
<1>4. \A k \in 1 .. Len(t) : ~t[k].done /\ Chunk(t[k], size)
  <2> SUFFICES ASSUME NEW k \in 1 .. Len(t)
               PROVE  ~t[k].done /\ Chunk(t[k], size)
    OBVIOUS
  <2>1. CASE k \in 1 .. Len(s)
    BY <1>2, <1>3, <2>1
  <2>2. CASE k = Len(s) + 1
    BY <1>2, <2>2
  <2> QED BY <1>2, <2>1, <2>2
<1> QED BY <1>1, <1>2, <1>4 DEF Filled

\* enqueue_block puts b into the queue.
Enqueued(x, b, cb, was, p, n, over) ==
  LET y == enqueue_block(x, b, cb)
  IN  /\ Ready(y, was, p, n, over)
      /\ y.it = x.it /\ y.hasq /\ y.executor = x.executor
      /\ y.buffering = x.buffering /\ y.chunk_size = x.chunk_size

\* More is queued.
LEMMA EnqueueMore ==
  ASSUME NEW x, NEW was, NEW p \in Nat, NEW n \in Nat, NEW over, Ready(x, was, p, n, over),
         x.buffering = FALSE, NEW m \in Nat \ {0}, NEW cb \in {0, n + m}
  PROVE  Enqueued(x, After(n, m), cb, was, p, n + m, over)
<1>1. /\ Shape(x) /\ Iter(x.it, was, p, over, x.chunk_size) /\ Queue(x.q, x.chunk_size, over)
      /\ Flow(Gives(x.it.settled), queue_data(x.q), x.notified, n, over)
  BY DEF Ready
<1>2. Rec(x) /\ x.chunk_size = 0
  BY <1>1 DEF Shape
<1>3. PICK b : b = After(n, m)
  OBVIOUS
<1>4. b \in Seq(Nat) /\ Len(b) = m /\ b # <<>> /\ m \in 1 .. m /\ b[m] = n + m
  BY <1>3, AfterType
<1>5. PICK r, i :
        /\ enqueue_block(x, b, cb) = [create_queue(x) EXCEPT !.q = r]
        /\ r = [items |-> r.items, continuous |-> r.continuous] /\ r.continuous = FALSE
        /\ i \in Items /\ i.block = b /\ ~i.done /\ i.unref = cb
        /\ r.items = IF queue_complete(x.q) THEN x.q.items ELSE Append(x.q.items, i)
  <2>1. cb \in Nat
    OBVIOUS
  <2>2. Queue(x.q, 0, over)
    BY <1>1, <1>2
  <2>3. \E r, i : Adds(x, b, cb, r, i)
    <3>1. Rec(x) /\ b \in Seq(Nat) /\ 0 \in Nat
      BY <1>2, <1>4
    <3> QED BY <2>1, <2>2, <3>1, EnqueueAdds, Zenon
  <2> QED BY <2>3 DEF Adds
<1>6. PICK y : y = enqueue_block(x, b, cb)
  OBVIOUS
<1>7. create_queue(x) = [x EXCEPT !.hasq = TRUE]
  BY DEF create_queue
<1>8. /\ Rec(y) /\ y.it = x.it /\ y.q = r /\ y.hasq = TRUE
      /\ y.buffering = x.buffering /\ y.chunk_size = x.chunk_size /\ y.executor = x.executor
      /\ y.callback = x.callback /\ y.called = x.called /\ y.notified = x.notified
      /\ y.aborted = x.aborted
  <2>1. PICK H : H = TRUE
    OBVIOUS
  <2>2. y = [[x EXCEPT !.hasq = H] EXCEPT !.q = r]
    BY <1>5, <1>6, <1>7, <2>1
  <2>3. /\ Rec(y) /\ y.it = x.it /\ y.q = r /\ y.hasq = H
        /\ y.buffering = x.buffering /\ y.chunk_size = x.chunk_size /\ y.executor = x.executor
        /\ y.callback = x.callback /\ y.called = x.called /\ y.notified = x.notified
        /\ y.aborted = x.aborted
    BY <1>2, <2>2 DEF Rec
  <2> QED BY <2>1, <2>3
<1>9. Shape(y)
  BY <1>1, <1>2, <1>8 DEF Shape
<1>10. Chunk(i, 0)
  BY <1>4, <1>5 DEF Chunk
<1>11. PICK s : s = x.q.items /\ s \in Seq(Items) /\ Filled(s, 0, over)
  BY <1>1, <1>2 DEF Queue, Filled
<1>12. queue_data(x.q) = Holds(s) /\ queue_data(r) = Holds(r.items)
  BY <1>11 DEF Holds, Blocks, queue_data
<1>13. Queue(x.q, 0, over)
  BY <1>1, <1>2
<1>14. Queue(r, 0, over) /\ Flow(Gives(x.it.settled), queue_data(r), x.notified, n + m, over)
  <2>1. CASE queue_complete(x.q)
    <3>5. over
      BY <1>13, <2>1, QueueEnds
    <3>1. r.items = s /\ over
      BY <1>5, <1>11, <2>1, <3>5
    <3>2. Flow(Gives(x.it.settled), queue_data(x.q), x.notified, n + m, over)
      BY <1>1, <3>1, FlowDrop
    <3>3. queue_data(r) = queue_data(x.q)
      BY <1>12, <3>1
    <3>4. Queue(r, 0, over)
      BY <1>5, <1>11, <3>1 DEF Queue
    <3> QED BY <3>2, <3>3, <3>4
  <2>2. CASE ~queue_complete(x.q)
    <3>1. r.items = Append(s, i)
      BY <1>5, <1>11, <2>2
    <3>2. \A k \in 1 .. Len(s) : ~s[k].done
      BY <1>11, <1>13, <2>2, QueueEnds
    <3>3. Filled(r.items, 0, over)
      BY <1>5, <1>10, <1>11, <3>1, <3>2, FilledMore
    <3>4. Holds(r.items) = Holds(s) \o b
      BY <1>5, <1>11, <3>1, HoldsMore
    <3>5. Queue(r, 0, over)
      BY <1>5, <3>3 DEF Queue
    <3>6. Flow(Gives(x.it.settled), Holds(s) \o After(n, m), x.notified, n + m, over)
      BY <1>1, <1>12, FlowMore
    <3> QED BY <1>3, <1>12, <3>4, <3>5, <3>6
  <2> QED BY <2>1, <2>2
<1>15. Ready(y, was, p, n + m, over)
  BY <1>1, <1>2, <1>8, <1>9, <1>14 DEF Ready
<1> QED BY <1>3, <1>6, <1>8, <1>15 DEF Enqueued

\* Who waits waits for an empty queue.
Direct(x) == asynciterator_pending(x.it) => x.q.items = <<>>

\* A chunk is given to a reader that waits.
Straight(x, b) == [x EXCEPT !.it = asynciterator_yield(@, b)]

\* x has become y, without its queue.
Moved(x, y, was, p, n, over) ==
  Ready(y, was, p, n, over) /\ Alike(x, y) /\ y.q = x.q

\* x has become y, and takes more.
Yielded(x, y, was, p, n, over) ==
  /\ Ready(y, was, p, n, over) /\ Direct(y)
  /\ y.buffering = FALSE /\ y.executor = x.executor

\* More is given to a reader.
LEMMA DirectMore ==
  ASSUME NEW x, NEW was, NEW p \in Nat, NEW n \in Nat, NEW over, Ready(x, was, p, n, over),
         x.buffering = FALSE, asynciterator_pending(x.it), x.q.items = <<>>,
         NEW m \in Nat \ {0}
  PROVE  Moved(x, Straight(x, After(n, m)), was, p, n + m, over)
<1>0. PICK y : y = Straight(x, After(n, m))
  OBVIOUS
<1>1. /\ Shape(x) /\ Iter(x.it, was, p, over, x.chunk_size) /\ Queue(x.q, x.chunk_size, over)
      /\ Flow(Gives(x.it.settled), queue_data(x.q), x.notified, n, over)
  BY DEF Ready
<1>2. Rec(x) /\ x.chunk_size = 0
  BY <1>1 DEF Shape
<1>3. PICK b \in Seq(Nat) : b = After(n, m)
  BY AfterType
<1>4. PICK iter : iter = asynciterator_yield(x.it, b)
  OBVIOUS
<1>5. Iter(iter, was, p, over, x.chunk_size) /\ Gives(iter.settled) = Gives(x.it.settled) \o b
  <2>1. PICK a, k : a = x.it /\ k = x.chunk_size
    OBVIOUS
  <2>2. Iter(a, was, p, over, k) /\ asynciterator_pending(a) /\ k \in Nat /\ (k # 0 => Len(b) = k)
    BY <1>1, <1>2, <2>1
  <2>3. Iter(asynciterator_yield(a, b), was, p, over, k)
    BY <2>2, IterGive
  <2>4. Gives(asynciterator_yield(a, b).settled) = Gives(a.settled) \o b
    BY <2>2, <2>3, IterGive
  <2> QED BY <1>4, <2>1, <2>3, <2>4
<1>6. y = [x EXCEPT !.it = iter]
  BY <1>0, <1>3, <1>4 DEF Straight
<1>7. /\ Rec(y) /\ y.it = iter /\ y.q = x.q /\ y.notified = x.notified /\ Alike(x, y)
      /\ y.callback = x.callback /\ y.called = x.called /\ y.aborted = x.aborted
  BY <1>2, <1>6 DEF Rec, Alike
<1>8. Shape(y)
  BY <1>1, <1>7 DEF Shape, Alike
<1>9. queue_data(x.q) = <<>>
  <2>1. PICK s : s = [i \in 1 .. Len(x.q.items) |-> x.q.items[i].block]
    OBVIOUS
  <2>2. s = <<>>
    BY <2>1
  <2>3. FlattenSeq(<<>>) = <<>>
    BY FlattenIsSeq, EmptySeq
  <2> QED BY <2>1, <2>2, <2>3 DEF queue_data
<1>10. Flow(Gives(x.it.settled) \o After(n, m), <<>>, x.notified, n + m, over)
  <2>1. Flow(Gives(x.it.settled), <<>>, x.notified, n, over)
    BY <1>1, <1>9
  <2> QED BY <2>1, FlowDirect
<1>11. Ready(y, was, p, n + m, over)
  BY <1>1, <1>3, <1>5, <1>7, <1>8, <1>9, <1>10 DEF Ready, Alike
<1> QED BY <1>0, <1>7, <1>11 DEF Moved

\* A yield goes to the reader that waits, or into the queue.
LEMMA YieldMore ==
  ASSUME NEW x, NEW was, NEW p \in Nat, NEW n \in Nat, NEW over, Ready(x, was, p, n, over),
         x.buffering = FALSE, Direct(x), NEW m \in Nat \ {0}
  PROVE  Yielded(x, generator_yield(x, After(n, m)), was, p, n + m, over)
<1>0. PICK y : y = generator_yield(x, After(n, m))
  OBVIOUS
<1>1. CASE asynciterator_pending(x.it)
  <2>1. y = Straight(x, After(n, m))
    BY <1>0, <1>1 DEF generator_yield, Straight
  <2>2. x.q.items = <<>>
    BY <1>1 DEF Direct
  <2>3. Moved(x, y, was, p, n + m, over)
    BY <1>1, <2>1, <2>2, DirectMore
  <2> QED BY <1>0, <2>2, <2>3 DEF Moved, Yielded, Alike, Direct
<1>2. CASE ~asynciterator_pending(x.it)
  <2>1. y = enqueue_block(x, After(n, m), 0)
    BY <1>0, <1>2 DEF generator_yield
  <2>2. Enqueued(x, After(n, m), 0, was, p, n + m, over)
    <3>1. 0 \in {0, n + m}
      OBVIOUS
    <3> QED BY <3>1, EnqueueMore
  <2> QED BY <1>0, <1>2, <2>1, <2>2 DEF Enqueued, Direct, Yielded
<1> QED BY <1>0, <1>1, <1>2

\* Fields that Ready does not look at.
LEMMA ReadySame ==
  ASSUME NEW x, NEW y, NEW was, NEW p, NEW n, NEW over, Ready(x, was, p, n, over),
         Rec(y), Alike(x, y), y.it = x.it, y.q = x.q, y.notified = x.notified,
         y.callback[1] # "continuous", y.called = x.called, y.aborted = x.aborted
  PROVE  Ready(y, was, p, n, over)
<1>1. Shape(x)
  BY DEF Ready
<1>2. Shape(y)
  BY <1>1 DEF Shape, Alike
<1> QED BY <1>2 DEF Ready, Alike

\* A push is a yield.
LEMMA PushMore ==
  ASSUME NEW x, NEW was, NEW p \in Nat, NEW n \in Nat, NEW over, Ready(x, was, p, n, over),
         x.buffering = FALSE, Direct(x), NEW thened
  PROVE  Yielded(x, generator_push(x, After(n, 1), thened), was, p, n + 1, over)
<1>0. PICK y : y = generator_push(x, After(n, 1), thened)
  OBVIOUS
<1>1. PICK k : k = Len(x.pushes) + 1
  OBVIOUS
<1>2. PICK z : z = [x EXCEPT !.callback = PushResolver(k), !.reject = k,
                             !.pushes = Append(@, "pending")]
  OBVIOUS
<1>3. PICK v : v = generator_yield(z, After(n, 1))
  OBVIOUS
<1>4. y = [v EXCEPT !.thened = thened]
  BY <1>0, <1>1, <1>2, <1>3 DEF generator_push
<1>5. Rec(x)
  BY DEF Ready, Shape
<1>6. /\ Rec(z) /\ Alike(x, z) /\ z.it = x.it /\ z.q = x.q /\ z.notified = x.notified
      /\ z.callback = PushResolver(k) /\ z.called = x.called /\ z.aborted = x.aborted
  BY <1>2, <1>5 DEF Rec, Alike
<1>7. z.callback[1] # "continuous"
  BY <1>6 DEF PushResolver
<1>8. Ready(z, was, p, n, over)
  BY <1>6, <1>7, ReadySame
<1>9. z.buffering = FALSE /\ z.executor = x.executor /\ Direct(z)
  BY <1>6 DEF Alike, Direct
<1>10. /\ Ready(v, was, p, n + 1, over) /\ Direct(v)
       /\ v.buffering = FALSE /\ v.executor = x.executor
  <2>1. 1 \in Nat \ {0}
    OBVIOUS
  <2>2. Yielded(z, v, was, p, n + 1, over)
    BY <1>3, <1>8, <1>9, <2>1, YieldMore
  <2> QED BY <1>9, <2>2 DEF Yielded
<1>11. Rec(v) /\ v.callback[1] # "continuous"
  BY <1>10 DEF Ready, Shape
<1>12. /\ Rec(y) /\ Alike(v, y) /\ y.it = v.it /\ y.q = v.q /\ y.notified = v.notified
       /\ y.callback = v.callback /\ y.called = v.called /\ y.aborted = v.aborted
  BY <1>4, <1>11 DEF Rec, Alike
<1>13. Ready(y, was, p, n + 1, over)
  BY <1>10, <1>11, <1>12, ReadySame
<1> QED BY <1>0, <1>10, <1>12, <1>13 DEF Alike, Direct, Yielded

\* x has become y, in which no reader waits in vain.
Wrote(x, y, was, p, n, over) ==
  /\ Ready(y, was, p, n, over) /\ ~UpdateReader(y)
  /\ x.hasq \/ ~asynciterator_pending(x.it) => y.hasq
  /\ y.buffering = x.buffering /\ y.chunk_size = x.chunk_size /\ y.executor = x.executor

\* A write goes to the reader that waits, or into the queue and from there to those
\* that wait.
LEMMA WriteMore ==
  ASSUME NEW x, NEW was, NEW p \in Nat, NEW n \in Nat, NEW over, Ready(x, was, p, n, over),
         ~UpdateReader(x), NEW m \in Nat \ {0}, NEW cb,
         Enqueued(x, After(n, m), cb, was, p, n + m, over)
  PROVE  Wrote(x, generator_write(x, After(n, m), cb), was, p, n + m, over)
<1>1. PICK b : b = After(n, m)
  OBVIOUS
<1>2. PICK y : y = generator_write(x, b, cb)
  OBVIOUS
<1>3. PICK e : e = enqueue_block(x, b, cb)
  OBVIOUS
<1>4. PICK k \in Nat : k = n + m
  OBVIOUS
<1>5. /\ Ready(e, was, p, k, over)
      /\ e.it = x.it /\ e.hasq /\ e.executor = x.executor
      /\ e.buffering = x.buffering /\ e.chunk_size = x.chunk_size
  BY <1>1, <1>3, <1>4 DEF Enqueued
<1>6. PICK L \in Nat : L = Len(x.it.reads)
  BY ServesNone
<1> DEFINE turns == CHOOSE h : h = [i \in 0 .. Len(x.it.reads) |->
                                      IF i = 0 THEN e ELSE WriteTurn(h[i - 1])]
           Straightly == /\ ~x.buffering
                         /\ ~(x.hasq /\ x.q.continuous)
                         /\ x.hasq => queue_empty(x.q)
                         /\ asynciterator_pending(x.it)
<1>7. y = IF Straightly THEN Straight(x, b) ELSE turns[Len(x.it.reads)]
  BY <1>2, <1>3 DEF generator_write, Straight
<1>8. turns = [i \in 0 .. Len(x.it.reads) |-> IF i = 0 THEN e ELSE WriteTurn(turns[i - 1])]
  <2>1. \E h : h = [i \in 0 .. Len(x.it.reads) |-> IF i = 0 THEN e ELSE WriteTurn(h[i - 1])]
    <3>1. \E h : WriteTurns(h, e, L)
      BY WriteTurnsExist
    <3> QED BY <1>6, <3>1 DEF WriteTurns
  <2> QED BY <2>1
<1> HIDE DEF turns
<1>11. \A j \in 0 .. L : turns[j] = IF j = 0 THEN e ELSE WriteTurn(turns[j - 1])
  BY <1>6, <1>8
<1>9. CASE Straightly
  <2>1. x.q.items = <<>>
    BY <1>9 DEF queue_empty, Ready, Shape
  <2>2. x.buffering = FALSE /\ asynciterator_pending(x.it)
    BY <1>9 DEF Ready, Shape
  <2>3. Moved(x, Straight(x, b), was, p, n + m, over)
    BY <1>1, <2>1, <2>2, DirectMore
  <2>4. Ready(y, was, p, n + m, over) /\ Alike(x, y) /\ y.q = x.q
    BY <1>7, <1>9, <2>3 DEF Moved
  <2>5. ~UpdateReader(y)
    BY <2>1, <2>4 DEF UpdateReader, queue_empty
  <2>6. Wrote(x, y, was, p, n + m, over)
    BY <2>2, <2>4, <2>5 DEF Alike, Wrote
  <2> QED BY <1>1, <1>2, <2>6
<1>10. CASE ~Straightly
  <2> DEFINE T == {j \in 0 .. L : Served(e, turns[j], j, was, p, k, over)}
  <2>1. 0 \in T
    <3>1. turns[0] = e
      BY <1>11
    <3> QED BY <1>5, <3>1, ServesNone
  <2>2. ASSUME NEW j \in 1 .. L, j - 1 \in T
        PROVE  j \in T
    <3>1. turns[j] = WriteTurn(turns[j - 1])
      BY <1>11
    <3>2. j \in Nat /\ j \in 0 .. L /\ Served(e, turns[j - 1], j - 1, was, p, k, over)
      BY <2>2
    <3>3. Len(e.it.reads) \in Nat
      BY <1>5, <1>6
    <3>4. PICK z : z = turns[j - 1]
      OBVIOUS
    <3>5. Served(e, z, j - 1, was, p, k, over)
      BY <3>2, <3>4
    <3>6. Served(e, UpdateTurn(z), j, was, p, k, over)
      BY <3>2, <3>3, <3>5, ServesMore
    <3>7. WriteTurn(z) = UpdateTurn(z)
      BY <1>5, <3>2, <3>3, <3>5, <3>6, ServesMore
    <3> QED BY <3>1, <3>2, <3>4, <3>6, <3>7
  <2>3. L \in T
    <3>1. L \in 0 .. L
      OBVIOUS
    <3> HIDE DEF T
    <3> QED BY <2>1, <2>2, <3>1, Counting
  <2>4. Served(e, turns[L], L, was, p, k, over)
    BY <2>3
  <2>5. y = turns[L] /\ Len(e.it.reads) = L
    BY <1>5, <1>6, <1>7, <1>10
  <2>6. Ready(y, was, p, k, over) /\ Alike(e, y) /\ ~UpdateReader(y)
    BY <2>4, <2>5, ServedAll
  <2>7. Wrote(x, y, was, p, n + m, over)
    BY <1>4, <1>5, <2>6 DEF Alike, Wrote
  <2> QED BY <1>1, <1>2, <2>7
<1> QED BY <1>9, <1>10

\* The generator was ended before.
LEMMA ReadyOver ==
  ASSUME NEW x, NEW was, NEW p, NEW n \in Nat, NEW over, Ready(x, was, p, n, over), over, NEW end, end
  PROVE  Ready(x, was, p, n, end)
<1>1. Iter(x.it, was, p, end, x.chunk_size)
  <2>1. Settles(x.it.settled, was, end, x.chunk_size)
    BY DEF Ready, Iter, Settles
  <2> QED BY <2>1 DEF Ready, Iter
<1>2. Queue(x.q, x.chunk_size, end)
  BY DEF Ready, Queue, Filled
<1>3. Flow(Gives(x.it.settled), queue_data(x.q), x.notified, n, end)
  BY FlowOver DEF Ready
<1> QED BY <1>1, <1>2, <1>3 DEF Ready

\* return() ends the generator.
LEMMA ReturnEnds ==
  ASSUME NEW x, NEW was \in Seq(Results), NEW p \in Nat, NEW n \in Nat, NEW over,
         Ready(x, was, p, n, over), NEW end, end
  PROVE  Moved(x, generator_return(x, Undefined), was, p, n, end)
<1>1. /\ Shape(x) /\ Iter(x.it, was, p, over, x.chunk_size) /\ Queue(x.q, x.chunk_size, over)
      /\ Flow(Gives(x.it.settled), queue_data(x.q), x.notified, n, over)
  BY DEF Ready
<1>2. PICK iter : iter = asynciterator_stop(x.it, Undefined)
  OBVIOUS
<1>3. Iter(iter, was, p, end, x.chunk_size) /\ Gives(iter.settled) = Gives(x.it.settled)
  <2>1. Iter(iter, was, p, end, x.chunk_size)
    BY <1>1, <1>2, IterStop
  <2>2. Gives(iter.settled) = Gives(x.it.settled)
    BY <1>1, <1>2, <2>1, IterStop
  <2> QED BY <2>1, <2>2
<1>4. PICK y : y = [x EXCEPT !.it = iter]
  OBVIOUS
<1>5. y = generator_return(x, Undefined)
  BY <1>2, <1>4 DEF generator_return
<1>6. /\ Rec(y) /\ y.it = iter /\ y.q = x.q /\ y.notified = x.notified /\ Alike(x, y)
      /\ y.callback = x.callback /\ y.called = x.called /\ y.aborted = x.aborted
  BY <1>1, <1>4 DEF Shape, Rec, Alike
<1>7. Shape(y)
  BY <1>1, <1>6 DEF Shape, Alike
<1>8. Queue(y.q, y.chunk_size, end)
  BY <1>1, <1>6 DEF Queue, Filled, Alike
<1>9. Flow(Gives(iter.settled), queue_data(y.q), y.notified, n, end)
  BY <1>1, <1>3, <1>6, FlowOver
<1> QED BY <1>3, <1>5, <1>6, <1>7, <1>8, <1>9 DEF Moved, Ready, Alike

\* stop() ends the generator, and puts the end into its queue.
LEMMA StopEnds ==
  ASSUME NEW x, NEW was \in Seq(Results), NEW p \in Nat, NEW n \in Nat, NEW over,
         Ready(x, was, p, n, over), NEW end, end
  PROVE  Ready(generator_stop(x, Undefined), was, p, n, end) /\ Alike(x, generator_stop(x, Undefined))
<1>1. /\ Shape(x) /\ Iter(x.it, was, p, over, x.chunk_size) /\ Queue(x.q, x.chunk_size, over)
      /\ Flow(Gives(x.it.settled), queue_data(x.q), x.notified, n, over)
  BY DEF Ready
<1>2. PICK y : y = generator_stop(x, Undefined)
  OBVIOUS
<1>3. CASE x.it.closed
  <2>1. y = x
    BY <1>2, <1>3 DEF generator_stop
  <2>2. over
    BY <1>1, <1>3 DEF Iter, Stopped
  <2>3. Ready(x, was, p, n, end)
    BY <2>2, ReadyOver
  <2> QED BY <1>2, <2>1, <2>3 DEF Alike
<1>4. CASE ~x.it.closed
  <2>1. PICK q : q = IF x.hasq THEN queue_close(x.q) ELSE x.q
    OBVIOUS
  <2>2. x.chunk_size \in Nat
    BY <1>1 DEF Shape
  <2>3. Queue(q, x.chunk_size, end) /\ queue_data(q) = queue_data(x.q)
    <3>1. Queue(queue_close(x.q), x.chunk_size, end)
      BY <1>1, <2>2, QueueClose
    <3>2. queue_data(queue_close(x.q)) = queue_data(x.q)
      BY <1>1, <2>2, <3>1, QueueClose
    <3>3. Queue(x.q, x.chunk_size, end)
      BY <1>1 DEF Queue, Filled
    <3> QED BY <2>1, <3>1, <3>2, <3>3
  <2>4. queue_close_assert(x.q)
    BY <1>1, <2>2, QueueEnds
  <2>5. ~q.continuous
    BY <2>3 DEF Queue
  <2>6. PICK z : z = [x EXCEPT !.q = q]
    OBVIOUS
  <2>7. y = [z EXCEPT !.it = asynciterator_stop(@, Undefined)]
    BY <1>2, <1>4, <2>1, <2>4, <2>5, <2>6 DEF generator_stop
  <2>8. PICK iter : iter = asynciterator_stop(x.it, Undefined)
    OBVIOUS
  <2>9. Iter(iter, was, p, end, x.chunk_size) /\ Gives(iter.settled) = Gives(x.it.settled)
    <3>1. Iter(iter, was, p, end, x.chunk_size)
      BY <1>1, <2>8, IterStop
    <3>2. Gives(iter.settled) = Gives(x.it.settled)
      BY <1>1, <2>8, <3>1, IterStop
    <3> QED BY <3>1, <3>2
  <2>10. Rec(x)
    BY <1>1 DEF Shape
  <2>11. Rec(z) /\ z.it = x.it
    BY <2>6, <2>10 DEF Rec
  <2>12. y = [[x EXCEPT !.q = q] EXCEPT !.it = iter]
    BY <2>6, <2>7, <2>8, <2>11
  <2>13. /\ Rec(y) /\ y.it = iter /\ y.q = q /\ y.notified = x.notified /\ Alike(x, y)
         /\ y.callback = x.callback /\ y.called = x.called /\ y.aborted = x.aborted
    BY <2>10, <2>12 DEF Rec, Alike
  <2>14. Shape(y)
    <3>1. ~x.hasq => q.items = <<>>
      BY <1>1, <2>1 DEF Shape
    <3> QED BY <1>1, <2>13, <3>1 DEF Shape, Alike
  <2>15. Flow(Gives(iter.settled), queue_data(q), x.notified, n, end)
    BY <1>1, <2>3, <2>9, FlowOver
  <2> QED BY <1>2, <2>3, <2>9, <2>13, <2>14, <2>15 DEF Ready, Alike
<1> QED BY <1>3, <1>4

\* f has k pushes of what e says, that begin with x.
Pushes(f, x, e, k) ==
  f = [i \in 0 .. k |-> IF i = 0 THEN x ELSE generator_push(f[i - 1], e.blocks[i], e.thened)]

\* They exist.
LEMMA PushesExist ==
  ASSUME NEW x, NEW e, NEW k \in Nat
  PROVE  \E f : Pushes(f, x, e, k)
<1> DEFINE Turn(y, i) == generator_push(y, e.blocks[i], e.thened)
           Ok(m) == \E f : f = [i \in 0 .. m |-> IF i = 0 THEN x ELSE Turn(f[i - 1], i)]
           T == {m \in 0 .. k : Ok(m)}
<1> HIDE DEF Turn
<1>1. 0 \in T
  <2>1. PICK f : f = [n \in 0 .. 0 |-> x]
    OBVIOUS
  <2>2. f = [n \in 0 .. 0 |-> IF n = 0 THEN x ELSE Turn(f[n - 1], n)]
    BY <2>1
  <2> QED BY <2>2
<1>2. ASSUME NEW m \in 1 .. k, m - 1 \in T
      PROVE  m \in T
  <2>1. PICK f : f = [n \in 0 .. m - 1 |-> IF n = 0 THEN x ELSE Turn(f[n - 1], n)]
    BY <1>2
  <2>2. PICK z : z = Turn(f[m - 1], m)
    OBVIOUS
  <2>3. PICK h : h = [n \in 0 .. m |-> IF n = m THEN z ELSE f[n]]
    OBVIOUS
  <2>4. ASSUME NEW n \in 0 .. m
        PROVE  h[n] = IF n = 0 THEN x ELSE Turn(h[n - 1], n)
    <3>1. n # 0 => n - 1 \in 0 .. m /\ n - 1 # m
      OBVIOUS
    <3>2. n # 0 => h[n - 1] = f[n - 1]
      BY <2>3, <3>1
    <3>3. CASE n = m
      BY <2>2, <2>3, <3>2, <3>3
    <3>4. CASE n # m
      <4>1. n \in 0 .. m - 1 /\ h[n] = f[n]
        BY <2>3, <3>4
      <4>2. f[n] = IF n = 0 THEN x ELSE Turn(f[n - 1], n)
        BY <2>1, <4>1
      <4> QED BY <3>2, <4>1, <4>2
    <3> QED BY <3>3, <3>4
  <2>5. h = [n \in 0 .. m |-> IF n = 0 THEN x ELSE Turn(h[n - 1], n)]
    BY <2>3, <2>4
  <2>6. Ok(m) /\ m \in 0 .. k
    BY <2>5
  <2> HIDE DEF Ok
  <2> QED BY <2>6
<1>3. k \in T
  <2> HIDE DEF T
  <2> QED BY <1>1, <1>2, Counting
<1>4. PICK f : f = [i \in 0 .. k |-> IF i = 0 THEN x ELSE Turn(f[i - 1], i)]
  BY <1>3
<1>5. Pushes(f, x, e, k)
  BY <1>4 DEF Pushes, Turn
<1> QED BY <1>5

\* The next byte.
LEMMA AfterOne ==
  ASSUME NEW n \in Nat, NEW k \in Nat \ {0}
  PROVE  <<n + k>> = After(n + (k - 1), 1)
<1>1. n + (k - 1) + 1 = n + k
  OBVIOUS
<1>2. PICK a : a = After(n + (k - 1), 1)
  OBVIOUS
<1>3. a = [i \in 1 .. 1 |-> n + (k - 1) + i]
  BY <1>2 DEF After
<1>4. Len(a) = 1 /\ a[1] = n + k /\ a \in Seq(Nat)
  BY <1>1, <1>3
<1>5. Len(<<n + k>>) = 1 /\ <<n + k>>[1] = n + k /\ <<n + k>> \in Seq(Nat)
  OBVIOUS
<1>6. \A i \in 1 .. 1 : a[i] = <<n + k>>[i]
  BY <1>4, <1>5
<1>7. a = <<n + k>>
  <2>1. \A s, t \in Seq(Nat) : Len(s) = Len(t) /\ (\A i \in 1 .. Len(s) : s[i] = t[i]) => s = t
    BY SeqEqual
  <2> QED BY <1>4, <1>5, <1>6, <2>1
<1> QED BY <1>2, <1>7

\* x has become y once the executor has pushed to it.
Started(x, y, was, p, n, over) ==
  Ready(y, was, p, n, over) /\ Direct(y) /\ y.buffering = FALSE /\ y.executor = FALSE

\* The executor is called.
Begin(x) == [x EXCEPT !.executor = FALSE]

\* Before its first push.
LEMMA ExecutorStarts ==
  ASSUME NEW x, NEW was, NEW p \in Nat, NEW n \in Nat, NEW over, Ready(x, was, p, n, over),
         x.buffering = FALSE, Direct(x)
  PROVE  Started(x, Begin(x), was, p, n, over)
<1>1. PICK F : F = FALSE
  OBVIOUS
<1>2. PICK y : y = [x EXCEPT !.executor = F]
  OBVIOUS
<1>3. Shape(x) /\ Rec(x)
  BY DEF Ready, Shape
<1>4. /\ Rec(y) /\ y.executor = F /\ y.hasq = x.hasq /\ y.buffering = x.buffering
      /\ y.chunk_size = x.chunk_size /\ y.it = x.it /\ y.q = x.q /\ y.notified = x.notified
      /\ y.callback = x.callback /\ y.called = x.called /\ y.aborted = x.aborted
  BY <1>2, <1>3 DEF Rec
<1>5. Shape(y)
  <2>1. F \in BOOLEAN
    BY <1>1
  <2>2. y.executor \in BOOLEAN
    BY <1>4, <2>1
  <2> QED BY <1>3, <1>4, <2>2 DEF Shape
<1>6. Ready(y, was, p, n, over)
  BY <1>4, <1>5 DEF Ready
<1>7. Started(x, y, was, p, n, over)
  BY <1>1, <1>4, <1>6 DEF Started, Direct
<1>8. y = Begin(x)
  BY <1>1, <1>2 DEF Begin
<1> QED BY <1>7, <1>8

\* The executor has been called.
Ran(x, y, was, p, n, over) ==
  Ready(y, was, p, n, over) /\ y.buffering = FALSE /\ y.executor = FALSE

\* The executor pushes the next L bytes, and may stop.
LEMMA ExecutorMore ==
  ASSUME NEW x, NEW was \in Seq(Results), NEW p \in Nat, NEW n \in Nat, NEW over,
         Ready(x, was, p, n, over), x.buffering = FALSE, Direct(x),
         NEW L \in Nat, NEW e, e.blocks \in Seq(Seq(Nat)), Len(e.blocks) = L,
         \A k \in 1 .. L : e.blocks[k] = <<n + k>>,
         NEW end, e.stops => end, ~e.stops => end = over
  PROVE  Ran(x, start_executor(x, e), was, p, n + L, end)
<1>0. PICK z : z = Begin(x)
  OBVIOUS
<1> DEFINE turns == CHOOSE h : h = [i \in 0 .. Len(e.blocks) |->
                                      IF i = 0 THEN z ELSE generator_push(h[i - 1], e.blocks[i], e.thened)]
<1>1. PICK y : y = start_executor(x, e)
  OBVIOUS
<1>2. y = IF e.stops THEN generator_stop(turns[Len(e.blocks)], Undefined)
                     ELSE turns[Len(e.blocks)]
  BY <1>0, <1>1 DEF start_executor, Begin
<1>3. turns = [i \in 0 .. L |-> IF i = 0 THEN z
                                ELSE generator_push(turns[i - 1], e.blocks[i], e.thened)]
  <2>1. \E h : Pushes(h, z, e, L)
    BY PushesExist
  <2> QED BY <2>1 DEF Pushes
<1> HIDE DEF turns
<1>4. \A j \in 0 .. L : turns[j] = IF j = 0 THEN z
                                   ELSE generator_push(turns[j - 1], e.blocks[j], e.thened)
  BY <1>3
<1> DEFINE T == {j \in 0 .. L : Started(x, turns[j], was, p, n + j, over)}
<1>5. 0 \in T
  <2>1. turns[0] = z /\ n + 0 = n /\ 0 \in 0 .. L
    BY <1>4
  <2>2. Started(x, z, was, p, n, over)
    BY <1>0, ExecutorStarts
  <2> QED BY <2>1, <2>2
<1>6. ASSUME NEW j \in 1 .. L, j - 1 \in T
      PROVE  j \in T
  <2>1. PICK v : v = turns[j - 1]
    OBVIOUS
  <2>2. PICK k \in Nat : k = n + (j - 1)
    OBVIOUS
  <2>9. Started(x, v, was, p, k, over)
    BY <1>6, <2>1, <2>2
  <2>3. Ready(v, was, p, k, over) /\ Direct(v) /\ v.buffering = FALSE /\ v.executor = FALSE
    BY <2>9 DEF Started
  <2>4. e.blocks[j] = After(k, 1)
    <3>1. j \in Nat \ {0} /\ e.blocks[j] = <<n + j>>
      OBVIOUS
    <3>2. <<n + j>> = After(n + (j - 1), 1)
      BY <3>1, AfterOne
    <3> QED BY <2>2, <3>1, <3>2
  <2>5. PICK t : t = e.thened
    OBVIOUS
  <2>6. turns[j] = generator_push(v, After(k, 1), t)
    <3>1. turns[j] = generator_push(turns[j - 1], e.blocks[j], e.thened)
      <4>1. j \in 0 .. L /\ j # 0
        OBVIOUS
      <4> QED BY <1>4, <4>1
    <3> QED BY <2>1, <2>4, <2>5, <3>1
  <2>7. Yielded(v, turns[j], was, p, k + 1, over)
    BY <2>3, <2>6, PushMore
  <2>8. k + 1 = n + j
    BY <2>2
  <2>10. Started(x, turns[j], was, p, n + j, over)
    BY <2>3, <2>7, <2>8 DEF Yielded, Started
  <2> QED BY <2>10
<1>7. L \in T
  <2>1. L \in 0 .. L
    OBVIOUS
  <2> HIDE DEF T
  <2> QED BY <1>5, <1>6, <2>1, Counting
<1>8. PICK v : v = turns[L]
  OBVIOUS
<1>9. PICK k \in Nat : k = n + L
  OBVIOUS
<1>10. Ready(v, was, p, k, over) /\ v.buffering = FALSE /\ v.executor = FALSE
  BY <1>7, <1>8, <1>9 DEF Started
<1>11. CASE e.stops
  <2>1. y = generator_stop(v, Undefined)
    BY <1>2, <1>8, <1>11
  <2>2. Ready(y, was, p, k, end)
    BY <1>10, <1>11, <2>1, StopEnds
  <2>3. Alike(v, y)
    BY <1>10, <1>11, <2>1, <2>2, StopEnds
  <2> QED BY <1>1, <1>9, <1>10, <2>2, <2>3 DEF Alike, Ran
<1>12. CASE ~e.stops
  BY <1>1, <1>2, <1>8, <1>9, <1>10, <1>12 DEF Ran
<1> QED BY <1>11, <1>12

\* y is what next() has made of x.
Nexted(x, y, was, p, n, over) ==
  /\ Ready(y, was, p, n, over) /\ ~UpdateReader(y)
  /\ y.buffering = x.buffering /\ y.chunk_size = x.chunk_size /\ y.executor = FALSE

\* The read is recorded.
LEMMA AskedReady ==
  ASSUME NEW x, NEW was \in Seq(Results), NEW p \in Nat, NEW n \in Nat, NEW over,
         Ready(x, was, p, n, over)
  PROVE  Moved(x, [x EXCEPT !.it = asynciterator_next(@)], was, p + 1, n, over)
<1>1. /\ Shape(x) /\ Iter(x.it, was, p, over, x.chunk_size) /\ Queue(x.q, x.chunk_size, over)
      /\ Flow(Gives(x.it.settled), queue_data(x.q), x.notified, n, over)
  BY DEF Ready
<1>2. PICK iter : iter = asynciterator_next(x.it)
  OBVIOUS
<1>3. Iter(iter, was, p + 1, over, x.chunk_size) /\ Gives(iter.settled) = Gives(x.it.settled)
  <2>1. Iter(iter, was, p + 1, over, x.chunk_size)
    BY <1>1, <1>2, IterNext
  <2>2. Gives(iter.settled) = Gives(x.it.settled)
    BY <1>1, <1>2, <2>1, IterNext
  <2> QED BY <2>1, <2>2
<1>4. PICK y : y = [x EXCEPT !.it = iter]
  OBVIOUS
<1>6. /\ Rec(y) /\ y.it = iter /\ y.q = x.q /\ y.notified = x.notified /\ Alike(x, y)
      /\ y.callback = x.callback /\ y.called = x.called /\ y.aborted = x.aborted
  BY <1>1, <1>4 DEF Shape, Rec, Alike
<1>7. Shape(y)
  BY <1>1, <1>6 DEF Shape, Alike
<1>8. Moved(x, y, was, p + 1, n, over)
  BY <1>1, <1>3, <1>6, <1>7 DEF Moved, Ready, Alike
<1> QED BY <1>2, <1>4, <1>8

\* What a stopped generator answers to a read at once.
Finally(x, y) ==
  IF ~(Len(y.it.settled) > Len(x.it.settled)) /\ generator_stopped(y)
  THEN [y EXCEPT !.it = asynciterator_stop(@, Undefined)]
  ELSE y

\* It ends nothing else.
LEMMA FinallySame ==
  ASSUME NEW x, NEW y, NEW was \in Seq(Results), NEW p \in Nat, NEW n \in Nat, NEW over,
         Ready(y, was, p, n, over), ~UpdateReader(y)
  PROVE  /\ Ready(Finally(x, y), was, p, n, over) /\ ~UpdateReader(Finally(x, y))
         /\ Alike(y, Finally(x, y))
<1>1. PICK z : z = Finally(x, y)
  OBVIOUS
<1>2. CASE z = y
  BY <1>1, <1>2 DEF Alike
<1>3. CASE z # y
  <2>1. z = generator_return(y, Undefined) /\ generator_stopped(y)
    BY <1>1, <1>3 DEF Finally, generator_return
  <2>2. over
    BY <2>1 DEF Ready, Iter, generator_stopped
  <2>3. Moved(y, z, was, p, n, over)
    BY <2>1, <2>2, ReturnEnds
  <2>4. Ready(z, was, p, n, over) /\ Alike(y, z)
    BY <2>3 DEF Moved
  <2>5. ~UpdateReader(z)
    BY <2>2, <2>4 DEF Ready, Iter, UpdateReader, asynciterator_pending
  <2> QED BY <1>1, <2>4, <2>5
<1> QED BY <1>2, <1>3

\* What generator_callback leaves alone.
LEMMA CallbackSame ==
  ASSUME NEW x, NEW was, NEW p \in Nat, NEW n \in Nat, NEW over, Ready(x, was, p, n, over)
  PROVE  Moved(x, [generator_callback(x, Undefined) EXCEPT !.started = TRUE], was, p, n, over)
<1>1. Rec(x) /\ x.callback[1] # "continuous"
  BY DEF Ready, Shape
<1>2. PICK f : f = x.callback
  OBVIOUS
<1>3. PICK v : v = [x EXCEPT !.callback = NoFunction]
  OBVIOUS
<1>4. /\ Rec(v) /\ v.it = x.it /\ v.q = x.q /\ v.notified = x.notified /\ Alike(x, v)
      /\ v.callback = NoFunction /\ v.called = x.called /\ v.aborted = x.aborted
  BY <1>1, <1>3 DEF Rec, Alike
<1>5. PICK w : w = JS_Call(v, f, Undefined)
  OBVIOUS
<1>6. \E s : w = [v EXCEPT !.pushes = s]
  <2>1. CASE f[1] = "push"
    <3>1. \E s : w = [v EXCEPT !.pushes = [@ EXCEPT ![f[2]] = s]]
      BY <1>5, <2>1 DEF JS_Call
    <3> QED BY <3>1
  <2>2. CASE f[1] # "push"
    <3>1. w = v
      BY <1>1, <1>2, <1>5, <2>2 DEF JS_Call
    <3>2. v = [v EXCEPT !.pushes = v.pushes]
      BY <1>4 DEF Rec
    <3> QED BY <3>1, <3>2
  <2> QED BY <2>1, <2>2
<1>7. PICK s : w = [v EXCEPT !.pushes = s]
  BY <1>6
<1>8. /\ Rec(w) /\ w.it = x.it /\ w.q = x.q /\ w.notified = x.notified /\ Alike(x, w)
      /\ w.callback = NoFunction /\ w.called = x.called /\ w.aborted = x.aborted
  BY <1>4, <1>7 DEF Rec, Alike
<1>9. PICK T : T = TRUE
  OBVIOUS
<1>10. PICK y : y = [w EXCEPT !.started = T]
  OBVIOUS
<1>11. /\ Rec(y) /\ y.it = x.it /\ y.q = x.q /\ y.notified = x.notified /\ Alike(x, y)
       /\ y.callback = NoFunction /\ y.called = x.called /\ y.aborted = x.aborted
  BY <1>8, <1>10 DEF Rec, Alike
<1>12. y.callback[1] # "continuous"
  BY <1>11 DEF NoFunction
<1>13. Moved(x, y, was, p, n, over)
  BY <1>11, <1>12, ReadySame DEF Moved
<1> QED BY <1>2, <1>3, <1>5, <1>9, <1>10, <1>13 DEF generator_callback

\* next() is called: the executor, if it was not called yet, pushes L bytes.
LEMMA NextMore ==
  ASSUME NEW x, NEW was \in Seq(Results), NEW p \in Nat, NEW n \in Nat, NEW over,
         Ready(x, was, p, n, over), x.executor => ~x.hasq /\ ~x.buffering,
         NEW L \in Nat, NEW e, e.blocks \in Seq(Seq(Nat)), Len(e.blocks) = L,
         \A k \in 1 .. L : e.blocks[k] = <<n + k>>,
         NEW end, e.stops => end, ~e.stops => end = over,
         ~x.executor => L = 0 /\ ~e.stops
  PROVE  Nexted(x, generator_next(x, Undefined, e), was, p + 1, n + L, end)
<1>1. PICK y : y = generator_next(x, Undefined, e)
  OBVIOUS
<1>2. PICK a : a = [x EXCEPT !.it = asynciterator_next(@)]
  OBVIOUS
<1>3. PICK k \in Nat : k = n + L
  OBVIOUS
<1>4. PICK r \in Nat : r = p + 1
  OBVIOUS
<1>5. Ready(a, was, r, n, over) /\ Alike(x, a) /\ a.q = x.q
  <2>1. Moved(x, a, was, p + 1, n, over)
    BY <1>2, AskedReady
  <2> QED BY <1>4, <2>1 DEF Moved
<1>6. Shape(a) /\ Rec(a) /\ Shape(x)
  BY <1>5 DEF Ready, Shape
<1>7. a.started = x.started
  BY <1>2, <1>6 DEF Shape, Rec
<1>8. PICK b : b = CASE x.executor -> start_executor(a, e)
                     [] ~x.executor /\ ~x.started ->
                          [generator_callback(a, Undefined) EXCEPT !.started = TRUE]
                     [] OTHER -> a
  OBVIOUS
<1>9. /\ Ready(b, was, r, k, end) /\ b.executor = FALSE
      /\ b.buffering = x.buffering /\ b.chunk_size = x.chunk_size
  <2>1. CASE x.executor
    <3>1. b = start_executor(a, e)
      BY <1>8, <2>1
    <3>2. a.buffering = FALSE /\ Direct(a)
      <4>1. ~x.hasq /\ ~x.buffering
        BY <2>1
      <4> QED BY <1>5, <1>6, <4>1 DEF Alike, Shape, Direct
    <3>3. Ready(b, was, r, n + L, end) /\ b.buffering = FALSE /\ b.executor = FALSE
      <4>1. Ran(a, b, was, r, n + L, end)
        BY <1>5, <3>1, <3>2, ExecutorMore
      <4> QED BY <4>1 DEF Ran
    <3>4. Shape(b)
      BY <3>3 DEF Ready
    <3>5. x.chunk_size = 0 /\ b.chunk_size = 0 /\ x.buffering = FALSE
      BY <1>6, <2>1, <3>3, <3>4 DEF Shape
    <3> QED BY <1>3, <3>3, <3>5
  <2>2. CASE ~x.executor
    <3>1. L = 0 /\ ~e.stops /\ end = over /\ k = n
      BY <1>3, <2>2
    <3>2. x.executor = FALSE
      BY <1>6, <2>2 DEF Shape
    <3>3. CASE ~x.started
      <4>1. b = [generator_callback(a, Undefined) EXCEPT !.started = TRUE]
        BY <1>8, <2>2, <3>3
      <4>2. Moved(a, b, was, r, n, over)
        BY <1>5, <4>1, CallbackSame
      <4> QED BY <1>5, <3>1, <3>2, <4>2 DEF Moved, Alike
    <3>4. CASE x.started
      <4>1. b = a
        BY <1>8, <2>2, <3>4
      <4> QED BY <1>5, <3>1, <3>2, <4>1 DEF Alike
    <3> QED BY <3>3, <3>4
  <2> QED BY <2>1, <2>2
<1>10. PICK u : u = IF b.hasq THEN generator_update(b) ELSE b
  OBVIOUS
<1>11. Ready(u, was, r, k, end) /\ Alike(b, u) /\ ~UpdateReader(u)
  <2>1. CASE b.hasq
    <3>1. u = generator_update(b)
      BY <1>10, <2>1
    <3>2. Ready(u, was, r, k, end)
      BY <1>9, <3>1, UpdateServes
    <3>3. Alike(b, u)
      BY <1>9, <3>1, <3>2, UpdateServes
    <3>4. ~UpdateReader(u)
      BY <1>9, <3>1, <3>2, UpdateServes
    <3> QED BY <3>2, <3>3, <3>4
  <2>2. CASE ~b.hasq
    <3>1. u = b
      BY <1>10, <2>2
    <3> QED BY <1>9, <2>2, <3>1 DEF Alike, UpdateReader
  <2> QED BY <2>1, <2>2
<1>12. b.aborted = ""
  BY <1>9 DEF Ready, Shape
<1>13. asynciterator_next_assert(x.it)
  BY DEF Ready, Iter, asynciterator_next_assert, asynciterator_pending
<1>14. y = Finally(b, u)
  <2>1. y = CASE ~asynciterator_next_assert(x.it) -> Abort(x, "asynciterator_next")
              [] asynciterator_next_assert(x.it) /\ b.aborted # "" -> b
              [] OTHER -> Finally(b, u)
    BY <1>1, <1>2, <1>7, <1>8, <1>10 DEF generator_next, Finally
  <2> QED BY <1>12, <1>13, <2>1
<1>15. Ready(y, was, r, k, end) /\ ~UpdateReader(y) /\ Alike(u, y)
  <2>1. Ready(y, was, r, k, end)
    BY <1>11, <1>14, FinallySame
  <2>2. ~UpdateReader(y)
    BY <1>11, <1>14, <2>1, FinallySame
  <2>3. Alike(u, y)
    BY <1>11, <1>14, <2>1, FinallySame
  <2> QED BY <2>1, <2>2, <2>3
<1>16. Nexted(x, y, was, r, k, end)
  BY <1>9, <1>11, <1>15 DEF Nexted, Alike
<1> QED BY <1>1, <1>3, <1>4, <1>16

\* A push is rejected.
LEMMA RejectSame ==
  ASSUME NEW x, NEW was, NEW p, NEW n, NEW over, Ready(x, was, p, n, over)
  PROVE  Moved(x, RejectPush(x), was, p, n, over)
<1>1. PICK y : y = RejectPush(x)
  OBVIOUS
<1>2. CASE x.reject = 0
  <2>1. y = x
    BY <1>1, <1>2 DEF RejectPush
  <2> QED BY <1>1, <2>1 DEF Moved, Alike
<1>3. CASE x.reject # 0
  <2>1. Rec(x)
    BY DEF Ready, Shape
  <2>2. \E s : y = [x EXCEPT !.callback = NoFunction, !.reject = 0, !.pushes = s]
    <3>1. \E s : y = [x EXCEPT !.callback = NoFunction, !.reject = 0,
                               !.pushes = [@ EXCEPT ![x.reject] = s]]
      BY <1>1, <1>3 DEF RejectPush
    <3> QED BY <3>1
  <2>3. PICK s : y = [x EXCEPT !.callback = NoFunction, !.reject = 0, !.pushes = s]
    BY <2>2
  <2>4. /\ Rec(y) /\ y.it = x.it /\ y.q = x.q /\ y.notified = x.notified /\ Alike(x, y)
        /\ y.callback = NoFunction /\ y.called = x.called /\ y.aborted = x.aborted
    BY <2>1, <2>3 DEF Rec, Alike
  <2>5. y.callback[1] # "continuous"
    BY <2>4 DEF NoFunction
  <2>6. Moved(x, y, was, p, n, over)
    BY <2>4, <2>5, ReadySame DEF Moved
  <2> QED BY <1>1, <2>6
<1> QED BY <1>2, <1>3

\* x has become y, in which no reader waits in vain, and whose executor is x's or was
\* called.
Kept(x, y, was, p, n, over) ==
  /\ Ready(y, was, p, n, over) /\ ~UpdateReader(y)
  /\ y.buffering = x.buffering /\ y.chunk_size = x.chunk_size
  /\ y.executor => (x.executor /\ y.hasq = x.hasq)

\* throw() ends the generator, or is a call of next().
LEMMA ThrowMore ==
  ASSUME NEW x, NEW was \in Seq(Results), NEW p \in Nat, NEW n \in Nat, NEW over \in BOOLEAN,
         Ready(x, was, p, n, over),
         NEW end, end = (over \/ generator_throw(x).it.issued = x.it.issued)
  PROVE  \E r \in {p, p + 1} : Kept(x, generator_throw(x), was, r, n, end)
<1>1. PICK y : y = generator_throw(x)
  OBVIOUS
<1> DEFINE stops == \/ ~generator_started(x)
                    \/ generator_stopped(x)
                    \/ x.hasq /\ ~queue_empty(x.q)
                    \/ ~x.thened
<1>3. x.it.issued = p
  BY DEF Ready, Iter
<1>4. CASE stops
  <2>1. y = generator_stop(x, Undefined)
    BY <1>1, <1>4 DEF generator_throw
  <2>2. PICK t : t = TRUE
    OBVIOUS
  <2>3. Ready(y, was, p, n, t)
    BY <2>1, <2>2, StopEnds
  <2>4. Alike(x, y)
    BY <2>1, <2>2, <2>3, StopEnds
  <2>5. y.it.issued = p
    BY <2>3 DEF Ready, Iter
  <2>6. end = t
    BY <1>1, <1>3, <2>2, <2>5
  <2>7. ~UpdateReader(y)
    BY <2>2, <2>3 DEF Ready, Iter, UpdateReader, asynciterator_pending
  <2>8. Kept(x, y, was, p, n, end)
    BY <2>3, <2>4, <2>6, <2>7 DEF Kept, Alike
  <2> QED BY <1>1, <2>8
<1>5. CASE ~stops
  <2>1. PICK z : z = RejectPush(x)
    OBVIOUS
  <2>2. PICK e : e = NoExecutor
    OBVIOUS
  <2>3. y = generator_next(z, Undefined, e) /\ ~x.executor
    <3>1. /\ generator_started(x) /\ ~generator_stopped(x)
          /\ ~(x.hasq /\ ~queue_empty(x.q)) /\ ~(~x.thened)
      BY <1>5
    <3>2. y = generator_next(z, Undefined, e)
      BY <1>1, <2>1, <2>2, <3>1 DEF generator_throw
    <3> QED BY <3>1, <3>2 DEF generator_started
  <2>4. Moved(x, z, was, p, n, over)
    BY <2>1, RejectSame
  <2>5. Ready(z, was, p, n, over) /\ Alike(x, z) /\ ~z.executor
    BY <2>3, <2>4 DEF Moved, Alike
  <2>6. e.blocks = <<>> /\ ~e.stops
    BY <2>2 DEF NoExecutor
  <2>7. PICK L \in Nat : L = 0
    OBVIOUS
  <2>8. e.blocks \in Seq(Seq(Nat)) /\ Len(e.blocks) = L
    BY <2>6, <2>7
  <2>9. \A k \in 1 .. L : e.blocks[k] = <<n + k>>
    BY <2>7
  <2>10. Nexted(z, y, was, p + 1, n + L, over)
    BY <2>3, <2>5, <2>6, <2>7, <2>8, <2>9, NextMore
  <2>11. n + L = n
    BY <2>7
  <2>12. Ready(y, was, p + 1, n, over)
    BY <2>10, <2>11 DEF Nexted
  <2>13. y.it.issued = p + 1
    BY <2>12 DEF Ready, Iter
  <2>14. end = over
    BY <1>1, <1>3, <2>13
  <2>15. Kept(x, y, was, p + 1, n, end)
    BY <2>5, <2>10, <2>12, <2>14 DEF Nexted, Kept, Alike
  <2> QED BY <1>1, <2>15
<1> QED BY <1>4, <1>5

\* enqueue() of a generator, which gets its queue.
LEMMA EnqueueSame ==
  ASSUME NEW x, NEW b, Rec(x)
  PROVE  generator_enqueue(x, b) = enqueue_block(x, b, 0)
<1>1. PICK T : T = TRUE
  OBVIOUS
<1>2. PICK y : y = [x EXCEPT !.hasq = T]
  OBVIOUS
<1>3. y = create_queue(x)
  BY <1>1, <1>2 DEF create_queue
<1>4. y.q = x.q /\ y.buffering = x.buffering /\ y.chunk_size = x.chunk_size /\ Rec(y)
  BY <1>2 DEF Rec
<1>5. [y EXCEPT !.hasq = T] = y
  <2>1. PICK z : z = [y EXCEPT !.hasq = T]
    OBVIOUS
  <2>2. /\ Rec(z) /\ z.it = y.it /\ z.hasq = y.hasq /\ z.q = y.q /\ z.buffering = y.buffering
        /\ z.chunk_size = y.chunk_size /\ z.started = y.started /\ z.executor = y.executor
        /\ z.callback = y.callback /\ z.reject = y.reject /\ z.thened = y.thened
        /\ z.pushes = y.pushes /\ z.called = y.called /\ z.notified = y.notified
        /\ z.aborted = y.aborted
    <3>1. y.hasq = T
      BY <1>2 DEF Rec
    <3> QED BY <1>4, <2>1, <3>1 DEF Rec
  <2> QED BY <1>4, <2>1, <2>2 DEF Rec
<1>6. create_queue(y) = y
  BY <1>1, <1>5 DEF create_queue
<1>7. enqueue_block(y, b, 0) = enqueue_block(x, b, 0)
  BY <1>3, <1>4, <1>6 DEF enqueue_block
<1> QED BY <1>3, <1>7 DEF generator_enqueue

-----------------------------------------------------------------------------
\* The queue that gathers.

\* The parts of a block are behind each other.
Parts(S, s, a, b) ==
  /\ SubSeq(s, a + 1, b) \in Seq(S) /\ Len(SubSeq(s, a + 1, b)) = b - a
  /\ SubSeq(s, 1, b) = SubSeq(s, 1, a) \o SubSeq(s, a + 1, b)

\* A block has its parts.
LEMMA PrefixMore ==
  ASSUME NEW S, NEW s \in Seq(S), NEW a \in 0 .. Len(s), NEW b \in a .. Len(s)
  PROVE  Parts(S, s, a, b)
<1>1. PICK u, v, w : u = SubSeq(s, 1, a) /\ v = SubSeq(s, a + 1, b) /\ w = SubSeq(s, 1, b)
  OBVIOUS
<1>2. u \in Seq(S) /\ Len(u) = a /\ \A i \in 1 .. a : u[i] = s[i]
  BY <1>1, Prefix
<1>3. w \in Seq(S) /\ Len(w) = b /\ \A i \in 1 .. b : w[i] = s[i]
  <2>1. b \in 0 .. Len(s)
    OBVIOUS
  <2> QED BY <1>1, <2>1, Prefix
<1>4. v \in Seq(S) /\ Len(v) = b - a /\ \A i \in 1 .. b - a : v[i] = s[a + i]
  <2>1. a + 1 \in Int /\ b \in Int /\ \A i \in a + 1 .. b : s[i] \in S
    OBVIOUS
  <2>2. v \in Seq(S)
    BY <1>1, <2>1, SubSeqProperties
  <2>3. Len(v) = b - a
    <3>1. Len(v) = IF a + 1 =< b THEN b - (a + 1) + 1 ELSE 0
      BY <1>1, <2>1, SubSeqProperties
    <3> QED BY <3>1
  <2>4. \A i \in 1 .. b - (a + 1) + 1 : v[i] = s[a + 1 + i - 1]
    BY <1>1, <2>1, SubSeqProperties
  <2>5. \A i \in 1 .. b - a : i \in 1 .. b - (a + 1) + 1 /\ a + 1 + i - 1 = a + i
    OBVIOUS
  <2> QED BY <2>2, <2>3, <2>4, <2>5
<1>5. w = u \o v
  <2>1. Len(w) = Len(u) + Len(v)
    BY <1>2, <1>3, <1>4
  <2>2. \A i \in 1 .. Len(u) : w[i] = u[i]
    BY <1>2, <1>3
  <2>3. \A i \in 1 .. Len(v) : w[Len(u) + i] = v[i]
    BY <1>2, <1>3, <1>4, SMTT(60)
  <2> QED BY <1>2, <1>3, <1>4, <2>1, <2>2, <2>3, IsConcat
<1> QED BY <1>1, <1>4, <1>5 DEF Parts

\* The whole is a part.
LEMMA Whole ==
  ASSUME NEW S, NEW s \in Seq(S)
  PROVE  SubSeq(s, 1, Len(s)) = s
<1>1. PICK u : u = SubSeq(s, 1, Len(s))
  OBVIOUS
<1>2. Len(s) \in 0 .. Len(s)
  OBVIOUS
<1>3. u \in Seq(S) /\ Len(u) = Len(s) /\ \A i \in 1 .. Len(s) : u[i] = s[i]
  BY <1>1, <1>2, Prefix
<1> QED BY <1>1, <1>3, SeqEqual

\* Where the piece after k pieces of n bytes ends.
Edge(k, n, L) == IF k * n + n < L THEN k * n + n ELSE L

\* How many there are, and where they lie.
LEMMA Edges ==
  ASSUME NEW n \in Nat \ {0}, NEW L \in Nat, n < L
  PROVE  /\ (L - 1) \div n \in Nat /\ Edge(0, n, L) = n /\ Edge((L - 1) \div n, n, L) = L
         /\ \A k \in 1 .. (L - 1) \div n :
              /\ Edge(k - 1, n, L) = k * n /\ k * n \in Nat /\ k * n < L
              /\ Edge(k, n, L) \in Nat /\ Edge(k, n, L) =< L
              /\ k * n < Edge(k, n, L) /\ Edge(k, n, L) - k * n =< n
<1>1. PICK D, r : /\ D = (L - 1) \div n /\ r = (L - 1) % n
  OBVIOUS
<1>2. L - 1 \in Nat /\ n \in Nat /\ n > 0
  OBVIOUS
<1>3. D \in Int /\ r \in 0 .. n - 1 /\ L - 1 = n * D + r
  BY <1>1, <1>2
<1>4. D \in Nat
  BY <1>2, <1>3
<1>5. D * n \in Nat /\ D * n =< L - 1 /\ D * n + n >= L
  BY <1>2, <1>3, <1>4
<1>6. Edge(0, n, L) = n
  BY <1>2 DEF Edge
<1>7. Edge(D, n, L) = L
  BY <1>2, <1>4, <1>5 DEF Edge
<1>8. ASSUME NEW k \in 1 .. D
      PROVE  /\ Edge(k - 1, n, L) = k * n /\ k * n \in Nat /\ k * n < L
             /\ Edge(k, n, L) \in Nat /\ Edge(k, n, L) =< L
             /\ k * n < Edge(k, n, L) /\ Edge(k, n, L) - k * n =< n
  <2>1. k * n \in Nat /\ k * n =< D * n
    BY <1>2, <1>4
  <2>2. (k - 1) * n + n = k * n
    BY <1>2
  <2>3. k * n < L
    BY <1>5, <2>1
  <2>4. Edge(k - 1, n, L) = k * n
    BY <1>2, <2>1, <2>2, <2>3 DEF Edge
  <2>5. PICK e : e = k * n
    OBVIOUS
  <2>6. e \in Nat /\ e < L
    BY <2>1, <2>3, <2>5
  <2>7. Edge(k, n, L) = IF e + n < L THEN e + n ELSE L
    BY <2>5 DEF Edge
  <2>8. /\ Edge(k, n, L) \in Nat /\ Edge(k, n, L) =< L
        /\ e < Edge(k, n, L) /\ Edge(k, n, L) - e =< n
    BY <1>2, <2>6, <2>7, SMTT(60)
  <2> QED BY <2>3, <2>4, <2>5, <2>6, <2>8
<1> QED BY <1>1, <1>4, <1>6, <1>7, <1>8

\* x in place of the element at p.
Swapped(s, p, x) == Append(SubSeq(s, 1, p - 1), x) \o SubSeq(s, p + 1, Len(s))

\* It is, and what is before and behind p.
Split(S, s, p, x) ==
  /\ [s EXCEPT ![p] = x] = Swapped(s, p, x) /\ Swapped(s, p, x) \in Seq(S)
  /\ SubSeq(s, 1, p - 1) \in Seq(S) /\ Len(SubSeq(s, 1, p - 1)) = p - 1
  /\ \A i \in 1 .. p - 1 : SubSeq(s, 1, p - 1)[i] = s[i]
  /\ SubSeq(s, p + 1, Len(s)) \in Seq(S) /\ Len(SubSeq(s, p + 1, Len(s))) = Len(s) - p
  /\ \A i \in 1 .. Len(s) - p : SubSeq(s, p + 1, Len(s))[i] = s[p + i]

\* Every sequence is that.
LEMMA Swap ==
  ASSUME NEW S, NEW s \in Seq(S), NEW p \in 1 .. Len(s), NEW x \in S
  PROVE  Split(S, s, p, x)
<1>1. PICK f, t : f = SubSeq(s, 1, p - 1) /\ t = SubSeq(s, p + 1, Len(s))
  OBVIOUS
<1>2. f \in Seq(S) /\ Len(f) = p - 1 /\ \A i \in 1 .. p - 1 : f[i] = s[i]
  <2>1. p - 1 \in 0 .. Len(s)
    OBVIOUS
  <2> QED BY <1>1, <2>1, Prefix
<1>3. t \in Seq(S) /\ Len(t) = Len(s) - p
  <2>1. p \in 0 .. Len(s) /\ Len(s) \in p .. Len(s)
    OBVIOUS
  <2>2. Parts(S, s, p, Len(s))
    BY <2>1, PrefixMore
  <2> QED BY <1>1, <2>2 DEF Parts
<1>4. \A i \in 1 .. Len(s) - p : t[i] = s[p + i]
  <2>1. p + 1 \in Int /\ Len(s) \in Int /\ \A i \in p + 1 .. Len(s) : s[i] \in S
    OBVIOUS
  <2>2. \A i \in 1 .. Len(s) - (p + 1) + 1 : t[i] = s[p + 1 + i - 1]
    BY <1>1, <2>1, SubSeqProperties, SMTT(60)
  <2>3. \A i \in 1 .. Len(s) - p : i \in 1 .. Len(s) - (p + 1) + 1 /\ p + 1 + i - 1 = p + i
    OBVIOUS
  <2> QED BY <2>2, <2>3
<1>5. PICK a : a = Append(f, x)
  OBVIOUS
<1>6. a \in Seq(S) /\ Len(a) = p /\ a[p] = x /\ \A i \in 1 .. p - 1 : a[i] = s[i]
  <2>1. /\ a \in Seq(S) /\ Len(a) = Len(f) + 1 /\ a[Len(f) + 1] = x
        /\ \A i \in 1 .. Len(f) : a[i] = f[i]
    BY <1>2, <1>5, AppendProperties
  <2>2. Len(f) + 1 = p
    BY <1>2
  <2> QED BY <1>2, <2>1, <2>2
<1>7. PICK u : u = [s EXCEPT ![p] = x]
  OBVIOUS
<1>8. u \in Seq(S) /\ Len(u) = Len(s) /\ u[p] = x /\ \A i \in 1 .. Len(s) : i # p => u[i] = s[i]
  BY <1>7
<1>9. u = a \o t
  <2>1. Len(u) = Len(a) + Len(t)
    BY <1>3, <1>6, <1>8
  <2>2. \A i \in 1 .. Len(a) : u[i] = a[i]
    <3> SUFFICES ASSUME NEW i \in 1 .. Len(a) PROVE u[i] = a[i]
      OBVIOUS
    <3>1. CASE i = p
      BY <1>6, <1>8, <3>1
    <3>2. CASE i # p
      <4>1. i \in 1 .. p - 1 /\ i \in 1 .. Len(s)
        BY <1>6, <3>2
      <4> QED BY <1>6, <1>8, <3>2, <4>1
    <3> QED BY <3>1, <3>2
  <2>3. \A i \in 1 .. Len(t) : u[Len(a) + i] = t[i]
    <3> SUFFICES ASSUME NEW i \in 1 .. Len(t) PROVE u[Len(a) + i] = t[i]
      OBVIOUS
    <3>1. p + i \in 1 .. Len(s) /\ p + i # p /\ i \in 1 .. Len(s) - p
      BY <1>3
    <3> QED BY <1>4, <1>6, <1>8, <3>1
  <2> QED BY <1>3, <1>6, <1>8, <2>1, <2>2, <2>3, IsConcat
<1>10. u = Swapped(s, p, x)
  BY <1>1, <1>5, <1>9 DEF Swapped
<1> QED BY <1>1, <1>2, <1>3, <1>4, <1>7, <1>8, <1>10 DEF Split

\* Chunks that are empty hold nothing.
LEMMA HoldsNone ==
  ASSUME NEW s \in Seq(Items), \A i \in 1 .. Len(s) : s[i].block = <<>>
  PROVE  Holds(s) = <<>>
<1>1. Blocks(s) \in Seq(Seq(Nat)) /\ Len(Blocks(s)) = Len(s)
  BY HoldsType
<1>2. \A i \in 1 .. Len(Blocks(s)) : Blocks(s)[i] = <<>>
  BY <1>1 DEF Blocks
<1>3. FlattenSeq(Blocks(s)) = <<>>
  BY <1>1, <1>2, FlattenNone
<1> QED BY <1>3 DEF Holds

\* What the chunks before p hold.
Before(s, p) == Holds(SubSeq(s, 1, p - 1))

\* A queue whose last chunk is replaced.
LEMMA HoldsSwap ==
  ASSUME NEW s \in Seq(Items), NEW p \in 1 .. Len(s), NEW x \in Items,
         \A i \in 1 .. Len(s) : i > p => s[i].block = <<>>
  PROVE  /\ [s EXCEPT ![p] = x] \in Seq(Items) /\ Before(s, p) \in Seq(Nat)
         /\ Holds([s EXCEPT ![p] = x]) = Before(s, p) \o x.block
<1>1. PICK f, t : f = SubSeq(s, 1, p - 1) /\ t = SubSeq(s, p + 1, Len(s))
  OBVIOUS
<1>2. PICK u : u = [s EXCEPT ![p] = x]
  OBVIOUS
<1>3. u = Swapped(s, p, x) /\ f \in Seq(Items) /\ t \in Seq(Items) /\ Len(t) = Len(s) - p
      /\ \A i \in 1 .. Len(s) - p : t[i] = s[p + i]
  <2>1. Split(Items, s, p, x)
    BY Swap
  <2>2. /\ [s EXCEPT ![p] = x] = Swapped(s, p, x)
        /\ SubSeq(s, 1, p - 1) \in Seq(Items)
    BY <2>1 DEF Split
  <2>3. SubSeq(s, p + 1, Len(s)) \in Seq(Items) /\ Len(SubSeq(s, p + 1, Len(s))) = Len(s) - p
    BY <2>1 DEF Split
  <2>4. \A i \in 1 .. Len(s) - p : SubSeq(s, p + 1, Len(s))[i] = s[p + i]
    BY <2>1 DEF Split
  <2> QED BY <1>1, <1>2, <2>1, <2>2, <2>3, <2>4
<1>4. PICK a : a = Append(f, x)
  OBVIOUS
<1>5. a \in Seq(Items) /\ Holds(a) = Holds(f) \o x.block
  <2>1. a \in Seq(Items)
    BY <1>3, <1>4, AppendProperties
  <2> QED BY <1>3, <1>4, <2>1, HoldsMore
<1>6. Holds(t) = <<>>
  <2>1. \A i \in 1 .. Len(t) : t[i].block = <<>>
    <3>1. \A i \in 1 .. Len(t) : i \in 1 .. Len(s) - p /\ p + i \in 1 .. Len(s) /\ p + i > p
      BY <1>3
    <3> QED BY <1>3, <3>1
  <2> QED BY <1>3, <2>1, HoldsNone
<1>7. u = a \o t
  BY <1>1, <1>3, <1>4 DEF Swapped
<1>8. Holds(u) = Holds(a) \o Holds(t)
  BY <1>3, <1>5, <1>7, HoldsConcat
<1>9. Holds(a) \in Seq(Nat) /\ Holds(f) \in Seq(Nat)
  BY <1>3, <1>5, HoldsType
<1>10. Holds(a) \o <<>> = Holds(a)
  BY <1>9, ConcatEmptySeq
<1>11. Holds(u) = Holds(f) \o x.block
  BY <1>5, <1>6, <1>8, <1>10
<1>12. u \in Seq(Items)
  BY <1>2
<1> QED BY <1>1, <1>2, <1>9, <1>11, <1>12 DEF Before

\* A chunk of its own.
Piece(b, size) ==
  /\ Item(b) \in Items /\ ~Item(b).done /\ Item(b).block = b /\ Item(b).unref = 0
  /\ Chunk(Item(b), size)

\* Bytes that fit a chunk make one.
LEMMA IsPiece ==
  ASSUME NEW b \in Seq(Nat), NEW size \in Nat, b # <<>>, Len(b) =< size
  PROVE  Piece(b, size)
<1>1. PICK F : F = FALSE
  OBVIOUS
<1>2. PICK i : i = [block |-> b, done |-> F, unref |-> 0]
  OBVIOUS
<1>3. i = Item(b)
  BY <1>1, <1>2 DEF Item
<1>4. i \in Items /\ ~i.done /\ i.block = b /\ i.unref = 0
  BY <1>1, <1>2 DEF Items
<1>5. Chunk(i, size)
  BY <1>4 DEF Chunk
<1> QED BY <1>3, <1>4, <1>5 DEF Piece

\* A queue that gathers in its chunk at p, behind which there is nothing but its end.
Gathers(s, p, size, over) ==
  /\ s \in Seq(Items) /\ p \in 1 .. Len(s)
  /\ \A i \in 1 .. Len(s) : i < p => ~s[i].done /\ Chunk(s[i], size)
  /\ ~s[p].done /\ s[p].unref = 0 /\ s[p].block # <<>>
  /\ \A i \in 1 .. Len(s) : i > p => End(s[i]) /\ i = Len(s) /\ over

\* The chunk is replaced by one that is not too long.
LEMMA GatherSwap ==
  ASSUME NEW s, NEW p, NEW size, NEW over, Gathers(s, p, size, over),
         NEW c \in Items, ~c.done, Chunk(c, size)
  PROVE  /\ Filled([s EXCEPT ![p] = c], size, over)
         /\ Holds([s EXCEPT ![p] = c]) = Before(s, p) \o c.block
<1>1. s \in Seq(Items) /\ p \in 1 .. Len(s)
  BY DEF Gathers
<1>2. \A i \in 1 .. Len(s) : i > p => s[i].block = <<>>
  BY DEF Gathers, End
<1>3. PICK u : u = [s EXCEPT ![p] = c]
  OBVIOUS
<1>4. u \in Seq(Items) /\ Len(u) = Len(s) /\ u[p] = c /\ \A i \in 1 .. Len(s) : i # p => u[i] = s[i]
  BY <1>1, <1>3
<1>5. Filled(u, size, over)
  <2> SUFFICES ASSUME NEW i \in 1 .. Len(s)
               PROVE  \/ ~u[i].done /\ Chunk(u[i], size)
                      \/ End(u[i]) /\ i = Len(s) /\ over
    BY <1>4 DEF Filled
  <2>1. CASE i = p
    BY <1>4, <2>1
  <2>2. CASE i < p
    BY <1>1, <1>4, <2>2 DEF Gathers
  <2>3. CASE i > p
    BY <1>1, <1>4, <2>3 DEF Gathers
  <2> QED BY <1>1, <2>1, <2>2, <2>3
<1>6. Holds(u) = Before(s, p) \o c.block
  BY <1>1, <1>2, <1>3, HoldsSwap
<1> QED BY <1>3, <1>5, <1>6

\* What is gathered has been cut up; what does not fit into a closed queue is dropped.
Cut(s, r, p, size, over) ==
  /\ Filled(r, size, over)
  /\ \/ Holds(r) = Holds(s)
     \/ over /\ \E k \in 0 .. Len(Holds(s)) : Holds(r) = SubSeq(Holds(s), 1, k)

\* Whether what is gathered in a queue is cut up when it is closed.
LEMMA CutClosed ==
  ASSUME NEW s, NEW p, NEW size \in Nat \ {0}, NEW over, Gathers(s, p, size, over),
         NEW c \in Items, ~c.done, Chunk(c, size), c.block = SubSeq(s[p].block, 1, size),
         size < Len(s[p].block), p # Len(s)
  PROVE  Cut(s, [s EXCEPT ![p] = c], p, size, over)
<1>1. s \in Seq(Items) /\ p \in 1 .. Len(s) /\ s[p] \in Items
  BY DEF Gathers
<1>2. PICK r : r = [s EXCEPT ![p] = c]
  OBVIOUS
<1>3. Filled(r, size, over)
  BY <1>2, GatherSwap
<1>4. Holds(r) = Before(s, p) \o c.block
  BY <1>2, <1>3, GatherSwap
<1>5. PICK a, b : a = Before(s, p) /\ b = s[p].block
  OBVIOUS
<1>6. a \in Seq(Nat) /\ Holds(s) = a \o b
  <2>1. \A i \in 1 .. Len(s) : i > p => s[i].block = <<>>
    BY DEF Gathers, End
  <2>2. [s EXCEPT ![p] = s[p]] = s
    BY <1>1
  <2>3. Before(s, p) \in Seq(Nat) /\ Holds([s EXCEPT ![p] = s[p]]) = Before(s, p) \o s[p].block
    BY <1>1, <2>1, HoldsSwap
  <2> QED BY <1>5, <2>2, <2>3
<1>7. b \in Seq(Nat)
  BY <1>1, <1>5 DEF Items
<1>8. PICK h, w : h = a \o b /\ w = SubSeq(b, 1, size)
  OBVIOUS
<1>9. /\ h \in Seq(Nat) /\ Len(h) = Len(a) + Len(b)
      /\ \A i \in 1 .. Len(a) + Len(b) : h[i] = IF i =< Len(a) THEN a[i] ELSE b[i - Len(a)]
  BY <1>6, <1>7, <1>8, ConcatProperties
<1>10. size \in 0 .. Len(b) /\ Len(a) \in Nat /\ Len(b) \in Nat
  BY <1>5, <1>6, <1>7
<1>11. w \in Seq(Nat) /\ Len(w) = size /\ \A i \in 1 .. size : w[i] = b[i]
  BY <1>7, <1>8, <1>10, Prefix
<1>12. PICK k : k = Len(a) + size
  OBVIOUS
<1>13. k \in 0 .. Len(h)
  BY <1>9, <1>10, <1>12
<1>14. PICK v : v = SubSeq(h, 1, k)
  OBVIOUS
<1>15. v \in Seq(Nat) /\ Len(v) = k /\ \A i \in 1 .. k : v[i] = h[i]
  BY <1>9, <1>13, <1>14, Prefix
<1>16. v = a \o w
  <2>1. \A i \in 1 .. Len(a) : v[i] = a[i]
    <3>1. \A i \in 1 .. Len(a) : i \in 1 .. k /\ i \in 1 .. Len(a) + Len(b) /\ i =< Len(a)
      BY <1>10, <1>12
    <3> QED BY <1>9, <1>15, <3>1
  <2>2. \A i \in 1 .. Len(w) : v[Len(a) + i] = w[i]
    <3> SUFFICES ASSUME NEW i \in 1 .. Len(w) PROVE v[Len(a) + i] = w[i]
      OBVIOUS
    <3>1. PICK j : j = Len(a) + i
      OBVIOUS
    <3>2. j \in 1 .. k /\ j \in 1 .. Len(a) + Len(b) /\ ~(j =< Len(a)) /\ j - Len(a) = i
      BY <1>10, <1>11, <1>12, <3>1
    <3>3. v[j] = h[j] /\ h[j] = b[i]
      BY <1>9, <1>15, <3>2
    <3> QED BY <1>11, <3>1, <3>3
  <2>3. Len(v) = Len(a) + Len(w)
    BY <1>11, <1>12, <1>15
  <2> QED BY <1>6, <1>11, <1>15, <2>1, <2>2, <2>3, IsConcat
<1>17. over
  <2>1. p + 1 \in 1 .. Len(s) /\ p + 1 > p
    BY <1>1
  <2> QED BY <2>1 DEF Gathers
<1> QED BY <1>2, <1>3, <1>4, <1>5, <1>6, <1>8, <1>13, <1>14, <1>16, <1>17 DEF Cut

\* j pieces behind the chunk at the end of a queue.
Behind(s, c, P, j) == [s EXCEPT ![Len(s)] = c] \o [k \in 1 .. j |-> Item(P[k])]

\* The pieces of a block of L bytes.
PiecesOf(b, P, n) ==
  /\ DOMAIN P = 1 .. (Len(b) - 1) \div n
  /\ \A k \in 1 .. (Len(b) - 1) \div n : P[k] = SubSeq(b, k * n + 1, Edge(k, n, Len(b)))

\* A queue that is not closed has everything.
LEMMA CutOpen ==
  ASSUME NEW s, NEW n \in Nat \ {0}, NEW over, Gathers(s, Len(s), n, over),
         NEW c \in Items, ~c.done, Chunk(c, n), c.block = SubSeq(s[Len(s)].block, 1, n),
         n < Len(s[Len(s)].block),
         NEW P, PiecesOf(s[Len(s)].block, P, n)
  PROVE  Cut(s, Behind(s, c, P, (Len(s[Len(s)].block) - 1) \div n), Len(s), n, over)
<1>1. PICK p : p = Len(s)
  OBVIOUS
<1>2. s \in Seq(Items) /\ p \in 1 .. Len(s) /\ s[p] \in Items /\ Gathers(s, p, n, over)
  BY <1>1 DEF Gathers
<1>3. PICK b, L, D : b = s[p].block /\ L = Len(b) /\ D = (L - 1) \div n
  OBVIOUS
<1>4. b \in Seq(Nat) /\ L \in Nat /\ n < L
  BY <1>1, <1>2, <1>3 DEF Items
<1>5. /\ D \in Nat /\ Edge(0, n, L) = n /\ Edge(D, n, L) = L
      /\ \A k \in 1 .. D :
           /\ Edge(k - 1, n, L) = k * n /\ k * n \in Nat /\ k * n < L
           /\ Edge(k, n, L) \in Nat /\ Edge(k, n, L) =< L
           /\ k * n < Edge(k, n, L) /\ Edge(k, n, L) - k * n =< n
  BY <1>3, <1>4, Edges, ZenonT(60)
<1>6. \A k \in 1 .. D : P[k] = SubSeq(b, k * n + 1, Edge(k, n, L))
  BY <1>1, <1>3 DEF PiecesOf
<1>7. PICK f : f = [s EXCEPT ![p] = c]
  OBVIOUS
<1>8. /\ Filled(f, n, over) /\ f \in Seq(Items) /\ Len(f) = p /\ Holds(f) = Before(s, p) \o c.block
      /\ \A k \in 1 .. p : ~f[k].done
  <2>1. Filled(f, n, over)
    BY <1>2, <1>7, GatherSwap
  <2>2. Holds(f) = Before(s, p) \o c.block
    BY <1>2, <1>7, <2>1, GatherSwap
  <2>3. f \in Seq(Items) /\ Len(f) = p
    BY <1>1, <1>2, <1>7
  <2>4. \A k \in 1 .. p : ~f[k].done
    <3>1. \A k \in 1 .. p : k = p \/ (k < p /\ k # p /\ k \in 1 .. Len(s))
      BY <1>1, <1>2
    <3>2. f[p] = c /\ \A k \in 1 .. Len(s) : k # p => f[k] = s[k]
      BY <1>2, <1>7
    <3> QED BY <1>2, <3>1, <3>2 DEF Gathers
  <2> QED BY <2>1, <2>2, <2>3, <2>4
<1>9. PICK a : a = Before(s, p)
  OBVIOUS
<1>10. a \in Seq(Nat) /\ Holds(s) = a \o b
  <2>1. \A i \in 1 .. Len(s) : i > p => s[i].block = <<>>
    BY <1>1, <1>2
  <2>2. [s EXCEPT ![p] = s[p]] = s
    BY <1>2
  <2>3. Before(s, p) \in Seq(Nat) /\ Holds([s EXCEPT ![p] = s[p]]) = Before(s, p) \o s[p].block
    BY <1>2, <2>1, HoldsSwap
  <2> QED BY <1>3, <1>9, <2>2, <2>3
<1> DEFINE G(j) == f \o [k \in 1 .. j |-> Item(P[k])]
           Ok(e, j) == /\ Filled(e, n, over) /\ e \in Seq(Items) /\ Len(e) = p + j
                       /\ Holds(e) = a \o SubSeq(b, 1, Edge(j, n, L))
                       /\ \A k \in 1 .. Len(e) : ~e[k].done
           T == {j \in 0 .. D : Ok(G(j), j)}
<1>11. 0 \in T
  <2>1. PICK e : e = [k \in 1 .. 0 |-> Item(P[k])]
    OBVIOUS
  <2>2. e = <<>>
    BY <2>1
  <2>3. G(0) = f
    <3>1. f \o <<>> = f
      BY <1>8, ConcatEmptySeq
    <3> QED BY <2>1, <2>2, <3>1
  <2>4. Ok(f, 0)
    <3>1. p + 0 = p
      BY <1>2
    <3>2. Holds(f) = a \o SubSeq(b, 1, Edge(0, n, L))
      BY <1>1, <1>3, <1>5, <1>8, <1>9
    <3> QED BY <1>8, <3>1, <3>2
  <2>5. 0 \in 0 .. D
    BY <1>5
  <2> HIDE DEF Ok, G
  <2> QED BY <2>3, <2>4, <2>5
<1>12. ASSUME NEW j \in 1 .. D, j - 1 \in T
       PROVE  j \in T
  <2>1. PICK e : e = G(j - 1)
    OBVIOUS
  <2>2. Ok(e, j - 1)
    BY <1>12, <2>1
  <2>3. PICK x : x = Item(P[j])
    OBVIOUS
  <2>4. G(j) = Append(e, x)
    <3>1. PICK u, v, w : /\ u = [k \in 1 .. j - 1 |-> Item(P[k])] /\ v = <<x>>
                         /\ w = [k \in 1 .. j |-> Item(P[k])]
      OBVIOUS
    <3>2. \A k \in 1 .. D : P[k] \in Seq(Nat) /\ Item(P[k]) \in Items
      <4> SUFFICES ASSUME NEW k \in 1 .. D PROVE P[k] \in Seq(Nat) /\ Item(P[k]) \in Items
        OBVIOUS
      <4>1. PICK y, z : y = k * n /\ z = Edge(k, n, L)
        OBVIOUS
      <4>2. /\ y \in 0 .. Len(b) /\ z \in y .. Len(b) /\ z - y =< n /\ y < z
            /\ P[k] = SubSeq(b, y + 1, z)
        <5>1. y \in Nat /\ y < L /\ z \in Nat /\ z =< L /\ y < z /\ z - y =< n
          BY <1>5, <4>1
        <5>2. P[k] = SubSeq(b, y + 1, z)
          BY <1>6, <4>1
        <5>3. y \in 0 .. L /\ z \in y .. L
          BY <1>4, <5>1
        <5> QED BY <1>3, <5>1, <5>2, <5>3
      <4>3. P[k] \in Seq(Nat) /\ Len(P[k]) = z - y
        <5>1. Parts(Nat, b, y, z)
          BY <1>4, <4>2, PrefixMore
        <5> QED BY <4>2, <5>1 DEF Parts
      <4>4. P[k] # <<>> /\ Len(P[k]) =< n
        <5>1. Len(P[k]) # 0
          BY <4>2, <4>3
        <5> QED BY <4>2, <4>3, <5>1, EmptySeq
      <4>5. Piece(P[k], n)
        BY <4>3, <4>4, IsPiece
      <4> QED BY <4>3, <4>5 DEF Piece
    <3>3. u \in Seq(Items) /\ Len(u) = j - 1 /\ w \in Seq(Items) /\ Len(w) = j
      <4>1. \A k \in 1 .. j : k \in 1 .. D
        BY <1>5
      <4>2. u \in [1 .. j - 1 -> Items] /\ w \in [1 .. j -> Items] /\ j \in Nat /\ j - 1 \in Nat
        BY <3>1, <3>2, <4>1
      <4> QED BY <4>2, SMTT(60)
    <3>4. v \in Seq(Items) /\ Len(v) = 1 /\ v[1] = x
      <4>1. x \in Items
        BY <2>3, <3>2
      <4> QED BY <3>1, <4>1, HoldsOne
    <3>5. w = u \o v
      <4>1. Len(w) = Len(u) + Len(v)
        BY <3>3, <3>4
      <4>2. \A i \in 1 .. Len(u) : w[i] = u[i]
        BY <3>1, <3>3
      <4>3. \A i \in 1 .. Len(v) : w[Len(u) + i] = v[i]
        <5>1. w[j] = x
          BY <2>3, <3>1
        <5>2. \A i \in 1 .. Len(v) : i = 1 /\ Len(u) + i = j
          BY <3>3, <3>4
        <5> QED BY <3>4, <5>1, <5>2
      <4> QED BY <3>3, <3>4, <4>1, <4>2, <4>3, IsConcat
    <3>6. G(j) = f \o w /\ e = f \o u
      BY <2>1, <3>1
    <3>7. f \o (u \o v) = (f \o u) \o v
      <4>1. \A i, k, l \in Seq(Items) : (i \o k) \o l = i \o (k \o l)
        BY Associative, SMTT(60)
      <4> QED BY <1>8, <3>3, <3>4, <4>1, ZenonT(60)
    <3>8. Append(e, x) = e \o v
      <4>1. e \in Seq(Items)
        BY <2>2
      <4> QED BY <3>1, <4>1, AppendIsConcat
    <3> QED BY <3>5, <3>6, <3>7, <3>8
  <2>5. PICK y, z : y = j * n /\ z = Edge(j, n, L)
    OBVIOUS
  <2>6. /\ y \in 0 .. Len(b) /\ z \in y .. Len(b) /\ z - y =< n /\ y < z
        /\ P[j] = SubSeq(b, y + 1, z) /\ Edge(j - 1, n, L) = y
    <3>1. y \in Nat /\ y < L /\ z \in Nat /\ z =< L /\ y < z /\ z - y =< n
      BY <1>5, <2>5
    <3>2. P[j] = SubSeq(b, y + 1, z)
      BY <1>6, <2>5
    <3>3. y \in 0 .. L /\ z \in y .. L
      BY <1>4, <3>1
    <3>4. Edge(j - 1, n, L) = y
      BY <1>5, <2>5
    <3> QED BY <1>3, <3>1, <3>2, <3>3, <3>4
  <2>7. P[j] \in Seq(Nat) /\ Len(P[j]) = z - y /\ SubSeq(b, 1, z) = SubSeq(b, 1, y) \o P[j]
    <3>1. Parts(Nat, b, y, z)
      BY <1>4, <2>6, PrefixMore
    <3> QED BY <2>6, <3>1 DEF Parts
  <2>8. x \in Items /\ ~x.done /\ x.block = P[j] /\ Chunk(x, n)
    <3>1. P[j] # <<>> /\ Len(P[j]) =< n
      <4>1. Len(P[j]) # 0
        BY <2>6, <2>7
      <4> QED BY <2>6, <2>7, <4>1, EmptySeq
    <3>2. Piece(P[j], n)
      BY <2>7, <3>1, IsPiece
    <3> QED BY <2>3, <3>2 DEF Piece
  <2>9. PICK h : h = Append(e, x)
    OBVIOUS
  <2>10. /\ h \in Seq(Items) /\ Len(h) = p + j /\ h[Len(e) + 1] = x
         /\ \A k \in 1 .. Len(e) : h[k] = e[k]
    <3>1. /\ h \in Seq(Items) /\ Len(h) = Len(e) + 1 /\ h[Len(e) + 1] = x
          /\ \A k \in 1 .. Len(e) : h[k] = e[k]
      BY <2>2, <2>8, <2>9, AppendProperties
    <3>2. Len(e) + 1 = p + j
      BY <1>2, <2>2
    <3> QED BY <3>1, <3>2
  <2>11. Filled(h, n, over)
    BY <2>2, <2>8, <2>9, FilledMore
  <2>12. Holds(h) = a \o SubSeq(b, 1, z)
    <3>1. Holds(h) = Holds(e) \o P[j]
      BY <2>2, <2>8, <2>9, HoldsMore
    <3>2. Holds(e) = a \o SubSeq(b, 1, y)
      BY <2>2, <2>6
    <3>3. SubSeq(b, 1, y) \in Seq(Nat)
      BY <1>4, <2>6, Prefix
    <3>4. (a \o SubSeq(b, 1, y)) \o P[j] = a \o (SubSeq(b, 1, y) \o P[j])
      <4>1. \A i, k, l \in Seq(Nat) : (i \o k) \o l = i \o (k \o l)
        BY Associative, SMTT(60)
      <4> QED BY <1>10, <2>7, <3>3, <4>1
    <3> QED BY <2>7, <3>1, <3>2, <3>4
  <2>13. \A k \in 1 .. Len(h) : ~h[k].done
    <3>1. Len(h) = Len(e) + 1 /\ Len(e) \in Nat
      BY <1>2, <2>2, <2>10
    <3>2. \A k \in 1 .. Len(h) : k \in 1 .. Len(e) \/ k = Len(e) + 1
      BY <3>1
    <3> QED BY <2>2, <2>8, <2>10, <3>2
  <2>14. Ok(h, j)
    BY <2>5, <2>10, <2>11, <2>12, <2>13
  <2>15. j \in 0 .. D
    BY <1>5
  <2> HIDE DEF Ok, G
  <2> QED BY <2>4, <2>9, <2>14, <2>15
<1>13. D \in T
  <2>1. D \in 0 .. D
    BY <1>5
  <2> HIDE DEF T
  <2> QED BY <1>5, <1>11, <1>12, <2>1, Counting
<1>14. Ok(G(D), D)
  BY <1>13
<1>15. SubSeq(b, 1, L) = b
  BY <1>3, <1>4, Whole
<1>16. G(D) = Behind(s, c, P, D)
  BY <1>1, <1>7 DEF Behind
<1>17. Filled(G(D), n, over) /\ Holds(G(D)) = Holds(s)
  BY <1>5, <1>10, <1>14, <1>15
<1> HIDE DEF G
<1>18. Cut(s, Behind(s, c, P, D), p, n, over)
  BY <1>16, <1>17 DEF Cut
<1> QED BY <1>1, <1>3, <1>18

\* r is q cut up.
Recut(q, r, p, size, over) ==
  /\ r = [items |-> r.items, continuous |-> r.continuous] /\ r.continuous = FALSE
  /\ Cut(q.items, r.items, p, size, over)

\* That is what Rechunk does.
LEMMA RechunkCuts ==
  ASSUME NEW q, NEW p, NEW n \in Nat \ {0}, NEW over, Gathers(q.items, p, n, over),
         q = [items |-> q.items, continuous |-> q.continuous], q.continuous = FALSE
  PROVE  Recut(q, Rechunk(q, p, n), p, n, over)
<1>1. PICK r, s, b : r = Rechunk(q, p, n) /\ s = q.items /\ b = s[p].block
  OBVIOUS
<1>2. s \in Seq(Items) /\ p \in 1 .. Len(s) /\ s[p] \in Items /\ Gathers(s, p, n, over)
  BY <1>1 DEF Gathers
<1>3. b \in Seq(Nat) /\ Len(b) \in Nat
  BY <1>1, <1>2 DEF Items
<1>4. CASE ~(Len(b) > n)
  <2>1. r = q
    BY <1>1, <1>4 DEF Rechunk
  <2>2. Chunk(s[p], n) /\ ~s[p].done
    <3>1. Len(b) =< n /\ n # 0
      BY <1>3, <1>4
    <3> QED BY <1>1, <1>2, <3>1 DEF Gathers, Chunk
  <2>3. [s EXCEPT ![p] = s[p]] = s
    BY <1>2
  <2>4. Filled([s EXCEPT ![p] = s[p]], n, over)
    BY <1>2, <2>2, GatherSwap
  <2>5. Cut(s, s, p, n, over)
    BY <2>3, <2>4 DEF Cut
  <2> QED BY <1>1, <2>1, <2>5 DEF Recut
<1>5. CASE Len(b) > n
  <2>1. PICK P : P = [k \in 1 .. (Len(b) - 1) \div n |->
                        SubSeq(b, k * n + 1, IF k * n + n < Len(b) THEN k * n + n ELSE Len(b))]
    OBVIOUS
  <2>2. PICK c : c = [s[p] EXCEPT !.block = SubSeq(b, 1, n)]
    OBVIOUS
  <2>3. PICK v : v = [q EXCEPT !.items[p].block = SubSeq(b, 1, n)]
    OBVIOUS
  <2>4. r = queue_add_all(v, P)
    BY <1>1, <1>5, <2>1, <2>3 DEF Rechunk
  <2>5. v = [items |-> [s EXCEPT ![p] = c], continuous |-> q.continuous]
    BY <1>1, <1>2, <2>2, <2>3
  <2>6. SubSeq(b, 1, n) \in Seq(Nat) /\ Len(SubSeq(b, 1, n)) = n
    <3>1. n \in 0 .. Len(b)
      BY <1>3, <1>5
    <3> QED BY <1>3, <3>1, Prefix
  <2>7. c \in Items /\ ~c.done /\ c.block = SubSeq(b, 1, n) /\ Chunk(c, n)
    <3>1. ~s[p].done /\ s[p].unref = 0
      BY <1>2 DEF Gathers
    <3>2. c \in Items /\ ~c.done /\ c.block = SubSeq(b, 1, n) /\ c.unref = 0
      BY <1>2, <2>2, <2>6, <3>1 DEF Items
    <3>3. c.block # <<>> /\ Len(c.block) =< n
      <4>1. Len(c.block) # 0 /\ Len(c.block) =< n
        BY <2>6, <3>2
      <4> QED BY <2>6, <3>2, <4>1, EmptySeq
    <3> QED BY <3>2, <3>3 DEF Chunk
  <2>8. PiecesOf(b, P, n)
    BY <2>1 DEF PiecesOf, Edge
  <2>9. PICK f : f = [s EXCEPT ![p] = c]
    OBVIOUS
  <2>10. f \in Seq(Items) /\ Len(f) = Len(s) /\ f # <<>> /\ f[p] = c
         /\ \A i \in 1 .. Len(s) : i # p => f[i] = s[i]
    <3>1. f \in Seq(Items) /\ Len(f) = Len(s) /\ f[p] = c
          /\ \A i \in 1 .. Len(s) : i # p => f[i] = s[i]
      BY <1>2, <2>7, <2>9
    <3>2. Len(f) # 0
      BY <1>2, <3>1
    <3> QED BY <3>1, <3>2, EmptySeq
  <2>11. queue_complete(v) <=> f[Len(s)].done
    BY <2>5, <2>9, <2>10 DEF queue_complete, queue_empty, Last
  <2>12. CASE p = Len(s)
    <3>1. ~queue_complete(v)
      BY <2>7, <2>10, <2>11, <2>12
    <3>2. PICK t : t = [k \in 1 .. Len(P) |-> Item(P[k])]
      OBVIOUS
    <3>3. r = [v EXCEPT !.items = @ \o t]
      BY <2>4, <3>1, <3>2 DEF queue_add_all
    <3>4. r = [items |-> f \o t, continuous |-> q.continuous]
      BY <2>5, <2>9, <3>3
    <3>5. Len(P) = (Len(b) - 1) \div n
      <4>1. (Len(b) - 1) \div n \in Nat
        BY <1>3, <1>5, Edges
      <4>2. DOMAIN P = 1 .. (Len(b) - 1) \div n
        BY <2>1
      <4> QED BY <2>1, <4>1, <4>2
    <3>6. f \o t = Behind(s, c, P, (Len(b) - 1) \div n)
      BY <2>9, <2>12, <3>2, <3>5 DEF Behind
    <3>7. Cut(s, Behind(s, c, P, (Len(b) - 1) \div n), Len(s), n, over)
      BY <1>1, <1>2, <1>5, <2>7, <2>8, <2>12, CutOpen
    <3> QED BY <1>1, <2>12, <3>4, <3>6, <3>7 DEF Recut
  <2>13. CASE p # Len(s)
    <3>1. queue_complete(v)
      <4>1. Len(s) \in 1 .. Len(s) /\ Len(s) > p
        BY <1>2, <2>13
      <4>2. End(s[Len(s)])
        BY <1>2, <4>1 DEF Gathers
      <4> QED BY <2>10, <2>11, <2>13, <4>1, <4>2 DEF End
    <3>2. r = v
      BY <2>4, <3>1 DEF queue_add_all
    <3>3. Cut(s, f, p, n, over)
      BY <1>1, <1>2, <1>5, <2>7, <2>9, <2>13, CutClosed
    <3> QED BY <1>1, <2>5, <2>9, <3>2, <3>3 DEF Recut
  <2> QED BY <2>12, <2>13
<1> QED BY <1>4, <1>5

\* What queue_last_chunk finds: no chunk, or the one that gathers.
Found(q, p, size, over) ==
  \/ p = 0 /\ \A i \in 1 .. Len(q.items) : End(q.items[i])
  \/ p # 0 /\ Gathers(q.items, p, size, over)

\* queue_last_chunk finds it.
LEMMA LastChunk ==
  ASSUME NEW q, NEW size \in Nat \ {0}, NEW over, Filled(q.items, size, over)
  PROVE  Found(q, queue_last_chunk(q), size, over)
<1>1. PICK s, p : s = q.items /\ p = queue_last_chunk(q)
  OBVIOUS
<1>2. PICK L \in Nat : L = Len(s) /\ s \in Seq(Items)
  BY <1>1 DEF Filled
<1> DEFINE I == {i \in 1 .. Len(s) : s[i].block # <<>> \/ ~s[i].done}
<1>3. p = IF I # {} THEN Max(I) ELSE 0
  BY <1>1 DEF queue_last_chunk, SelectLastInSeq, SelectLastInSubSeq
<1>4. \A i \in 1 .. L : \/ ~s[i].done /\ Chunk(s[i], size)
                        \/ End(s[i]) /\ i = L /\ over
  BY <1>1, <1>2 DEF Filled
<1>5. \A i \in 1 .. L : i \in I <=> ~End(s[i])
  <2>1. \A i \in 1 .. L : s[i] \in Items /\ (i \in I <=> s[i].block # <<>> \/ ~s[i].done)
    BY <1>2
  <2>2. \A i \in 1 .. L : Chunk(s[i], size) => s[i].block # <<>>
    BY DEF Chunk
  <2> QED BY <1>4, <2>1, <2>2 DEF End
<1>6. I \subseteq 1 .. L
  BY <1>2
<1> HIDE DEF I
<1>7. ASSUME NEW k \in I, \A i \in I : k >= i
      PROVE  p = k
  <2>1. \E x \in I : \A y \in I : x >= y
    BY <1>7
  <2>2. PICK m : m = Max(I)
    OBVIOUS
  <2>3. m \in I /\ \A y \in I : m >= y
    BY <2>1, <2>2 DEF Max
  <2>4. m >= k /\ k >= m
    BY <1>7, <2>3
  <2> QED BY <1>3, <1>6, <2>2, <2>3, <2>4
<1>8. ASSUME NEW k \in 1 .. L, ~End(s[k]), \A i \in 1 .. L : i > k => End(s[i])
      PROVE  Found(q, p, size, over)
  <2>1. k \in I /\ \A i \in I : k >= i
    <3>1. \A i \in 1 .. L : ~(i > k) => k >= i
      OBVIOUS
    <3> QED BY <1>5, <1>6, <1>8, <3>1
  <2>2. p = k
    BY <1>7, <2>1
  <2>3. ~s[k].done /\ Chunk(s[k], size)
    BY <1>4, <1>8
  <2>4. \A i \in 1 .. L : i < k => ~s[i].done /\ Chunk(s[i], size)
    BY <1>2, <1>4
  <2>5. \A i \in 1 .. L : i > k => i = L /\ over
    <3>1. \A i \in 1 .. L : Chunk(s[i], size) => ~End(s[i])
      BY DEF Chunk, End
    <3> QED BY <1>4, <1>8, <3>1
  <2>6. s[k].unref = 0 /\ s[k].block # <<>>
    BY <2>3 DEF Chunk
  <2>7. Gathers(s, k, size, over)
    BY <1>2, <1>8, <2>3, <2>4, <2>5, <2>6 DEF Gathers
  <2> QED BY <1>1, <1>2, <2>2, <2>7 DEF Found
<1>9. CASE L = 0
  <2>1. I = {}
    BY <1>6, <1>9
  <2>2. p = 0 /\ \A i \in 1 .. Len(s) : End(s[i])
    BY <1>2, <1>3, <1>9, <2>1
  <2> QED BY <1>1, <2>2 DEF Found
<1>10. CASE L # 0 /\ ~End(s[L])
  <2>1. L \in 1 .. L /\ \A i \in 1 .. L : ~(i > L)
    BY <1>10
  <2>2. Found(q, p, size, over)
    BY <1>8, <1>10, <2>1
  <2> QED BY <1>1, <2>2
<1>11. CASE L = 1 /\ End(s[L])
  <2>1. \A i \in 1 .. L : End(s[i])
    BY <1>11
  <2>2. I = {}
    BY <1>5, <1>6, <2>1
  <2> QED BY <1>1, <1>2, <1>3, <2>1, <2>2 DEF Found
<1>12. CASE L > 1 /\ End(s[L])
  <2>1. L - 1 \in 1 .. L /\ L - 1 # L /\ \A i \in 1 .. L : i > L - 1 => i = L
    BY <1>12
  <2>2. ~End(s[L - 1])
    BY <1>4, <2>1 DEF End
  <2>3. Found(q, p, size, over)
    BY <1>8, <1>12, <2>1, <2>2, SMTT(60)
  <2> QED BY <1>1, <2>3
<1> QED BY <1>9, <1>10, <1>11, <1>12

\* A chunk put into what gathers: put is the queue then, before it is cut up.
Puts(q, put, p, b, size, over) ==
  /\ put = [items |-> put.items, continuous |-> put.continuous] /\ put.continuous = FALSE
  /\ Gathers(put.items, p, size, over)
  /\ Holds(put.items) = Holds(q.items) \o b

\* It is put into a chunk that is there.
LEMMA PutMore ==
  ASSUME NEW q, NEW size, NEW over, NEW p, Gathers(q.items, p, size, over),
         NEW b \in Seq(Nat), NEW put, NEW c, c = [q.items[p] EXCEPT !.block = @ \o b],
         NEW F, F = FALSE, put = [items |-> [q.items EXCEPT ![p] = c], continuous |-> F]
  PROVE  Puts(q, put, p, b, size, over)
<1>1. PICK s, u : s = q.items /\ u = [s EXCEPT ![p] = c]
  OBVIOUS
<1>2. s \in Seq(Items) /\ p \in 1 .. Len(s) /\ s[p] \in Items
  BY <1>1 DEF Gathers
<1>3. ~s[p].done /\ s[p].unref = 0 /\ s[p].block # <<>> /\ s[p].block \in Seq(Nat)
  BY <1>1, <1>2 DEF Gathers, Items
<1>4. PICK a, d : a = s[p].block /\ d = a \o b
  OBVIOUS
<1>5. d \in Seq(Nat) /\ d # <<>>
  <2>1. d \in Seq(Nat) /\ Len(d) = Len(a) + Len(b)
    BY <1>3, <1>4, ConcatProperties
  <2>2. Len(a) # 0 /\ Len(a) \in Nat /\ Len(b) \in Nat
    BY <1>3, <1>4, EmptySeq
  <2> QED BY <2>1, <2>2, EmptySeq
<1>6. c = [s[p] EXCEPT !.block = d]
  BY <1>1, <1>4
<1>7. c \in Items /\ ~c.done /\ c.unref = 0 /\ c.block = d
  BY <1>2, <1>3, <1>5, <1>6 DEF Items
<1>8. u \in Seq(Items) /\ Len(u) = Len(s) /\ u[p] = c /\ \A i \in 1 .. Len(s) : i # p => u[i] = s[i]
  BY <1>1, <1>2, <1>7
<1>9. Gathers(u, p, size, over)
  <2>1. \A i \in 1 .. Len(u) : i < p => ~u[i].done /\ Chunk(u[i], size)
    <3>1. \A i \in 1 .. Len(s) : i < p => i # p
      BY <1>2
    <3> QED BY <1>1, <1>8, <3>1 DEF Gathers
  <2>2. \A i \in 1 .. Len(u) : i > p => End(u[i]) /\ i = Len(u) /\ over
    <3>1. \A i \in 1 .. Len(s) : i > p => i # p
      BY <1>2, SMTT(60)
    <3> QED BY <1>1, <1>8, <3>1 DEF Gathers
  <2> QED BY <1>2, <1>5, <1>7, <1>8, <2>1, <2>2 DEF Gathers
<1>10. Holds(u) = Holds(s) \o b
  <2>1. \A i \in 1 .. Len(s) : i > p => s[i].block = <<>>
    BY <1>1 DEF Gathers, End
  <2>2. PICK f : f = Before(s, p)
    BY SMTT(60)
  <2>3. f \in Seq(Nat) /\ Holds(u) = f \o d
    BY <1>1, <1>2, <1>7, <2>1, <2>2, HoldsSwap
  <2>4. Holds([s EXCEPT ![p] = s[p]]) = f \o a
    BY <1>2, <1>4, <2>1, <2>2, HoldsSwap
  <2>5. [s EXCEPT ![p] = s[p]] = s
    BY <1>2
  <2>6. (f \o a) \o b = f \o (a \o b)
    <3>1. \A i, k, l \in Seq(Nat) : (i \o k) \o l = i \o (k \o l)
      BY Associative, SMTT(60)
    <3> QED BY <1>3, <1>4, <2>3, <3>1
  <2> QED BY <1>4, <2>3, <2>4, <2>5, <2>6
<1>11. put = [items |-> u, continuous |-> F]
  BY <1>1
<1>12. put.items = u /\ put.continuous = F /\ put = [items |-> put.items, continuous |-> put.continuous]
  BY <1>11
<1> QED BY <1>1, <1>9, <1>10, <1>12 DEF Puts

\* It is the first chunk.
LEMMA PutFirst ==
  ASSUME NEW q, NEW size, NEW over, q.items = <<>>,
         NEW b \in Seq(Nat), b # <<>>, NEW put,
         NEW F, F = FALSE, put = [items |-> Append(q.items, Item(b)), continuous |-> F]
  PROVE  Puts(q, put, 1, b, size, over)
<1>1. PICK n : n = Len(b)
  OBVIOUS
<1>2. Piece(b, n)
  BY <1>1, IsPiece
<1>3. PICK x, u : x = Item(b) /\ u = Append(q.items, x)
  OBVIOUS
<1>4. x \in Items /\ ~x.done /\ x.block = b /\ x.unref = 0
  BY <1>2, <1>3 DEF Piece
<1>5. u = <<x>>
  BY <1>3
<1>6. u \in Seq(Items) /\ Len(u) = 1 /\ u[1] = x /\ Holds(u) = b
  BY <1>4, <1>5, HoldsOne
<1>7. Gathers(u, 1, size, over)
  <2>1. \A i \in 1 .. Len(u) : ~(i < 1) /\ ~(i > 1)
    BY <1>6
  <2>2. 1 \in 1 .. Len(u)
    BY <1>6
  <2> QED BY <1>4, <1>6, <2>1, <2>2 DEF Gathers
<1>8. Holds(q.items) \o b = b
  <2>1. PICK e : e = q.items
    OBVIOUS
  <2>4. e \in Seq(Items) /\ \A i \in 1 .. Len(e) : e[i].block = <<>>
    BY <2>1
  <2>2. Holds(e) = <<>>
    BY <2>4, HoldsNone
  <2>3. <<>> \o b = b
    BY ConcatEmptySeq
  <2> QED BY <2>1, <2>2, <2>3
<1>9. put = [items |-> u, continuous |-> F]
  BY <1>3
<1>10. put.items = u /\ put.continuous = F /\ put = [items |-> put.items, continuous |-> put.continuous]
  BY <1>9
<1> QED BY <1>6, <1>7, <1>8, <1>10 DEF Puts

\* What enqueue_block makes of a queue that gathers.
Gathered(x, b, cb, r, p, size, over) ==
  /\ enqueue_block(x, b, cb) = [create_queue(x) EXCEPT !.q = r]
  /\ \/ r = x.q /\ over
     \/ \E put : Puts(x.q, put, p, b, size, over) /\ Recut(put, r, p, size, over)

\* enqueue_block gathers: what it puts, queue_write has cut into chunks.
LEMMA EnqueueCuts ==
  ASSUME NEW x, NEW size \in Nat \ {0}, NEW over, Rec(x), Queue(x.q, size, over),
         x.buffering = TRUE, x.chunk_size = size,
         NEW b \in Seq(Nat), b # <<>>, NEW cb
  PROVE  \E r, p : Gathered(x, b, cb, r, p, size, over)
<1>1. PICK F, T : F = FALSE /\ T = TRUE
  OBVIOUS
<1>2. PICK q, s : q = x.q /\ s = q.items
  OBVIOUS
<1>3. q = [items |-> s, continuous |-> F] /\ Filled(s, size, over) /\ s \in Seq(Items)
  BY <1>1, <1>2 DEF Queue, Filled
<1>4. PICK open : open = [q EXCEPT !.continuous = @ \/ x.buffering]
  OBVIOUS
<1>5. open = [items |-> s, continuous |-> T]
  <2>1. (F \/ x.buffering) = T
    BY <1>1
  <2> QED BY <1>3, <1>4, <2>1
<1>6. open.items = s /\ open.continuous = T /\ T
  BY <1>1, <1>5
<1>7. PICK k, p : k = queue_last_chunk(open) /\ p = queue_put_at(open)
  OBVIOUS
<1>8. Found(open, k, size, over)
  BY <1>3, <1>6, <1>7, LastChunk
<1>9. PICK v, put : /\ v = queue_put(open, b)
                    /\ put = [v EXCEPT !.continuous = @ /\ ~x.buffering]
  OBVIOUS
<1>10. PICK r : r = CASE p = 0 -> put
                      [] p # 0 /\ x.buffering -> Rechunk(put, p, x.chunk_size)
                      [] OTHER -> IF cb = 0 THEN put ELSE [put EXCEPT !.items[p].unref = cb]
  OBVIOUS
<1>11. enqueue_block(x, b, cb) = [create_queue(x) EXCEPT !.q = r]
  BY <1>2, <1>4, <1>7, <1>9, <1>10 DEF enqueue_block
<1>12. \A t : (v = [items |-> t, continuous |-> T] => put = [items |-> t, continuous |-> F])
  <2>1. (T /\ ~x.buffering) = F
    BY <1>1
  <2> QED BY <1>9, <2>1
<1>13. ASSUME p # 0, Puts(q, put, p, b, size, over)
       PROVE  Gathered(x, b, cb, r, p, size, over)
  <2>1. r = Rechunk(put, p, size)
    BY <1>10, <1>13
  <2>2. Recut(put, r, p, size, over)
    BY <1>13, <2>1, RechunkCuts DEF Puts
  <2> QED BY <1>2, <1>11, <1>13, <2>2 DEF Gathered
<1>14. CASE k # 0
  <2>1. p = k
    BY <1>6, <1>7, <1>14 DEF queue_put_at
  <2>2. Gathers(s, k, size, over)
    BY <1>6, <1>8, <1>14 DEF Found
  <2>3. PICK c : c = [s[k] EXCEPT !.block = @ \o b]
    OBVIOUS
  <2>4. v = [open EXCEPT !.items[k].block = @ \o b]
    BY <1>6, <1>7, <1>9, <1>14 DEF queue_put
  <2>5. k \in 1 .. Len(s) /\ s[k] \in Items
    BY <2>2 DEF Gathers
  <2>6. v = [items |-> [s EXCEPT ![k] = c], continuous |-> T]
    BY <1>3, <1>5, <2>3, <2>4, <2>5
  <2>7. put = [items |-> [s EXCEPT ![k] = c], continuous |-> F]
    BY <1>12, <2>6
  <2>8. Puts(q, put, k, b, size, over)
    BY <1>1, <1>2, <2>2, <2>3, <2>7, PutMore
  <2> QED BY <1>13, <1>14, <2>1, <2>8
<1>15. CASE k = 0 /\ ~queue_complete(open)
  <2>1. s = <<>>
    <3>1. \A i \in 1 .. Len(s) : End(s[i])
      BY <1>6, <1>8, <1>15 DEF Found
    <3>2. Len(s) \in 1 .. Len(s) => s # <<>> /\ s[Len(s)].done
      BY <3>1 DEF End
    <3>3. Len(s) \notin 1 .. Len(s)
      BY <1>6, <1>15, <3>2 DEF queue_complete, queue_empty, Last
    <3> QED BY <1>3, <3>3, EmptySeq
  <2>2. p = 1
    <3>1. p = Len(s) + 1
      BY <1>6, <1>7, <1>15 DEF queue_put_at
    <3> QED BY <2>1, <3>1
  <2>3. v = [open EXCEPT !.items = Append(@, Item(b))]
    BY <1>7, <1>9, <1>15 DEF queue_put, queue_add
  <2>4. v = [items |-> Append(s, Item(b)), continuous |-> T]
    BY <1>5, <2>3
  <2>5. put = [items |-> Append(s, Item(b)), continuous |-> F]
    BY <1>12, <2>4
  <2>6. Puts(q, put, 1, b, size, over)
    BY <1>1, <1>2, <2>1, <2>5, PutFirst
  <2> QED BY <1>13, <2>2, <2>6
<1>16. CASE k = 0 /\ queue_complete(open)
  <2>1. p = 0
    BY <1>6, <1>7, <1>16 DEF queue_put_at
  <2>2. v = open
    BY <1>7, <1>9, <1>16 DEF queue_put, queue_add
  <2>3. put = [items |-> s, continuous |-> F]
    BY <1>5, <1>12, <2>2
  <2>4. r = x.q
    BY <1>2, <1>3, <1>10, <2>1, <2>3
  <2>5. over
    <3>1. s # <<>> /\ s[Len(s)].done
      BY <1>6, <1>16 DEF queue_complete, queue_empty, Last
    <3>2. Len(s) \in 1 .. Len(s)
      BY <1>3, <3>1, EmptySeq
    <3> QED BY <1>3, <3>1, <3>2 DEF Filled
  <2> QED BY <1>11, <2>4, <2>5 DEF Gathered
<1> QED BY <1>14, <1>15, <1>16

\* Whose queue became r, with n bytes sent.
Refilled(x, r, n, size, over) ==
  /\ Queue(r, size, over)
  /\ Flow(Gives(x.it.settled), queue_data(r), x.notified, n, over)

\* A generator whose queue was replaced.
LEMMA ReadyRefilled ==
  ASSUME NEW x, NEW was, NEW p, NEW n, NEW k, NEW over, Ready(x, was, p, n, over),
         NEW r, Refilled(x, r, k, x.chunk_size, over), NEW b, NEW cb,
         enqueue_block(x, b, cb) = [create_queue(x) EXCEPT !.q = r]
  PROVE  Enqueued(x, b, cb, was, p, k, over)
<1>1. Shape(x) /\ Rec(x) /\ Iter(x.it, was, p, over, x.chunk_size)
  BY DEF Ready, Shape
<1>2. PICK y : y = enqueue_block(x, b, cb)
  OBVIOUS
<1>3. /\ Rec(y) /\ y.it = x.it /\ y.q = r /\ y.hasq = TRUE
      /\ y.buffering = x.buffering /\ y.chunk_size = x.chunk_size /\ y.executor = x.executor
      /\ y.callback = x.callback /\ y.called = x.called /\ y.notified = x.notified
      /\ y.aborted = x.aborted
  <2>1. PICK H : H = TRUE
    OBVIOUS
  <2>2. y = [[x EXCEPT !.hasq = H] EXCEPT !.q = r]
    BY <1>2, <2>1 DEF create_queue
  <2>3. /\ Rec(y) /\ y.it = x.it /\ y.q = r /\ y.hasq = H
        /\ y.buffering = x.buffering /\ y.chunk_size = x.chunk_size /\ y.executor = x.executor
        /\ y.callback = x.callback /\ y.called = x.called /\ y.notified = x.notified
        /\ y.aborted = x.aborted
    BY <1>1, <2>2 DEF Rec
  <2> QED BY <2>1, <2>3
<1>4. Shape(y)
  BY <1>1, <1>3 DEF Shape
<1>5. Ready(y, was, p, k, over)
  BY <1>1, <1>3, <1>4 DEF Ready, Refilled
<1> QED BY <1>2, <1>3, <1>5 DEF Enqueued

\* More is gathered.
LEMMA EnqueueGather ==
  ASSUME NEW x, NEW was, NEW p \in Nat, NEW n \in Nat, NEW over, Ready(x, was, p, n, over),
         x.buffering = TRUE, NEW m \in Nat \ {0}, NEW cb
  PROVE  Enqueued(x, After(n, m), cb, was, p, n + m, over)
<1>1. /\ Shape(x) /\ Rec(x) /\ Queue(x.q, x.chunk_size, over)
      /\ Flow(Gives(x.it.settled), queue_data(x.q), x.notified, n, over)
  BY DEF Ready, Shape
<1>2. PICK size \in Nat \ {0} : size = x.chunk_size
  BY <1>1 DEF Shape
<1>3. PICK b : b = After(n, m)
  OBVIOUS
<1>4. b \in Seq(Nat) /\ b # <<>>
  BY <1>3, AfterType
<1>5. Queue(x.q, size, over) /\ x.chunk_size = size
  BY <1>1, <1>2
<1>6. PICK r, at : Gathered(x, b, cb, r, at, size, over)
  BY <1>1, <1>4, <1>5, EnqueueCuts
<1>7. PICK given, data, k : /\ given = Gives(x.it.settled) /\ data = queue_data(x.q)
                            /\ k = n + m
  OBVIOUS
<1>8. data = Holds(x.q.items)
  BY <1>7 DEF Holds, Blocks, queue_data
<1>9. Flow(given, data, x.notified, n, over) /\ k \in Nat
  BY <1>1, <1>7
<1>10. Refilled(x, r, k, size, over)
  <2>1. CASE r = x.q /\ over
    <3>1. Flow(given, data, x.notified, n + m, over)
      BY <1>9, <2>1, FlowDrop
    <3> QED BY <1>5, <1>7, <2>1, <3>1 DEF Refilled
  <2>2. CASE \E put : Puts(x.q, put, at, b, size, over) /\ Recut(put, r, at, size, over)
    <3>1. PICK put : Puts(x.q, put, at, b, size, over) /\ Recut(put, r, at, size, over)
      BY <2>2
    <3>2. PICK h : h = Holds(put.items)
      OBVIOUS
    <3>3. h = data \o After(n, m)
      BY <1>3, <1>8, <3>1, <3>2 DEF Puts
    <3>4. Flow(given, h, x.notified, k, over)
      <4>1. Flow(given, data \o After(n, m), x.notified, n + m, over)
        BY <1>9, FlowMore
      <4> QED BY <1>7, <3>3, <4>1
    <3>5. Cut(put.items, r.items, at, size, over)
      BY <3>1 DEF Recut
    <3>6. queue_data(r) = Holds(r.items)
      BY DEF Holds, Blocks, queue_data
    <3>7. Flow(given, queue_data(r), x.notified, k, over)
      <4>1. CASE Holds(r.items) = h
        BY <3>4, <3>6, <4>1
      <4>2. CASE over /\ \E j \in 0 .. Len(h) : Holds(r.items) = SubSeq(h, 1, j)
        <5>1. PICK j \in 0 .. Len(h) : Holds(r.items) = SubSeq(h, 1, j)
          BY <4>2
        <5>2. Flow(given, SubSeq(h, 1, j), x.notified, k, over)
          BY <1>9, <3>4, <4>2, FlowCut
        <5> QED BY <3>6, <5>1, <5>2
      <4> QED BY <3>2, <3>5, <4>1, <4>2 DEF Cut
    <3>8. Queue(r, size, over)
      BY <3>1, <3>5 DEF Recut, Queue, Cut
    <3> QED BY <1>7, <3>7, <3>8 DEF Refilled
  <2> QED BY <1>6, <2>1, <2>2 DEF Gathered
<1>11. enqueue_block(x, b, cb) = [create_queue(x) EXCEPT !.q = r]
  BY <1>6 DEF Gathered
<1>12. Enqueued(x, b, cb, was, p, k, over)
  BY <1>2, <1>10, <1>11, ReadyRefilled
<1> QED BY <1>3, <1>7, <1>12

\* x has become y, which buffers.
Buffers(x, y, was, size, over) ==
  /\ Ready(y, was, 0, 0, over) /\ y.buffering = TRUE /\ y.chunk_size = size
  /\ y.executor = x.executor /\ ~UpdateReader(y)

\* buffering() is called before anything is sent or asked for.
LEMMA BufferingReady ==
  ASSUME NEW x, NEW was, NEW over, Ready(x, was, 0, 0, over), ~over,
         NEW size \in Nat \ {0}
  PROVE  Buffers(x, generator_buffering(x, size), was, size, over)
<1>1. /\ Shape(x) /\ Rec(x) /\ Iter(x.it, was, 0, over, x.chunk_size) /\ Queue(x.q, x.chunk_size, over)
      /\ Flow(Gives(x.it.settled), queue_data(x.q), x.notified, 0, over)
  BY DEF Ready, Shape
<1>2. PICK H : H = TRUE
  OBVIOUS
<1>3. PICK y : y = generator_buffering(x, size)
  OBVIOUS
<1>4. y = [[x EXCEPT !.hasq = H] EXCEPT !.chunk_size = size, !.buffering = H]
  BY <1>2, <1>3 DEF generator_buffering, create_queue
<1>5. /\ Rec(y) /\ y.it = x.it /\ y.q = x.q /\ y.hasq = H /\ y.buffering = H
      /\ y.chunk_size = size /\ y.executor = x.executor /\ y.callback = x.callback
      /\ y.called = x.called /\ y.notified = x.notified /\ y.aborted = x.aborted
  BY <1>1, <1>4 DEF Rec
<1>6. x.q.items = <<>>
  <2>1. PICK s : s = x.q.items
    OBVIOUS
  <2>2. s \in Seq(Items) /\ \A i \in 1 .. Len(s) : s[i].block # <<>>
    BY <1>1, <2>1 DEF Queue, Filled, Chunk
  <2>3. PICK a, d : a = Gives(x.it.settled) /\ d = queue_data(x.q)
    OBVIOUS
  <2>4. a \in Seq(Nat) /\ d \in Seq(Nat) /\ a \o d = [i \in 1 .. 0 |-> i]
    BY <1>1, <2>3 DEF Flow
  <2>5. Len(a \o d) = Len(a) + Len(d) /\ Len(a \o d) = 0
    <3>1. Len(a \o d) = Len(a) + Len(d)
      BY <2>4, ConcatProperties
    <3> QED BY <2>4, <3>1
  <2>6. Len(d) = 0
    BY <2>4, <2>5
  <2>7. d = FlattenSeq(Blocks(s)) /\ Blocks(s) \in Seq(Seq(Nat)) /\ Len(Blocks(s)) = Len(s)
    BY <2>1, <2>2, <2>3, HoldsType DEF queue_data, Blocks
  <2>8. ASSUME s # <<>> PROVE FALSE
    <3>1. 1 \in 1 .. Len(Blocks(s))
      BY <2>2, <2>7, <2>8, EmptySeq
    <3>2. Blocks(s)[1] = s[1].block /\ s[1].block # <<>> /\ s[1] \in Items
      BY <2>2, <2>7, <3>1 DEF Blocks
    <3>3. 1 \in 1 .. Len(Blocks(s)[1])
      <4>1. s[1].block \in Seq(Nat)
        BY <3>2 DEF Items
      <4>2. Len(s[1].block) # 0 /\ Len(s[1].block) \in Nat
        BY <3>2, <4>1, EmptySeq
      <4> QED BY <3>2, <4>2
    <3>4. \E k \in 1 .. Len(FlattenSeq(Blocks(s))) : FlattenSeq(Blocks(s))[k] = Blocks(s)[1][1]
      BY <2>7, <3>1, <3>3, FlattenHas, SMTT(60)
    <3>5. 1 .. Len(FlattenSeq(Blocks(s))) = {}
      BY <2>6, <2>7
    <3> QED BY <3>4, <3>5
  <2> QED BY <2>1, <2>8
<1>7. Shape(y)
  BY <1>1, <1>2, <1>5, <1>6 DEF Shape
<1>8. Queue(y.q, size, over)
  <2>1. \A i : i \notin 1 .. Len(x.q.items)
    BY <1>6
  <2> QED BY <1>1, <1>5, <2>1 DEF Queue, Filled
<1>9. Iter(y.it, was, 0, over, size)
  <2>1. PICK t : t = x.it.settled
    OBVIOUS
  <2>2. t \in Seq(Results) /\ Len(t) = 0
    <3>1. t \in Seq(Results) /\ x.it.reads \in Seq(Nat) /\ Len(t) + Len(x.it.reads) = 0
      BY <1>1, <2>1 DEF Iter, IterType, Settles
    <3>2. Len(t) \in Nat /\ Len(x.it.reads) \in Nat
      BY <3>1
    <3> QED BY <3>1, <3>2
  <2>3. Settles(t, was, over, size)
    <3>1. \A i : i \notin 1 .. Len(t)
      BY <2>2
    <3> QED BY <1>1, <2>1, <3>1 DEF Iter, Settles
  <2> QED BY <1>1, <1>5, <2>1, <2>3 DEF Iter
<1>10. Ready(y, was, 0, 0, over)
  BY <1>1, <1>5, <1>7, <1>8, <1>9 DEF Ready
<1>11. ~UpdateReader(y)
  BY <1>5, <1>6 DEF UpdateReader, queue_empty
<1> QED BY <1>2, <1>3, <1>5, <1>10, <1>11 DEF Buffers

-----------------------------------------------------------------------------
\* The callers that read.

\* A response that is read as text only once it has ended is queued like the others.
Readers == {"repeater", "writer", "enqueuer", "message_reader", "chunk_reader", "response_text"}

\* What the generator of a caller is like.
Fit(x, who) ==
  /\ who # "enqueuer" => ~UpdateReader(x)
  /\ x.executor => ~x.hasq /\ who = "repeater"
  /\ x.buffering => who = "chunk_reader" /\ x.chunk_size = ChunkSize
  /\ who = "response_text" => x.hasq

\* All is in its place, and readers are served.
Reads(x, who, n, over) ==
  /\ x.it.issued \in Nat
  /\ Ready(x, x.it.settled, x.it.issued, n, over)
  /\ Fit(x, who)
  /\ who = "response_text" => x.it.issued = 0 /\ (n # 0 \/ over)

Reading ==
  /\ caller \in Readers
  /\ sent \in Nat /\ ended \in BOOLEAN /\ attached = 0
  /\ Reads(g, caller, sent, ended)

\* Results are only added, and one call of next() at most.
Grows(x, y) ==
  /\ y.it.settled \in Seq(Results) /\ Len(x.it.settled) =< Len(y.it.settled)
  /\ \A i \in 1 .. Len(x.it.settled) : y.it.settled[i] = x.it.settled[i]
  /\ y.it.issued \in {x.it.issued, x.it.issued + 1}

\* What Reads says of the results.
LEMMA ReadsHas ==
  ASSUME NEW x, NEW who, NEW n, NEW over, Reads(x, who, n, over)
  PROVE  /\ x.it.settled \in Seq(Results) /\ x.it.issued \in Nat
         /\ Ready(x, x.it.settled, x.it.issued, n, over)
BY DEF Reads, Ready, Iter, Settles

\* It goes on like that.
Goes(x, y, who, n, over) == Reads(y, who, n, over) /\ Grows(x, y)

\* A reader whose generator is ready goes on.
LEMMA ReadsOn ==
  ASSUME NEW x, NEW who, NEW n, NEW over, Reads(x, who, n, over),
         NEW y, NEW r \in {x.it.issued, x.it.issued + 1}, NEW k, NEW end,
         Ready(y, x.it.settled, r, k, end), Fit(y, who),
         who = "response_text" => r = 0 /\ (k # 0 \/ end)
  PROVE  Goes(x, y, who, k, end)
<1>1. x.it.issued \in Nat /\ r \in Nat
  BY DEF Reads
<1>2. y.it.issued = r /\ Settles(y.it.settled, x.it.settled, end, y.chunk_size)
  BY DEF Ready, Iter
<1>3. y.it.settled \in Seq(Results)
  BY <1>2 DEF Settles
<1>4. Settles(y.it.settled, y.it.settled, end, y.chunk_size)
  <2>1. Len(y.it.settled) \in Nat
    BY <1>3
  <2> QED BY <1>2, <2>1 DEF Settles
<1>5. Iter(y.it, y.it.settled, r, end, y.chunk_size)
  BY <1>4 DEF Ready, Iter
<1>6. Ready(y, y.it.settled, r, k, end)
  BY <1>5 DEF Ready
<1>7. Grows(x, y)
  BY <1>2, <1>3 DEF Grows, Settles
<1>8. Reads(y, who, k, end)
  BY <1>1, <1>2, <1>6 DEF Reads
<1> QED BY <1>7, <1>8 DEF Goes

\* The operations of the callers.
LEMMA UsesAre ==
  /\ Uses["repeater"] = {"next", "return", "throw", "push", "stop"}
  /\ Uses["writer"] = {"next", "write", "stop"}
  /\ Uses["enqueuer"] = {"next", "enqueue", "stop"}
  /\ Uses["message_reader"] = {"next", "yield", "return"}
  /\ Uses["request_text"] = {"body", "continuous", "stop"}
  /\ Uses["response_text"] = {"continuous", "write", "finish"}
  /\ Uses["chunk_reader"] = {"next", "write", "buffering", "stop"}
BY DEF Uses

\* Which of them those that read use.
LEMMA ReadersUse ==
  ASSUME NEW who \in Readers
  PROVE  /\ "next" \in Uses[who] => who # "response_text"
         /\ "return" \in Uses[who] => who \in {"repeater", "message_reader"}
         /\ "throw" \in Uses[who] => who = "repeater"
         /\ "push" \in Uses[who] => who = "repeater"
         /\ "yield" \in Uses[who] => who = "message_reader"
         /\ "write" \in Uses[who] => who \in {"writer", "chunk_reader", "response_text"}
         /\ "body" \notin Uses[who]
         /\ "enqueue" \in Uses[who] => who = "enqueuer"
         /\ "continuous" \in Uses[who] => who = "response_text"
         /\ "buffering" \in Uses[who] => who = "chunk_reader"
         /\ "stop" \in Uses[who] => who # "response_text"
         /\ "finish" \in Uses[who] => who = "response_text"
<1>1. CASE who = "repeater"
  BY <1>1, UsesAre
<1>2. CASE who = "writer"
  BY <1>2, UsesAre
<1>3. CASE who = "enqueuer"
  BY <1>3, UsesAre
<1>4. CASE who = "message_reader"
  BY <1>4, UsesAre
<1>5. CASE who = "chunk_reader"
  BY <1>5, UsesAre
<1>6. CASE who = "response_text"
  BY <1>6, UsesAre
<1> QED BY <1>1, <1>2, <1>3, <1>4, <1>5, <1>6 DEF Readers

\* Who reads without buffering waits for an empty queue.
LEMMA IsDirect ==
  ASSUME NEW x, NEW was, NEW p, NEW n, NEW over, Ready(x, was, p, n, over),
         x.buffering = FALSE, ~UpdateReader(x)
  PROVE  Direct(x)
BY DEF Ready, Shape, UpdateReader, Direct, queue_empty

\* Who does not wait needs no service.
LEMMA EndedServes ==
  ASSUME NEW x, NEW was, NEW p, NEW n, NEW over, Ready(x, was, p, n, over), over
  PROVE  ~UpdateReader(x)
BY DEF Ready, Iter, UpdateReader, asynciterator_pending

\* next()
LEMMA NextGoes ==
  ASSUME NEW x, NEW who \in Readers, who # "response_text", NEW n \in Nat, NEW over,
         Reads(x, who, n, over), NEW L \in Nat, NEW e, e.blocks \in Seq(Seq(Nat)),
         Len(e.blocks) = L, \A k \in 1 .. L : e.blocks[k] = <<n + k>>,
         NEW end, e.stops => end, ~e.stops => end = over,
         ~x.executor => L = 0 /\ ~e.stops
  PROVE  Goes(x, generator_next(x, Undefined, e), who, n + L, end)
<1>1. PICK was, p : was = x.it.settled /\ p = x.it.issued
  OBVIOUS
<1>2. was \in Seq(Results) /\ p \in Nat /\ Ready(x, was, p, n, over)
  BY <1>1, ReadsHas
<1>3. x.executor => ~x.hasq /\ ~x.buffering
  BY <1>2 DEF Reads, Fit
<1>4. PICK y : y = generator_next(x, Undefined, e)
  OBVIOUS
<1>5. Nexted(x, y, was, p + 1, n + L, end)
  BY <1>2, <1>3, <1>4, NextMore
<1>6. Ready(y, was, p + 1, n + L, end)
  BY <1>5 DEF Nexted
<1>7. Fit(y, who)
  BY <1>5 DEF Nexted, Fit, Reads
<1>8. p + 1 \in {x.it.issued, x.it.issued + 1}
  BY <1>1
<1> QED BY <1>1, <1>4, <1>6, <1>7, <1>8, ReadsOn

\* return()
LEMMA ReturnGoes ==
  ASSUME NEW x, NEW who \in Readers, who # "response_text", NEW n \in Nat, NEW over,
         Reads(x, who, n, over), NEW end, end
  PROVE  Goes(x, generator_return(x, Undefined), who, n, end)
<1>1. PICK was, p : was = x.it.settled /\ p = x.it.issued
  OBVIOUS
<1>2. was \in Seq(Results) /\ p \in Nat /\ Ready(x, was, p, n, over)
  BY <1>1, ReadsHas
<1>3. PICK y : y = generator_return(x, Undefined)
  OBVIOUS
<1>4. Moved(x, y, was, p, n, end)
  BY <1>2, <1>3, ReturnEnds
<1>5. Ready(y, was, p, n, end) /\ Alike(x, y)
  BY <1>4 DEF Moved
<1>6. ~UpdateReader(y)
  BY <1>5, EndedServes
<1>7. Fit(y, who)
  BY <1>5, <1>6 DEF Fit, Reads, Alike
<1>8. p \in {x.it.issued, x.it.issued + 1}
  BY <1>1
<1> QED BY <1>1, <1>3, <1>5, <1>7, <1>8, ReadsOn

\* throw()
LEMMA ThrowGoes ==
  ASSUME NEW x, NEW who \in Readers, who # "response_text", NEW n \in Nat, NEW over \in BOOLEAN,
         Reads(x, who, n, over),
         NEW end, end = (over \/ generator_throw(x).it.issued = x.it.issued)
  PROVE  Goes(x, generator_throw(x), who, n, end)
<1>1. PICK was, p : was = x.it.settled /\ p = x.it.issued
  OBVIOUS
<1>2. was \in Seq(Results) /\ p \in Nat /\ Ready(x, was, p, n, over)
  BY <1>1, ReadsHas
<1>3. PICK y : y = generator_throw(x)
  OBVIOUS
<1>4. PICK r \in {p, p + 1} : Kept(x, y, was, r, n, end)
  BY <1>2, <1>3, ThrowMore
<1>5. Ready(y, was, r, n, end)
  BY <1>4 DEF Kept
<1>6. Fit(y, who)
  BY <1>4 DEF Kept, Fit, Reads
<1>7. r \in {x.it.issued, x.it.issued + 1}
  BY <1>1
<1> QED BY <1>1, <1>3, <1>5, <1>6, <1>7, ReadsOn

\* push()
LEMMA PushGoes ==
  ASSUME NEW x, NEW who, who = "repeater", NEW n \in Nat, NEW over, Reads(x, who, n, over),
         ~x.executor, NEW thened
  PROVE  Goes(x, generator_push(x, After(n, 1), thened), who, n + 1, over)
<1>1. PICK was, p : was = x.it.settled /\ p = x.it.issued
  OBVIOUS
<1>2. was \in Seq(Results) /\ p \in Nat /\ Ready(x, was, p, n, over)
  BY <1>1, ReadsHas
<1>3. x.buffering = FALSE /\ ~UpdateReader(x)
  BY <1>2 DEF Reads, Fit, Ready, Shape
<1>4. Direct(x)
  BY <1>2, <1>3, IsDirect
<1>5. PICK y : y = generator_push(x, After(n, 1), thened)
  OBVIOUS
<1>6. Yielded(x, y, was, p, n + 1, over)
  BY <1>2, <1>3, <1>4, <1>5, PushMore
<1>7. Ready(y, was, p, n + 1, over)
  BY <1>6 DEF Yielded
<1>8. Fit(y, who)
  <2>1. ~UpdateReader(y)
    BY <1>6 DEF Yielded, Direct, UpdateReader, queue_empty
  <2> QED BY <1>6, <2>1 DEF Yielded, Fit
<1>9. p \in {x.it.issued, x.it.issued + 1}
  BY <1>1
<1> QED BY <1>1, <1>5, <1>7, <1>8, <1>9, ReadsOn

\* A message arrives.
LEMMA YieldGoes ==
  ASSUME NEW x, NEW who, who = "message_reader", NEW n \in Nat, NEW over, Reads(x, who, n, over),
         NEW m \in Nat \ {0}
  PROVE  Goes(x, generator_yield(x, After(n, m)), who, n + m, over)
<1>1. PICK was, p : was = x.it.settled /\ p = x.it.issued
  OBVIOUS
<1>2. was \in Seq(Results) /\ p \in Nat /\ Ready(x, was, p, n, over)
  BY <1>1, ReadsHas
<1>3. x.buffering = FALSE /\ ~UpdateReader(x) /\ ~x.executor
  BY <1>2 DEF Reads, Fit, Ready, Shape
<1>4. Direct(x)
  BY <1>2, <1>3, IsDirect
<1>5. PICK y : y = generator_yield(x, After(n, m))
  OBVIOUS
<1>6. Yielded(x, y, was, p, n + m, over)
  BY <1>2, <1>3, <1>4, <1>5, YieldMore
<1>7. Ready(y, was, p, n + m, over)
  BY <1>6 DEF Yielded
<1>8. Fit(y, who)
  <2>1. ~UpdateReader(y)
    BY <1>6 DEF Yielded, Direct, UpdateReader, queue_empty
  <2> QED BY <1>3, <1>6, <2>1 DEF Yielded, Fit
<1>9. p \in {x.it.issued, x.it.issued + 1}
  BY <1>1
<1> QED BY <1>1, <1>5, <1>7, <1>8, <1>9, ReadsOn

\* write()
LEMMA WriteGoes ==
  ASSUME NEW x, NEW who \in Readers, who # "enqueuer", who # "repeater", NEW n \in Nat, NEW over,
         Reads(x, who, n, over), NEW m \in Nat \ {0}, NEW cb \in {0, n + m}
  PROVE  Goes(x, generator_write(x, After(n, m), cb), who, n + m, over)
<1>1. PICK was, p : was = x.it.settled /\ p = x.it.issued
  OBVIOUS
<1>2. was \in Seq(Results) /\ p \in Nat /\ Ready(x, was, p, n, over)
  BY <1>1, ReadsHas
<1>3. ~UpdateReader(x) /\ ~x.executor /\ x.buffering \in BOOLEAN
  BY <1>2 DEF Reads, Fit, Ready, Shape
<1>4. Enqueued(x, After(n, m), cb, was, p, n + m, over)
  <2>1. CASE x.buffering = FALSE
    BY <1>2, <2>1, EnqueueMore
  <2>2. CASE x.buffering = TRUE
    BY <1>2, <2>2, EnqueueGather
  <2> QED BY <1>3, <2>1, <2>2
<1>5. PICK y : y = generator_write(x, After(n, m), cb)
  OBVIOUS
<1>6. Wrote(x, y, was, p, n + m, over)
  BY <1>2, <1>3, <1>4, <1>5, WriteMore
<1>7. Ready(y, was, p, n + m, over)
  BY <1>6 DEF Wrote
<1>8. Fit(y, who)
  BY <1>6 DEF Wrote, Fit, Reads
<1>9. p \in {x.it.issued, x.it.issued + 1}
  BY <1>1
<1>10. who = "response_text" => p = 0 /\ n + m # 0
  BY <1>1 DEF Reads
<1> QED BY <1>1, <1>5, <1>7, <1>8, <1>9, <1>10, ReadsOn

\* An iterator that was not asked.
LEMMA NotAsked ==
  ASSUME NEW iter, NEW was, NEW over, NEW size, Iter(iter, was, 0, over, size)
  PROVE  iter.reads = <<>> /\ iter.settled = <<>> /\ iter.issued = 0 /\ iter.settled \in Seq(Results)
<1>1. iter.settled \in Seq(Results) /\ iter.reads \in Seq(Nat) /\ iter.issued = 0
      /\ Len(iter.settled) + Len(iter.reads) = 0
  BY DEF Iter, IterType, Settles
<1>2. Len(iter.settled) = 0 /\ Len(iter.reads) = 0
  <2>1. Len(iter.settled) \in Nat /\ Len(iter.reads) \in Nat
    BY <1>1
  <2>2. \A i, j \in Nat : i + j = 0 => i = 0 /\ j = 0
    OBVIOUS
  <2> QED BY <1>1, <2>1, <2>2
<1> QED BY <1>1, <1>2, EmptySeq

\* The first write() of a response.
LEMMA FirstWrite ==
  ASSUME NEW x, NEW over, Ready(x, <<>>, 0, 0, over), x.buffering = FALSE,
         NEW m \in Nat \ {0}, NEW cb \in {0, m}
  PROVE  Wrote(x, generator_write(x, After(0, m), cb), <<>>, 0, m, over)
<1>1. PICK n \in Nat : n = 0
  OBVIOUS
<1>2. PICK was : was = <<>>
  OBVIOUS
<1>3. Ready(x, was, n, n, over)
  BY <1>1, <1>2
<1>4. n + m = m
  BY <1>1
<1>5. PICK k : k = n + m
  OBVIOUS
<1>6. cb \in {0, n + m}
  BY <1>4
<1>7. Enqueued(x, After(n, m), cb, was, n, n + m, over)
  BY <1>3, <1>6, EnqueueMore, ZenonT(60)
<1>8. ~UpdateReader(x)
  BY <1>1, <1>3, NotAsked DEF UpdateReader, asynciterator_pending, Ready
<1>9. Wrote(x, generator_write(x, After(n, m), cb), was, n, n + m, over)
  BY <1>3, <1>7, <1>8, WriteMore
<1> QED BY <1>1, <1>2, <1>4, <1>9

\* A response is written to before anybody reads it.
LEMMA FirstWriteGoes ==
  ASSUME NEW x, NEW who, who = "response_text", NEW over,
         Ready(x, <<>>, 0, 0, over), ~x.executor, x.buffering = FALSE,
         NEW m \in Nat \ {0}, NEW cb \in {0, m}
  PROVE  Goes(x, generator_write(x, After(0, m), cb), who, m, over)
<1>1. PICK y : y = generator_write(x, After(0, m), cb)
  OBVIOUS
<1>2. Wrote(x, y, <<>>, 0, m, over)
  BY <1>1, FirstWrite
<1>3. x.it.reads = <<>> /\ x.it.settled = <<>> /\ x.it.issued = 0
  BY NotAsked DEF Ready
<1>4. Ready(y, <<>>, 0, m, over)
  BY <1>2 DEF Wrote
<1>5. y.it.reads = <<>> /\ y.it.settled = <<>> /\ y.it.issued = 0 /\ y.it.settled \in Seq(Results)
  BY <1>4, NotAsked DEF Ready
<1>6. Fit(y, who)
  BY <1>2, <1>3 DEF Wrote, Fit, asynciterator_pending
<1>7. Grows(x, y)
  BY <1>3, <1>5 DEF Grows
<1>8. Reads(y, who, m, over)
  BY <1>4, <1>5, <1>6 DEF Reads
<1> QED BY <1>1, <1>7, <1>8 DEF Goes

\* enqueue()
LEMMA EnqueueGoes ==
  ASSUME NEW x, NEW who, who = "enqueuer", NEW n \in Nat, NEW over, Reads(x, who, n, over),
         NEW m \in Nat \ {0}
  PROVE  Goes(x, generator_enqueue(x, After(n, m)), who, n + m, over)
<1>1. PICK was, p : was = x.it.settled /\ p = x.it.issued
  OBVIOUS
<1>2. was \in Seq(Results) /\ p \in Nat /\ Ready(x, was, p, n, over)
  BY <1>1, ReadsHas
<1>3. x.buffering = FALSE /\ ~x.executor /\ Rec(x)
  BY <1>2 DEF Reads, Fit, Ready, Shape
<1>4. PICK y : y = generator_enqueue(x, After(n, m))
  OBVIOUS
<1>5. y = enqueue_block(x, After(n, m), 0)
  BY <1>3, <1>4, EnqueueSame
<1>6. Enqueued(x, After(n, m), 0, was, p, n + m, over)
  <2>1. 0 \in {0, n + m}
    OBVIOUS
  <2> QED BY <1>2, <1>3, <2>1, EnqueueMore
<1>7. Ready(y, was, p, n + m, over)
  BY <1>5, <1>6 DEF Enqueued
<1>8. Fit(y, who)
  BY <1>3, <1>5, <1>6 DEF Enqueued, Fit
<1>9. p \in {x.it.issued, x.it.issued + 1}
  BY <1>1
<1> QED BY <1>1, <1>4, <1>7, <1>8, <1>9, ReadsOn

\* buffering()
LEMMA BufferingGoes ==
  ASSUME NEW x, NEW who, who = "chunk_reader", NEW n, n = 0, NEW over, ~over, Reads(x, who, n, over),
         x.it.issued = 0, ChunkSize \in Nat \ {0}
  PROVE  Goes(x, generator_buffering(x, ChunkSize), who, n, over)
<1>1. PICK was, p : was = x.it.settled /\ p = x.it.issued
  OBVIOUS
<1>2. was \in Seq(Results) /\ p = 0 /\ Ready(x, was, 0, 0, over)
  BY <1>1, ReadsHas
<1>3. PICK size \in Nat \ {0} : size = ChunkSize
  OBVIOUS
<1>8. PICK y : y = generator_buffering(x, size)
  OBVIOUS
<1>4. /\ Ready(y, was, 0, 0, over) /\ y.buffering = TRUE /\ y.chunk_size = size
      /\ y.executor = x.executor /\ ~UpdateReader(y)
  <2>1. Buffers(x, y, was, size, over)
    BY <1>2, <1>8, BufferingReady
  <2> QED BY <2>1 DEF Buffers
<1>5. ~x.executor
  BY DEF Reads, Fit
<1>6. Fit(y, who)
  BY <1>3, <1>4, <1>5 DEF Fit
<1>7. p \in {x.it.issued, x.it.issued + 1} /\ Ready(y, was, p, n, over)
  BY <1>1, <1>2, <1>4
<1> QED BY <1>1, <1>3, <1>6, <1>7, <1>8, ReadsOn

\* stop()
LEMMA StopGoes ==
  ASSUME NEW x, NEW who \in Readers, NEW n \in Nat, NEW over, Reads(x, who, n, over), NEW end, end
  PROVE  Goes(x, generator_stop(x, Undefined), who, n, end)
<1>1. PICK was, p : was = x.it.settled /\ p = x.it.issued
  OBVIOUS
<1>2. was \in Seq(Results) /\ p \in Nat /\ Ready(x, was, p, n, over)
  BY <1>1, ReadsHas
<1>3. PICK y : y = generator_stop(x, Undefined)
  OBVIOUS
<1>4. Ready(y, was, p, n, end)
  BY <1>2, <1>3, StopEnds
<1>5. Alike(x, y)
  BY <1>2, <1>3, <1>4, StopEnds
<1>6. Fit(y, who)
  BY <1>4, <1>5, EndedServes DEF Fit, Reads, Alike
<1>7. p \in {x.it.issued, x.it.issued + 1}
  BY <1>1
<1>8. who = "response_text" => p = 0
  BY <1>1 DEF Reads
<1> QED BY <1>1, <1>3, <1>4, <1>6, <1>7, <1>8, ReadsOn

\* generator_finish stops a generator that nobody reads.
LEMMA FinishIsStop ==
  ASSUME NEW x, NEW who, who = "response_text", NEW n, NEW over, ~over, Reads(x, who, n, over)
  PROVE  generator_finish(x) = generator_stop(x, Undefined)
<1>1. /\ Shape(x) /\ Rec(x) /\ Iter(x.it, x.it.settled, 0, over, x.chunk_size)
      /\ Queue(x.q, x.chunk_size, over) /\ x.hasq
  BY DEF Reads, Ready, Shape, Fit
<1>2. x.it.reads = <<>> /\ ~x.it.closed
  <2>1. x.it.reads = <<>>
    BY <1>1, NotAsked
  <2>3. ~x.it.closed
    BY <1>1 DEF Iter, Stopped
  <2> QED BY <2>1, <2>3
<1>3. PICK T : T = TRUE
  OBVIOUS
<1>4. PICK iter : iter = [x.it EXCEPT !.closing = T]
  OBVIOUS
<1>5. PICK z : z = [x EXCEPT !.it.closing = T]
  OBVIOUS
<1>6. z = [x EXCEPT !.it = iter]
  BY <1>4, <1>5
<1>7. Rec(z) /\ z.it = iter /\ z.q = x.q /\ z.hasq = x.hasq /\ iter.reads = <<>>
  BY <1>1, <1>2, <1>4, <1>6 DEF Rec, Iter, IterType
<1>8. generator_update(z) = z
  <2> DEFINE turns == CHOOSE h : h = [i \in 0 .. Len(z.it.reads) |->
                                        IF i = 0 THEN z ELSE UpdateTurn(h[i - 1])]
  <2>1. Len(z.it.reads) = 0
    BY <1>7, EmptySeq
  <2>2. generator_update(z) = turns[0]
    BY <2>1 DEF generator_update
  <2>3. \E h : h = [i \in 0 .. 0 |-> IF i = 0 THEN z ELSE UpdateTurn(h[i - 1])]
    <3>1. PICK k \in Nat : k = 0
      OBVIOUS
    <3>2. \E h : h = [i \in 0 .. k |-> IF i = 0 THEN z ELSE UpdateTurn(h[i - 1])]
      BY TurnsExist
    <3> QED BY <3>1, <3>2
  <2>4. turns = [i \in 0 .. 0 |-> IF i = 0 THEN z ELSE UpdateTurn(turns[i - 1])]
    BY <2>1, <2>3
  <2> HIDE DEF turns
  <2>5. turns[0] = z
    BY <2>4
  <2> QED BY <2>2, <2>5
<1>9. x.q.continuous = FALSE /\ queue_close_assert(x.q)
  <2>1. x.chunk_size \in Nat
    BY <1>1 DEF Shape
  <2>2. queue_close_assert(x.q)
    BY <1>1, <2>1, QueueEnds
  <2> QED BY <1>1, <2>2 DEF Queue
<1>10. generator_finish(x) = [z EXCEPT !.q = queue_close(@)]
  BY <1>1, <1>3, <1>5, <1>7, <1>8, <1>9 DEF generator_finish
<1>11. PICK q : q = queue_close(x.q)
  OBVIOUS
<1>12. generator_finish(x) = [[x EXCEPT !.it = iter] EXCEPT !.q = q]
  BY <1>6, <1>7, <1>10, <1>11
<1>13. ~q.continuous
  BY <1>9, <1>11 DEF queue_close
<1>14. PICK v : v = [x EXCEPT !.q = q]
  OBVIOUS
<1>15. generator_stop(x, Undefined) = [v EXCEPT !.it = asynciterator_stop(@, Undefined)]
  BY <1>1, <1>2, <1>9, <1>11, <1>13, <1>14 DEF generator_stop
<1>16. v.it = x.it
  BY <1>1, <1>14 DEF Rec
<1>17. asynciterator_stop(x.it, Undefined) = iter
  BY <1>2, <1>3, <1>4 DEF asynciterator_stop, asynciterator_pending
<1>18. generator_stop(x, Undefined) = [[x EXCEPT !.q = q] EXCEPT !.it = iter]
  BY <1>14, <1>15, <1>16, <1>17
<1>19. [[x EXCEPT !.q = q] EXCEPT !.it = iter] = [[x EXCEPT !.it = iter] EXCEPT !.q = q]
  BY <1>1 DEF Rec
<1> QED BY <1>12, <1>18, <1>19

\* A step that leaves a generator that is read.
LEMMA ReadingOn ==
  ASSUME caller \in Readers, attached = 0,
         caller' = caller, attached' = attached, sent' \in Nat, ended' \in BOOLEAN,
         Goes(g, g', caller, sent', ended')
  PROVE  Reading' /\ Grows(g, g')
<1>1. caller' \in Readers' /\ attached' = 0
  BY DEF Readers
<1>2. Reads(g, caller, sent, ended)' /\ Grows(g, g')
  BY DEF Goes, Reads, Ready, Fit, Shape, Rec, Iter, IterType, Queue, Filled, Flow
<1> QED BY <1>1, <1>2 DEF Reading

\* The bytes an action sends.
LEMMA Sends ==
  ASSUME BoundAssumption, sent \in Nat
  PROVE  /\ \A n \in Chunks : n \in Nat \ {0} /\ sent + n \in Nat /\ Fresh(n) = After(sent, n)
         /\ sent + 1 \in Nat /\ Fresh(1) = After(sent, 1)
<1>1. MaxBytes \in Nat /\ MaxChunk \in Nat
  BY DEF BoundAssumption
<1>2. \A n \in Chunks : n \in Nat \ {0} /\ sent + n \in Nat
  BY <1>1 DEF Chunks
<1> QED BY <1>2 DEF Fresh, After

\* A reader goes on reading, and results are only added.
LEMMA ReadingStep ==
  ASSUME Reading, BoundAssumption, Next
  PROVE  Reading' /\ Grows(g, g')
<1>0. /\ caller \in Readers /\ sent \in Nat /\ ended \in BOOLEAN /\ attached = 0
      /\ Reads(g, caller, sent, ended)
  BY DEF Reading
<1> DEFINE Ok == caller' = caller /\ attached' = attached /\ sent' \in Nat /\ ended' \in BOOLEAN
                 /\ Goes(g, g', caller, sent', ended')
<1> SUFFICES Ok
  BY <1>0, ReadingOn
<1>1. CASE Next_
  <2>1. /\ "next" \in Uses[caller] /\ caller' = caller /\ attached' = attached
    BY <1>1 DEF Next_, Calls
  <2>2. caller # "response_text" /\ caller # "awaiting"
    BY <1>0, <2>1, ReadersUse DEF Readers
  <2>3. PICK pushed \in IF g.executor THEN 0 .. 2 ELSE {0},
             stops \in IF g.executor THEN BOOLEAN ELSE {FALSE}, thened \in BOOLEAN :
          /\ g' = generator_next(g, Undefined,
                    [blocks |-> [k \in 1 .. pushed |-> <<sent + k>>],
                     thened |-> thened, stops |-> stops])
          /\ sent' = sent + pushed
          /\ ended' = (ended \/ stops)
    BY <1>1, <2>2 DEF Next_, AwaitPush
  <2>4. pushed \in Nat /\ stops \in BOOLEAN
    <3>1. CASE g.executor
      BY <2>3, <3>1
    <3>2. CASE ~g.executor
      BY <2>3, <3>2
    <3> QED BY <3>1, <3>2
  <2> DEFINE e == [blocks |-> [k \in 1 .. pushed |-> <<sent + k>>],
                   thened |-> thened, stops |-> stops]
  <2>5. /\ e.blocks \in Seq(Seq(Nat)) /\ Len(e.blocks) = pushed
        /\ \A k \in 1 .. pushed : e.blocks[k] = <<sent + k>>
        /\ e.stops = stops
    <3>1. \A k \in 1 .. pushed : <<sent + k>> \in Seq(Nat)
      BY <1>0, <2>4
    <3> QED BY <3>1, <2>4
  <2>6. ~g.executor => pushed = 0 /\ ~stops
    BY <2>3
  <2>7. /\ stops => ended' /\ ended' \in BOOLEAN /\ sent' \in Nat
        /\ ~stops => ended' = ended
    BY <1>0, <2>3, <2>4
  <2>8. sent' \in Nat /\ ended' \in BOOLEAN
    BY <1>0, <2>3, <2>4
  <2> HIDE DEF e
  <2>9. Goes(g, generator_next(g, Undefined, e), caller, sent + pushed, ended')
    BY <1>0, <2>2, <2>4, <2>5, <2>6, <2>7, NextGoes
  <2>10. Goes(g, g', caller, sent', ended')
    BY <2>3, <2>9 DEF e
  <2> QED BY <2>1, <2>8, <2>10
<1>2. CASE Return
  <2>1. /\ "return" \in Uses[caller] /\ caller' = caller /\ attached' = attached
        /\ sent' = sent /\ ended' = TRUE /\ g' = generator_return(g, Undefined)
    BY <1>2 DEF Return, Calls
  <2>2. caller # "response_text"
    BY <1>0, <2>1, ReadersUse
  <2>3. Goes(g, generator_return(g, Undefined), caller, sent, ended')
    BY <1>0, <2>1, <2>2, ReturnGoes
  <2> QED BY <1>0, <2>1, <2>3
<1>3. CASE Throw
  <2>1. /\ "throw" \in Uses[caller] /\ caller' = caller /\ attached' = attached
        /\ sent' = sent /\ g' = generator_throw(g)
        /\ ended' = (ended \/ g'.it.issued = g.it.issued)
    BY <1>3 DEF Throw, Calls
  <2>2. caller # "response_text"
    BY <1>0, <2>1, ReadersUse
  <2>3. ended' = (ended \/ generator_throw(g).it.issued = g.it.issued)
    BY <2>1
  <2>4. Goes(g, generator_throw(g), caller, sent, ended')
    BY <1>0, <2>2, <2>3, ThrowGoes
  <2> QED BY <1>0, <2>1, <2>4
<1>4. CASE Push
  <2>1. /\ "push" \in Uses[caller] /\ caller' = caller /\ attached' = attached
        /\ sent' = sent + 1 /\ ended' = ended /\ ~g.executor
    BY <1>4 DEF Push, Calls, generator_started
  <2>2. PICK thened \in BOOLEAN : g' = generator_push(g, Fresh(1), thened)
    BY <1>4 DEF Push
  <2>3. caller = "repeater"
    BY <1>0, <2>1, ReadersUse
  <2>4. Goes(g, generator_push(g, After(sent, 1), thened), caller, sent + 1, ended)
    BY <1>0, <2>1, <2>3, PushGoes
  <2> QED BY <1>0, <2>1, <2>2, <2>4, Sends
<1>5. CASE Yield
  <2>1. /\ "yield" \in Uses[caller] /\ caller' = caller /\ attached' = attached
        /\ ended' = ended
    BY <1>5 DEF Yield, Calls
  <2>2. PICK n \in Chunks : g' = generator_yield(g, Fresh(n)) /\ sent' = sent + n
    BY <1>5 DEF Yield
  <2>3. n \in Nat \ {0} /\ sent + n \in Nat /\ Fresh(n) = After(sent, n)
    BY <1>0, <2>2, Sends
  <2>4. caller = "message_reader"
    BY <1>0, <2>1, ReadersUse
  <2>5. Goes(g, generator_yield(g, After(sent, n)), caller, sent + n, ended)
    BY <1>0, <2>3, <2>4, YieldGoes
  <2> QED BY <1>0, <2>1, <2>2, <2>3, <2>5
<1>6. CASE Write
  <2>1. /\ "write" \in Uses[caller] /\ caller' = caller /\ attached' = attached
        /\ ended' = ended
    BY <1>6 DEF Write, Calls
  <2>2. PICK n \in Chunks, withCallback \in BOOLEAN :
          /\ g' = generator_write(g, Fresh(n), IF withCallback THEN sent + n ELSE 0)
          /\ sent' = sent + n
    BY <1>6 DEF Write
  <2>3. n \in Nat \ {0} /\ sent + n \in Nat /\ Fresh(n) = After(sent, n)
    BY <1>0, <2>2, Sends
  <2>4. caller # "enqueuer" /\ caller # "repeater"
    BY <1>0, <2>1, ReadersUse
  <2>5. PICK cb \in {0, sent + n} : cb = IF withCallback THEN sent + n ELSE 0
    OBVIOUS
  <2>6. Goes(g, generator_write(g, After(sent, n), cb), caller, sent + n, ended)
    BY <1>0, <2>3, <2>4, WriteGoes
  <2> QED BY <1>0, <2>1, <2>2, <2>3, <2>5, <2>6
<1>7. CASE Body
  BY <1>0, <1>7, ReadersUse DEF Body, Calls
<1>8. CASE Enqueue
  <2>1. /\ "enqueue" \in Uses[caller] /\ caller' = caller /\ attached' = attached
        /\ ended' = ended
    BY <1>8 DEF Enqueue, Calls
  <2>2. PICK n \in Chunks : g' = generator_enqueue(g, Fresh(n)) /\ sent' = sent + n
    BY <1>8 DEF Enqueue
  <2>3. n \in Nat \ {0} /\ sent + n \in Nat /\ Fresh(n) = After(sent, n)
    BY <1>0, <2>2, Sends
  <2>4. caller = "enqueuer"
    BY <1>0, <2>1, ReadersUse
  <2>5. Goes(g, generator_enqueue(g, After(sent, n)), caller, sent + n, ended)
    BY <1>0, <2>3, <2>4, EnqueueGoes
  <2> QED BY <1>0, <2>1, <2>2, <2>3, <2>5
<1>9. CASE Continuous
  <2>1. "continuous" \in Uses[caller] /\ ChangingMode
    BY <1>9 DEF Continuous, Calls
  <2>2. caller = "response_text"
    BY <1>0, <2>1, ReadersUse
  <2>3. sent = 0 /\ ~ended
    BY <2>1, <2>2 DEF ChangingMode
  <2>4. sent # 0 \/ ended
    BY <1>0, <2>2 DEF Reads
  <2> QED BY <2>3, <2>4
<1>10. CASE Buffering
  <2>1. /\ "buffering" \in Uses[caller] /\ caller' = caller /\ attached' = attached
        /\ sent' = sent /\ ended' = ended /\ g' = generator_buffering(g, ChunkSize)
        /\ ChangingMode
    BY <1>10 DEF Buffering, Calls
  <2>2. caller = "chunk_reader"
    BY <1>0, <2>1, ReadersUse
  <2>3. sent = 0 /\ ~ended /\ g.it.issued = 0 /\ ChunkSize \in Nat \ {0}
    BY <2>1, <2>2 DEF ChangingMode, BoundAssumption
  <2>4. Goes(g, generator_buffering(g, ChunkSize), caller, sent, ended)
    BY <1>0, <2>2, <2>3, BufferingGoes
  <2> QED BY <1>0, <2>1, <2>4
<1>11. CASE Stop
  <2>1. /\ caller' = caller /\ attached' = attached
        /\ sent' = sent /\ ended' = TRUE /\ g' = generator_stop(g, Undefined)
    BY <1>11 DEF Stop, Calls
  <2>2. Goes(g, generator_stop(g, Undefined), caller, sent, ended')
    BY <1>0, <2>1, StopGoes
  <2> QED BY <1>0, <2>1, <2>2
<1>12. CASE Finish
  <2>1. /\ "finish" \in Uses[caller] /\ caller' = caller /\ attached' = attached
        /\ sent' = sent /\ ended' = TRUE /\ g' = generator_finish(g) /\ ~ended
    BY <1>12 DEF Finish, Calls
  <2>2. caller = "response_text"
    BY <1>0, <2>1, ReadersUse
  <2>3. generator_finish(g) = generator_stop(g, Undefined)
    BY <1>0, <2>1, <2>2, FinishIsStop
  <2>4. Goes(g, generator_stop(g, Undefined), caller, sent, ended')
    BY <1>0, <2>1, StopGoes
  <2> QED BY <1>0, <2>1, <2>3, <2>4
<1> QED BY <1>1, <1>2, <1>3, <1>4, <1>5, <1>6, <1>7, <1>8, <1>9, <1>10, <1>11, <1>12 DEF Next

-----------------------------------------------------------------------------
\* The callers that read a text.

\* The last chunk of a queue, behind which there is nothing but its end.
LEMMA LastIs ==
  ASSUME NEW q, NEW s \in Seq(Items), q.items = s, NEW k \in 1 .. Len(s), ~s[k].done,
         \A i \in 1 .. Len(s) : i > k => End(s[i])
  PROVE  queue_last_chunk(q) = k
<1> DEFINE I == {i \in 1 .. Len(s) : s[i].block # <<>> \/ ~s[i].done}
<1>1. queue_last_chunk(q) = IF I # {} THEN Max(I) ELSE 0
  BY DEF queue_last_chunk, SelectLastInSeq, SelectLastInSubSeq
<1>2. k \in I
  OBVIOUS
<1>3. \A i \in I : k >= i
  <2>1. \A i \in I : i \in 1 .. Len(s) /\ ~End(s[i])
    BY DEF End
  <2>2. \A i \in 1 .. Len(s) : ~(i > k) => k >= i
    OBVIOUS
  <2> QED BY <2>1, <2>2
<1>4. I \subseteq Nat
  OBVIOUS
<1> HIDE DEF I
<1>5. PICK m : m = Max(I)
  OBVIOUS
<1>6. m \in I /\ \A y \in I : m >= y
  BY <1>2, <1>3, <1>5 DEF Max
<1>7. m >= k /\ k >= m
  BY <1>2, <1>3, <1>6
<1>8. m \in Nat /\ k \in Nat
  BY <1>2, <1>4, <1>6
<1> QED BY <1>1, <1>2, <1>5, <1>7, <1>8

\* The element of a sequence that has one is replaced.
LEMMA SwapOne ==
  ASSUME NEW c, NEW d
  PROVE  [<<c>> EXCEPT ![1] = d] = <<d>> /\ Len(<<c>>) = 1 /\ <<c>>[1] = c
  OBVIOUS

\* A queue of one chunk that gathers b.
One(q, c, b) ==
  /\ q = [items |-> q.items, continuous |-> q.continuous]
  /\ q.items = <<c>> /\ q.continuous = TRUE
  /\ c \in Items /\ ~c.done /\ c.block = b

\* Where it goes on.
LEMMA OneLast ==
  ASSUME NEW q, NEW c, NEW b, One(q, c, b)
  PROVE  /\ queue_last_chunk(q) = 1 /\ q.items[1] = c /\ Len(q.items) = 1
         /\ queue_front(q) = c /\ ~queue_empty(q) /\ ~queue_complete(q) /\ ~queue_closed(q)
<1>1. q.items = <<c>> /\ c \in Items /\ ~c.done
  BY DEF One
<1>2. PICK s : s = <<c>>
  OBVIOUS
<1>3. s \in Seq(Items) /\ Len(s) = 1 /\ s[1] = c /\ 1 \in 1 .. Len(s)
  BY <1>1, <1>2
<1>4. \A i \in 1 .. Len(s) : ~(i > 1)
  BY <1>3
<1>5. queue_last_chunk(q) = 1
  BY <1>1, <1>2, <1>3, <1>4, LastIs
<1>6. Head(q.items) = c /\ q.items # <<>> /\ Last(q.items) = c
  BY <1>1, <1>2, <1>3 DEF Last
<1> QED BY <1>1, <1>2, <1>3, <1>5, <1>6 DEF queue_front, queue_empty, queue_complete, queue_closed

\* It takes more.
LEMMA OnePut ==
  ASSUME NEW q, NEW c, NEW b \in Seq(Nat), One(q, c, b), NEW d \in Seq(Nat)
  PROVE  /\ queue_put_at(q) = 1
         /\ One(queue_put(q, d), [c EXCEPT !.block = @ \o d], b \o d)
<1>1. queue_last_chunk(q) = 1 /\ q.continuous
  BY OneLast DEF One
<1>2. queue_put_at(q) = 1 /\ queue_put(q, d) = [q EXCEPT !.items[1].block = @ \o d]
  BY <1>1 DEF queue_put_at, queue_put
<1>3. PICK T, t : T = TRUE /\ t = <<c>>
  OBVIOUS
<1>4. q = [items |-> t, continuous |-> T]
  BY <1>3 DEF One
<1>5. PICK e : e = [c EXCEPT !.block = @ \o d]
  OBVIOUS
<1>6. e \in Items /\ e.block = b \o d /\ ~e.done
  <2>0. b \o d \in Seq(Nat)
    OBVIOUS
  <2>1. PICK w \in Seq(Nat) : w = b \o d
    BY <2>0
  <2>2. c \in Items /\ ~c.done /\ c.block = b
    BY DEF One
  <2>3. e = [c EXCEPT !.block = w]
    BY <1>5, <2>1, <2>2
  <2>4. e \in Items /\ e.block = w /\ ~e.done
    BY <2>2, <2>3 DEF Items
  <2> QED BY <2>1, <2>4
<1>7. t[1] = c
  BY <1>3, SwapOne
<1>8. [q EXCEPT !.items[1].block = @ \o d] = [items |-> [t EXCEPT ![1] = e], continuous |-> T]
  <2>1. PICK w : w = c.block \o d
    OBVIOUS
  <2>2. [q EXCEPT !.items[1].block = @ \o d] = [q EXCEPT !.items[1].block = w]
    BY <1>4, <1>7, <2>1
  <2>3. e = [c EXCEPT !.block = w]
    BY <1>5, <2>1
  <2>6. PICK r : r = [q EXCEPT !.items[1].block = w]
    OBVIOUS
  <2>4. r = [items |-> [t EXCEPT ![1].block = w], continuous |-> T]
    BY <1>4, <2>6
  <2>5. [t EXCEPT ![1].block = w] = [t EXCEPT ![1] = e]
    BY <1>7, <2>3
  <2> QED BY <2>2, <2>4, <2>5, <2>6
<1>9. [t EXCEPT ![1] = e] = <<e>>
  BY <1>3, SwapOne
<1>10. PICK r : r = queue_put(q, d)
  OBVIOUS
<1>11. r = [items |-> <<e>>, continuous |-> T]
  BY <1>2, <1>8, <1>9, <1>10
<1>12. One(r, e, b \o d)
  BY <1>3, <1>6, <1>11 DEF One
<1> QED BY <1>2, <1>5, <1>10, <1>12

\* Nobody asks a generator for results.
Unasked(x) ==
  /\ Rec(x) /\ IterType(x.it)
  /\ x.it.reads = <<>> /\ x.it.settled = <<>> /\ x.it.issued = 0
  /\ x.buffering = FALSE /\ x.executor = FALSE

\* Nothing has been done with it yet.
Unused(x, over) ==
  /\ Unasked(x) /\ Ready(x, <<>>, 0, 0, over) /\ ~over
  /\ x.hasq = FALSE /\ x.callback = NoFunction /\ x.notified = <<>>

\* The function of the last call of continuous() with one, the k-th.
Attached(f, k) == f = IF k = 0 THEN NoFunction ELSE Continuation(k)

\* All that was sent gathers in one chunk.
Gathering(x, n, k) ==
  /\ Unasked(x) /\ ~Stopped(x.it) /\ x.hasq = TRUE
  /\ x.called = <<>> /\ x.notified = <<>> /\ x.aborted = ""
  /\ Attached(x.callback, k)
  /\ \E c : One(x.q, c, After(0, n))

\* It was given to the last callback, or stays in the queue when there is none.
Given(x, n, k) ==
  /\ Unasked(x)
  /\ x.aborted \in {"", "generator_finish"}
  /\ \/ k = 0 /\ x.called = <<>> /\ x.notified = <<>> /\ queue_data(x.q) = After(0, n)
     \/ k = 0 /\ x.called = <<>> /\ queue_data(x.q) = <<>>
     \/ /\ k # 0 /\ queue_data(x.q) = <<>>
        /\ x.called = <<[callback |-> k, value |-> BlockValue(After(0, n))]>>

\* The functions are not the same.
LEMMA Functions ==
  ASSUME NEW k, NEW j
  PROVE  Continuation(k) # NoFunction /\ (Continuation(k) = Continuation(j) => k = j)
  BY DEF Continuation, NoFunction

\* What is sent first.
LEMMA AfterZero ==
  ASSUME NEW n \in Nat, NEW m \in Nat
  PROVE  /\ After(0, n) \in Seq(Nat) /\ Len(After(0, n)) = n
         /\ After(0, n) = [i \in 1 .. n |-> i]
         /\ After(0, n) \o After(n, m) = After(0, n + m)
<1>1. After(0, n) = [i \in 1 .. n |-> i] /\ After(0, n + m) = [i \in 1 .. n + m |-> i]
  BY DEF After
<1>2. PICK s, t, u : s = After(0, n) /\ t = After(n, m) /\ u = After(0, n + m)
  OBVIOUS
<1>3. s \in Seq(Nat) /\ Len(s) = n /\ \A i \in 1 .. n : s[i] = i
  BY <1>1, <1>2
<1>4. t \in Seq(Nat) /\ Len(t) = m /\ \A i \in 1 .. m : t[i] = n + i
  BY <1>2 DEF After
<1>5. u \in Seq(Nat) /\ Len(u) = n + m /\ \A i \in 1 .. n + m : u[i] = i
  BY <1>1, <1>2
<1>6. /\ \A i \in 1 .. Len(s) : i \in 1 .. n + m /\ u[i] = s[i]
      /\ \A i \in 1 .. Len(t) : n + i \in 1 .. n + m /\ u[Len(s) + i] = t[i]
  BY <1>3, <1>4, <1>5
<1>8. /\ Len(u) = Len(s) + Len(t) /\ \A i \in 1 .. Len(s) : u[i] = s[i]
      /\ \A i \in 1 .. Len(t) : u[Len(s) + i] = t[i]
  BY <1>3, <1>4, <1>5, <1>6
<1>7. u = s \o t
  BY <1>3, <1>4, <1>5, <1>8, IsConcat
<1> QED BY <1>1, <1>2, <1>3, <1>7

\* Nothing.
LEMMA AfterNone == After(0, 0) = <<>>
<1>1. After(0, 0) \in Seq(Nat) /\ Len(After(0, 0)) = 0
  BY AfterZero
<1> QED BY <1>1, EmptySeq

\* What a queue of one chunk holds.
LEMMA OneHolds ==
  ASSUME NEW q, NEW c, NEW b \in Seq(Nat), One(q, c, b)
  PROVE  queue_data(q) = b
<1>1. q.items = <<c>> /\ c \in Items /\ c.block = b
  BY DEF One
<1>2. queue_data(q) = Holds(q.items)
  BY DEF queue_data, Holds, Blocks
<1> QED BY <1>1, <1>2, HoldsOne

\* continuous() of a queue without a chunk.
LEMMA OneFirst ==
  ASSUME NEW q, q.items = <<>>
  PROVE  One(queue_continuous(q), Item(<<>>), <<>>)
<1>1. PICK c : c = Item(<<>>)
  OBVIOUS
<1>2. c \in Items /\ ~c.done /\ c.block = <<>>
  BY <1>1 DEF Item, Items
<1> DEFINE I == {i \in 1 .. Len(q.items) : q.items[i].block # <<>> \/ ~q.items[i].done}
<1>3. queue_last_chunk(q) = IF I # {} THEN Max(I) ELSE 0
  BY DEF queue_last_chunk, SelectLastInSeq, SelectLastInSubSeq
<1>4. I = {}
  OBVIOUS
<1>5. queue_last_chunk(q) = 0
  BY <1>3, <1>4
<1>6. Append(q.items, c) = <<c>>
  OBVIOUS
<1>7. PICK T, r : T = TRUE /\ r = queue_continuous(q)
  OBVIOUS
<1>8. r = [items |-> <<c>>, continuous |-> T]
  BY <1>1, <1>5, <1>6, <1>7 DEF queue_continuous
<1>9. One(r, c, <<>>)
  BY <1>2, <1>7, <1>8 DEF One
<1> QED BY <1>1, <1>7, <1>9

\* continuous() of one that gathers.
LEMMA OneAgain ==
  ASSUME NEW q, NEW c, NEW b, One(q, c, b)
  PROVE  queue_continuous(q) = q
<1>1. queue_last_chunk(q) = 1
  BY OneLast
<1>2. PICK T, r : T = TRUE /\ r = queue_continuous(q)
  OBVIOUS
<1>3. r = [items |-> q.items, continuous |-> T]
  BY <1>1, <1>2 DEF queue_continuous
<1> QED BY <1>2, <1>3 DEF One

\* continuous() has made y of x.
Continued(x, f, y) ==
  /\ Rec(y) /\ y.it = x.it /\ y.hasq = TRUE /\ y.q = queue_continuous(x.q)
  /\ y.callback = IF f = NoFunction THEN x.callback ELSE f
  /\ y.buffering = x.buffering /\ y.executor = x.executor /\ y.called = x.called
  /\ y.notified = x.notified /\ y.aborted = x.aborted

\* generator_continuous sets the queue and the function, and nothing else.
LEMMA ContinuousIs ==
  ASSUME NEW x, Rec(x), NEW f
  PROVE  Continued(x, f, generator_continuous(x, f))
<1>1. PICK T, q, h, y : T = TRUE /\ q = queue_continuous(x.q)
                        /\ h = (IF f = NoFunction THEN x.callback ELSE f)
                        /\ y = generator_continuous(x, f)
  OBVIOUS
<1>2. y = [[x EXCEPT !.hasq = T] EXCEPT !.q = q, !.callback = h]
  BY <1>1 DEF generator_continuous, create_queue, Rec
<1>3. y = [it |-> x.it, hasq |-> T, q |-> q, buffering |-> x.buffering,
           chunk_size |-> x.chunk_size, started |-> x.started, executor |-> x.executor,
           callback |-> h, reject |-> x.reject, thened |-> x.thened,
           pushes |-> x.pushes, called |-> x.called, notified |-> x.notified,
           aborted |-> x.aborted]
  BY <1>2 DEF Rec
<1>4. /\ Rec(y) /\ y.it = x.it /\ y.hasq = T /\ y.q = q /\ y.callback = h
      /\ y.buffering = x.buffering /\ y.executor = x.executor /\ y.called = x.called
      /\ y.notified = x.notified /\ y.aborted = x.aborted
  BY <1>3 DEF Rec
<1> QED BY <1>1, <1>4 DEF Continued

\* The first call of continuous().
LEMMA UnusedContinuous ==
  ASSUME NEW x, NEW over, Unused(x, over), NEW f, NEW k, Attached(f, k)
  PROVE  Gathering(generator_continuous(x, f), 0, k)
<1>1. PICK y : y = generator_continuous(x, f)
  OBVIOUS
<1>2. /\ Unasked(x) /\ Rec(x) /\ x.callback = NoFunction /\ x.notified = <<>> /\ ~Stopped(x.it)
      /\ x.called = <<>> /\ x.aborted = "" /\ x.q.items = <<>>
  BY DEF Unused, Unasked, Ready, Shape, Iter
<1>8. Continued(x, f, y)
  BY <1>1, <1>2, ContinuousIs
<1>3. /\ Rec(y) /\ y.it = x.it /\ y.hasq = TRUE /\ y.q = queue_continuous(x.q)
      /\ y.callback = f
      /\ y.buffering = x.buffering /\ y.executor = x.executor /\ y.called = x.called
      /\ y.notified = x.notified /\ y.aborted = x.aborted
  BY <1>2, <1>8 DEF Continued
<1>4. One(y.q, Item(<<>>), After(0, 0))
  BY <1>2, <1>3, OneFirst, AfterNone
<1>5. Unasked(y)
  BY <1>2, <1>3 DEF Unasked
<1> QED BY <1>1, <1>2, <1>3, <1>4, <1>5 DEF Gathering

\* Another call of continuous().
LEMMA GatheringContinuous ==
  ASSUME NEW x, NEW n, NEW k, Gathering(x, n, k), NEW f, NEW j,
         \/ f = NoFunction /\ j = k
         \/ j # 0 /\ f = Continuation(j)
  PROVE  Gathering(generator_continuous(x, f), n, j)
<1>1. PICK y : y = generator_continuous(x, f)
  OBVIOUS
<1>2. Unasked(x) /\ Rec(x)
  BY DEF Gathering, Unasked
<1>8. Continued(x, f, y)
  BY <1>1, <1>2, ContinuousIs
<1>3. /\ Rec(y) /\ y.it = x.it /\ y.hasq = TRUE /\ y.q = queue_continuous(x.q)
      /\ y.callback = IF f = NoFunction THEN x.callback ELSE f
      /\ y.buffering = x.buffering /\ y.executor = x.executor /\ y.called = x.called
      /\ y.notified = x.notified /\ y.aborted = x.aborted
  BY <1>2, <1>8 DEF Continued
<1>4. PICK c : One(x.q, c, After(0, n))
  BY DEF Gathering
<1>5. One(y.q, c, After(0, n))
  BY <1>3, <1>4, OneAgain
<1>6. Attached(y.callback, j)
  BY <1>3, Functions DEF Gathering, Attached
<1>7. Unasked(y)
  BY <1>2, <1>3 DEF Unasked
<1> QED BY <1>1, <1>3, <1>5, <1>6, <1>7 DEF Gathering

\* What gathers takes more.
LEMMA EnqueueOne ==
  ASSUME NEW x, Rec(x), x.buffering = FALSE, NEW b \in Seq(Nat), NEW c, One(x.q, c, b),
         NEW d \in Seq(Nat), NEW cb \in Nat
  PROVE  \E r, e : /\ enqueue_block(x, d, cb) = [create_queue(x) EXCEPT !.q = r]
                   /\ One(r, e, b \o d)
<1>1. PICK q, T : q = x.q /\ T = TRUE
  OBVIOUS
<1>2. q = [items |-> q.items, continuous |-> T]
  BY <1>1 DEF One
<1>3. PICK open : open = [q EXCEPT !.continuous = @ \/ x.buffering]
  OBVIOUS
<1>4. open = q
  <2>1. (q.continuous \/ x.buffering) = T
    BY <1>1 DEF One
  <2>2. open = [q EXCEPT !.continuous = T]
    BY <1>3, <2>1
  <2> QED BY <1>2, <2>2
<1>5. PICK e : e = [c EXCEPT !.block = @ \o d]
  OBVIOUS
<1>6. PICK put : put = queue_put(q, d)
  OBVIOUS
<1>7. One(put, e, b \o d)
  BY <1>1, <1>5, <1>6, OnePut
<1>8. queue_put_at(open) = 1
  BY <1>1, <1>4, OnePut
<1>9. put = [items |-> put.items, continuous |-> T]
  BY <1>1, <1>7 DEF One
<1>10. PICK same : same = [queue_put(open, d) EXCEPT !.continuous = @ /\ ~x.buffering]
  OBVIOUS
<1>11. same = put
  <2>1. (put.continuous /\ ~x.buffering) = T
    BY <1>1, <1>7 DEF One
  <2>2. same = [put EXCEPT !.continuous = T]
    BY <1>4, <1>6, <1>10, <2>1
  <2> QED BY <1>9, <2>2
<1>12. PICK p : p = queue_put_at(open)
  OBVIOUS
<1>13. PICK r : r = CASE p = 0 -> same
                      [] p # 0 /\ x.buffering -> Rechunk(same, p, x.chunk_size)
                      [] OTHER -> IF cb = 0 THEN same ELSE [same EXCEPT !.items[p].unref = cb]
  OBVIOUS
<1>14. enqueue_block(x, d, cb) = [create_queue(x) EXCEPT !.q = r]
  BY <1>1, <1>3, <1>10, <1>12, <1>13 DEF enqueue_block
<1>15. r = IF cb = 0 THEN put ELSE [put EXCEPT !.items[1].unref = cb]
  BY <1>8, <1>11, <1>12, <1>13
<1>16. CASE cb = 0
  BY <1>7, <1>14, <1>15, <1>16
<1>17. CASE cb # 0
  <2>1. PICK t : t = <<e>>
    OBVIOUS
  <2>2. put = [items |-> t, continuous |-> T] /\ t[1] = e
    BY <1>7, <1>9, <2>1, SwapOne DEF One
  <2>3. PICK u : u = [e EXCEPT !.unref = cb]
    OBVIOUS
  <2>4. u \in Items /\ ~u.done /\ u.block = b \o d
    <3>1. e \in Items /\ ~e.done /\ e.block = b \o d
      BY <1>7 DEF One
    <3> QED BY <2>3, <3>1 DEF Items
  <2>5. [t EXCEPT ![1].unref = cb] = [t EXCEPT ![1] = u]
    BY <2>2, <2>3
  <2>6. [t EXCEPT ![1] = u] = <<u>>
    BY <2>1, SwapOne
  <2>7. r = [items |-> [t EXCEPT ![1].unref = cb], continuous |-> T]
    BY <1>15, <1>17, <2>2
  <2>8. r = [items |-> <<u>>, continuous |-> T]
    BY <2>5, <2>6, <2>7
  <2>9. One(r, u, b \o d)
    BY <1>1, <2>4, <2>8 DEF One
  <2> QED BY <1>14, <2>9
<1> QED BY <1>16, <1>17

\* A write to a generator that gathers.
LEMMA GatheringWrite ==
  ASSUME NEW x, NEW n \in Nat, NEW k, Gathering(x, n, k), NEW m \in Nat, NEW cb \in Nat
  PROVE  Gathering(generator_write(x, After(n, m), cb), n + m, k)
<1>1. PICK b, d, y : b = After(0, n) /\ d = After(n, m) /\ y = generator_write(x, d, cb)
  OBVIOUS
<1>2. b \in Seq(Nat) /\ b \o d = After(0, n + m)
  BY <1>1, AfterZero
<1>3. d \in Seq(Nat)
  BY <1>1 DEF After
<1>4. /\ Unasked(x) /\ Rec(x) /\ x.buffering = FALSE /\ x.hasq = TRUE /\ x.it.reads = <<>>
  BY DEF Gathering, Unasked
<1>5. PICK c : One(x.q, c, b)
  BY <1>1 DEF Gathering
<1>6. PICK r, e : /\ enqueue_block(x, d, cb) = [create_queue(x) EXCEPT !.q = r]
                  /\ One(r, e, b \o d)
  BY <1>2, <1>3, <1>4, <1>5, EnqueueOne
<1>7. x.hasq /\ x.q.continuous
  BY <1>4, <1>5 DEF One
<1>8. PICK z : z = enqueue_block(x, d, cb)
  OBVIOUS
<1> DEFINE turns == CHOOSE h : h = [i \in 0 .. Len(x.it.reads) |->
                                      IF i = 0 THEN z ELSE WriteTurn(h[i - 1])]
<1>9. y = turns[Len(x.it.reads)]
  BY <1>1, <1>7, <1>8 DEF generator_write
<1>10. PICK L \in Nat : L = Len(x.it.reads) /\ L = 0
  BY <1>4
<1>11. turns = [i \in 0 .. Len(x.it.reads) |-> IF i = 0 THEN z ELSE WriteTurn(turns[i - 1])]
  <2>1. \E h : h = [i \in 0 .. Len(x.it.reads) |-> IF i = 0 THEN z ELSE WriteTurn(h[i - 1])]
    <3>1. \E h : WriteTurns(h, z, L)
      BY WriteTurnsExist
    <3> QED BY <1>10, <3>1 DEF WriteTurns
  <2> QED BY <2>1
<1> HIDE DEF turns
<1>12. y = z
  <2>1. 0 \in 0 .. L /\ turns[0] = z
    BY <1>10, <1>11
  <2> QED BY <1>9, <1>10, <2>1
<1>13. PICK T : T = TRUE
  OBVIOUS
<1>14. y = [[x EXCEPT !.hasq = T] EXCEPT !.q = r]
  BY <1>6, <1>8, <1>12, <1>13 DEF create_queue
<1>15. /\ Rec(y) /\ y.it = x.it /\ y.hasq = T /\ y.q = r /\ y.callback = x.callback
       /\ y.buffering = x.buffering /\ y.executor = x.executor /\ y.called = x.called
       /\ y.notified = x.notified /\ y.aborted = x.aborted
  BY <1>4, <1>14 DEF Rec
<1>16. Unasked(y)
  BY <1>4, <1>15 DEF Unasked
<1>17. Gathering(y, n + m, k)
  BY <1>2, <1>6, <1>13, <1>15, <1>16 DEF Gathering
<1> QED BY <1>1, <1>17

\* The k-th function, if there is one, has been called with v.
CalledBack(x, k, v) ==
  IF k = 0 THEN x ELSE [x EXCEPT !.called = Append(@, [callback |-> k, value |-> v])]

\* JS_Call calls the function it is given.
LEMMA CallsBack ==
  ASSUME NEW x, NEW f, NEW k, Attached(f, k), NEW v
  PROVE  JS_Call(x, f, v) = CalledBack(x, k, v)
<1>1. CASE k = 0
  <2>1. f[1] = "none"
    BY <1>1 DEF Attached, NoFunction
  <2> QED BY <1>1, <2>1 DEF JS_Call, CalledBack
<1>2. CASE k # 0
  <2>1. f[1] = "continuous" /\ f[2] = k
    BY <1>2 DEF Attached, Continuation
  <2> QED BY <1>2, <2>1 DEF JS_Call, CalledBack
<1> QED BY <1>1, <1>2

\* An iterator that nobody waits for ends: e is what becomes of it.
Closes(iter, e) ==
  /\ IterType(e) /\ e.reads = iter.reads /\ e.settled = iter.settled /\ e.issued = iter.issued

\* asynciterator_stop closes an iterator that nobody reads.
LEMMA IterCloses ==
  ASSUME NEW iter, IterType(iter), iter.reads = <<>>
  PROVE  /\ asynciterator_stop(iter, Undefined) = [iter EXCEPT !.closing = TRUE]
         /\ Closes(iter, [iter EXCEPT !.closing = TRUE])
<1>1. asynciterator_stop(iter, Undefined) = [iter EXCEPT !.closing = TRUE]
  BY DEF asynciterator_stop, asynciterator_pending
<1>2. PICK T, e : T = TRUE /\ e = [iter EXCEPT !.closing = TRUE]
  OBVIOUS
<1>3. e = [reads |-> iter.reads, closed |-> iter.closed, closing |-> T,
           issued |-> iter.issued, settled |-> iter.settled]
  BY <1>2 DEF IterType
<1>4. e.closing \in BOOLEAN
  BY <1>2, <1>3
<1>5. Closes(iter, e)
  BY <1>3, <1>4 DEF IterType, Closes
<1> QED BY <1>1, <1>2, <1>5

\* A queue of one chunk is closed.
LEMMA OneClosed ==
  ASSUME NEW q, NEW c, NEW b \in Seq(Nat), One(q, c, b)
  PROVE  LET r == queue_close(q)
         IN  /\ r = [items |-> <<c, EndItem>>, continuous |-> q.continuous]
             /\ queue_last_chunk(r) = 1 /\ queue_data(r) = b
<1>1. ~queue_complete(q)
  BY OneLast
<1>2. PICK T, s, r : T = q.continuous /\ s = Append(q.items, EndItem) /\ r = queue_close(q)
  OBVIOUS
<1>3. q = [items |-> q.items, continuous |-> T] /\ q.items = <<c>> /\ c \in Items /\ ~c.done
      /\ c.block = b
  BY <1>2 DEF One
<1>4. r = [items |-> s, continuous |-> T]
  BY <1>1, <1>2, <1>3 DEF queue_close
<1>5. PICK e : e = EndItem
  OBVIOUS
<1>6. e \in Items /\ End(e) /\ e.block = <<>>
  BY <1>5 DEF EndItem, Items, End
<1>7. s = <<c, e>>
  <2>1. s = Append(<<c>>, e)
    BY <1>2, <1>3, <1>5
  <2>2. Append(<<c>>, e) = <<c, e>>
    <3>1. PICK t, u, v : t = <<c>> /\ u = Append(t, e) /\ v = <<c, e>>
      OBVIOUS
    <3>2. t \in Seq(Items) /\ Len(t) = 1 /\ t[1] = c
      BY <1>3, <3>1
    <3>3. /\ u \in Seq(Items) /\ Len(u) = 2 /\ u[2] = e
          /\ \A i \in 1 .. 1 : u[i] = t[i]
      BY <1>6, <3>1, <3>2, AppendProperties
    <3>4. v \in Seq(Items) /\ Len(v) = 2 /\ v[1] = c /\ v[2] = e
      BY <1>3, <1>6, <3>1
    <3>5. \A i \in 1 .. 2 : u[i] = v[i]
      BY <3>2, <3>3, <3>4
    <3>6. u = v
      BY <3>3, <3>4, <3>5, SeqEqual
    <3> QED BY <3>1, <3>6
  <2> QED BY <2>1, <2>2
<1>8. s \in Seq(Items) /\ Len(s) = 2 /\ s[1] = c /\ s[2] = e
  BY <1>3, <1>6, <1>7
<1>9. queue_last_chunk(r) = 1
  <2>1. \A i \in 1 .. Len(s) : i > 1 => End(s[i])
    BY <1>6, <1>8
  <2>2. 1 \in 1 .. Len(s) /\ r.items = s /\ ~s[1].done
    BY <1>3, <1>4, <1>8
  <2> QED BY <1>8, <2>1, <2>2, LastIs
<1>10. queue_data(r) = b
  <2>1. queue_data(r) = Holds(s)
    BY <1>4 DEF queue_data, Holds, Blocks
  <2>2. PICK t : t = <<c>>
    OBVIOUS
  <2>3. t \in Seq(Items) /\ s = Append(t, e) /\ Holds(t) = b
    BY <1>2, <1>3, <1>5, <2>2, HoldsOne
  <2>4. Holds(Append(t, e)) = Holds(t) \o e.block
    BY <1>6, <2>3, HoldsMore
  <2> QED BY <1>6, <2>1, <2>3, <2>4
<1> QED BY <1>2, <1>4, <1>5, <1>7, <1>9, <1>10

\* Its chunk is emptied.
LEMMA OneEmptied ==
  ASSUME NEW q, NEW c, c \in Items, q = [items |-> <<c, EndItem>>, continuous |-> q.continuous]
  PROVE  queue_data([q EXCEPT !.items[1].block = <<>>]) = <<>>
<1>1. PICK e, b, T : e = EndItem /\ b = <<>> /\ T = q.continuous
  OBVIOUS
<1>2. e \in Items /\ e.block = <<>> /\ b \in Seq(Nat)
  BY <1>1 DEF EndItem, Items
<1>3. PICK s : s = <<c, e>>
  OBVIOUS
<1>4. s \in Seq(Items) /\ Len(s) = 2 /\ s[1] = c /\ s[2] = e
  BY <1>2, <1>3
<1>5. PICK d : d = [c EXCEPT !.block = b]
  OBVIOUS
<1>6. d \in Items /\ d.block = <<>>
  BY <1>1, <1>2, <1>5 DEF Items
<1>7. PICK r : r = [q EXCEPT !.items[1].block = b]
  OBVIOUS
<1>8. q = [items |-> s, continuous |-> T]
  BY <1>1, <1>3
<1>9. r = [items |-> [s EXCEPT ![1].block = b], continuous |-> T]
  BY <1>7, <1>8
<1>10. PICK t : t = [s EXCEPT ![1].block = b]
  OBVIOUS
<1>11. t = [s EXCEPT ![1] = d]
  BY <1>4, <1>5, <1>10
<1>12. t \in Seq(Items) /\ Len(t) = 2 /\ t[1] = d /\ t[2] = e
  <2>1. 1 \in 1 .. Len(s) /\ 2 \in 1 .. Len(s) /\ 1 # 2
    BY <1>4
  <2>2. t \in Seq(Items) /\ Len(t) = Len(s)
    <3>1. PICK k \in 1 .. Len(s) : k = 1
      BY <2>1
    <3>2. t = [s EXCEPT ![k] = d]
      BY <1>11, <3>1
    <3> QED BY <1>4, <1>6, <3>2, SMTT(60)
  <2>3. t[1] = d /\ t[2] = s[2]
    BY <1>4, <1>11, <2>1
  <2> QED BY <1>4, <2>2, <2>3
<1>13. \A i \in 1 .. Len(t) : t[i].block = <<>>
  BY <1>2, <1>6, <1>12
<1>14. Holds(t) = <<>>
  BY <1>12, <1>13, HoldsNone
<1>15. queue_data(r) = Holds(t)
  BY <1>9, <1>10 DEF queue_data, Holds, Blocks
<1> QED BY <1>1, <1>7, <1>14, <1>15

\* A queue without items holds nothing.
LEMMA NoneHolds ==
  ASSUME NEW q, q.items = <<>>
  PROVE  queue_data(q) = <<>>
<1>1. q.items \in Seq(Items) /\ \A i \in 1 .. Len(q.items) : q.items[i].block = <<>>
  OBVIOUS
<1>2. Holds(q.items) = <<>>
  BY <1>1, HoldsNone
<1> QED BY <1>2 DEF queue_data, Holds, Blocks

\* generator_update of a generator nobody reads.
LEMMA UpdateNone ==
  ASSUME NEW x, x.it.reads = <<>>
  PROVE  generator_update(x) = x
<1> DEFINE turns == CHOOSE h : h = [n \in 0 .. Len(x.it.reads) |->
                                      IF n = 0 THEN x ELSE UpdateTurn(h[n - 1])]
<1>1. generator_update(x) = turns[Len(x.it.reads)]
  BY DEF generator_update
<1>2. PICK L \in Nat : L = Len(x.it.reads) /\ L = 0
  OBVIOUS
<1>3. turns = [n \in 0 .. Len(x.it.reads) |-> IF n = 0 THEN x ELSE UpdateTurn(turns[n - 1])]
  <2>1. \E h : h = [n \in 0 .. Len(x.it.reads) |-> IF n = 0 THEN x ELSE UpdateTurn(h[n - 1])]
    <3>1. \E h : h = [n \in 0 .. L |-> IF n = 0 THEN x ELSE UpdateTurn(h[n - 1])]
      BY TurnsExist
    <3> QED BY <1>2, <3>1
  <2> QED BY <2>1
<1> HIDE DEF turns
<1>4. 0 \in 0 .. L /\ turns[0] = x
  BY <1>2, <1>3
<1> QED BY <1>1, <1>2, <1>4

\* What stop() does to a generator that gathers: r is its queue then, y the generator.
LEMMA GatheringStop ==
  ASSUME NEW x, NEW n \in Nat, NEW k, Gathering(x, n, k)
  PROVE  Given(generator_stop(x, Undefined), n, k)
<1>1. /\ Unasked(x) /\ Rec(x) /\ IterType(x.it) /\ x.it.reads = <<>>
      /\ ~x.it.closed /\ x.hasq = TRUE /\ Attached(x.callback, k)
      /\ x.called = <<>> /\ x.aborted = ""
  BY DEF Gathering, Unasked, Stopped
<1>2. PICK c : One(x.q, c, After(0, n))
  BY DEF Gathering
<1>3. PICK b : b = After(0, n)
  OBVIOUS
<1>4. b \in Seq(Nat)
  BY <1>3, AfterZero
<1>5. ~queue_complete(x.q) /\ queue_close_assert(x.q)
  BY <1>2, OneLast DEF queue_close_assert
<1>6. PICK q : q = queue_close(x.q)
  OBVIOUS
<1>7. /\ q = [items |-> <<c, EndItem>>, continuous |-> x.q.continuous]
      /\ queue_last_chunk(q) = 1
  BY <1>2, <1>3, <1>4, <1>6, OneClosed
<1>8. c \in Items /\ c.block = b /\ x.q.continuous
  BY <1>2, <1>3 DEF One
<1>9. q.continuous /\ q.items[1] = c
  BY <1>7, <1>8
<1>10. PICK r : r = [q EXCEPT !.items[1].block = <<>>]
  OBVIOUS
<1>11. queue_data(r) = <<>>
  <2>1. q = [items |-> <<c, EndItem>>, continuous |-> q.continuous]
    BY <1>7
  <2> QED BY <1>8, <1>10, <2>1, OneEmptied
<1>12. PICK v : v = BlockValue(b)
  OBVIOUS
<1>13. PICK w, notified : /\ w = JS_Call(x, x.callback, v)
                          /\ notified = IF c.unref = 0 THEN w.notified
                                        ELSE Append(w.notified, c.unref)
  OBVIOUS
<1>14. PICK z : z = [w EXCEPT !.q = r, !.notified = notified]
  OBVIOUS
<1>15. PICK y : y = generator_stop(x, Undefined)
  OBVIOUS
<1>16. y = [z EXCEPT !.it = asynciterator_stop(@, Undefined)]
  <2>5. x.hasq /\ ~x.it.closed /\ queue_close_assert(x.q)
    BY <1>1, <1>5
  <2>6. q = IF x.hasq THEN queue_close(x.q) ELSE x.q
    BY <1>6, <2>5
  <2>7. 1 = IF x.hasq /\ q.continuous THEN queue_last_chunk(q) ELSE 0
    BY <1>7, <1>9, <2>5
  <2>1. PICK given : given = GiveChunk(x, q, 1)
    OBVIOUS
  <2>2. y = [given EXCEPT !.it = asynciterator_stop(@, Undefined)]
    BY <1>15, <2>1, <2>5, <2>6, <2>7 DEF generator_stop
  <2>3. given = [w EXCEPT !.q = r, !.notified = IF c.unref = 0 THEN @ ELSE Append(@, c.unref)]
    BY <1>8, <1>9, <1>10, <1>12, <1>13, <2>1 DEF GiveChunk
  <2>4. given = z
    BY <1>13, <1>14, <2>3
  <2> QED BY <2>2, <2>4
<1>17. w = CalledBack(x, k, v)
  <2>1. PICK f : f = x.callback
    OBVIOUS
  <2>2. Attached(f, k)
    BY <1>1, <2>1
  <2> QED BY <1>13, <2>1, <2>2, CallsBack
<1>18. PICK called : called = IF k = 0 THEN <<>> ELSE <<[callback |-> k, value |-> v]>>
  OBVIOUS
<1>19. /\ Rec(w) /\ w.it = x.it /\ w.buffering = x.buffering /\ w.executor = x.executor
       /\ w.aborted = x.aborted /\ w.called = called
  <2>1. CASE k = 0
    BY <1>1, <1>17, <1>18, <2>1 DEF CalledBack
  <2>2. CASE k # 0
    <3>1. PICK a, one : one = [callback |-> k, value |-> v] /\ a = Append(x.called, one)
      OBVIOUS
    <3>5. x.called = <<>>
      BY <1>1
    <3>4. a = <<one>>
      BY <3>1, <3>5
    <3>2. a = called
      BY <1>18, <2>2, <3>1, <3>4
    <3>3. w = [x EXCEPT !.called = a]
      BY <1>17, <2>2, <3>1 DEF CalledBack
    <3> QED BY <1>1, <3>2, <3>3 DEF Rec
  <2> QED BY <2>1, <2>2
<1>20. PICK iter : iter = asynciterator_stop(x.it, Undefined)
  OBVIOUS
<1>21. Closes(x.it, iter)
  BY <1>1, <1>20, IterCloses
<1>22. Rec(z) /\ z.it = x.it /\ z.buffering = x.buffering /\ z.executor = x.executor
       /\ z.aborted = x.aborted /\ z.called = called /\ z.q = r
  BY <1>14, <1>19 DEF Rec
<1>23. y = [z EXCEPT !.it = iter]
  BY <1>16, <1>20, <1>22
<1>24. Rec(y) /\ y.it = iter /\ y.buffering = x.buffering /\ y.executor = x.executor
       /\ y.aborted = x.aborted /\ y.called = called /\ y.q = r
  BY <1>22, <1>23 DEF Rec
<1>25. Unasked(y)
  BY <1>1, <1>21, <1>24 DEF Unasked, Closes
<1>26. Given(y, n, k)
  BY <1>1, <1>3, <1>11, <1>12, <1>18, <1>24, <1>25 DEF Given
<1> QED BY <1>15, <1>26

\* The iterator is closing.
Closing(x, z) ==
  /\ Rec(z) /\ Closes(x.it, z.it) /\ z.buffering = x.buffering /\ z.executor = x.executor
  /\ z.aborted = x.aborted /\ z.called = x.called /\ z.q = x.q /\ z.hasq = x.hasq
  /\ z.callback = x.callback /\ z.notified = x.notified

\* A generator whose iterator is closing is otherwise the same.
LEMMA IsClosing ==
  ASSUME NEW x, Rec(x), IterType(x.it), x.it.reads = <<>>
  PROVE  Closing(x, [x EXCEPT !.it.closing = TRUE])
<1>1. PICK iter, T : T = TRUE /\ iter = [x.it EXCEPT !.closing = T]
  OBVIOUS
<1>2. Closes(x.it, iter)
  BY <1>1, IterCloses
<1>3. PICK z : z = [x EXCEPT !.it.closing = T]
  OBVIOUS
<1>4. z = [x EXCEPT !.it = iter]
  BY <1>1, <1>3 DEF Rec
<1>5. /\ Rec(z) /\ z.it = iter /\ z.buffering = x.buffering /\ z.executor = x.executor
      /\ z.aborted = x.aborted /\ z.called = x.called /\ z.q = x.q /\ z.hasq = x.hasq
      /\ z.callback = x.callback /\ z.notified = x.notified
  BY <1>4 DEF Rec
<1>6. Closing(x, z)
  BY <1>2, <1>5 DEF Closing
<1> QED BY <1>1, <1>3, <1>6

\* What generator_finish does to a generator that gathers.
LEMMA GatheringFinish ==
  ASSUME NEW x, NEW n \in Nat, NEW k, Gathering(x, n, k)
  PROVE  Given(generator_finish(x), n, k)
<1>1. /\ Unasked(x) /\ Rec(x) /\ IterType(x.it) /\ x.it.reads = <<>>
      /\ x.hasq = TRUE /\ Attached(x.callback, k)
      /\ x.called = <<>> /\ x.notified = <<>> /\ x.aborted = ""
  BY DEF Gathering, Unasked
<1>2. PICK c : One(x.q, c, After(0, n))
  BY DEF Gathering
<1>3. PICK b, y, z : /\ b = After(0, n) /\ y = generator_finish(x)
                     /\ z = [x EXCEPT !.it.closing = TRUE]
  OBVIOUS
<1>4. Closing(x, z) /\ b \in Seq(Nat) /\ One(x.q, c, b)
  BY <1>1, <1>2, <1>3, IsClosing, AfterZero
<1>5. /\ Rec(z) /\ Closes(x.it, z.it) /\ z.buffering = x.buffering /\ z.executor = x.executor
      /\ z.aborted = x.aborted /\ z.called = x.called /\ z.q = x.q /\ z.hasq = x.hasq
      /\ z.callback = x.callback /\ z.notified = x.notified
  BY <1>4 DEF Closing
<1>6. z.it.reads = <<>> /\ generator_update(z) = z /\ Unasked(z)
  <2>1. z.it.reads = <<>>
    BY <1>1, <1>5 DEF Closes
  <2>2. Unasked(z)
    BY <1>1, <1>5 DEF Unasked, Closes
  <2> QED BY <2>1, <2>2, UpdateNone
<1>7. /\ ~queue_empty(x.q) /\ queue_front(x.q) = c /\ ~queue_complete(x.q) /\ ~queue_closed(x.q)
  BY <1>4, OneLast
<1>8. c.block = b /\ ~c.done /\ x.q.continuous /\ c \in Items /\ x.q.items = <<c>>
  BY <1>4 DEF One
<1>9. CASE k # 0
  <2>1. x.callback # NoFunction
    BY <1>1, <1>9, Functions DEF Attached
  <2>2. PICK v, d : v = BlockValue(b) /\ d = dequeue_value(z)
    OBVIOUS
  <2>3. y = JS_Call(d, x.callback, v)
    BY <1>1, <1>3, <1>7, <1>8, <2>1, <2>2 DEF generator_finish
  <2>4. PICK q, calls : q = queue_next(x.q) /\ calls = z.notified \o queue_next_calls(z.q)
    OBVIOUS
  <2>5. d = [z EXCEPT !.q = q, !.notified = calls]
    BY <1>5, <2>2, <2>4 DEF dequeue_value
  <2>6. queue_data(q) = <<>>
    <3>1. PICK t : t = Tail(x.q.items)
      OBVIOUS
    <3>2. q = [x.q EXCEPT !.items = t]
      BY <1>7, <1>8, <2>4, <3>1 DEF queue_next
    <3>3. q.items = t
      BY <1>4, <3>2 DEF One
    <3>4. t = <<>>
      BY <1>8, <3>1
    <3> QED BY <3>3, <3>4, NoneHolds
  <2>7. /\ Rec(d) /\ d.it = z.it /\ d.buffering = z.buffering /\ d.executor = z.executor
        /\ d.aborted = z.aborted /\ d.called = z.called /\ d.q = q
    BY <1>5, <2>5 DEF Rec
  <2>8. y = CalledBack(d, k, v)
    <3>1. PICK f : f = x.callback
      OBVIOUS
    <3>2. Attached(f, k)
      BY <1>1, <3>1
    <3> QED BY <2>3, <3>1, <3>2, CallsBack
  <2>9. PICK a, one : one = [callback |-> k, value |-> v] /\ a = Append(d.called, one)
    OBVIOUS
  <2>10. a = <<one>>
    <3>1. d.called = <<>>
      BY <1>1, <1>5, <2>7
    <3> QED BY <2>9, <3>1
  <2>11. y = [d EXCEPT !.called = a]
    BY <1>9, <2>8, <2>9 DEF CalledBack
  <2>12. /\ Rec(y) /\ y.it = z.it /\ y.buffering = z.buffering /\ y.executor = z.executor
         /\ y.aborted = z.aborted /\ y.called = a /\ y.q = q
    BY <2>7, <2>11 DEF Rec
  <2>13. Unasked(y)
    BY <1>6, <2>12 DEF Unasked
  <2>14. Given(y, n, k)
    BY <1>1, <1>3, <1>5, <1>9, <2>2, <2>6, <2>9, <2>10, <2>12, <2>13 DEF Given
  <2> QED BY <1>3, <2>14
<1>10. CASE k = 0
  <2>1. x.callback = NoFunction
    BY <1>1, <1>10 DEF Attached
  <2>2. PICK q : q = queue_close(x.q)
    OBVIOUS
  <2>3. queue_close_assert(z.q)
    BY <1>5, <1>7 DEF queue_close_assert
  <2>4. y = [z EXCEPT !.q = q]
    BY <1>1, <1>3, <1>5, <1>6, <2>1, <2>2, <2>3 DEF generator_finish
  <2>5. queue_data(q) = b
    BY <1>4, <2>2, OneClosed
  <2>6. /\ Rec(y) /\ y.it = z.it /\ y.buffering = z.buffering /\ y.executor = z.executor
        /\ y.aborted = z.aborted /\ y.called = z.called /\ y.q = q /\ y.notified = z.notified
    BY <1>5, <2>4 DEF Rec
  <2>7. Unasked(y)
    BY <1>6, <2>6 DEF Unasked
  <2>8. Given(y, n, k)
    BY <1>1, <1>3, <1>5, <1>10, <2>5, <2>6, <2>7 DEF Given
  <2> QED BY <1>3, <2>8
<1> QED BY <1>9, <1>10

\* stop() of a generator that was not used.
LEMMA UnusedStop ==
  ASSUME NEW x, NEW over, Unused(x, over), NEW n
  PROVE  Given(generator_stop(x, Undefined), n, 0)
<1>1. /\ Unasked(x) /\ Rec(x) /\ IterType(x.it) /\ x.it.reads = <<>>
      /\ ~x.it.closed /\ x.hasq = FALSE
      /\ x.called = <<>> /\ x.aborted = "" /\ x.q.items = <<>>
  BY DEF Unused, Unasked, Ready, Shape, Iter, Stopped
<1>2. PICK y : y = generator_stop(x, Undefined)
  OBVIOUS
<1>3. y = [[x EXCEPT !.q = x.q] EXCEPT !.it = asynciterator_stop(@, Undefined)]
  BY <1>1, <1>2 DEF generator_stop
<1>4. PICK iter : iter = asynciterator_stop(x.it, Undefined)
  OBVIOUS
<1>5. Closes(x.it, iter)
  BY <1>1, <1>4, IterCloses
<1>6. y = [x EXCEPT !.it = iter]
  BY <1>1, <1>3, <1>4 DEF Rec
<1>7. Rec(y) /\ y.it = iter /\ y.buffering = x.buffering /\ y.executor = x.executor
      /\ y.aborted = x.aborted /\ y.called = x.called /\ y.q = x.q
  BY <1>1, <1>6 DEF Rec
<1>8. Unasked(y)
  BY <1>1, <1>5, <1>7 DEF Unasked, Closes
<1>9. queue_data(y.q) = <<>>
  BY <1>1, <1>7, NoneHolds
<1>10. Given(y, n, 0)
  BY <1>1, <1>7, <1>8, <1>9 DEF Given
<1> QED BY <1>2, <1>10

\* generator_finish of a generator that was not used.
LEMMA UnusedFinish ==
  ASSUME NEW x, NEW over, Unused(x, over), NEW n
  PROVE  Given(generator_finish(x), n, 0)
<1>1. /\ Unasked(x) /\ Rec(x) /\ IterType(x.it) /\ x.it.reads = <<>>
      /\ ~x.hasq
      /\ x.called = <<>> /\ x.aborted = "" /\ x.q.items = <<>>
  BY DEF Unused, Unasked, Ready, Shape, Iter, Stopped
<1>2. PICK y, z : y = generator_finish(x) /\ z = [x EXCEPT !.it.closing = TRUE]
  OBVIOUS
<1>3. Closing(x, z)
  BY <1>1, <1>2, IsClosing
<1>4. /\ Rec(z) /\ Closes(x.it, z.it) /\ z.buffering = x.buffering /\ z.executor = x.executor
      /\ z.aborted = x.aborted /\ z.called = x.called /\ z.q = x.q
  BY <1>3 DEF Closing
<1>5. z.it.reads = <<>> /\ Unasked(z)
  BY <1>1, <1>4 DEF Unasked, Closes
<1>6. generator_update(z) = z
  BY <1>5, UpdateNone
<1>7. PICK where : where = "generator_finish"
  OBVIOUS
<1>8. y = [z EXCEPT !.aborted = where]
  BY <1>1, <1>2, <1>6, <1>7 DEF generator_finish, Abort
<1>9. Rec(y) /\ y.it = z.it /\ y.buffering = z.buffering /\ y.executor = z.executor
      /\ y.aborted = where /\ y.called = z.called /\ y.q = z.q
  BY <1>4, <1>8 DEF Rec
<1>10. Unasked(y)
  BY <1>5, <1>9 DEF Unasked
<1>11. queue_data(y.q) = <<>>
  BY <1>1, <1>4, <1>9, NoneHolds
<1>12. Given(y, n, 0)
  BY <1>1, <1>4, <1>7, <1>9, <1>10, <1>11 DEF Given
<1> QED BY <1>2, <1>12

\* The callers that read a text, if it is before the end.
Texts == {"request_text", "response_text"}

TextUnused ==
  /\ caller \in Texts
  /\ sent = 0 /\ ended \in BOOLEAN /\ attached = 0
  /\ Unused(g, ended)

TextOpen ==
  /\ caller \in Texts
  /\ sent \in Nat /\ ended \in BOOLEAN /\ ~ended /\ attached \in Nat
  /\ Gathering(g, sent, attached)

TextDone ==
  /\ caller \in Texts
  /\ sent \in Nat /\ ended = TRUE /\ attached \in Nat
  /\ Given(g, sent, attached)

\* There are no results.
LEMMA UnaskedGrows ==
  ASSUME NEW x, NEW y, Unasked(x), Unasked(y)
  PROVE  Grows(x, y)
  BY DEF Unasked, Grows

\* The operations that those that read a text use.
LEMMA TextsUse ==
  ASSUME NEW who \in Texts
  PROVE  /\ "next" \notin Uses[who] /\ "return" \notin Uses[who] /\ "throw" \notin Uses[who]
         /\ "push" \notin Uses[who] /\ "yield" \notin Uses[who] /\ "enqueue" \notin Uses[who]
         /\ "buffering" \notin Uses[who]
         /\ "body" \in Uses[who] => who = "request_text"
         /\ "stop" \in Uses[who] => who = "request_text"
         /\ "write" \in Uses[who] => who = "response_text"
         /\ "finish" \in Uses[who] => who = "response_text"
<1>1. CASE who = "request_text"
  BY <1>1, UsesAre
<1>2. CASE who = "response_text"
  BY <1>2, UsesAre
<1> QED BY <1>1, <1>2 DEF Texts

\* What a reader of a text or its writer does is one of these.
LEMMA TextActions ==
  ASSUME caller \in Texts, Next
  PROVE  /\ caller' = caller
         /\ \/ Body /\ caller = "request_text"
            \/ Stop /\ caller = "request_text"
            \/ Continuous
            \/ Write /\ caller = "response_text"
            \/ Finish /\ caller = "response_text"
<1>1. ~Next_ /\ ~Return /\ ~Throw /\ ~Push /\ ~Yield /\ ~Enqueue /\ ~Buffering
  BY TextsUse DEF Next_, Return, Throw, Push, Yield, Enqueue, Buffering, Calls
<1>2. Body \/ Stop \/ Continuous \/ Write \/ Finish
  BY <1>1 DEF Next
<1>3. /\ Body => "body" \in Uses[caller] /\ caller' = caller
      /\ Stop => "stop" \in Uses[caller] /\ caller' = caller
      /\ Write => "write" \in Uses[caller] /\ caller' = caller
      /\ Finish => "finish" \in Uses[caller] /\ caller' = caller
      /\ Continuous => caller' = caller
  BY DEF Body, Stop, Continuous, Write, Finish, Calls
<1> QED BY <1>2, <1>3, TextsUse

\* Once it has ended nothing more happens.
LEMMA TextDoneStep ==
  ASSUME TextDone
  PROVE  ~Next
<1>1. caller \in Texts /\ ended
  BY DEF TextDone
<1>2. ~Sending /\ ~ChangingMode
  BY <1>1 DEF Sending, ChangingMode, Texts
<1> SUFFICES ASSUME Next PROVE FALSE
  OBVIOUS
<1>3. Body \/ Stop \/ Continuous \/ Write \/ Finish
  BY <1>1, TextActions
<1> QED BY <1>1, <1>2, <1>3 DEF Body, Stop, Continuous, Write, Finish

\* The function the first or another call of continuous() is given.
LEMMA ContinuousGives ==
  ASSUME Continuous, attached \in Nat
  PROVE  /\ sent' = sent /\ ended' = ended
         /\ \E f : /\ g' = generator_continuous(g, f) /\ attached' \in Nat
                   /\ \/ f = NoFunction /\ attached' = attached
                      \/ attached' # 0 /\ f = Continuation(attached')
                   /\ attached = 0 => Attached(f, attached')
<1>1. sent' = sent /\ ended' = ended
  BY DEF Continuous
<1>2. CASE /\ attached' = attached + 1
           /\ g' = generator_continuous(g, Continuation(attached + 1))
  BY <1>1, <1>2 DEF Attached
<1>3. CASE attached' = attached /\ g' = generator_continuous(g, NoFunction)
  BY <1>1, <1>3 DEF Attached
<1> QED BY <1>2, <1>3 DEF Continuous

\* A step before anything was sent.
LEMMA TextUnusedStep ==
  ASSUME TextUnused, BoundAssumption, Next
  PROVE  (TextOpen \/ TextDone \/ Reading)' /\ Grows(g, g')
<1>1. /\ caller \in Texts /\ sent = 0 /\ sent \in Nat /\ ended \in BOOLEAN /\ attached = 0
      /\ Unused(g, ended) /\ Unasked(g) /\ ~ended
  BY DEF TextUnused, Unused
<1>2. caller' = caller /\ caller' \in Texts
  BY <1>1, TextActions DEF Texts
<1>3. CASE Body
  <2>1. attached' = attached /\ ended' = ended /\ g.hasq = FALSE
    BY <1>1, <1>3 DEF Body, Unused
  <2>2. PICK n \in Chunks :
          /\ g' = generator_write(generator_continuous(g, NoFunction), Fresh(n), 0)
          /\ sent' = sent + n
    BY <1>3, <2>1 DEF Body
  <2>3. n \in Nat \ {0} /\ sent + n \in Nat /\ Fresh(n) = After(sent, n)
    BY <1>1, <2>2, Sends
  <2>9. PICK f, z : f = NoFunction /\ z = generator_continuous(g, f)
    OBVIOUS
  <2>10. PICK k, m, cb \in Nat : k = 0 /\ m = sent /\ cb = 0
    BY <1>1
  <2>4. f = NoFunction /\ z = generator_continuous(g, f) /\ k = 0 /\ m = sent /\ cb = 0
    BY <2>9, <2>10
  <2>5. Gathering(z, m, k)
    <3>1. Attached(f, k)
      BY <2>4 DEF Attached
    <3>2. Gathering(z, 0, k)
      BY <1>1, <2>4, <3>1, UnusedContinuous
    <3> QED BY <1>1, <2>4, <3>2
  <2>6. Gathering(generator_write(z, After(m, n), cb), m + n, k)
    BY <1>1, <2>3, <2>4, <2>5, GatheringWrite
  <2>7. Gathering(g', sent', attached')
    BY <1>1, <2>1, <2>2, <2>3, <2>4, <2>6
  <2>8. TextOpen'
    BY <1>1, <1>2, <2>1, <2>2, <2>3, <2>7 DEF TextOpen, Texts, Gathering
  <2> QED BY <1>1, <2>7, <2>8, UnaskedGrows DEF Gathering
<1>4. CASE Stop
  <2>1. /\ attached' = attached /\ ended' = TRUE /\ sent' = sent
        /\ g' = generator_stop(g, Undefined)
    BY <1>4 DEF Stop
  <2>2. Given(g', sent', attached')
    BY <1>1, <2>1, UnusedStop
  <2>3. TextDone'
    BY <1>1, <1>2, <2>1, <2>2 DEF TextDone, Texts, Given
  <2> QED BY <1>1, <2>2, <2>3, UnaskedGrows DEF Given
<1>5. CASE Continuous
  <2>1. /\ sent' = sent /\ ended' = ended
        /\ \E f : /\ g' = generator_continuous(g, f) /\ attached' \in Nat
                  /\ Attached(f, attached')
    BY <1>1, <1>5, ContinuousGives
  <2>2. PICK f : /\ g' = generator_continuous(g, f) /\ attached' \in Nat
                 /\ Attached(f, attached')
    BY <2>1
  <2>3. Gathering(g', sent', attached')
    <3>1. Gathering(g', 0, attached')
      BY <1>1, <2>2, UnusedContinuous
    <3> QED BY <1>1, <2>1, <3>1
  <2>4. TextOpen'
    BY <1>1, <1>2, <2>1, <2>2, <2>3 DEF TextOpen, Texts, Gathering
  <2> QED BY <1>1, <2>3, <2>4, UnaskedGrows DEF Gathering
<1>6. CASE Write /\ caller = "response_text"
  <2>1. attached' = attached /\ ended' = ended
    BY <1>6 DEF Write
  <2>2. PICK n \in Chunks, withCallback \in BOOLEAN :
          /\ g' = generator_write(g, Fresh(n), IF withCallback THEN sent + n ELSE 0)
          /\ sent' = sent + n
    BY <1>6 DEF Write
  <2>3. n \in Nat \ {0} /\ sent + n \in Nat /\ Fresh(n) = After(sent, n)
    BY <1>1, <2>2, Sends
  <2>4. sent + n = n
    BY <1>1, <2>3
  <2>5. PICK cb \in {0, n} : cb = IF withCallback THEN sent + n ELSE 0
    BY <2>4
  <2>6. Ready(g, <<>>, 0, 0, ended) /\ ~g.executor /\ g.buffering = FALSE
    BY <1>1 DEF Unused, Unasked
  <2>7. Goes(g, generator_write(g, After(0, n), cb), caller, n, ended)
    BY <1>6, <2>3, <2>6, FirstWriteGoes
  <2>8. Goes(g, g', caller, sent', ended')
    BY <1>1, <2>1, <2>2, <2>3, <2>4, <2>5, <2>7
  <2>9. sent' \in Nat /\ ended' \in BOOLEAN /\ caller \in Readers
    BY <1>1, <1>6, <2>1, <2>2, <2>3 DEF Readers
  <2> QED BY <1>1, <1>2, <2>1, <2>8, <2>9, ReadingOn
<1>7. CASE Finish
  <2>1. /\ attached' = attached /\ ended' = TRUE /\ sent' = sent
        /\ g' = generator_finish(g)
    BY <1>7 DEF Finish
  <2>2. Given(g', sent', attached')
    BY <1>1, <2>1, UnusedFinish
  <2>3. TextDone'
    BY <1>1, <1>2, <2>1, <2>2 DEF TextDone, Texts, Given
  <2> QED BY <1>1, <2>2, <2>3, UnaskedGrows DEF Given
<1> QED BY <1>1, <1>3, <1>4, <1>5, <1>6, <1>7, TextActions

\* A step while the text gathers.
LEMMA TextOpenStep ==
  ASSUME TextOpen, BoundAssumption, Next
  PROVE  (TextOpen \/ TextDone)' /\ Grows(g, g')
<1>1. /\ caller \in Texts /\ sent \in Nat /\ ended \in BOOLEAN /\ attached \in Nat /\ ~ended
      /\ Gathering(g, sent, attached) /\ Unasked(g)
  BY DEF TextOpen, Gathering
<1>2. caller' = caller /\ caller' \in Texts
  BY <1>1, TextActions DEF Texts
<1>3. ASSUME NEW n \in Chunks, NEW cb \in Nat,
             g' = generator_write(g, Fresh(n), cb), sent' = sent + n,
             attached' = attached, ended' = ended
      PROVE  TextOpen' /\ Grows(g, g')
  <2>1. n \in Nat \ {0} /\ sent + n \in Nat /\ Fresh(n) = After(sent, n)
    BY <1>1, <1>3, Sends
  <2>2. Gathering(generator_write(g, After(sent, n), cb), sent + n, attached)
    BY <1>1, <2>1, GatheringWrite
  <2>3. Gathering(g', sent', attached')
    BY <1>3, <2>1, <2>2
  <2>4. TextOpen'
    BY <1>1, <1>2, <1>3, <2>1, <2>3 DEF TextOpen, Texts, Gathering
  <2> QED BY <1>1, <2>3, <2>4, UnaskedGrows DEF Gathering
<1>4. CASE Body
  <2>1. attached' = attached /\ ended' = ended
    BY <1>4 DEF Body
  <2>2. g.hasq /\ g.q.continuous
    BY <1>1 DEF Gathering, One
  <2>3. PICK n \in Chunks : g' = generator_write(g, Fresh(n), 0) /\ sent' = sent + n
    BY <1>4, <2>2 DEF Body
  <2> QED BY <1>3, <2>1, <2>3
<1>5. CASE Write
  <2>1. attached' = attached /\ ended' = ended
    BY <1>5 DEF Write
  <2>2. PICK n \in Chunks, withCallback \in BOOLEAN :
          /\ g' = generator_write(g, Fresh(n), IF withCallback THEN sent + n ELSE 0)
          /\ sent' = sent + n
    BY <1>5 DEF Write
  <2>3. sent + n \in Nat
    BY <1>1, <2>2, Sends
  <2>4. PICK cb \in Nat : cb = IF withCallback THEN sent + n ELSE 0
    BY <2>3
  <2> QED BY <1>3, <2>1, <2>2, <2>4
<1>6. CASE Continuous
  <2>1. /\ sent' = sent /\ ended' = ended
        /\ \E f : /\ g' = generator_continuous(g, f) /\ attached' \in Nat
                  /\ \/ f = NoFunction /\ attached' = attached
                     \/ attached' # 0 /\ f = Continuation(attached')
    BY <1>1, <1>6, ContinuousGives
  <2>2. PICK f : /\ g' = generator_continuous(g, f) /\ attached' \in Nat
                 /\ \/ f = NoFunction /\ attached' = attached
                    \/ attached' # 0 /\ f = Continuation(attached')
    BY <2>1
  <2>3. PICK j : j = attached'
    OBVIOUS
  <2>4. Gathering(generator_continuous(g, f), sent, j)
    BY <1>1, <2>2, <2>3, GatheringContinuous
  <2>5. Gathering(g', sent', attached')
    BY <2>1, <2>2, <2>3, <2>4
  <2>6. TextOpen'
    BY <1>1, <1>2, <2>1, <2>2, <2>5 DEF TextOpen, Texts, Gathering
  <2> QED BY <1>1, <2>5, <2>6, UnaskedGrows DEF Gathering
<1>7. CASE Stop
  <2>1. /\ attached' = attached /\ ended' = TRUE /\ sent' = sent
        /\ g' = generator_stop(g, Undefined)
    BY <1>7 DEF Stop
  <2>2. Given(g', sent', attached')
    BY <1>1, <2>1, GatheringStop
  <2>3. TextDone'
    BY <1>1, <1>2, <2>1, <2>2 DEF TextDone, Texts, Given
  <2> QED BY <1>1, <2>2, <2>3, UnaskedGrows DEF Given
<1>8. CASE Finish
  <2>1. /\ attached' = attached /\ ended' = TRUE /\ sent' = sent
        /\ g' = generator_finish(g)
    BY <1>8 DEF Finish
  <2>2. Given(g', sent', attached')
    BY <1>1, <2>1, GatheringFinish
  <2>3. TextDone'
    BY <1>1, <1>2, <2>1, <2>2 DEF TextDone, Texts, Given
  <2> QED BY <1>1, <2>2, <2>3, UnaskedGrows DEF Given
<1> QED BY <1>1, <1>4, <1>5, <1>6, <1>7, <1>8, TextActions

-----------------------------------------------------------------------------
\* The invariant.

\* The callers that use a generator as it is meant: not one that awaits a push, which
\* nothing resolves, nor one that asks for the text of a body that has been queued.
Usual == Readers \cup Texts

IInv == Reading \/ TextUnused \/ TextOpen \/ TextDone

\* A generator is made.
Made(x, e) == x = [generator_zero EXCEPT !.executor = e]

\* A new generator is ready, and asks nothing.
LEMMA ZeroReady ==
  ASSUME NEW e \in BOOLEAN, NEW x, Made(x, e), NEW over, ~over
  PROVE  /\ Ready(x, <<>>, 0, 0, over) /\ x.executor = e /\ x.buffering = FALSE
         /\ x.hasq = FALSE /\ x.callback = NoFunction /\ x.notified = <<>>
<1>1. PICK F, T, none, iter, q, zero, nil, no :
        /\ F = FALSE /\ T = TRUE /\ none = NoFunction
        /\ iter = asynciterator_zero /\ q = queue_zero
        /\ zero = 0 /\ nil = <<>> /\ no = ""
  OBVIOUS
<1>2. x = [it |-> iter, hasq |-> F, q |-> q, buffering |-> F, chunk_size |-> zero,
           started |-> F, executor |-> e, callback |-> none, reject |-> zero, thened |-> T,
           pushes |-> nil, called |-> nil, notified |-> nil, aborted |-> no]
  BY <1>1 DEF Made, generator_zero
<1>3. iter = [reads |-> nil, closed |-> F, closing |-> F, issued |-> zero, settled |-> nil]
  BY <1>1 DEF asynciterator_zero
<1>4. q = [items |-> nil, continuous |-> F]
  BY <1>1 DEF queue_zero
<1>5. /\ Rec(x) /\ x.it = iter /\ x.hasq = F /\ x.q = q /\ x.buffering = F /\ x.chunk_size = 0
      /\ x.executor = e /\ x.callback = none /\ x.called = <<>> /\ x.notified = <<>>
      /\ x.aborted = ""
  <2>1. /\ Rec(x) /\ x.it = iter /\ x.hasq = F /\ x.q = q /\ x.buffering = F
        /\ x.chunk_size = zero
        /\ x.executor = e /\ x.callback = none /\ x.called = nil /\ x.notified = nil
        /\ x.aborted = no
    BY <1>2 DEF Rec
  <2> QED BY <1>1, <2>1
<1>6. none[1] # "continuous"
  BY <1>1 DEF NoFunction
<1>12. nil = <<>>
  BY <1>1
<1>13. F = FALSE
  BY <1>1
<1>14. zero = 0
  BY <1>1
<1>15. iter.reads = nil /\ iter.settled = nil /\ iter.issued = zero /\ iter.closed = F /\ iter.closing = F
       /\ q.items = nil /\ q.continuous = F
  BY <1>3, <1>4
<1>7. Shape(x)
  <2>1. q.items = <<>>
    BY <1>12, <1>15
  <2>2. x.hasq \in BOOLEAN /\ x.buffering \in BOOLEAN /\ x.executor \in BOOLEAN
    BY <1>5, <1>13
  <2>3. x.chunk_size \in Nat /\ (x.buffering <=> x.chunk_size # 0)
    <3>1. x.chunk_size = 0
      BY <1>5
    <3>2. ~x.buffering
      BY <1>5, <1>13
    <3> QED BY <3>1, <3>2
  <2>4. x.callback[1] # "continuous" /\ x.q.items = <<>>
    BY <1>5, <1>6, <2>1
  <2> QED BY <1>5, <2>2, <2>3, <2>4 DEF Shape
<1>8. Iter(iter, <<>>, 0, over, 0)
  <2>1. /\ iter.reads = <<>> /\ iter.settled = <<>> /\ iter.issued = 0
        /\ iter.closed = FALSE /\ iter.closing = FALSE
    BY <1>12, <1>13, <1>14, <1>15
  <2>2. IterType(iter)
    <3>1. iter = [reads |-> iter.reads, closed |-> iter.closed, closing |-> iter.closing,
                issued |-> iter.issued, settled |-> iter.settled]
      BY <1>3
    <3>2. iter.reads \in Seq(Nat)
      BY <2>1
    <3>3. iter.closed \in BOOLEAN /\ iter.closing \in BOOLEAN
      BY <2>1
    <3> QED BY <3>1, <3>2, <3>3 DEF IterType
  <2>3. Settles(iter.settled, <<>>, over, 0)
    BY <2>1 DEF Settles
  <2> QED BY <2>1, <2>2, <2>3 DEF Iter, Stopped
<1>9. Queue(q, 0, over)
  <2>1. q = [items |-> q.items, continuous |-> q.continuous]
    BY <1>4
  <2>2. q.items = <<>> /\ q.continuous = FALSE
    BY <1>12, <1>13, <1>15
  <2> QED BY <2>1, <2>2 DEF Queue, Filled
<1>10. Flow(Gives(iter.settled), queue_data(q), <<>>, 0, over)
  <2>1. q.items = <<>> /\ iter.settled = <<>>
    BY <1>12, <1>15
  <2>2. queue_data(q) = <<>>
    BY <2>1, NoneHolds
  <2>3. Gives(iter.settled) = <<>>
    <3>1. [i \in 1 .. Len(iter.settled) |-> Bytes(iter.settled[i].value)] \in Seq(Seq(Nat))
      BY <2>1
    <3>2. \A j \in 1 .. Len([i \in 1 .. Len(iter.settled) |-> Bytes(iter.settled[i].value)]) :
            [i \in 1 .. Len(iter.settled) |-> Bytes(iter.settled[i].value)][j] = <<>>
      BY <2>1
    <3> QED BY <3>1, <3>2, FlattenNone DEF Gives
  <2>4. PICK s : s = <<>>
    OBVIOUS
  <2>5. s \in Seq(Nat) /\ Len(s) = 0 /\ s \o s = s
    BY <2>4
  <2>6. s = [i \in 1 .. 0 |-> i]
    BY <2>4
  <2>7. Flow(s, s, s, 0, over)
    BY <2>5, <2>6 DEF Flow, Increasing
  <2> QED BY <2>2, <2>3, <2>4, <2>7
<1>11. Ready(x, <<>>, 0, 0, over)
  BY <1>5, <1>7, <1>8, <1>9, <1>10 DEF Ready
<1> QED BY <1>1, <1>5, <1>11

\* The first state.
LEMMA Initially ==
  ASSUME Init, Callers \subseteq Usual
  PROVE  IInv
<1>1. /\ caller \in Usual /\ sent = 0 /\ ended = FALSE /\ attached = 0
      /\ g = [generator_zero EXCEPT !.executor = HasExecutor]
  BY DEF Init
<1> DEFINE e == HasExecutor
<1>2. e \in BOOLEAN
  BY DEF HasExecutor
<1>3. PICK over : over = ended
  OBVIOUS
<1>4. ~over
  BY <1>1, <1>3
<1>5. /\ Ready(g, <<>>, 0, 0, over) /\ g.executor = e /\ g.buffering = FALSE
      /\ g.hasq = FALSE /\ g.callback = NoFunction /\ g.notified = <<>>
  <2>1. Made(g, e)
    BY <1>1 DEF Made
  <2> HIDE DEF e
  <2> QED BY <1>2, <1>4, <2>1, ZeroReady
<1>6. g.it.reads = <<>> /\ g.it.settled = <<>> /\ g.it.issued = 0
  BY <1>5, NotAsked DEF Ready
<1>7. CASE caller \in Texts
  <2>1. g.executor = FALSE
    <3>1. ~g.executor
      BY <1>5, <1>7 DEF HasExecutor, Texts
    <3> QED BY <1>5, <3>1 DEF Ready, Shape
  <2>2. Unasked(g)
    BY <1>5, <1>6, <2>1 DEF Unasked, Ready, Shape, Iter
  <2>3. Unused(g, over)
    BY <1>4, <1>5, <2>2 DEF Unused
  <2> QED BY <1>1, <1>3, <1>7, <2>3 DEF IInv, TextUnused
<1>8. CASE caller \notin Texts
  <2>1. caller \in Readers /\ caller # "response_text"
    BY <1>1, <1>8 DEF Usual, Texts
  <2>2. Fit(g, caller)
    <3>1. g.executor => caller = "repeater"
      BY <1>5, <2>1 DEF HasExecutor, Readers
    <3>2. ~UpdateReader(g)
      BY <1>6 DEF UpdateReader, asynciterator_pending
    <3> QED BY <1>5, <2>1, <3>1, <3>2 DEF Fit
  <2>3. Reads(g, caller, 0, over)
    BY <1>5, <1>6, <2>1, <2>2 DEF Reads
  <2> QED BY <1>1, <1>3, <2>1, <2>3 DEF IInv, Reading
<1> QED BY <1>7, <1>8

\* Every step.
LEMMA Stepping ==
  ASSUME IInv, BoundAssumption, Next
  PROVE  IInv' /\ Grows(g, g')
<1>1. CASE Reading
  BY <1>1, ReadingStep DEF IInv
<1>2. CASE TextUnused
  BY <1>2, TextUnusedStep DEF IInv
<1>3. CASE TextOpen
  BY <1>3, TextOpenStep DEF IInv
<1>4. CASE TextDone
  BY <1>4, TextDoneStep
<1> QED BY <1>1, <1>2, <1>3, <1>4 DEF IInv

\* Nothing happens.
LEMMA Stuttering ==
  ASSUME IInv, UNCHANGED vars
  PROVE  IInv'
<1>1. caller' = caller /\ g' = g /\ sent' = sent /\ ended' = ended /\ attached' = attached
  BY DEF vars
<1>2. CASE Reading
  <2>1. Reading'
    BY <1>1, <1>2, ZenonT(60) DEF Reading, Readers, Reads, Ready, Fit, Shape, Rec, Iter, IterType, Queue,
                      Filled, Flow
  <2> QED BY <2>1 DEF IInv
<1>3. CASE TextUnused
  BY <1>1, <1>3 DEF IInv, TextUnused, Texts
<1>4. CASE TextOpen
  BY <1>1, <1>4 DEF IInv, TextOpen, Texts
<1>5. CASE TextDone
  BY <1>1, <1>5 DEF IInv, TextDone, Texts
<1> QED BY <1>2, <1>3, <1>4, <1>5 DEF IInv

\* What holds of a generator whose bytes are in their place.
LEMMA InPlace ==
  ASSUME NEW was, NEW p, Ready(g, was, p, sent, ended)
  PROVE  /\ NothingLost /\ DeliveredInOrder
         /\ ended => ~asynciterator_pending(g.it)
         /\ g.called = <<>> /\ g.aborted = ""
<1>1. /\ Flow(Gives(g.it.settled), queue_data(g.q), g.notified, sent, ended)
      /\ Iter(g.it, was, p, ended, g.chunk_size)
      /\ g.called = <<>> /\ g.aborted = ""
  BY DEF Ready, Shape
<1>2. Delivered = Gives(g.it.settled)
  BY DEF Delivered, Gives
<1>3. NothingLost
  BY <1>1, <1>2 DEF NothingLost, Flow, AllSent
<1>4. DeliveredInOrder
  <2>1. Increasing(Delivered \o queue_data(g.q))
    BY <1>1, <1>2 DEF Flow
  <2>2. PICK notified, data : notified = g.notified /\ data = queue_data(g.q)
    OBVIOUS
  <2>3. /\ notified \in Seq(Nat) /\ data \in Seq(Nat)
        /\ \A k \in 1 .. Len(notified) : \A i \in 1 .. Len(data) : data[i] # notified[k]
    BY <1>1, <2>2 DEF Flow
  <2>4. ASSUME NEW k \in ToSet(notified), k \in ToSet(data) PROVE FALSE
    <3>1. PICK j \in 1 .. Len(notified) : k = notified[j]
      BY <2>3 DEF ToSet
    <3>2. PICK i \in 1 .. Len(data) : k = data[i]
      BY <2>3, <2>4 DEF ToSet
    <3> QED BY <2>3, <3>1, <3>2
  <2> QED BY <2>1, <2>2, <2>4 DEF DeliveredInOrder
<1>5. ended => ~asynciterator_pending(g.it)
  BY <1>1 DEF Iter, asynciterator_pending
<1> QED BY <1>1, <1>3, <1>4, <1>5

\* Nothing is delivered to nobody.
LEMMA NoneDelivered ==
  ASSUME Unasked(g)
  PROVE  /\ Delivered = <<>>
         /\ \A d \in Seq(Nat) : Delivered \o d = d
         /\ ~UpdateReader(g) /\ ~asynciterator_pending(g.it) /\ ~g.buffering
<1>1. g.it.settled = <<>> /\ g.it.reads = <<>> /\ g.buffering = FALSE
  BY DEF Unasked
<1>2. Delivered = <<>>
  <2>1. [i \in 1 .. Len(g.it.settled) |-> Bytes(g.it.settled[i].value)] \in Seq(Seq(Nat))
    BY <1>1
  <2>2. \A j \in 1 .. Len([i \in 1 .. Len(g.it.settled) |-> Bytes(g.it.settled[i].value)]) :
          [i \in 1 .. Len(g.it.settled) |-> Bytes(g.it.settled[i].value)][j] = <<>>
    BY <1>1
  <2> QED BY <2>1, <2>2, FlattenNone DEF Delivered
<1>3. \A d \in Seq(Nat) : <<>> \o d = d
  OBVIOUS
<1> QED BY <1>1, <1>2, <1>3 DEF UpdateReader, asynciterator_pending

\* All bytes, sent before the end.
LEMMA AllSentIs ==
  ASSUME sent \in Nat
  PROVE  /\ AllSent = After(0, sent) /\ AllSent \in Seq(Nat) /\ Increasing(AllSent)
         /\ Bytes(BlockValue(AllSent)) = AllSent
<1>1. PICK b : b = AllSent
  OBVIOUS
<1>2. b = After(0, sent) /\ b \in Seq(Nat)
  BY <1>1, AfterZero DEF AllSent
<1>3. Increasing(b)
  BY <1>1 DEF AllSent, Increasing
<1>4. b # Undefined
  BY <1>2, UndefinedAssumption
<1>5. Bytes(BlockValue(b)) = b
  BY <1>4 DEF Bytes, BlockValue
<1> QED BY <1>1, <1>2, <1>3, <1>5

\* Of a text that gathers nothing is lost.
LEMMA OpenHolds ==
  ASSUME TextOpen
  PROVE  NothingLost /\ DeliveredInOrder
<1>1. sent \in Nat /\ Gathering(g, sent, attached) /\ Unasked(g) /\ g.notified = <<>>
  BY DEF TextOpen, Gathering
<1>2. queue_data(g.q) = AllSent
  BY <1>1, AllSentIs, OneHolds DEF Gathering
<1>3. Delivered \o queue_data(g.q) = AllSent
  BY <1>1, <1>2, NoneDelivered, AllSentIs
<1>4. ToSet(g.notified) = {}
  BY <1>1 DEF ToSet
<1> QED BY <1>1, <1>3, <1>4, AllSentIs DEF NothingLost, DeliveredInOrder

\* Nor is it afterwards out of order.
LEMMA DoneHolds ==
  ASSUME TextDone
  PROVE  NothingLost /\ DeliveredInOrder
<1>1. sent \in Nat /\ Given(g, sent, attached) /\ Unasked(g) /\ ended
  BY DEF TextDone, Given
<1>2. CASE g.notified = <<>> /\ queue_data(g.q) = AllSent
  <2>1. Delivered \o queue_data(g.q) = AllSent
    BY <1>1, <1>2, NoneDelivered, AllSentIs
  <2>2. ToSet(g.notified) = {}
    BY <1>2 DEF ToSet
  <2> QED BY <1>1, <2>1, <2>2, AllSentIs DEF NothingLost, DeliveredInOrder
<1>3. CASE queue_data(g.q) = <<>>
  <2>1. PICK s : s = <<>>
    OBVIOUS
  <2>2. s \in Seq(Nat) /\ Increasing(s) /\ ToSet(s) = {}
    BY <2>1 DEF Increasing, ToSet
  <2>3. Delivered \o queue_data(g.q) = s
    BY <1>1, <1>3, <2>1, <2>2, NoneDelivered
  <2> QED BY <1>1, <1>3, <2>1, <2>2, <2>3 DEF NothingLost, DeliveredInOrder
<1> QED BY <1>1, <1>2, <1>3, AllSentIs DEF Given

\* Who reads or wrote is served.
LEMMA Serves ==
  ASSUME IInv
  PROVE  ReaderServed
<1>1. CASE Reading
  <2>1. Reads(g, caller, sent, ended) /\ Fit(g, caller)
    BY <1>1 DEF Reading, Reads
  <2>2. PICK was, p : was = g.it.settled /\ p = g.it.issued
    OBVIOUS
  <2>3. Ready(g, was, p, sent, ended)
    BY <2>1, <2>2 DEF Reads
  <2>4. (ended => ~asynciterator_pending(g.it)) /\ g.aborted = ""
    BY <2>3, InPlace
  <2>5. g.buffering => \A i \in 1 .. Len(g.it.settled) :
          g.it.settled[i].kind = "value" => Len(Bytes(g.it.settled[i].value)) = ChunkSize
    <3>1. g.buffering => g.chunk_size = ChunkSize /\ g.chunk_size # 0
      BY <2>1, <2>3 DEF Fit, Ready, Shape
    <3>2. Settles(g.it.settled, was, ended, g.chunk_size)
      BY <2>3 DEF Ready, Iter
    <3> QED BY <3>1, <3>2 DEF Settles
  <2>6. caller # "enqueuer" => ~UpdateReader(g)
    BY <2>1 DEF Fit
  <2> QED BY <2>4, <2>5, <2>6 DEF ReaderServed
<1>2. CASE TextUnused \/ TextOpen \/ TextDone
  <2>1. Unasked(g) /\ g.aborted \in {"", "generator_finish"}
    BY <1>2 DEF TextUnused, TextOpen, TextDone, Unused, Gathering, Given, Ready, Shape
  <2> QED BY <2>1, NoneDelivered DEF ReaderServed
<1> QED BY <1>1, <1>2 DEF IInv

\* A generator without a callback.
LEMMA NotCalled ==
  ASSUME g.called = <<>>, ~(ended /\ attached > 0)
  PROVE  CallbackGetsAll
  BY DEF CallbackGetsAll

\* The callback of a text that has ended.
LEMMA CalledLast ==
  ASSUME TextDone
  PROVE  CallbackGetsAll
<1>1. sent \in Nat /\ attached \in Nat /\ Given(g, sent, attached) /\ Unasked(g)
  BY DEF TextDone, Given
<1>2. CASE attached = 0 /\ g.called = <<>>
  BY <1>2, NotCalled
<1>3. CASE /\ attached # 0 /\ queue_data(g.q) = <<>>
           /\ g.called = <<[callback |-> attached, value |-> BlockValue(AllSent)]>>
  <2>1. PICK one : one = [callback |-> attached, value |-> BlockValue(AllSent)]
    OBVIOUS
  <2>2. one.callback = attached /\ Bytes(one.value) = AllSent
    BY <1>1, <2>1, AllSentIs
  <2>3. PICK c : c = g.called
    OBVIOUS
  <2>4. Len(c) = 1 /\ c[1] = one
    BY <1>3, <2>1, <2>3
  <2>5. \E i \in 1 .. Len(c) :
          /\ c[i].callback = attached
          /\ Bytes(c[i].value) = AllSent
          /\ \A j \in 1 .. Len(c) : c[j].callback = attached => j = i
    <3>1. 1 \in 1 .. Len(c) /\ \A j \in 1 .. Len(c) : j = 1
      BY <2>4
    <3> QED BY <2>2, <2>4, <3>1
  <2>6. ToSet(Delivered \o queue_data(g.q)) = {}
    <3>1. PICK s : s = <<>>
      OBVIOUS
    <3>2. s \in Seq(Nat) /\ ToSet(s) = {}
      BY <3>1 DEF ToSet
    <3>3. Delivered \o queue_data(g.q) = s
      BY <1>1, <1>3, <3>1, <3>2, NoneDelivered
    <3> QED BY <3>2, <3>3
  <2> DEFINE given == [i \in 1 .. Len(g.called) |-> ToSet(Bytes(g.called[i].value))]
  <2>7. Len(given) = 1
    BY <2>3, <2>4
  <2> HIDE DEF given
  <2>8. \A i, j \in 1 .. Len(given) : i = j
    BY <2>7
  <2>9. /\ \A i, j \in 1 .. Len(given) : i # j => given[i] \cap given[j] = {}
        /\ \A i \in 1 .. Len(given) :
             given[i] \cap ToSet(Delivered \o queue_data(g.q)) = {}
    BY <2>6, <2>8
  <2> QED BY <2>3, <2>5, <2>9 DEF CallbackGetsAll, given
<1> QED BY <1>1, <1>2, <1>3, AllSentIs DEF Given

-----------------------------------------------------------------------------
\* The theorems.

\* The invariant holds of any generator of the usual callers.
LEMMA Invariant ==
  ASSUME Callers \subseteq Usual
  PROVE  Spec => []IInv
<1>1. Init => IInv
  BY Initially
<1>2. IInv /\ [Next]_vars => IInv'
  BY Stepping, Stuttering, BoundAssumption
<1> QED BY <1>1, <1>2, PTL DEF Spec

\* What is sent is delivered or in the queue, once and in its order, until the end:
\* whatever the sizes of the chunks, the modes, and the order of the calls.
THEOREM NothingIsLost ==
  ASSUME Callers \subseteq Usual
  PROVE  Spec => []NothingLost
<1>1. IInv => NothingLost
  <2>1. Reading => NothingLost
    BY InPlace DEF Reading, Reads
  <2>2. TextUnused => NothingLost
    BY InPlace DEF TextUnused, Unused
  <2> QED BY <2>1, <2>2, OpenHolds, DoneHolds DEF IInv
<1> QED BY <1>1, Invariant, PTL

\* The order of sending is that of what is delivered, also after the end, and the
\* callback of a write is called after its bytes have left the queue.
THEOREM InOrder ==
  ASSUME Callers \subseteq Usual
  PROVE  Spec => []DeliveredInOrder
<1>1. IInv => DeliveredInOrder
  <2>1. Reading => DeliveredInOrder
    BY InPlace DEF Reading, Reads
  <2>2. TextUnused => DeliveredInOrder
    BY InPlace DEF TextUnused, Unused
  <2> QED BY <2>1, <2>2, OpenHolds, DoneHolds DEF IInv
<1> QED BY <1>1, Invariant, PTL

\* No reader waits for what is there, nor after the end; while buffering each gets the
\* size it asked for.
THEOREM ReadersAreServed ==
  ASSUME Callers \subseteq Usual
  PROVE  Spec => []ReaderServed
  BY Invariant, Serves, PTL

\* The last callback given to continuous() gets all that was sent, once.
THEOREM CallbackIsGivenAll ==
  ASSUME Callers \subseteq Usual
  PROVE  Spec => []CallbackGetsAll
<1>1. IInv => CallbackGetsAll
  <2>1. Reading => CallbackGetsAll
    <3> SUFFICES ASSUME Reading PROVE CallbackGetsAll
      OBVIOUS
    <3>1. g.called = <<>> /\ attached = 0
      BY InPlace DEF Reading, Reads
    <3> QED BY <3>1, NotCalled
  <2>2. TextUnused => CallbackGetsAll
    <3> SUFFICES ASSUME TextUnused PROVE CallbackGetsAll
      OBVIOUS
    <3>1. g.called = <<>> /\ attached = 0
      BY DEF TextUnused, Unused, Ready, Shape
    <3> QED BY <3>1, NotCalled
  <2>3. TextOpen => CallbackGetsAll
    BY NotCalled DEF TextOpen, Gathering
  <2> QED BY <2>1, <2>2, <2>3, CalledLast DEF IInv
<1> QED BY <1>1, Invariant, PTL

\* What the invariant says of the results.
Sound(iter) ==
  /\ iter.settled \in Seq(Results) /\ iter.issued \in Nat /\ Len(iter.settled) =< iter.issued
  /\ \A i, j \in 1 .. Len(iter.settled) :
       i < j /\ iter.settled[i].kind # "value" => iter.settled[j].kind # "value"

\* The results of an iterator are sound.
LEMMA IsSound ==
  ASSUME NEW iter, NEW was, NEW p \in Nat, NEW over, NEW size, Iter(iter, was, p, over, size)
  PROVE  Sound(iter)
<1>1. /\ iter.settled \in Seq(Results) /\ iter.reads \in Seq(Nat) /\ iter.issued = p
      /\ Len(iter.settled) + Len(iter.reads) = p
  BY DEF Iter, IterType, Settles
<1>2. \A m, n \in Nat : m =< m + n
  OBVIOUS
<1>3. Len(iter.settled) \in Nat /\ Len(iter.reads) \in Nat
  BY <1>1
<1>4. Len(iter.settled) =< iter.issued
  BY <1>1, <1>2, <1>3
<1> QED BY <1>1, <1>4 DEF Iter, Settles, Sound

\* So are those of the generator.
LEMMA ResultsSound ==
  ASSUME IInv
  PROVE  Sound(g.it)
<1>1. CASE Reading
  <2>1. Reads(g, caller, sent, ended)
    BY <1>1 DEF Reading
  <2>2. PICK was, p : was = g.it.settled /\ p = g.it.issued
    OBVIOUS
  <2>3. p \in Nat /\ Iter(g.it, was, p, ended, g.chunk_size)
    BY <2>1, <2>2 DEF Reads, Ready
  <2> QED BY <2>3, IsSound
<1>2. CASE TextUnused \/ TextOpen \/ TextDone
  <2>1. g.it.settled = <<>> /\ g.it.issued = 0
    BY <1>2 DEF TextUnused, TextOpen, TextDone, Unused, Gathering, Given, Unasked
  <2> QED BY <2>1 DEF Sound
<1> QED BY <1>1, <1>2 DEF IInv

\* The kinds of results.
LEMMA KindsOf ==
  ASSUME NEW s \in Seq(Results)
  PROVE  LET kinds == [i \in 1 .. Len(s) |-> s[i].kind]
         IN  /\ kinds \in Seq(Stream!Outcome)
             /\ Len(kinds) = Len(s)
             /\ \A i \in 1 .. Len(s) : kinds[i] = s[i].kind
<1>1. \A i \in 1 .. Len(s) : s[i] \in Results
  OBVIOUS
<1>2. \A i \in 1 .. Len(s) : s[i].kind \in Stream!Outcome
  BY <1>1 DEF Results, Stream!Outcome
<1> QED BY <1>2

\* A generator implements AsyncStream for those that read it.
THEOREM ImplementsStream ==
  ASSUME Callers \subseteq Usual
  PROVE  Spec => StreamSpec
<1>1. Init => Stream!StreamInit
  <2> SUFFICES ASSUME Init PROVE Stream!StreamInit
    OBVIOUS
  <2>1. g.it = asynciterator_zero
    BY DEF Init, generator_zero
  <2>2. g.it.settled = <<>> /\ g.it.issued = 0
    BY <2>1 DEF asynciterator_zero
  <2> QED BY <2>2 DEF Stream!StreamInit
<1>3. IInv => Sound(g.it)
  BY ResultsSound
<1>2. IInv /\ Sound(g.it) /\ Sound(g.it)' /\ [Next]_vars
        => [Stream!StreamNext]_(Stream!streamVars)
  <2> SUFFICES ASSUME IInv, Sound(g.it), Sound(g.it)', [Next]_vars
               PROVE [Stream!StreamNext]_(Stream!streamVars)
    OBVIOUS
  <2>1. CASE UNCHANGED vars
    BY <2>1 DEF vars, Stream!streamVars
  <2>2. CASE Next
    <3>1. Grows(g, g')
      BY <2>2, Stepping, BoundAssumption
    <3>2. Sound(g.it) /\ Sound(g'.it)
      BY DEF Sound
    <3>3. PICK s, t, p, q : /\ s = g.it.settled /\ t = g'.it.settled
                            /\ p = g.it.issued /\ q = g'.it.issued
      OBVIOUS
    <3>4. /\ s \in Seq(Results) /\ t \in Seq(Results) /\ Len(s) =< Len(t) /\ Len(t) =< q
          /\ \A i \in 1 .. Len(s) : t[i] = s[i]
          /\ \A i, j \in 1 .. Len(t) : i < j /\ t[i].kind # "value" => t[j].kind # "value"
          /\ q \in {p, p + 1}
      BY <3>1, <3>2, <3>3 DEF Grows, Sound
    <3> DEFINE old == [i \in 1 .. Len(s) |-> s[i].kind]
               new == [i \in 1 .. Len(t) |-> t[i].kind]
    <3>5. Len(old) = Len(s) /\ \A i \in 1 .. Len(s) : old[i] = s[i].kind
      BY <3>4, KindsOf
    <3>6. /\ new \in Seq(Stream!Outcome) /\ Len(new) = Len(t)
          /\ \A i \in 1 .. Len(t) : new[i] = t[i].kind
      BY <3>4, KindsOf
    <3> HIDE DEF old, new
    <3>7. Stream!Extends(old, new)
      <4>1. \A i \in 1 .. Len(s) : i \in 1 .. Len(t)
        BY <3>4
      <4> QED BY <3>4, <3>5, <3>6, <4>1 DEF Stream!Extends
    <3>8. Stream!EndIsFinal(new)
      BY <3>4, <3>6 DEF Stream!EndIsFinal
    <3>9. Len(new) =< q
      BY <3>4, <3>6
    <3> QED BY <3>3, <3>4, <3>6, <3>7, <3>8, <3>9 DEF Stream!StreamNext, old, new
  <2> QED BY <2>1, <2>2
<1> QED BY <1>1, <1>2, <1>3, Invariant, PTL DEF Spec, StreamSpec, Stream!StreamSpec

-----------------------------------------------------------------------------
(* The iterator alone: theorems about AsyncIterator, for any set of values *)
(* and any bound.  Its invariants are inductive together (IteratorInv).    *)

\* A settlement is one whatever it settles a promise with.
LEMMA SettlementType ==
  ASSUME NEW p \in Nat, NEW v \in Values \cup {Undefined}, NEW d \in BOOLEAN
  PROVE  /\ Resolved(p, v, d) \in Settlement
         /\ Rejected(p) \in Settlement
BY DEF Resolved, Rejected, Settlement

\* Settlements that continue the ones before them, and respect an end among
\* them (end says whether there was one), do so together.
LEMMA ConcatSettled ==
  ASSUME NEW old \in Seq(Settlement), NEW new \in Seq(Settlement), NEW end \in BOOLEAN,
         \A i \in 1 .. Len(old) : old[i].promise = i,
         \A i \in 1 .. Len(old) : old[i].kind # "value" => end,
         \A i, j \in 1 .. Len(old) : i < j /\ old[i].kind # "value" => old[j].kind # "value",
         \A i \in 1 .. Len(new) : new[i].promise = Len(old) + i,
         \A i \in 1 .. Len(new) : end => new[i].kind # "value",
         \A i, j \in 1 .. Len(new) : i < j /\ new[i].kind # "value" => new[j].kind # "value"
  PROVE  LET all == old \o new
         IN  /\ all \in Seq(Settlement)
             /\ Len(all) = Len(old) + Len(new)
             /\ \A i \in 1 .. Len(all) : all[i].promise = i
             /\ \A i \in 1 .. Len(all) :
                  all[i].kind # "value" => \/ end
                                           \/ \E k \in 1 .. Len(new) : new[k].kind # "value"
             /\ \A i, j \in 1 .. Len(all) :
                  i < j /\ all[i].kind # "value" => all[j].kind # "value"
<1> DEFINE all == old \o new
<1>1. /\ all \in Seq(Settlement)
      /\ Len(all) = Len(old) + Len(new)
      /\ Len(old) \in Nat /\ Len(new) \in Nat
      /\ \A i \in 1 .. Len(old) : all[i] = old[i]
      /\ \A i \in Len(old) + 1 .. Len(all) : all[i] = new[i - Len(old)]
  BY ConcatProperties
<1> HIDE DEF all
<1>2. ASSUME NEW i \in 1 .. Len(all)
      PROVE  \/ i \in 1 .. Len(old) /\ all[i] = old[i]
             \/ /\ i \in Len(old) + 1 .. Len(all) /\ all[i] = new[i - Len(old)]
                /\ i - Len(old) \in 1 .. Len(new)
  BY <1>1
<1>3. ASSUME NEW i \in 1 .. Len(all)
      PROVE  all[i].promise = i
  <2>1. CASE i \in 1 .. Len(old) /\ all[i] = old[i]
    BY <2>1
  <2>2. CASE i - Len(old) \in 1 .. Len(new) /\ all[i] = new[i - Len(old)]
    <3> DEFINE k == i - Len(old)
    <3>1. new[k].promise = Len(old) + k
      BY <2>2
    <3> QED BY <1>1, <2>2, <3>1
  <2> QED BY <1>2, <2>1, <2>2
<1>4. ASSUME NEW i \in 1 .. Len(all), all[i].kind # "value"
      PROVE  end \/ \E k \in 1 .. Len(new) : new[k].kind # "value"
  <2>1. CASE i \in 1 .. Len(old) /\ all[i] = old[i]
    BY <1>4, <2>1
  <2>2. CASE i - Len(old) \in 1 .. Len(new) /\ all[i] = new[i - Len(old)]
    <3> DEFINE k == i - Len(old)
    <3>1. k \in 1 .. Len(new) /\ new[k].kind # "value"
      BY <1>4, <2>2
    <3> QED BY <3>1
  <2> QED BY <1>2, <2>1, <2>2
<1>5. ASSUME NEW i \in 1 .. Len(all), NEW j \in 1 .. Len(all), i < j, all[i].kind # "value"
      PROVE  all[j].kind # "value"
  <2>1. CASE j \in 1 .. Len(old)
    <3>1. i \in 1 .. Len(old) /\ all[i] = old[i] /\ all[j] = old[j]
      BY <1>1, <1>5, <2>1
    <3> QED BY <1>5, <2>1, <3>1
  <2>2. CASE j \in Len(old) + 1 .. Len(all) /\ i \in 1 .. Len(old)
    <3>1. all[i] = old[i] /\ all[j] = new[j - Len(old)] /\ j - Len(old) \in 1 .. Len(new)
      BY <1>1, <2>2
    <3> QED BY <1>5, <2>2, <3>1
  <2>3. CASE j \in Len(old) + 1 .. Len(all) /\ i \in Len(old) + 1 .. Len(all)
    <3> DEFINE a == i - Len(old)
               b == j - Len(old)
    <3>1. /\ a \in 1 .. Len(new) /\ all[i] = new[a]
          /\ b \in 1 .. Len(new) /\ all[j] = new[b]
          /\ a < b
      BY <1>1, <1>5, <2>3
    <3> HIDE DEF a, b
    <3> QED BY <1>5, <3>1
  <2> QED BY <1>2, <2>1, <2>2, <2>3
<1> QED BY <1>1, <1>3, <1>4, <1>5 DEF all

\* Every operation settles some promises, new, and leaves some reads.  The
\* invariant is preserved when new continues the promises settled so far, the
\* reads continue new, and an end among them goes with a flag and no reads.
LEMMA SettlePreserves ==
  ASSUME IteratorInv, IteratorTypeOK', NEW new \in Seq(Settlement),
         it'.settled = it.settled \o new,
         Len(it.settled) + Len(new) + Len(it'.reads) = it'.issued,
         \A i \in 1 .. Len(new) : new[i].promise = Len(it.settled) + i,
         \A i \in 1 .. Len(it'.reads) : it'.reads[i] = Len(it.settled) + Len(new) + i,
         Stopped(it') => it'.reads = <<>>,
         Stopped(it) => Stopped(it'),
         \A i \in 1 .. Len(new) : new[i].kind # "value" => Stopped(it'),
         \A i \in 1 .. Len(new) : Stopped(it) => new[i].kind # "value",
         \A i, j \in 1 .. Len(new) : i < j /\ new[i].kind # "value" => new[j].kind # "value"
  PROVE  IteratorInv'
<1> DEFINE all == it.settled \o new
<1>1. /\ it.settled \in Seq(Settlement) /\ Stopped(it) \in BOOLEAN
      /\ \A i \in 1 .. Len(it.settled) : it.settled[i].promise = i
      /\ \A i \in 1 .. Len(it.settled) : it.settled[i].kind # "value" => Stopped(it)
      /\ \A i, j \in 1 .. Len(it.settled) :
           i < j /\ it.settled[i].kind # "value" => it.settled[j].kind # "value"
  BY DEF IteratorInv, IteratorTypeOK, PromisesInOrder, EndMeansStopped, NoValueAfterEnd, Stopped
<1>2. /\ all \in Seq(Settlement)
      /\ Len(all) = Len(it.settled) + Len(new)
      /\ \A i \in 1 .. Len(all) : all[i].promise = i
      /\ \A i \in 1 .. Len(all) :
           all[i].kind # "value" => \/ Stopped(it)
                                    \/ \E k \in 1 .. Len(new) : new[k].kind # "value"
      /\ \A i, j \in 1 .. Len(all) : i < j /\ all[i].kind # "value" => all[j].kind # "value"
  BY <1>1, ConcatSettled, ZenonT(60)
<1>3. it'.settled = all
  OBVIOUS
<1> HIDE DEF all
<1>4. PromisesInOrder'
  BY <1>2, <1>3 DEF PromisesInOrder
<1>5. StoppedLeavesNoReader'
  BY DEF StoppedLeavesNoReader
<1>6. EndMeansStopped'
  BY <1>2, <1>3 DEF EndMeansStopped
<1>7. NoValueAfterEnd'
  BY <1>2, <1>3 DEF NoValueAfterEnd
<1> QED BY <1>4, <1>5, <1>6, <1>7 DEF IteratorInv

\* What IInv says of the fields, for the lemmas below.
LEMMA IteratorFields ==
  ASSUME IteratorInv
  PROVE  /\ it.reads \in Seq(Nat) /\ it.settled \in Seq(Settlement) /\ it.issued \in Nat
         /\ it.closed \in BOOLEAN /\ it.closing \in BOOLEAN
         /\ it = [reads |-> it.reads, closed |-> it.closed, closing |-> it.closing,
                  issued |-> it.issued, settled |-> it.settled]
         /\ Len(it.settled) + Len(it.reads) = it.issued
         /\ \A i \in 1 .. Len(it.reads) : it.reads[i] = Len(it.settled) + i
         /\ it.closed \/ it.closing => it.reads = <<>>
BY DEF IteratorInv, IteratorTypeOK, PromisesInOrder, StoppedLeavesNoReader, Stopped

\* next() answers at once when the iterator is stopped, and then no read is
\* waiting that it could overtake; otherwise it waits behind the others.
LEMMA NextPreserves ==
  ASSUME IteratorInv, it' = asynciterator_next(it)
  PROVE  IteratorInv'
<1> DEFINE p == it.issued + 1
<1>1. p \in Nat
  BY IteratorFields
<1>2. CASE Stopped(it)
  <2> DEFINE e == Resolved(p, Undefined, TRUE)
             new == <<e>>
  <2>1. it' = [reads |-> <<>>, closed |-> TRUE, closing |-> TRUE, issued |-> p,
               settled |-> Append(it.settled, e)]
    BY <1>2, IteratorFields DEF asynciterator_next, Stopped
  <2>2. e \in Settlement
    BY <1>1, SettlementType
  <2>3. e.promise = p /\ e.kind = "done"
    BY DEF Resolved
  <2> HIDE DEF e
  <2>4. Append(it.settled, e) = it.settled \o new
    BY <2>2, AppendIsConcat, IteratorFields
  <2>5. new \in Seq(Settlement) /\ Len(new) = 1 /\ new[1] = e
    BY <2>2
  <2>6. Len(it.settled) = it.issued
    BY <1>2, IteratorFields DEF Stopped
  <2>7. IteratorTypeOK'
    BY <1>1, <2>1, <2>2, IteratorFields DEF IteratorTypeOK
  <2> HIDE DEF new
  <2>8. /\ it'.settled = it.settled \o new /\ it'.reads = <<>> /\ Stopped(it')
        /\ Len(it.settled) + Len(new) + Len(it'.reads) = it'.issued
    BY <2>1, <2>4, <2>5, <2>6, IteratorFields, SMTT(60) DEF Stopped
  <2>9. \A i \in 1 .. Len(new) : new[i].promise = Len(it.settled) + i /\ new[i].kind # "value"
    BY <2>3, <2>5, <2>6, IteratorFields
  <2>10. \A i \in 1 .. Len(it'.reads) : it'.reads[i] = Len(it.settled) + Len(new) + i
    BY <2>8
  <2> QED BY <2>5, <2>7, <2>8, <2>9, <2>10, SettlePreserves
<1>3. CASE ~Stopped(it)
  <2> DEFINE rd == Append(it.reads, p)
             new == <<>>
  <2>1. it' = [it EXCEPT !.issued = p, !.reads = rd]
    BY <1>3 DEF asynciterator_next
  <2>2. /\ it'.reads = rd /\ it'.issued = p /\ it'.settled = it.settled
        /\ it'.closed = it.closed /\ it'.closing = it.closing
    BY <2>1, IteratorFields
  <2>3. /\ rd \in Seq(Nat)
        /\ Len(rd) = Len(it.reads) + 1
        /\ \A i \in 1 .. Len(it.reads) : rd[i] = it.reads[i]
        /\ rd[Len(it.reads) + 1] = p
    BY <1>1, AppendProperties, IteratorFields
  <2>4. IteratorTypeOK'
    BY <1>1, <2>1, <2>3 DEF IteratorTypeOK, IteratorInv
  <2> HIDE DEF rd
  <2>5. Len(it.reads) \in Nat /\ Len(it.settled) \in Nat /\ p = Len(it.settled) + (Len(it.reads) + 1)
    BY IteratorFields
  <2> HIDE DEF p
  <2>6. ASSUME NEW i \in 1 .. Len(rd) PROVE rd[i] = Len(it.settled) + i
    <3>1. CASE i \in 1 .. Len(it.reads)
      BY <2>3, <3>1, IteratorFields
    <3>2. CASE i = Len(it.reads) + 1
      <4>1. rd[i] = p
        BY <2>3, <3>2
      <4>2. p = Len(it.settled) + i
        BY <2>5, <3>2 DEF p
      <4> QED BY <4>1, <4>2
    <3> QED BY <2>3, <2>5, <3>1, <3>2
  <2>7. new \in Seq(Settlement) /\ Len(new) = 0 /\ it.settled \o new = it.settled
    BY IteratorFields
  <2> HIDE DEF new
  <2>8. /\ it'.settled = it.settled \o new /\ ~Stopped(it')
        /\ Len(it.settled) + Len(new) + Len(it'.reads) = it'.issued
    <3>1. it'.settled = it.settled \o new /\ ~Stopped(it')
      BY <1>3, <2>2, <2>7 DEF Stopped
    <3>2. Len(it.settled) + Len(new) + Len(rd) = p
      BY <2>3, <2>5, <2>7
    <3> QED BY <2>2, <3>1, <3>2
  <2>9. \A i \in 1 .. Len(it'.reads) : it'.reads[i] = Len(it.settled) + Len(new) + i
    BY <2>2, <2>5, <2>6, <2>7
  <2>10. \A i \in 1 .. Len(new) : FALSE
    BY <2>7
  <2> QED BY <1>3, <2>4, <2>7, <2>8, <2>9, <2>10, SettlePreserves
<1> QED BY <1>2, <1>3

\* Yielding a value settles the oldest read and leaves the others in order.
LEMMA YieldPreserves ==
  ASSUME IteratorInv, NEW v \in Values, it' = asynciterator_yield(it, v)
  PROVE  IteratorInv'
<1>1. CASE it.reads = <<>>
  <2>1. it' = it
    BY <1>1 DEF asynciterator_yield, asynciterator_emplace, asynciterator_pending
  <2> QED BY <2>1 DEF IteratorInv, IteratorTypeOK, PromisesInOrder,
                          StoppedLeavesNoReader, NoValueAfterEnd,
                      EndMeansStopped, Stopped
<1>2. CASE it.reads # <<>>
  <2> DEFINE e == Resolved(Head(it.reads), v, FALSE)
             rd == Tail(it.reads)
             new == <<e>>
  <2>1. ~Stopped(it)
    BY <1>2, IteratorFields DEF Stopped
  <2>2. it' = [reads |-> rd, closed |-> it.closed, closing |-> it.closing,
               issued |-> it.issued, settled |-> Append(it.settled, e)]
    BY <1>2, IteratorFields DEF asynciterator_yield, asynciterator_emplace,
                                asynciterator_pending
  <2>3. Head(it.reads) = Len(it.settled) + 1 /\ Head(it.reads) \in Nat
    BY <1>2, IteratorFields, SMTT(60)
  <2>4. e \in Settlement
    BY <2>3, SettlementType
  <2>5. e.promise = Len(it.settled) + 1 /\ e.kind = "value"
    BY <2>3 DEF Resolved
  <2> HIDE DEF e
  <2>6. Append(it.settled, e) = it.settled \o new
    BY <2>4, AppendIsConcat, IteratorFields
  <2>7. new \in Seq(Settlement) /\ Len(new) = 1 /\ new[1] = e
    BY <2>4
  <2>8. /\ rd \in Seq(Nat)
        /\ Len(rd) = Len(it.reads) - 1
        /\ \A i \in 1 .. Len(rd) : rd[i] = it.reads[i + 1]
    BY <1>2, HeadTailProperties, IteratorFields
  <2> HIDE DEF rd
  <2>9. IteratorTypeOK'
    BY <2>2, <2>4, <2>8, IteratorFields DEF IteratorTypeOK
  <2> HIDE DEF new
  <2>10. ASSUME NEW i \in 1 .. Len(rd) PROVE rd[i] = Len(it.settled) + Len(new) + i
    <3>1. i + 1 \in 1 .. Len(it.reads)
      BY <2>8, IteratorFields, SMTT(60)
    <3> QED BY <2>7, <2>8, <3>1, IteratorFields
  <2>11. /\ it'.settled = it.settled \o new /\ it'.reads = rd /\ ~Stopped(it')
         /\ Len(it.settled) + Len(new) + Len(it'.reads) = it'.issued
    <3>1. it'.settled = it.settled \o new /\ it'.reads = rd /\ ~Stopped(it')
      BY <2>1, <2>2, <2>6 DEF Stopped
    <3>2. Len(it.settled) + Len(new) + Len(rd) = it.issued
      BY <2>7, <2>8, IteratorFields
    <3> QED BY <2>2, <3>1, <3>2
  <2>12. \A i \in 1 .. Len(new) : new[i].promise = Len(it.settled) + i /\ new[i].kind = "value"
    BY <2>5, <2>7, IteratorFields
  <2> QED BY <2>1, <2>7, <2>9, <2>10, <2>11, <2>12, SettlePreserves
<1> QED BY <1>1, <1>2

\* Rejecting a list of reads gives one settlement per read, in its order.
LEMMA RejectionsOf ==
  ASSUME NEW rd \in Seq(Nat)
  PROVE  LET rej == [i \in 1 .. Len(rd) |-> Rejected(rd[i])]
         IN  /\ rej \in Seq(Settlement)
             /\ Len(rej) = Len(rd)
             /\ \A i \in 1 .. Len(rd) : rej[i].promise = rd[i] /\ rej[i].kind = "rejected"
<1> DEFINE rej == [i \in 1 .. Len(rd) |-> Rejected(rd[i])]
<1>1. \A i \in 1 .. Len(rd) : Rejected(rd[i]) \in Settlement
  BY DEF Rejected, Settlement
<1>2. rej \in Seq(Settlement) /\ Len(rej) = Len(rd)
  BY <1>1
<1>3. \A i \in 1 .. Len(rd) : rej[i].promise = rd[i] /\ rej[i].kind = "rejected"
  BY DEF Rejected
<1> QED BY <1>2, <1>3

\* Cancelling rejects every waiting read, in order, and stops the iterator.
LEMMA CancelPreserves ==
  ASSUME IteratorInv, it' = asynciterator_cancel(it)
  PROVE  IteratorInv'
<1> DEFINE rej == [i \in 1 .. Len(it.reads) |-> Rejected(it.reads[i])]
<1>1. it' = [reads |-> <<>>, closed |-> TRUE, closing |-> it.closing, issued |-> it.issued,
             settled |-> it.settled \o rej]
  BY IteratorFields DEF asynciterator_cancel
<1>2. /\ rej \in Seq(Settlement)
      /\ Len(rej) = Len(it.reads)
      /\ \A i \in 1 .. Len(rej) : rej[i].promise = it.reads[i] /\ rej[i].kind = "rejected"
  BY RejectionsOf, IteratorFields
<1> HIDE DEF rej
<1>3. /\ \A i \in 1 .. Len(rej) : rej[i].promise = Len(it.settled) + i /\ rej[i].kind = "rejected"
      /\ Len(it.settled) + Len(rej) + Len(<<>>) = it.issued
      /\ <<>> \in Seq(Nat) /\ it.issued \in Nat /\ it.closing \in BOOLEAN
  BY <1>2, IteratorFields
<1>4. IteratorTypeOK'
  BY <1>1, <1>2, ConcatProperties, IteratorFields DEF IteratorTypeOK
<1>5. it'.settled = it.settled \o rej /\ it'.reads = <<>> /\ it'.issued = it.issued /\ Stopped(it')
  BY <1>1 DEF Stopped
<1>6. \A i \in 1 .. Len(it'.reads) : it'.reads[i] = Len(it.settled) + Len(rej) + i
  BY <1>5
<1> QED BY <1>2, <1>3, <1>4, <1>5, <1>6, SettlePreserves

\* Stopping gives the oldest read the last result and rejects the others.
LEMMA StopPreserves ==
  ASSUME IteratorInv, NEW v \in Values, it' = asynciterator_stop(it, v)
  PROVE  IteratorInv'
<1>1. CASE it.reads = <<>>
  <2>1. it' = [reads |-> <<>>, closed |-> it.closed, closing |-> TRUE, issued |-> it.issued,
               settled |-> it.settled]
    BY <1>1, IteratorFields DEF asynciterator_stop, asynciterator_pending
  <2>2. IteratorTypeOK'
    BY <2>1, IteratorFields DEF IteratorTypeOK
  <2>3. /\ it'.settled = it.settled /\ it'.reads = <<>> /\ it'.issued = it.issued
        /\ Stopped(it')
    BY <2>1 DEF Stopped
  <2> QED
    BY <1>1, <2>2, <2>3 DEF IteratorInv, PromisesInOrder, StoppedLeavesNoReader, NoValueAfterEnd,
                            EndMeansStopped
<1>2. CASE it.reads # <<>>
  <2> DEFINE rest == Tail(it.reads)
             rej == [i \in 1 .. Len(rest) |-> Rejected(rest[i])]
             e == Resolved(Head(it.reads), v, TRUE)
             new == <<e>> \o rej
  <2>1. it' = [reads |-> <<>>, closed |-> TRUE, closing |-> FALSE, issued |-> it.issued,
               settled |-> Append(it.settled, e) \o rej]
    BY <1>2, IteratorFields DEF asynciterator_stop, asynciterator_cancel,
                                asynciterator_emplace, asynciterator_pending
  <2>2. /\ rest \in Seq(Nat)
        /\ Len(rest) = Len(it.reads) - 1
        /\ \A i \in 1 .. Len(rest) : rest[i] = it.reads[i + 1]
    BY <1>2, HeadTailProperties, IteratorFields
  <2>3. /\ rej \in Seq(Settlement)
        /\ Len(rej) = Len(rest)
        /\ \A i \in 1 .. Len(rej) : rej[i].promise = rest[i] /\ rej[i].kind = "rejected"
    BY <2>2, RejectionsOf
  <2>4. Head(it.reads) = Len(it.settled) + 1 /\ Head(it.reads) \in Nat
    BY <1>2, IteratorFields, HeadTailProperties, SMTT(60)
  <2>5. e \in Settlement
    BY <2>4, SettlementType
  <2>5a. e.promise = Len(it.settled) + 1 /\ e.kind = "done"
    BY <2>4 DEF Resolved
  <2> HIDE DEF rest, rej, e
  <2>6. Append(it.settled, e) \o rej = it.settled \o new
    BY <2>3, <2>5, IteratorFields, SMTT(60)
  <2>7. <<e>> \in Seq(Settlement) /\ Len(<<e>>) = 1 /\ <<e>>[1] = e
    BY <2>5
  <2>8. /\ new \in Seq(Settlement)
        /\ Len(new) = 1 + Len(rej)
        /\ \A i \in 1 .. 1 + Len(rej) : new[i] = IF i <= 1 THEN <<e>>[i] ELSE rej[i - 1]
    BY <2>3, <2>7, ConcatProperties
  <2> HIDE DEF new
  <2>9. \A i \in 1 .. Len(new) : /\ new[i].promise = Len(it.settled) + i
                                 /\ new[i].kind # "value"
    <3> TAKE i \in 1 .. Len(new)
    <3>1. CASE i = 1
      BY <2>3, <2>5a, <2>7, <2>8, <3>1
    <3>2. CASE i > 1
      <4> DEFINE k == i - 1
      <4>1. new[i] = rej[k] /\ k \in 1 .. Len(rej) /\ k + 1 \in 1 .. Len(it.reads) /\ i = k + 1
        <5>1. Len(new) \in Nat /\ Len(rej) \in Nat /\ Len(it.reads) = Len(rej) + 1
          BY <2>2, <2>3, <2>8, IteratorFields
        <5>2. i \in 1 .. 1 + Len(rej) /\ ~(i <= 1)
          BY <2>8, <3>2, <5>1
        <5>3. new[i] = rej[k]
          BY <2>8, <5>2
        <5> QED BY <5>1, <5>2, <5>3
      <4> HIDE DEF k
      <4>2. rej[k].promise = it.reads[k + 1] /\ rej[k].kind = "rejected"
        BY <2>2, <2>3, <4>1
      <4>3. it.reads[k + 1] = Len(it.settled) + (k + 1)
        BY <4>1, IteratorFields
      <4> QED BY <4>1, <4>2, <4>3
    <3> QED BY <2>3, <2>8, <3>1, <3>2
  <2>10. IteratorTypeOK'
    BY <2>1, <2>6, <2>8, ConcatProperties, IteratorFields DEF IteratorTypeOK
  <2>11. /\ it'.settled = it.settled \o new /\ it'.reads = <<>> /\ Stopped(it')
         /\ Len(it.settled) + Len(new) + Len(it'.reads) = it'.issued
    <3>1. it'.settled = it.settled \o new /\ it'.reads = <<>> /\ Stopped(it')
      BY <2>1, <2>6 DEF Stopped
    <3>2. Len(it.settled) + Len(new) + 0 = it.issued
      BY <2>2, <2>3, <2>8, IteratorFields
    <3> QED BY <2>1, <3>1, <3>2
  <2>12. \A i \in 1 .. Len(it'.reads) : it'.reads[i] = Len(it.settled) + Len(new) + i
    BY <2>11
  <2> QED BY <2>8, <2>9, <2>10, <2>11, <2>12, SettlePreserves
<1> QED BY <1>1, <1>2

\* The invariants hold in every reachable state of the iterator, whatever
\* order next(), push(), stop(), throw and cancel are called in: promises are
\* settled in order and once, none after the end with a value, and a stopped
\* iterator has no reader (the assert in asynciterator_next never fails).
THEOREM IteratorInvariance == IteratorSpec => []IteratorInv
<1>1. IteratorInit => IteratorInv
  BY DEF IteratorInit, asynciterator_zero, IteratorInv, IteratorTypeOK, Settlement, PromisesInOrder,
         StoppedLeavesNoReader, NoValueAfterEnd, EndMeansStopped
<1>2. IteratorInv /\ [IteratorNext]_iteratorVars => IteratorInv'
  <2> SUFFICES ASSUME IteratorInv, [IteratorNext]_iteratorVars PROVE IteratorInv'
    OBVIOUS
  <2>1. CASE IteratorRead
    BY <2>1, NextPreserves DEF IteratorRead
  <2>2. ASSUME NEW v \in Values, IteratorPush(v) PROVE IteratorInv'
    BY <2>2, YieldPreserves DEF IteratorPush
  <2>3. ASSUME NEW v \in Values, IteratorStop(v) PROVE IteratorInv'
    BY <2>3, StopPreserves DEF IteratorStop
  <2>4. CASE IteratorThrow
    <3>1. CASE it.reads = <<>>
      <4>1. it' = it
        BY <2>4, <3>1 DEF IteratorThrow, asynciterator_throw, asynciterator_pending
      <4> QED BY <4>1 DEF IteratorInv, IteratorTypeOK, PromisesInOrder, StoppedLeavesNoReader,
                          NoValueAfterEnd, EndMeansStopped, Stopped
    <3>2. CASE it.reads # <<>>
      BY <2>4, <3>2, CancelPreserves DEF IteratorThrow, asynciterator_throw, asynciterator_pending
    <3> QED BY <3>1, <3>2
  <2>5. CASE IteratorCancel
    BY <2>5, CancelPreserves DEF IteratorCancel
  <2>6. CASE UNCHANGED iteratorVars
    BY <2>6 DEF iteratorVars, IteratorInv, IteratorTypeOK, PromisesInOrder, StoppedLeavesNoReader,
                NoValueAfterEnd, EndMeansStopped, Stopped
  <2> QED BY <2>1, <2>2, <2>3, <2>4, <2>5, <2>6 DEF IteratorNext
<1> QED BY <1>1, <1>2, PTL DEF IteratorSpec

\* No step takes back a settlement, and only next() hands out a promise.
LEMMA StepExtends ==
  ASSUME IteratorInv, [IteratorNext]_iteratorVars
  PROVE  /\ it'.issued \in {it.issued, it.issued + 1}
         /\ Len(it.settled) =< Len(it'.settled)
         /\ \A i \in 1 .. Len(it.settled) : it'.settled[i] = it.settled[i]
<1> DEFINE Grown == \E new \in Seq(Settlement) : it'.settled = it.settled \o new
<1>1. ASSUME Grown
      PROVE  /\ Len(it.settled) =< Len(it'.settled)
             /\ \A i \in 1 .. Len(it.settled) : it'.settled[i] = it.settled[i]
  <2>1. PICK new \in Seq(Settlement) : it'.settled = it.settled \o new
    BY <1>1
  <2> QED BY <2>1, ConcatProperties, IteratorFields
<1>2. ASSUME NEW e \in Settlement, it'.settled = Append(it.settled, e)
      PROVE  Grown
  <2>1. <<e>> \in Seq(Settlement) /\ Append(it.settled, e) = it.settled \o <<e>>
    BY AppendIsConcat, IteratorFields
  <2> QED BY <1>2, <2>1
<1>3. ASSUME it'.settled = it.settled
      PROVE  Grown
  <2>1. <<>> \in Seq(Settlement) /\ it.settled \o <<>> = it.settled
    BY IteratorFields
  <2> QED BY <1>3, <2>1
<1>4. ASSUME it' = asynciterator_cancel(it)
      PROVE  Grown /\ it'.issued = it.issued
  <2>1. it'.settled = it.settled \o [i \in 1 .. Len(it.reads) |-> Rejected(it.reads[i])]
        /\ it'.issued = it.issued
    BY <1>4, IteratorFields DEF asynciterator_cancel
  <2> QED BY <2>1, RejectionsOf, IteratorFields
<1> DEFINE oldest == Head(it.reads)
<1>5. it.reads # <<>> => oldest \in Nat
  BY IteratorFields
<1>6. CASE IteratorRead
  <2>1. Resolved(it.issued + 1, Undefined, TRUE) \in Settlement
    <3>1. it.issued + 1 \in Nat
      BY IteratorFields
    <3> QED BY <3>1, SettlementType
  <2>2. /\ \/ it'.settled = it.settled
           \/ it'.settled = Append(it.settled, Resolved(it.issued + 1, Undefined, TRUE))
        /\ it'.issued = it.issued + 1
    BY <1>6, IteratorFields DEF IteratorRead, asynciterator_next
  <2> QED BY <1>1, <1>2, <1>3, <2>1, <2>2
<1>7. ASSUME NEW v \in Values, IteratorPush(v) PROVE Grown /\ it'.issued = it.issued
  <2>1. it.reads # <<>> => Resolved(oldest, v, FALSE) \in Settlement
    BY <1>5, SettlementType
  <2>2. /\ \/ it'.settled = it.settled
           \/ it.reads # <<>> /\ it'.settled = Append(it.settled, Resolved(oldest, v, FALSE))
        /\ it'.issued = it.issued
    BY <1>7, IteratorFields DEF IteratorPush, asynciterator_yield, asynciterator_emplace,
                                asynciterator_pending
  <2> QED BY <1>2, <1>3, <2>1, <2>2
<1>8. ASSUME NEW v \in Values, IteratorStop(v) PROVE Grown /\ it'.issued = it.issued
  <2>1. CASE it.reads = <<>>
    <3>1. it'.settled = it.settled /\ it'.issued = it.issued
      BY <1>8, <2>1, IteratorFields DEF IteratorStop, asynciterator_stop, asynciterator_pending
    <3> QED BY <1>3, <3>1
  <2>2. CASE it.reads # <<>>
    <3> DEFINE rest == Tail(it.reads)
               e == Resolved(oldest, v, TRUE)
               rej == [i \in 1 .. Len(rest) |-> Rejected(rest[i])]
    <3>1. it'.settled = Append(it.settled, e) \o rej /\ it'.issued = it.issued
      BY <1>8, <2>2, IteratorFields DEF IteratorStop, asynciterator_stop, asynciterator_cancel,
                                        asynciterator_emplace, asynciterator_pending
    <3>2. e \in Settlement
      BY <1>5, <2>2, SettlementType
    <3>3. rest \in Seq(Nat)
      BY <2>2, HeadTailProperties, IteratorFields
    <3>4. rej \in Seq(Settlement)
      BY <3>3, RejectionsOf
    <3> HIDE DEF e, rej
    <3>5. <<e>> \o rej \in Seq(Settlement)
      BY <3>2, <3>4
    <3>6. Append(it.settled, e) \o rej = it.settled \o (<<e>> \o rej)
      BY <3>2, <3>4, IteratorFields, SMTT(60)
    <3> QED BY <3>1, <3>5, <3>6
  <2> QED BY <2>1, <2>2
<1>9. CASE IteratorThrow
  <2>1. CASE it.reads = <<>>
    <3>1. it' = it
      BY <1>9, <2>1 DEF IteratorThrow, asynciterator_throw, asynciterator_pending
    <3> QED BY <1>1, <1>3, <3>1
  <2>2. CASE it.reads # <<>>
    BY <1>1, <1>4, <1>9, <2>2 DEF IteratorThrow, asynciterator_throw, asynciterator_pending
  <2> QED BY <2>1, <2>2
<1>10. CASE IteratorCancel
  BY <1>1, <1>4, <1>10 DEF IteratorCancel
<1>11. CASE UNCHANGED iteratorVars
  BY <1>1, <1>3, <1>11 DEF iteratorVars
<1> HIDE DEF Grown
<1> QED BY <1>1, <1>6, <1>7, <1>8, <1>9, <1>10, <1>11 DEF IteratorNext

\* What the abstract stream sees of a history of settlements.
LEMMA IteratorKindsOf ==
  ASSUME NEW s \in Seq(Settlement), NEW kinds,
         kinds = [i \in 1 .. Len(s) |-> s[i].kind]
  PROVE  /\ kinds \in Seq(IteratorStream!Outcome)
         /\ Len(kinds) = Len(s)
         /\ \A i \in 1 .. Len(s) : kinds[i] = s[i].kind
<1>1. \A i \in 1 .. Len(s) : s[i] \in Settlement
  OBVIOUS
<1>2. \A i \in 1 .. Len(s) : s[i].kind \in IteratorStream!Outcome
  BY <1>1 DEF Settlement, IteratorStream!Outcome
<1> QED BY <1>2

\* The iterator implements AsyncStream: its promises are settled in the order
\* next() handed them out, never twice, and with no value after the end.
THEOREM IteratorImplementsStream == IteratorSpec => IteratorStreamSpec
<1>1. IteratorInit => IteratorStream!StreamInit
  BY DEF IteratorInit, asynciterator_zero, IteratorStream!StreamInit
<1>2. IteratorInv /\ IteratorInv' /\ [IteratorNext]_iteratorVars
        => [IteratorStream!StreamNext]_(IteratorStream!streamVars)
  <2> SUFFICES ASSUME IteratorInv, IteratorInv', [IteratorNext]_iteratorVars
               PROVE  IteratorStream!StreamNext
    BY DEF IteratorStream!streamVars
  <2>1. it.settled \in Seq(Settlement) /\ it'.settled \in Seq(Settlement)
    BY DEF IteratorInv, IteratorTypeOK
  <2>2. /\ Len(it'.settled) =< it'.issued
        /\ \A i, j \in 1 .. Len(it'.settled) :
             i < j /\ it'.settled[i].kind # "value" => it'.settled[j].kind # "value"
    <3>1. /\ Len(it'.settled) + Len(it'.reads) = it'.issued
          /\ it'.reads \in Seq(Nat) /\ it'.issued \in Nat
      BY DEF IteratorInv, IteratorTypeOK, PromisesInOrder
    <3>2. Len(it'.settled) \in Nat /\ Len(it'.reads) \in Nat
      BY <2>1, <3>1
    <3>3. \A m, n \in Nat : m =< m + n
      OBVIOUS
    <3>4. Len(it'.settled) =< Len(it'.settled) + Len(it'.reads)
      BY <3>2, <3>3
    <3>5. Len(it'.settled) =< it'.issued
      BY <3>1, <3>4
    <3>6. NoValueAfterEnd'
      BY DEF IteratorInv
    <3> QED BY <3>5, <3>6 DEF NoValueAfterEnd
  <2> DEFINE old == [i \in 1 .. Len(it.settled) |-> it.settled[i].kind]
             new == [i \in 1 .. Len(it'.settled) |-> it'.settled[i].kind]
  <2>3. /\ Len(old) = Len(it.settled)
        /\ \A i \in 1 .. Len(it.settled) : old[i] = it.settled[i].kind
    BY <2>1, IteratorKindsOf
  <2>4. /\ new \in Seq(IteratorStream!Outcome)
        /\ Len(new) = Len(it'.settled)
        /\ \A i \in 1 .. Len(it'.settled) : new[i] = it'.settled[i].kind
    BY <2>1, IteratorKindsOf
  <2> HIDE DEF old, new
  <2>5. IteratorStream!Extends(old, new)
    <3>1. /\ Len(it.settled) =< Len(it'.settled)
          /\ \A i \in 1 .. Len(it.settled) : it'.settled[i] = it.settled[i]
      BY StepExtends
    <3>2. \A i \in 1 .. Len(it.settled) : i \in 1 .. Len(it'.settled)
      BY <2>1, <3>1
    <3> QED BY <2>3, <2>4, <3>1, <3>2 DEF IteratorStream!Extends
  <2>6. Len(new) =< it'.issued
    BY <2>2, <2>4
  <2>7. IteratorStream!EndIsFinal(new)
    BY <2>2, <2>4 DEF IteratorStream!EndIsFinal
  <2>8. it'.issued \in {it.issued, it.issued + 1}
    BY StepExtends
  <2> QED BY <2>4, <2>5, <2>6, <2>7, <2>8 DEF IteratorStream!StreamNext, old, new
<1> QED BY <1>1, <1>2, IteratorInvariance, PTL
           DEF IteratorSpec, IteratorStreamSpec, IteratorStream!StreamSpec

\* The promises next() handed out settle in their order, each once, and none is
\* forgotten, for any number of calls and values.
THEOREM PromisesSettleInOrder == IteratorSpec => []PromisesInOrder
<1>1. IteratorInv => PromisesInOrder
  BY DEF IteratorInv
<1> QED BY <1>1, IteratorInvariance, PTL

\* A stopped iterator never has a reader waiting: the assert in
\* asynciterator_next does not fail.
THEOREM NobodyWaitsOnStopped == IteratorSpec => []StoppedLeavesNoReader
<1>1. IteratorInv => StoppedLeavesNoReader
  BY DEF IteratorInv
<1> QED BY <1>1, IteratorInvariance, PTL

\* A producer's value never reaches a consumer behind the end.
THEOREM NothingAfterEnd == IteratorSpec => []NoValueAfterEnd
<1>1. IteratorInv => NoValueAfterEnd
  BY DEF IteratorInv
<1> QED BY <1>1, IteratorInvariance, PTL
=============================================================================
