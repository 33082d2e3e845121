---------------------------- MODULE ServerProofs ----------------------------
(***************************************************************************)
(* Proofs about Server, for any mounts, handlers, paths and bounds: the    *)
(* timer that services libwebsockets (TimerInv), the chain of handlers     *)
(* (RunInv), and the mount a request is given to (FindInv).                *)
(***************************************************************************)
EXTENDS Server, SequenceTheorems, WellFoundedInduction, TLAPS

\* What a path is made of: the provers know of no string that it is one.
Pieces == STRING \cup {Slash}

Protocols == {"callback", "file", "http", "https"}

\* A mount has a mountpoint, and a handler only when it is for a function.
MountRecords ==
  {m \in [mnt : Seq(Pieces), protocol : Protocols, callback : BOOLEAN, def : BOOLEAN] :
     m.mnt # <<>> /\ (m.protocol = "callback" => m.callback)}

Bases == {"none", "plain", "other"}

Servers ==
  [made : {"none", "made"}, listening : BOOLEAN, lws : BOOLEAN, timer : Nat,
   listens : Nat, pending : BOOLEAN, crashed : BOOLEAN, mounts : Seq(MountRecords),
   http : [base : Bases, ids : Seq(Nat), valid : BOOLEAN]]

Closures ==
  [path : Patterns \cup {AnyPath}, method : Methods \cup {"any"}, next : BOOLEAN,
   given : BOOLEAN]

Requests ==
  [phase : {"idle", "filtered", "bound", "chained", "done"}, path : Seq(Pieces),
   method : {"GET", "POST"}, mount : Nat, rebound : BOOLEAN, rest : Seq(Pieces),
   redirected : BOOLEAN, called : Nat, base : Bases, ids : Seq(Nat), known : Nat,
   mounted : Nat, at : Nat, ret : Outcomes, ran : Seq(Nat)]

TypeOK ==
  /\ server \in Servers
  /\ chain \in Seq(Closures)
  /\ timers \in Seq({0, 1})
  /\ req \in Requests

\* The timer of a server s is the one of t that is waiting, and there is none
\* but after a listen() that succeeded.
TimerOf(s, t) ==
  /\ s.timer <= Len(t)
  /\ s.timer = 0 => Len(t) = 0
  /\ s.timer # 0 => t[s.timer] = 1
  /\ s.listening => s.timer # 0

TimerInv == TimerOf(server, timers)

Ascending(s) == \A i, j \in 1 .. Len(s) : i < j => s[i] < s[j]

\* onrequest is closures that exist, in the order of their registration.
ChainInv ==
  /\ Ascending(server.http.ids)
  /\ \A i \in 1 .. Len(server.http.ids) : server.http.ids[i] \in 1 .. Len(chain)

\* The closures of a request that were called come before those that were not,
\* and where one of them has not called its next(), the chain's value is one.
RunInv ==
  /\ req.known <= Len(chain) /\ req.at <= Len(req.ids) /\ Len(req.ran) <= req.at
  /\ req.phase \in {"filtered", "bound"} => req.at = 0
  /\ Ascending(req.ids)
  /\ \A k \in 1 .. Len(req.ids) : req.ids[k] \in 1 .. req.known
  /\ Ascending(req.ran)
  /\ \A i \in 1 .. Len(req.ran) : /\ req.ran[i] \in 1 .. req.known
                                  /\ request_match(req, chain[req.ran[i]])
                                  /\ \A k \in req.at + 1 .. Len(req.ids) :
                                       req.ran[i] < req.ids[k]
  /\ \A i \in 1 .. Len(req.ran) :
       server_match_all(chain[req.ran[i]]) /\ ~chain[req.ran[i]].next =>
         req.ret = "one" /\ i = Len(req.ran)

\* The filter's mount is the last of those it knew that the path begins with.
FindInv ==
  /\ server.made = "none" => Len(server.mounts) = 0
  /\ req.mounted <= Len(server.mounts) /\ req.mount <= Len(server.mounts)
  /\ req.phase # "idle" /\ ~req.rebound =>
       \A j \in 1 .. req.mounted : IsPrefix(server.mounts[j].mnt, req.path) =>
         j <= req.mount /\ IsPrefix(server.mounts[req.mount].mnt, req.path)
  /\ req.phase \in {"chained", "done"} /\ req.mount # 0
     /\ server.mounts[req.mount].protocol = "callback" => req.called = req.mount

\* The inductive invariant.
IInv == TypeOK /\ TimerInv /\ ChainInv /\ RunInv /\ FindInv

-----------------------------------------------------------------------------
\* The least and the greatest of a set of numbers.

LessThan == {ss \in Nat \X Nat : ss[1] < ss[2]}

\* A set of numbers that is not empty has a least one.
LEMMA Least ==
  ASSUME NEW T \in SUBSET Nat, T # {}
  PROVE  \E m \in T : \A k \in T : m <= k
<1>1. IsWellFoundedOn(LessThan, Nat)
  BY NatLessThanWellFounded DEF OpToRel, LessThan
<1>2. PICK m \in T : \A k \in T : <<k, m>> \notin LessThan
  BY <1>1, WFMin
<1>3. ASSUME NEW k \in T
      PROVE  m <= k
  <2>1. k \in Nat /\ m \in Nat
    OBVIOUS
  <2>2. <<k, m>> \in Nat \X Nat /\ <<k, m>>[1] = k /\ <<k, m>>[2] = m
    BY <2>1
  <2>3. ~(k < m)
    BY <1>2, <2>2 DEF LessThan
  <2> QED BY <2>3, <2>1
<1> QED BY <1>3

\* A set of numbers that is bounded and not empty has a greatest one.
LEMMA Greatest ==
  ASSUME NEW T \in SUBSET Nat, T # {}, NEW n \in Nat, \A k \in T : k <= n
  PROVE  \E m \in T : \A k \in T : k <= m
<1> DEFINE U == {j \in Nat : n - j \in T}
<1>1. \A k \in T : n - k \in Nat /\ n - (n - k) = k
  OBVIOUS
<1>2. U # {}
  <2>1. PICK k \in T : TRUE
    OBVIOUS
  <2> QED BY <1>1, <2>1
<1>3. U \in SUBSET Nat
  OBVIOUS
<1> HIDE DEF U
<1>4. PICK j \in U : \A i \in U : j <= i
  BY <1>2, <1>3, Least
<1>5. n - j \in T
  BY <1>4 DEF U
<1>6. ASSUME NEW k \in T
      PROVE  k <= n - j
  <2>1. n - k \in U
    BY <1>1 DEF U
  <2> QED BY <2>1, <1>4, <1>3, <1>1
<1> QED BY <1>5, <1>6

\* Min and Max are what their names say.
LEMMA MinMax ==
  ASSUME NEW T \in SUBSET Nat, T # {}, NEW n \in Nat, \A k \in T : k <= n
  PROVE  /\ Min(T) \in T /\ \A k \in T : Min(T) <= k
         /\ Max(T) \in T /\ \A k \in T : k <= Max(T)
<1>1. \E m \in T : \A k \in T : m =< k
  BY Least
<1>2. \E m \in T : \A k \in T : m >= k
  <2>1. PICK m \in T : \A k \in T : k <= m
    BY Greatest
  <2>2. \A k \in T : m >= k
    BY <2>1
  <2> QED BY <2>2
<1>3. Min(T) \in T /\ \A k \in T : Min(T) =< k
  BY <1>1 DEF Min
<1>4. Max(T) \in T /\ \A k \in T : Max(T) >= k
  BY <1>2 DEF Max
<1> QED BY <1>3, <1>4

-----------------------------------------------------------------------------
\* Finding a mount.

\* A prefix agrees with the sequence as far as it goes.
LEMMA PrefixIs ==
  ASSUME NEW S, NEW s \in Seq(S), NEW t \in Seq(S)
  PROVE  IsPrefix(s, t) <=> Len(s) <= Len(t) /\ \A i \in 1 .. Len(s) : s[i] = t[i]
<1>1. ASSUME Len(s) <= Len(t)
      PROVE  SubSeq(s, 1, Len(s)) = SubSeq(t, 1, Len(s))
               <=> \A i \in 1 .. Len(s) : s[i] = t[i]
  <2>1. Len(s) \in Nat /\ Len(t) \in Nat
    OBVIOUS
  <2>2. \A i \in 1 .. Len(s) : s[i] \in S /\ t[i] \in S
    BY <1>1, <2>1, ElementOfSeq
  <2>3. /\ SubSeq(s, 1, Len(s)) = s
        /\ SubSeq(t, 1, Len(s)) \in Seq(S)
        /\ Len(SubSeq(t, 1, Len(s))) = Len(s)
        /\ \A i \in 1 .. Len(s) : SubSeq(t, 1, Len(s))[i] = t[i]
    BY <1>1, <2>1, <2>2, SubSeqFull, SubSeqProperties
  <2> QED BY <2>3, SeqEqual
<1> QED BY <1>1 DEF IsPrefix

\* Of two beginnings of a sequence the one that is not longer begins the other.
LEMMA PrefixesCompare ==
  ASSUME NEW S, NEW s \in Seq(S), NEW t \in Seq(S), NEW x \in Seq(S),
         IsPrefix(s, x), IsPrefix(t, x), Len(s) <= Len(t)
  PROVE  IsPrefix(s, t)
BY PrefixIs

\* mount_find returns a mount or 0, and when it is given the length of the path,
\* the last mount whose mountpoint the path begins with.
LEMMA MountFind ==
  ASSUME NEW mounts \in Seq(MountRecords), NEW x \in Seq(Pieces), NEW n \in Int
  PROVE  /\ mount_find(mounts, x, n) \in 0 .. Len(mounts)
         /\ n = Len(x) =>
              \A j \in 1 .. Len(mounts) : IsPrefix(mounts[j].mnt, x) =>
                /\ j <= mount_find(mounts, x, n)
                /\ IsPrefix(mounts[mount_find(mounts, x, n)].mnt, x)
<1> DEFINE path == IF n = 0 THEN x ELSE SubSeq(x, 1, n)
           fits == {i \in DOMAIN mounts : IF n = 0
                      THEN mounts[i].protocol = "callback"
                           /\ IsPrefix(Unslash(mounts[i].mnt), Unslash(path))
                      ELSE IsPrefix(mounts[i].mnt, path)}
<1>1. mount_find(mounts, x, n) = IF fits = {} THEN 0 ELSE Max(fits)
  BY DEF mount_find
<1>2. DOMAIN mounts = 1 .. Len(mounts) /\ Len(mounts) \in Nat
  OBVIOUS
<1>3. fits \in SUBSET Nat /\ \A k \in fits : k <= Len(mounts) /\ k \in 1 .. Len(mounts)
  BY <1>2
<1>4. ASSUME fits # {}
      PROVE  /\ mount_find(mounts, x, n) \in fits
             /\ \A k \in fits : k <= mount_find(mounts, x, n)
  <2> HIDE DEF fits
  <2>1. Max(fits) \in fits /\ \A k \in fits : k <= Max(fits)
    BY <1>2, <1>3, <1>4, MinMax
  <2>2. mount_find(mounts, x, n) = Max(fits)
    BY <1>1, <1>4
  <2> QED BY <2>1, <2>2
<1>5. mount_find(mounts, x, n) \in 0 .. Len(mounts)
  <2> HIDE DEF fits
  <2>1. CASE fits = {}
    BY <1>1, <1>2, <2>1
  <2>2. CASE fits # {}
    <3>1. mount_find(mounts, x, n) \in fits
      BY <1>4, <2>2
    <3>2. mount_find(mounts, x, n) \in 1 .. Len(mounts)
      BY <1>3, <3>1
    <3> QED BY <1>2, <3>2
  <2> QED BY <2>1, <2>2
<1>6. ASSUME n = Len(x), NEW j \in 1 .. Len(mounts), IsPrefix(mounts[j].mnt, x)
      PROVE  /\ j <= mount_find(mounts, x, n)
             /\ IsPrefix(mounts[mount_find(mounts, x, n)].mnt, x)
  <2>1. mounts[j] \in MountRecords
    BY ElementOfSeq
  <2>2. mounts[j].mnt \in Seq(Pieces) /\ mounts[j].mnt # <<>>
    BY <2>1 DEF MountRecords
  <2>3. Len(mounts[j].mnt) > 0
    BY <2>2, EmptySeq
  <2>4. n # 0
    BY <1>6, <2>2, <2>3, PrefixIs
  <2>5. path = x
    BY <1>6, <2>4, SubSeqFull
  <2>6. \A i \in fits : IsPrefix(mounts[i].mnt, x)
    BY <2>4, <2>5
  <2>7. j \in fits
    BY <1>2, <1>6, <2>4, <2>5
  <2> HIDE DEF fits
  <2> QED BY <1>4, <2>6, <2>7
<1> QED BY <1>5, <1>6

\* mount_find_s returns a mount or 0.
LEMMA MountFindS ==
  ASSUME NEW mounts \in Seq(MountRecords), NEW x
  PROVE  mount_find_s(mounts, x) \in 0 .. Len(mounts)
<1> DEFINE at == {i \in DOMAIN mounts : Under(mounts[i].mnt, x)}
           roots == {i \in DOMAIN mounts : mounts[i].mnt = <<Slash>>}
<1>1. mount_find_s(mounts, x) =
        IF at # {} THEN Min(at) ELSE IF roots # {} THEN Max(roots) ELSE 0
  BY DEF mount_find_s
<1>2. DOMAIN mounts = 1 .. Len(mounts) /\ Len(mounts) \in Nat
  OBVIOUS
<1>3. /\ at \in SUBSET Nat /\ \A k \in at : k <= Len(mounts) /\ k \in 1 .. Len(mounts)
      /\ roots \in SUBSET Nat /\ \A k \in roots : k <= Len(mounts) /\ k \in 1 .. Len(mounts)
  BY <1>2
<1> HIDE DEF at, roots
<1>4. /\ at # {} => Min(at) \in at
      /\ roots # {} => Max(roots) \in roots
  BY <1>2, <1>3, MinMax
<1>5. /\ at # {} => Min(at) \in 1 .. Len(mounts)
      /\ roots # {} => Max(roots) \in 1 .. Len(mounts)
  BY <1>3, <1>4
<1>6. 0 \in 0 .. Len(mounts) /\ 1 .. Len(mounts) \subseteq 0 .. Len(mounts)
  BY <1>2
<1> QED BY <1>1, <1>5, <1>6

\* The part of the path that follows the mount libwebsockets found.
LEMMA RestType ==
  ASSUME NEW mounts \in Seq(MountRecords), NEW x \in Seq(Pieces)
  PROVE  Rest(mounts, x) \in Seq(Pieces)
<1> DEFINE hits == {i \in DOMAIN mounts :
                      Under(mounts[i].mnt, x) \/ mounts[i].mnt = <<Slash>>}
           lens == {Len(mounts[k].mnt) : k \in hits}
<1>1. DOMAIN mounts = 1 .. Len(mounts) /\ Len(mounts) \in Nat
  OBVIOUS
<1>2. \A i \in DOMAIN mounts : mounts[i].mnt \in Seq(Pieces)
  BY <1>1, ElementOfSeq DEF MountRecords
<1>3. \A k \in hits : Len(mounts[k].mnt) \in Nat /\ Len(mounts[k].mnt) <= Len(x) + 1
  <2>1. ASSUME NEW k \in hits
        PROVE  Len(mounts[k].mnt) <= Len(x) + 1
    <3>1. CASE Under(mounts[k].mnt, x)
      BY <1>2, <3>1 DEF Under, IsPrefix
    <3>2. CASE mounts[k].mnt = <<Slash>>
      BY <3>2
    <3> QED BY <3>1, <3>2
  <2> QED BY <1>2, <2>1
<1>4. Hit(mounts, x) = IF hits = {} THEN 0
        ELSE CHOOSE i \in hits : \A k \in hits : Len(mounts[k].mnt) <= Len(mounts[i].mnt)
  BY DEF Hit
<1>5. ASSUME hits # {}
      PROVE  Hit(mounts, x) \in hits
  <2>1. /\ lens \in SUBSET Nat /\ lens # {} /\ Len(x) + 1 \in Nat
        /\ \A k \in lens : k <= Len(x) + 1
    <3>1. \A l \in lens : \E k \in hits : l = Len(mounts[k].mnt)
      OBVIOUS
    <3>2. lens # {}
      BY <1>5
    <3> HIDE DEF lens, hits
    <3>3. \A l \in lens : l \in Nat /\ l <= Len(x) + 1
      BY <1>3, <3>1
    <3> QED BY <3>2, <3>3
  <2>2. PICK m \in lens : \A k \in lens : k <= m
    <3> HIDE DEF lens
    <3> QED BY <2>1, Greatest
  <2>3. PICK i \in hits : m = Len(mounts[i].mnt)
    BY <2>2
  <2>4. \A k \in hits : Len(mounts[k].mnt) <= Len(mounts[i].mnt)
    BY <2>2, <2>3
  <2> HIDE DEF hits, lens
  <2> QED BY <1>4, <1>5, <2>4
<1>6. Hit(mounts, x) # 0 => mounts[Hit(mounts, x)].mnt \in Seq(Pieces)
  <2>1. hits # {} => Hit(mounts, x) \in DOMAIN mounts
    BY <1>5
  <2> HIDE DEF hits
  <2> QED BY <1>2, <1>4, <2>1
<1>7. ASSUME NEW k \in Nat
      PROVE  SubSeq(x, k + 1, Len(x)) \in Seq(Pieces)
  <2>1. \A i \in k + 1 .. Len(x) : x[i] \in Pieces
    BY ElementOfSeq
  <2> QED BY <2>1, SubSeqProperties
<1>8. Hit(mounts, x) # 0 => Len(mounts[Hit(mounts, x)].mnt) \in Nat
  BY <1>6
<1>9. Hit(mounts, x) # 0 => SubSeq(x, Len(mounts[Hit(mounts, x)].mnt) + 1, Len(x)) \in Seq(Pieces)
  BY <1>7, <1>8
<1> QED BY <1>9 DEF Rest

-----------------------------------------------------------------------------
\* The server and its timers.

\* A new server has its type.
LEMMA NewServer == server_new \in Servers
<1>1. <<>> \in Seq(MountRecords) /\ <<>> \in Seq(Nat)
  OBVIOUS
<1> QED BY <1>1 DEF server_new, Servers, Bases

\* Names and paths are sequences of pieces.
LEMMA NamesAndPaths == Names \cup Paths \subseteq Seq(Pieces)
<1>1. STRING \subseteq Pieces
  BY DEF Pieces
<1>2. \A s \in Seq(STRING) : s \in Seq(Pieces)
  BY <1>1, SeqMonotonic
<1> QED BY <1>2, ConstantsAssumption

\* What a mount is made of.
LEMMA MountFrom ==
  ASSUME NEW o \in Mountables(Names, Origins)
  PROVE  mount_fromobj(o) \in MountRecords
<1>1. /\ o.name \in Seq(Pieces) /\ o.origin \in {"function", "file", "http", "https"}
      /\ o.index \in BOOLEAN
  BY ConstantsAssumption, NamesAndPaths DEF Mountables
<1>2. PICK mnt : mnt = IF o.name # <<>> /\ Head(o.name) = Slash THEN o.name
                                                                ELSE <<Slash>> \o o.name
  OBVIOUS
<1>3. mnt \in Seq(Pieces) /\ mnt # <<>>
  <2>1. CASE o.name # <<>> /\ Head(o.name) = Slash
    BY <1>1, <1>2, <2>1
  <2>2. CASE ~(o.name # <<>> /\ Head(o.name) = Slash)
    <3>0. Slash \in Pieces
      BY DEF Pieces
    <3>1. <<Slash>> \in Seq(Pieces) /\ Len(<<Slash>>) = 1
      BY <3>0
    <3>2. mnt \in Seq(Pieces) /\ Len(mnt) = 1 + Len(o.name)
      BY <1>1, <1>2, <2>2, <3>1, ConcatProperties
    <3> QED BY <1>1, <3>2
  <2> QED BY <2>1, <2>2
<1>4. origin_protocol(o.origin) \in Protocols
      /\ (origin_protocol(o.origin) = "callback" => o.origin = "function")
  BY <1>1 DEF origin_protocol, Protocols
<1>5. mount_fromobj(o) = [mnt |-> mnt, protocol |-> origin_protocol(o.origin),
                          callback |-> o.origin = "function", def |-> o.index]
  BY <1>2 DEF mount_fromobj, mount_new
<1> DEFINE m == [mnt |-> mnt, protocol |-> origin_protocol(o.origin),
                 callback |-> o.origin = "function", def |-> o.index]
<1>6. m \in [mnt : Seq(Pieces), protocol : Protocols, callback : BOOLEAN, def : BOOLEAN]
  BY <1>1, <1>3, <1>4
<1>7. m.mnt # <<>> /\ (m.protocol = "callback" => m.callback)
  BY <1>3, <1>4
<1>8. m \in MountRecords
  <2> HIDE DEF m
  <2> QED BY <1>6, <1>7 DEF MountRecords
<1> QED BY <1>5, <1>8

\* The mounts of the options are a list of mounts.
LEMMA MountsFrom ==
  ASSUME NEW n \in Nat, NEW list \in [1 .. n -> Mountables(Names, Origins)]
  PROVE  server_mounts(list) \in Seq(MountRecords)
<1>1. \A i \in 1 .. n : mount_fromobj(list[i]) \in MountRecords
  BY MountFrom
<1>2. server_mounts(list) \in [1 .. n -> MountRecords]
  BY <1>1 DEF server_mounts
<1> QED BY <1>2, SeqDef

\* server_listen makes a timer of the server's own, or leaves everything alone.
LEMMA ListenKeeps ==
  ASSUME NEW s \in Servers, NEW t \in Seq({0, 1}), TimerOf(s, t),
         NEW outcome \in {"ok", "context", "vhost"}
  PROVE  LET l == server_listen(s, t, outcome)
         IN  /\ l.s \in Servers /\ l.t \in Seq({0, 1}) /\ TimerOf(l.s, l.t)
             /\ l.s.mounts = s.mounts /\ l.s.http = s.http /\ l.s.made = s.made
<1> DEFINE c == [s EXCEPT !.lws = outcome # "context", !.listens = @ + 1,
                          !.pending = outcome # "ok"]
           l == server_listen(s, t, outcome)
<1>1. /\ c \in Servers /\ c.timer = s.timer /\ c.listening = s.listening
      /\ c.mounts = s.mounts /\ c.http = s.http /\ c.made = s.made
  <2>1. s.listens + 1 \in Nat /\ (outcome # "context") \in BOOLEAN /\ (outcome # "ok") \in BOOLEAN
    BY DEF Servers
  <2> QED BY <2>1 DEF Servers
<1>2. CASE outcome # "ok"
  <2>1. l.s = c /\ l.t = t
    BY <1>2 DEF server_listen
  <2> QED BY <1>1, <2>1 DEF TimerOf
<1>3. CASE outcome = "ok"
  <2> DEFINE d == [c EXCEPT !.timer = Len(t) + 1, !.listening = TRUE]
  <2>1. l.s = d /\ l.t = Append(t, 1)
    BY <1>3 DEF server_listen, js_timer_interval
  <2>2. /\ d \in Servers /\ d.timer = Len(t) + 1 /\ d.mounts = c.mounts
        /\ d.http = c.http /\ d.made = c.made
    <3>1. Len(t) + 1 \in Nat
      OBVIOUS
    <3> HIDE DEF c
    <3> QED BY <1>1, <3>1 DEF Servers
  <2>3. /\ Append(t, 1) \in Seq({0, 1}) /\ Len(Append(t, 1)) = Len(t) + 1
        /\ Append(t, 1)[Len(t) + 1] = 1
    BY AppendProperties
  <2>4. TimerOf(d, Append(t, 1))
    BY <2>2, <2>3 DEF TimerOf
  <2> HIDE DEF c, d
  <2> QED BY <1>1, <2>1, <2>2, <2>3, <2>4
<1> QED BY <1>2, <1>3

\* When a timer fires, the server's own is waiting again, and no timer twice.
LEMMA TimeoutKeeps ==
  ASSUME NEW s \in Servers, NEW t \in Seq({0, 1}), TimerOf(s, t),
         NEW i \in DOMAIN t, t[i] > 0
  PROVE  /\ minnet_server_timeout(t, s, i) \in Seq({0, 1})
         /\ TimerOf(s, minnet_server_timeout(t, s, i))
<1> DEFINE fired == [t EXCEPT ![i] = 0]
<1>1. DOMAIN t = 1 .. Len(t) /\ Len(t) \in Nat /\ t[i] = 1
  OBVIOUS
<1>2. [t EXCEPT ![i] = @ - 1] = fired
  BY <1>1
<1>3. /\ fired \in Seq({0, 1}) /\ Len(fired) = Len(t)
      /\ \A j \in 1 .. Len(t) : fired[j] = IF j = i THEN 0 ELSE t[j]
  BY <1>1, ExceptSeq
<1>4. minnet_server_timeout(t, s, i) =
        [fired EXCEPT ![s.timer] = IF @ = 0 THEN 1 ELSE @]
  BY <1>2 DEF minnet_server_timeout, js_timer_callback, js_timer_restart
<1>5. s.timer \in 1 .. Len(t)
  BY <1>1 DEF TimerOf, Servers
<1>6. (IF fired[s.timer] = 0 THEN 1 ELSE fired[s.timer]) = 1
  BY <1>3, <1>5
<1>7. minnet_server_timeout(t, s, i) = [fired EXCEPT ![s.timer] = 1]
  BY <1>4, <1>6
<1> HIDE DEF fired
<1>8. /\ [fired EXCEPT ![s.timer] = 1] \in Seq({0, 1})
      /\ Len([fired EXCEPT ![s.timer] = 1]) = Len(t)
      /\ [fired EXCEPT ![s.timer] = 1][s.timer] = 1
  BY <1>3, <1>5, ExceptSeq
<1> QED BY <1>5, <1>7, <1>8 DEF TimerOf

-----------------------------------------------------------------------------
\* What a request is answered by.

\* The session's mount, when there is one, is the mount that answers.
LEMMA SessionMountIs ==
  ASSUME NEW s \in Servers, NEW r \in Requests, r.mount <= Len(s.mounts)
  PROVE  /\ SessionMount(s, r) \in 0 .. Len(s.mounts)
         /\ r.mount # 0 => SessionMount(s, r) = r.mount
<1> DEFINE before == Len(r.path) - Len(r.rest)
           tries == <<r.mount, mount_find(s.mounts, r.rest, 0),
                      mount_find(s.mounts, r.path, before), mount_find(s.mounts, r.path, 0)>>
           found == {k \in 1 .. 4 : tries[k] # 0}
<1>1. /\ s.mounts \in Seq(MountRecords) /\ r.path \in Seq(Pieces) /\ r.rest \in Seq(Pieces)
      /\ r.mount \in Nat
  BY DEF Servers, Requests
<1>2. SessionMount(s, r) = IF found = {} THEN 0 ELSE tries[Min(found)]
  BY DEF SessionMount
<1>3. found # {} => Min(found) \in found /\ \A k \in found : Min(found) <= k
  <2>1. found \in SUBSET Nat /\ 4 \in Nat /\ \A k \in found : k <= 4
    OBVIOUS
  <2> HIDE DEF found
  <2> QED BY <2>1, MinMax
<1>4. \A k \in 1 .. 4 : tries[k] \in 0 .. Len(s.mounts)
  <2>1. before \in Int /\ 0 \in Int /\ r.mount \in 0 .. Len(s.mounts)
    BY <1>1
  <2>2. mount_find(s.mounts, r.rest, 0) \in 0 .. Len(s.mounts)
    BY <1>1, <2>1, MountFind
  <2>3. mount_find(s.mounts, r.path, before) \in 0 .. Len(s.mounts)
    BY <1>1, <2>1, MountFind
  <2>4. mount_find(s.mounts, r.path, 0) \in 0 .. Len(s.mounts)
    BY <1>1, <2>1, MountFind
  <2>5. /\ tries[1] = r.mount
        /\ tries[2] = mount_find(s.mounts, r.rest, 0)
        /\ tries[3] = mount_find(s.mounts, r.path, before)
        /\ tries[4] = mount_find(s.mounts, r.path, 0)
    OBVIOUS
  <2>6. /\ tries[1] \in 0 .. Len(s.mounts) /\ tries[2] \in 0 .. Len(s.mounts)
        /\ tries[3] \in 0 .. Len(s.mounts) /\ tries[4] \in 0 .. Len(s.mounts)
    BY <2>1, <2>2, <2>3, <2>4, <2>5
  <2> HIDE DEF tries
  <2>7. \A k \in 1 .. 4 : k = 1 \/ k = 2 \/ k = 3 \/ k = 4
    OBVIOUS
  <2> QED BY <2>6, <2>7
<1>5. SessionMount(s, r) \in 0 .. Len(s.mounts)
  <2>1. CASE found = {}
    <3>1. SessionMount(s, r) = 0
      BY <1>2, <2>1
    <3> QED BY <1>1, <3>1
  <2>2. CASE found # {}
    <3>1. Min(found) \in 1 .. 4
      BY <1>3, <2>2
    <3> HIDE DEF found, tries
    <3> QED BY <1>2, <1>4, <2>2, <3>1
  <2> QED BY <2>1, <2>2
<1>6. ASSUME r.mount # 0
      PROVE  SessionMount(s, r) = r.mount
  <2>1. 1 \in found /\ tries[1] = r.mount
    BY <1>6
  <2>2. found \in SUBSET (1 .. 4)
    OBVIOUS
  <2> HIDE DEF found, tries
  <2>3. Min(found) \in 1 .. 4 /\ Min(found) <= 1
    <3>1. Min(found) \in found /\ Min(found) <= 1
      BY <1>3, <2>1
    <3> QED BY <2>2, <3>1
  <2>4. Min(found) = 1
    BY <2>3
  <2> QED BY <1>2, <2>1, <2>4
<1> QED BY <1>5, <1>6

\* The mount whose handler is called is one of them, and the one found if that is
\* for a function.
LEMMA HandlingIs ==
  ASSUME NEW s \in Servers, NEW r, NEW i \in 0 .. Len(s.mounts)
  PROVE  /\ Handling(s, r, i) \in Nat
         /\ i # 0 /\ s.mounts[i].protocol = "callback" => Handling(s, r, i) = i
<1> DEFINE k == IF i # 0 /\ s.mounts[i].protocol = "file" /\ ~Redirects(s, r, i)
                THEN mount_find_s(s.mounts, NotFoundPage) ELSE i
<1>1. s.mounts \in Seq(MountRecords)
  BY DEF Servers
<1>2. Handling(s, r, i) = IF k # 0 /\ s.mounts[k].callback THEN k ELSE 0
  BY DEF Handling
<1>3. k \in Nat
  BY <1>1, MountFindS
<1>4. ASSUME i # 0, s.mounts[i].protocol = "callback"
      PROVE  k = i /\ s.mounts[i].callback
  <2>1. s.mounts[i] \in MountRecords
    BY <1>1, <1>4, ElementOfSeq
  <2> QED BY <1>4, <2>1 DEF MountRecords
<1> HIDE DEF k
<1> QED BY <1>2, <1>3, <1>4

\* What minnet_server_match makes of a closure c and of the value: next() is never
\* taken back, nobody is called after one, and one is the value of a function
\* for every request that has not called its next().
LEMMA MatchIs ==
  ASSUME NEW r \in Requests, NEW c \in Closures, NEW outcome \in Outcomes,
         NEW calls \in BOOLEAN
  PROVE  LET m == minnet_server_match(r, c, outcome, calls)
         IN  /\ m.c \in Closures /\ m.ret \in Outcomes /\ m.called \in BOOLEAN
             /\ m.c.path = c.path /\ m.c.method = c.method /\ (c.next => m.c.next)
             /\ ~m.called => m.ret = r.ret
             /\ m.called => /\ r.ret # "one" /\ request_match(r, c)
                            /\ server_match_all(m.c) /\ ~m.c.next => m.ret = "one"
<1> DEFINE d == IF server_match_all(c) THEN [c EXCEPT !.given = TRUE, !.next = @ \/ calls]
                                       ELSE c
           m == minnet_server_match(r, c, outcome, calls)
<1>1. /\ d \in Closures /\ d.path = c.path /\ d.method = c.method /\ (c.next => d.next)
      /\ server_match_all(d) <=> server_match_all(c)
  <2>1. (c.next \/ calls) \in BOOLEAN
    OBVIOUS
  <2> QED BY <2>1 DEF Closures, server_match_all
<1>2. CASE r.ret = "one" \/ ~request_match(r, c)
  <2>1. m.c = c /\ m.ret = r.ret /\ m.called = FALSE
    BY <1>2 DEF minnet_server_match
  <2> QED BY <2>1 DEF Requests
<1>3. CASE ~(r.ret = "one" \/ ~request_match(r, c))
  <2>1. /\ m.c = d /\ m.called = TRUE
        /\ m.ret = IF server_match_all(c) /\ ~d.next THEN "one" ELSE outcome
    BY <1>3 DEF minnet_server_match
  <2>2. m.ret \in Outcomes
    BY <2>1 DEF Outcomes
  <2>3. server_match_all(m.c) /\ ~m.c.next => m.ret = "one"
    <3> HIDE DEF d, m
    <3> QED BY <1>1, <2>1
  <2>4. m.c \in Closures /\ m.c.path = c.path /\ m.c.method = c.method /\ (c.next => m.c.next)
    <3> HIDE DEF d, m
    <3> QED BY <1>1, <2>1
  <2>5. m.called \in BOOLEAN /\ m.called /\ r.ret # "one" /\ request_match(r, c)
    BY <1>3, <2>1
  <2> QED BY <2>2, <2>3, <2>4, <2>5
<1> QED BY <1>2, <1>3

-----------------------------------------------------------------------------
\* The steps.

\* The initial state.
LEMMA InitIInv == Init => IInv
<1> SUFFICES ASSUME Init PROVE IInv
  OBVIOUS
<1> USE DEF Init
<1>1. server \in Servers /\ server.timer = 0 /\ ~server.listening /\ server.mounts = <<>>
      /\ server.http.ids = <<>>
  BY NewServer DEF server_new
<1>2. /\ <<>> \in Seq(Pieces) /\ <<>> \in Seq(Nat) /\ <<>> \in Seq(Closures)
      /\ <<>> \in Seq({0, 1}) /\ Len(<<>>) = 0
  OBVIOUS
<1>3. req \in Requests /\ req.known = 0 /\ req.at = 0 /\ req.ids = <<>> /\ req.ran = <<>>
      /\ req.mounted = 0 /\ req.mount = 0 /\ req.phase = "idle"
  BY <1>2 DEF NoRequest, Requests, Bases, Outcomes
<1>4. TypeOK
  BY <1>1, <1>2, <1>3 DEF TypeOK
<1>5. TimerInv
  BY <1>1, <1>2 DEF TimerInv, TimerOf
<1>6. ChainInv
  BY <1>1, <1>2 DEF ChainInv, Ascending
<1>7. RunInv
  BY <1>2, <1>3 DEF RunInv, Ascending
<1>8. FindInv
  BY <1>1, <1>2, <1>3 DEF FindInv
<1> QED BY <1>4, <1>5, <1>6, <1>7, <1>8 DEF IInv

\* Where only the server and its timers change, what has been called stays true.
LEMMA RunSame ==
  ASSUME RunInv, UNCHANGED <<chain, req>>
  PROVE  RunInv'
BY DEF RunInv, Ascending, request_match, server_match_all

\* Where the closures stay and only get more, and next() is never taken back,
\* what has been called stays true.
LEMMA RunGrows ==
  ASSUME TypeOK, RunInv, UNCHANGED req, chain' \in Seq(Closures),
         Len(chain) <= Len(chain'),
         \A j \in 1 .. Len(chain) : /\ chain'[j].path = chain[j].path
                                    /\ chain'[j].method = chain[j].method
                                    /\ chain[j].next => chain'[j].next
  PROVE  RunInv'
<1> DEFINE n == Len(chain)
<1>1. n \in Nat /\ Len(chain') \in Nat /\ req.known \in Nat /\ req \in Requests
  BY DEF TypeOK, Requests
<1>2. \A j \in 1 .. n : /\ request_match(req', chain'[j]) <=> request_match(req, chain[j])
                        /\ server_match_all(chain'[j]) <=> server_match_all(chain[j])
                        /\ chain[j].next => chain'[j].next
  BY DEF request_match, server_match_all
<1>3. req.known <= n /\ \A i \in 1 .. Len(req.ran) : req.ran[i] \in 1 .. n
  BY <1>1 DEF RunInv
<1>4. req.known <= Len(chain')
  BY <1>1, <1>3
<1>5. \A i \in 1 .. Len(req.ran) :
        /\ request_match(req', chain'[req.ran[i]])
        /\ server_match_all(chain'[req.ran[i]]) /\ ~chain'[req.ran[i]].next =>
             req.ret = "one" /\ i = Len(req.ran)
  BY <1>2, <1>3 DEF RunInv
<1> QED BY <1>4, <1>5 DEF RunInv, Ascending

\* Where no request and no mount changes, the mount found stays the last.
LEMMA FindSame ==
  ASSUME FindInv, UNCHANGED req, server'.mounts = server.mounts,
         server'.made = server.made
  PROVE  FindInv'
BY DEF FindInv

\* A server is made once, with nothing chained and nothing found.
LEMMA ConstructIInv ==
  ASSUME IInv, NEW options \in BOOLEAN, NEW port \in BOOLEAN, NEW onRequest \in BOOLEAN,
         NEW list, server_mounts(list) \in Seq(MountRecords),
         NEW outcome \in {"ok", "context", "vhost"},
         Construct(options, port, onRequest, list, outcome)
  PROVE  IInv'
<1> DEFINE s == [server_new EXCEPT !.made = "made", !.mounts = server_mounts(list),
                   !.http = [base |-> IF onRequest THEN "plain" ELSE "none",
                             ids |-> <<>>, valid |-> onRequest]]
           r == minnet_server_closure(options, port, onRequest, list, outcome)
<1>1. /\ server' = r.s /\ timers' = r.t /\ UNCHANGED <<chain, req>>
      /\ server.made = "none"
  BY DEF Construct
<1>2. <<>> \in Seq({0, 1}) /\ Len(<<>>) = 0 /\ <<>> \in Seq(Nat)
  OBVIOUS
<1>3. /\ s \in Servers /\ s.made = "made" /\ s.timer = 0 /\ ~s.listening
      /\ s.http.ids = <<>>
  BY <1>2, NewServer DEF Servers, server_new, Bases
<1>4. /\ server' \in Servers /\ timers' \in Seq({0, 1}) /\ TimerOf(server', timers')
      /\ server'.made = "made" /\ server'.http.ids = <<>>
  <2>1. CASE ~options
    <3> DEFINE e == [server_new EXCEPT !.made = "made", !.pending = TRUE]
    <3>1. r.s = e /\ r.t = <<>>
      BY <2>1 DEF minnet_server_closure
    <3>2. /\ e \in Servers /\ e.made = "made" /\ e.timer = 0 /\ ~e.listening
          /\ e.http.ids = <<>>
      BY NewServer DEF Servers, server_new
    <3> HIDE DEF e, r
    <3> QED BY <1>1, <1>2, <3>1, <3>2 DEF TimerOf
  <2>2. CASE options /\ port
    <3>1. r = server_listen(s, <<>>, outcome)
      BY <2>2 DEF minnet_server_closure
    <3>2. TimerOf(s, <<>>)
      BY <1>2, <1>3 DEF TimerOf
    <3> HIDE DEF s
    <3>3. LET l == server_listen(s, <<>>, outcome)
          IN  /\ l.s \in Servers /\ l.t \in Seq({0, 1}) /\ TimerOf(l.s, l.t)
              /\ l.s.http = s.http /\ l.s.made = s.made
      BY <1>2, <1>3, <3>2, ListenKeeps
    <3> QED BY <1>1, <1>3, <3>1, <3>3
  <2>3. CASE options /\ ~port
    <3>1. r.s = s /\ r.t = <<>>
      BY <2>3 DEF minnet_server_closure
    <3> HIDE DEF s
    <3> QED BY <1>1, <1>2, <1>3, <3>1 DEF TimerOf
  <2> QED BY <2>1, <2>2, <2>3
<1>5. TypeOK'
  BY <1>1, <1>4 DEF IInv, TypeOK
<1>6. TimerInv' /\ ChainInv'
  BY <1>2, <1>4 DEF TimerInv, ChainInv, Ascending
<1>7. RunInv'
  BY <1>1, RunSame DEF IInv
<1>8. FindInv'
  <2>1. Len(server.mounts) = 0 /\ Len(server'.mounts) \in Nat
    BY <1>1, <1>5 DEF IInv, FindInv, TypeOK, Servers
  <2>2. req.mounted = 0 /\ req.mount = 0
    BY <2>1 DEF IInv, FindInv, TypeOK, Requests
  <2> QED BY <1>1, <1>4, <2>1, <2>2 DEF FindInv
<1> QED BY <1>5, <1>6, <1>7, <1>8 DEF IInv

\* listen() keeps it.
LEMMA ListenIInv ==
  ASSUME IInv, NEW outcome \in {"ok", "context", "vhost"}, Listen(outcome)
  PROVE  IInv'
<1>1. /\ server' = server_listen(server, timers, outcome).s
      /\ timers' = server_listen(server, timers, outcome).t
      /\ UNCHANGED <<chain, req>>
  BY DEF Listen
<1>2. /\ server' \in Servers /\ timers' \in Seq({0, 1}) /\ TimerOf(server', timers')
      /\ server'.mounts = server.mounts /\ server'.http = server.http
      /\ server'.made = server.made
  BY <1>1, ListenKeeps DEF IInv, TypeOK, TimerInv
<1>3. TypeOK'
  BY <1>1, <1>2 DEF IInv, TypeOK
<1>4. TimerInv' /\ ChainInv'
  BY <1>1, <1>2 DEF IInv, TimerInv, ChainInv, Ascending
<1> QED BY <1>1, <1>2, <1>3, <1>4, RunSame, FindSame DEF IInv

\* A timer that fires keeps it.
LEMMA TimerFiresIInv ==
  ASSUME IInv, TimerFires
  PROVE  IInv'
<1>1. PICK i \in DOMAIN timers :
        /\ timers[i] > 0
        /\ timers' = minnet_server_timeout(timers, server, i)
        /\ server' = [server EXCEPT !.crashed = ~server.lws]
        /\ UNCHANGED <<chain, req>>
  BY DEF TimerFires
<1>2. /\ server' \in Servers /\ server'.mounts = server.mounts
      /\ server'.http = server.http /\ server'.made = server.made
      /\ server'.timer = server.timer /\ server'.listening = server.listening
  BY <1>1 DEF IInv, TypeOK, Servers
<1>3. timers' \in Seq({0, 1}) /\ TimerOf(server, timers')
  BY <1>1, TimeoutKeeps DEF IInv, TypeOK, TimerInv
<1>4. TypeOK'
  BY <1>1, <1>2, <1>3 DEF IInv, TypeOK
<1>5. TimerInv' /\ ChainInv'
  BY <1>1, <1>2, <1>3 DEF IInv, TimerInv, TimerOf, ChainInv, Ascending
<1> QED BY <1>1, <1>2, <1>4, <1>5, RunSame, FindSame DEF IInv

\* A handler that is registered keeps it: its closure is the last of the chain.
LEMMA RegisterIInv ==
  ASSUME IInv, NEW path \in Patterns, NEW method \in Methods \cup {"any"},
         Register(path, method)
  PROVE  IInv'
<1> DEFINE c == [NoMatch EXCEPT !.path = path, !.method = method]
           ids == server.http.ids
           n == Len(chain)
<1>1. /\ chain' = Append(chain, c)
      /\ server' = [server EXCEPT !.http.ids = Append(ids, n + 1), !.http.valid = TRUE]
      /\ UNCHANGED <<timers, req>>
  BY DEF Register, server_match
<1>2. c \in Closures
  BY DEF NoMatch, Closures
<1>3. ids \in Seq(Nat) /\ n \in Nat /\ chain \in Seq(Closures) /\ server \in Servers
  BY DEF IInv, TypeOK, Servers
<1>4. /\ chain' \in Seq(Closures) /\ Len(chain') = n + 1
      /\ \A i \in 1 .. n : chain'[i] = chain[i]
  <2> HIDE DEF c
  <2> QED BY <1>1, <1>2, <1>3, AppendProperties
<1>5. /\ Append(ids, n + 1) \in Seq(Nat) /\ Len(Append(ids, n + 1)) = Len(ids) + 1
      /\ \A i \in 1 .. Len(ids) : Append(ids, n + 1)[i] = ids[i]
      /\ Append(ids, n + 1)[Len(ids) + 1] = n + 1
  <2>1. n + 1 \in Nat
    BY <1>3
  <2> HIDE DEF ids, n
  <2> QED BY <1>3, <2>1, AppendProperties
<1>6. /\ server' \in Servers /\ server'.mounts = server.mounts
      /\ server'.made = server.made /\ server'.timer = server.timer
      /\ server'.listening = server.listening /\ server'.http.ids = Append(ids, n + 1)
  <2> HIDE DEF ids, n
  <2> QED BY <1>1, <1>3, <1>5 DEF Servers
<1>7. TypeOK'
  BY <1>1, <1>4, <1>6 DEF IInv, TypeOK
<1>8. TimerInv'
  BY <1>1, <1>6 DEF IInv, TimerInv, TimerOf
<1>9. ChainInv'
  <2>1. \A i \in 1 .. Len(ids) : ids[i] \in 1 .. n
    BY DEF IInv, ChainInv
  <2>2. \A i, j \in 1 .. Len(ids) : i < j => ids[i] < ids[j]
    BY DEF IInv, ChainInv, Ascending
  <2>3. Len(ids) \in Nat
    BY <1>3
  <2> HIDE DEF ids, n
  <2> DEFINE new == Append(ids, n + 1)
  <2>a. \A i \in 1 .. Len(new) : i \in 1 .. Len(ids) \/ i = Len(ids) + 1
    BY <1>5, <2>3
  <2>b. /\ \A i \in 1 .. Len(ids) : new[i] = ids[i] /\ ids[i] \in 1 .. n
        /\ new[Len(ids) + 1] = n + 1
    BY <1>5, <2>1
  <2> HIDE DEF new
  <2>4. \A i \in 1 .. Len(new) : new[i] \in 1 .. n + 1
    BY <1>3, <2>a, <2>b
  <2>5. \A i, j \in 1 .. Len(new) : i < j => new[i] < new[j]
    <3> SUFFICES ASSUME NEW i \in 1 .. Len(new), NEW j \in 1 .. Len(new), i < j
                 PROVE  new[i] < new[j]
      OBVIOUS
    <3>1. CASE j = Len(ids) + 1
      <4>1. i \in 1 .. Len(ids) /\ i # Len(ids) + 1
        BY <2>3, <2>a, <3>1
      <4>2. new[i] \in 1 .. n /\ new[j] = n + 1
        BY <2>b, <3>1, <4>1
      <4> QED BY <1>3, <4>2
    <3>2. CASE j \in 1 .. Len(ids)
      BY <2>2, <2>3, <2>a, <2>b, <3>2
    <3> QED BY <2>a, <3>1, <3>2
  <2> QED BY <1>4, <1>6, <2>4, <2>5 DEF ChainInv, Ascending, new
<1>10. RunInv'
  <2>1. \A j \in 1 .. n : /\ chain'[j].path = chain[j].path
                          /\ chain'[j].method = chain[j].method
                          /\ chain[j].next => chain'[j].next
    BY <1>4
  <2>2. n <= Len(chain')
    BY <1>3, <1>4
  <2> QED BY <1>1, <1>4, <2>1, <2>2, RunGrows DEF IInv
<1> QED BY <1>1, <1>6, <1>7, <1>8, <1>9, <1>10, FindSame DEF IInv

\* Assigning onrequest keeps it: the closures it is made of are the first ones of
\* those it had.
LEMMA SetOnrequestIInv ==
  ASSUME IInv, NEW value \in {"before", "plain", "other"}, NEW keep \in 0 .. MaxHandlers,
         SetOnrequest(value, keep)
  PROVE  IInv'
<1> DEFINE ids == server.http.ids
           h == IF value = "before" /\ (keep > 0 \/ server.http.base = "plain")
                THEN [server.http EXCEPT !.ids = SubSeq(ids, 1, keep), !.valid = TRUE]
                ELSE [base |-> IF value = "before" THEN server.http.base ELSE value,
                      ids |-> <<>>, valid |-> value = "plain"]
           Https == [base : Bases, ids : Seq(Nat), valid : BOOLEAN]
<1>1. server' = [server EXCEPT !.http = h] /\ UNCHANGED <<chain, timers, req>>
  <2>1. server' = [server EXCEPT !.http = h]
    BY DEF SetOnrequest
  <2> QED BY <2>1 DEF SetOnrequest
<1>2. keep \in Nat /\ keep <= Len(ids)
  BY ConstantsAssumption DEF SetOnrequest
<1>3. server \in Servers /\ ids \in Seq(Nat) /\ server.http \in Https /\ Len(ids) \in Nat
  BY DEF IInv, TypeOK, Servers
<1>4. /\ SubSeq(ids, 1, keep) \in Seq(Nat) /\ Len(SubSeq(ids, 1, keep)) = keep
      /\ \A i \in 1 .. keep : SubSeq(ids, 1, keep)[i] = ids[i]
  <2>1. \A i \in 1 .. keep : ids[i] \in Nat
    BY <1>2, <1>3, ElementOfSeq
  <2>2. 1 \in Int /\ keep \in Int
    BY <1>2
  <2> HIDE DEF ids
  <2> QED BY <1>2, <2>1, <2>2, SubSeqProperties
<1>5. <<>> \in Seq(Nat) /\ Len(<<>>) = 0
  OBVIOUS
<1>6. /\ h \in Https
      /\ Len(h.ids) <= Len(ids)
      /\ \A i \in 1 .. Len(h.ids) : h.ids[i] = ids[i]
  <2>1. CASE value = "before" /\ (keep > 0 \/ server.http.base = "plain")
    <3>1. h = [server.http EXCEPT !.ids = SubSeq(ids, 1, keep), !.valid = TRUE]
      BY <2>1
    <3>2. h \in Https /\ h.ids = SubSeq(ids, 1, keep)
      <4> HIDE DEF ids, h
      <4> QED BY <1>3, <1>4, <3>1
    <3> HIDE DEF h, ids
    <3> QED BY <1>2, <1>4, <3>2
  <2>2. CASE ~(value = "before" /\ (keep > 0 \/ server.http.base = "plain"))
    <3>1. (IF value = "before" THEN server.http.base ELSE value) \in Bases
      BY <1>3 DEF Bases
    <3>2. h \in Https /\ h.ids = <<>>
      BY <1>5, <2>2, <3>1
    <3> HIDE DEF h, ids
    <3> QED BY <1>3, <1>5, <3>2
  <2> QED BY <2>1, <2>2
<1> HIDE DEF h
<1>7. /\ server' \in Servers /\ server'.mounts = server.mounts
      /\ server'.made = server.made /\ server'.timer = server.timer
      /\ server'.listening = server.listening /\ server'.http.ids = h.ids
  BY <1>1, <1>3, <1>6 DEF Servers
<1>8. TypeOK'
  BY <1>1, <1>7 DEF IInv, TypeOK
<1>9. TimerInv'
  BY <1>1, <1>7 DEF IInv, TimerInv, TimerOf
<1>10. ChainInv'
  <2>1. 1 .. Len(h.ids) \subseteq 1 .. Len(ids)
    BY <1>3, <1>6
  <2>2. /\ \A i \in 1 .. Len(ids) : ids[i] \in 1 .. Len(chain)
        /\ \A i, j \in 1 .. Len(ids) : i < j => ids[i] < ids[j]
    BY DEF IInv, ChainInv, Ascending
  <2> HIDE DEF ids
  <2>3. /\ \A i \in 1 .. Len(h.ids) : h.ids[i] \in 1 .. Len(chain)
        /\ \A i, j \in 1 .. Len(h.ids) : i < j => h.ids[i] < h.ids[j]
    BY <1>6, <2>1, <2>2
  <2> QED BY <1>1, <1>7, <2>3 DEF ChainInv, Ascending
<1> QED BY <1>1, <1>7, <1>8, <1>9, <1>10, RunSame, FindSame DEF IInv

\* A mount that is added keeps it: those a request was compared with stay.
LEMMA MountIInv ==
  ASSUME IInv, NEW o \in Mountables(Names, Origins), Mount(o)
  PROVE  IInv'
<1> DEFINE m == mount_fromobj(o)
           n == Len(server.mounts)
<1>1. /\ server' = [server EXCEPT !.mounts = Append(@, m)]
      /\ UNCHANGED <<chain, timers, req>> /\ server.made = "made"
  BY DEF Mount, MayRegister
<1>2. server \in Servers /\ server.mounts \in Seq(MountRecords) /\ n \in Nat
  BY DEF IInv, TypeOK, Servers
<1>3. m \in MountRecords
  BY MountFrom
<1> HIDE DEF m
<1>4. /\ Append(server.mounts, m) \in Seq(MountRecords)
      /\ Len(Append(server.mounts, m)) = n + 1
      /\ \A i \in 1 .. n : Append(server.mounts, m)[i] = server.mounts[i]
  BY <1>2, <1>3, AppendProperties
<1>5. /\ server' \in Servers /\ server'.made = server.made /\ server'.http = server.http
      /\ server'.timer = server.timer /\ server'.listening = server.listening
      /\ server'.mounts = Append(server.mounts, m)
  BY <1>1, <1>2, <1>4 DEF Servers
<1>6. TypeOK'
  BY <1>1, <1>5 DEF IInv, TypeOK
<1>7. TimerInv' /\ ChainInv'
  BY <1>1, <1>5 DEF IInv, TimerInv, TimerOf, ChainInv, Ascending
<1>8. FindInv'
  <2>1. req \in Requests /\ req.mount \in Nat /\ req.mounted \in Nat
    BY DEF IInv, TypeOK, Requests
  <2>2. req.mounted <= n /\ req.mount <= n
    BY DEF IInv, FindInv
  <2>3. \A j \in 1 .. n : server'.mounts[j] = server.mounts[j]
    BY <1>4, <1>5
  <2>4. server'.made # "none" /\ Len(server'.mounts) = n + 1
    BY <1>1, <1>4, <1>5
  <2>5. \A j \in 1 .. req.mounted : j \in 1 .. n
    BY <1>2, <2>1, <2>2
  <2>6. req.phase # "idle" /\ ~req.rebound =>
          \A j \in 1 .. req.mounted : IsPrefix(server'.mounts[j].mnt, req.path) =>
            j <= req.mount /\ IsPrefix(server'.mounts[req.mount].mnt, req.path)
    <3> SUFFICES ASSUME req.phase # "idle", ~req.rebound, NEW j \in 1 .. req.mounted,
                        IsPrefix(server'.mounts[j].mnt, req.path)
                 PROVE  j <= req.mount /\ IsPrefix(server'.mounts[req.mount].mnt, req.path)
      OBVIOUS
    <3>1. IsPrefix(server.mounts[j].mnt, req.path)
      BY <2>3, <2>5
    <3>2. j <= req.mount /\ IsPrefix(server.mounts[req.mount].mnt, req.path)
      BY <3>1 DEF IInv, FindInv
    <3>3. req.mount \in 1 .. n
      BY <1>2, <2>1, <2>2, <3>2
    <3> QED BY <2>3, <3>2, <3>3
  <2>7. req.mount # 0 => req.mount \in 1 .. n
    BY <1>2, <2>1, <2>2
  <2>8. req.phase \in {"chained", "done"} /\ req.mount # 0
        /\ server'.mounts[req.mount].protocol = "callback" => req.called = req.mount
    BY <2>3, <2>7 DEF IInv, FindInv
  <2>9. req.mounted <= n + 1 /\ req.mount <= n + 1
    BY <1>2, <2>1, <2>2
  <2> QED BY <1>1, <2>4, <2>6, <2>8, <2>9 DEF FindInv
<1> QED BY <1>1, <1>6, <1>7, <1>8, RunSame DEF IInv

\* Where only the request changes, the server and the chain stay as they were.
LEMMA ServerSame ==
  ASSUME TimerInv, ChainInv, UNCHANGED <<server, timers>>, Len(chain') = Len(chain)
  PROVE  TimerInv' /\ ChainInv'
BY DEF TimerInv, TimerOf, ChainInv, Ascending

\* The filter keeps it: a new request, and the last mount its path begins with.
LEMMA FilterIInv ==
  ASSUME IInv, NEW path \in Paths, NEW method \in Methods, Filter(path, method)
  PROVE  IInv'
<1> DEFINE found == mount_find(server.mounts, path, Len(path))
           rest == Rest(server.mounts, path)
           n == Len(server.mounts)
<1>1. /\ req' = [NoRequest EXCEPT !.phase = "filtered", !.path = path, !.method = method,
                   !.mount = found, !.mounted = n, !.rest = rest]
      /\ UNCHANGED <<server, chain, timers>>
  BY DEF Filter
<1>2. server.mounts \in Seq(MountRecords) /\ n \in Nat /\ path \in Seq(Pieces)
  BY NamesAndPaths DEF IInv, TypeOK, Servers
<1>3. Len(path) \in Int /\ Len(path) = Len(path)
  BY <1>2
<1>4. /\ found \in 0 .. n
      /\ \A j \in 1 .. n : IsPrefix(server.mounts[j].mnt, path) =>
           j <= found /\ IsPrefix(server.mounts[found].mnt, path)
  BY <1>2, <1>3, MountFind
<1>5. rest \in Seq(Pieces)
  BY <1>2, RestType
<1>6. method \in {"GET", "POST"}
  BY ConstantsAssumption
<1>7. <<>> \in Seq(Nat) /\ Len(<<>>) = 0
  OBVIOUS
<1>8. /\ req' \in Requests /\ req'.phase = "filtered" /\ req'.path = path
      /\ req'.mount = found /\ req'.mounted = n /\ req'.known = 0 /\ req'.at = 0
      /\ req'.ids = <<>> /\ req'.ran = <<>>
  <2>1. /\ NoRequest \in Requests /\ NoRequest.known = 0 /\ NoRequest.at = 0
        /\ NoRequest.ids = <<>> /\ NoRequest.ran = <<>>
    <3>1. <<>> \in Seq(Pieces)
      OBVIOUS
    <3> QED BY <1>7, <3>1 DEF NoRequest, Requests, Bases, Outcomes
  <2>2. found \in Nat
    BY <1>2, <1>4
  <2> HIDE DEF found, rest, n
  <2> QED BY <1>1, <1>2, <1>5, <1>6, <2>1, <2>2 DEF Requests
<1>9. TypeOK'
  BY <1>1, <1>8 DEF IInv, TypeOK
<1>10. RunInv'
  <2>1. Len(chain') \in Nat
    BY <1>9 DEF TypeOK
  <2> QED BY <1>7, <1>8, <2>1 DEF RunInv, Ascending
<1>11. FindInv'
  <2>1. found <= n
    BY <1>2, <1>4
  <2>2. (server.made = "none" => Len(server.mounts) = 0)
    BY DEF IInv, FindInv
  <2> HIDE DEF found, rest
  <2> QED BY <1>1, <1>2, <1>4, <1>8, <2>1, <2>2 DEF FindInv
<1> QED BY <1>1, <1>9, <1>10, <1>11, ServerSame DEF IInv

\* The session made anew keeps it.
LEMMA BindIInv ==
  ASSUME IInv, Bind
  PROVE  IInv'
<1>1. /\ req' = [req EXCEPT !.phase = "bound", !.rebound = TRUE, !.mount = 0]
      /\ UNCHANGED <<server, chain, timers>> /\ req.phase = "filtered"
  BY DEF Bind
<1>2. req \in Requests
  BY DEF IInv, TypeOK
<1>3. /\ req' \in Requests /\ req'.phase = "bound" /\ req'.rebound = TRUE /\ req'.mount = 0
      /\ req'.path = req.path /\ req'.method = req.method /\ req'.mounted = req.mounted
      /\ req'.known = req.known /\ req'.at = req.at /\ req'.ids = req.ids
      /\ req'.ran = req.ran /\ req'.ret = req.ret
  BY <1>1, <1>2 DEF Requests
<1>4. TypeOK'
  BY <1>1, <1>3 DEF IInv, TypeOK
<1>5. RunInv'
  BY <1>1, <1>3 DEF IInv, RunInv, Ascending, request_match, server_match_all
<1>6. FindInv'
  <2>1. 0 <= Len(server.mounts)
    BY DEF IInv, TypeOK, Servers
  <2> QED BY <1>1, <1>3, <2>1 DEF IInv, FindInv
<1> QED BY <1>1, <1>4, <1>5, <1>6, ServerSame DEF IInv

\* The mount's answer keeps it: with a mount the filter found it is that mount's,
\* and the chain that is called is onrequest's of this moment.
LEMMA HttpIInv ==
  ASSUME IInv, Http
  PROVE  IInv'
<1> DEFINE i == SessionMount(server, req)
           red == Redirects(server, req, i)
           k == Handling(server, req, i)
           r == [req EXCEPT !.mount = i, !.redirected = red, !.called = k]
<1>1. /\ req' = IF server.http.valid
                THEN [r EXCEPT !.phase = "chained", !.base = server.http.base,
                               !.ids = server.http.ids, !.known = Len(chain)]
                ELSE [r EXCEPT !.phase = "done"]
      /\ UNCHANGED <<server, chain, timers>>
      /\ req.phase \in {"filtered", "bound"}
  BY DEF Http
<1>2. /\ req \in Requests /\ server \in Servers /\ Len(chain) \in Nat
      /\ Len(server.mounts) \in Nat
  BY DEF IInv, TypeOK, Servers
<1>3. /\ i \in 0 .. Len(server.mounts)
      /\ req.mount # 0 => i = req.mount
  BY <1>2, SessionMountIs DEF IInv, FindInv
<1>4. /\ k \in Nat
      /\ i # 0 /\ server.mounts[i].protocol = "callback" => k = i
  BY <1>2, <1>3, HandlingIs
<1>5. red \in BOOLEAN
  BY DEF Redirects
<1> HIDE DEF i, red, k
<1>6. /\ r \in Requests /\ r.mount = i /\ r.called = k /\ r.path = req.path
      /\ r.rebound = req.rebound /\ r.mounted = req.mounted /\ r.ids = req.ids
      /\ r.known = req.known /\ r.at = req.at /\ r.ran = req.ran /\ r.ret = req.ret
      /\ r.method = req.method
  <2>1. i \in Nat
    BY <1>2, <1>3
  <2> QED BY <1>2, <1>4, <1>5, <2>1 DEF Requests
<1> HIDE DEF r
<1>7. ASSUME server.http.valid
      PROVE  /\ req' \in Requests /\ req'.mount = i /\ req'.called = k /\ req'.path = req.path
             /\ req'.rebound = req.rebound /\ req'.mounted = req.mounted /\ RunInv'
  <2>1. req' = [r EXCEPT !.phase = "chained", !.base = server.http.base,
                         !.ids = server.http.ids, !.known = Len(chain)]
    BY <1>1, <1>7
  <2>2. server.http.base \in Bases /\ server.http.ids \in Seq(Nat)
    BY <1>2 DEF Servers
  <2>3. /\ req' \in Requests /\ req'.phase = "chained" /\ req'.mount = r.mount
        /\ req'.called = r.called /\ req'.path = r.path /\ req'.rebound = r.rebound
        /\ req'.mounted = r.mounted /\ req'.ids = server.http.ids
        /\ req'.known = Len(chain) /\ req'.at = r.at /\ req'.ran = r.ran
    BY <1>2, <1>6, <2>1, <2>2 DEF Requests
  <2>4. req'.at = 0 /\ Len(req'.ran) = 0
    <3>1. req'.at = 0 /\ req.ran \in Seq(Nat) /\ Len(req.ran) <= 0
      BY <1>1, <1>2, <1>6, <2>3 DEF IInv, RunInv, Requests
    <3> QED BY <1>6, <2>3, <3>1
  <2>5. Len(server.http.ids) \in Nat
    BY <2>2
  <2>6. RunInv'
    <3>1. /\ Ascending(server.http.ids)
          /\ \A j \in 1 .. Len(server.http.ids) : server.http.ids[j] \in 1 .. Len(chain)
      BY DEF IInv, ChainInv
    <3>2. /\ req'.known <= Len(chain') /\ req'.at <= Len(req'.ids)
          /\ Len(req'.ran) <= req'.at
      BY <1>1, <1>2, <2>3, <2>4, <2>5
    <3>3. /\ Ascending(req'.ids)
          /\ \A j \in 1 .. Len(req'.ids) : req'.ids[j] \in 1 .. req'.known
      BY <2>3, <3>1
    <3>4. \A j \in 1 .. Len(req'.ran) : FALSE
      BY <2>4
    <3> QED BY <2>4, <3>2, <3>3, <3>4 DEF RunInv, Ascending
  <2>7. /\ req'.mount = i /\ req'.called = k /\ req'.path = req.path
        /\ req'.rebound = req.rebound /\ req'.mounted = req.mounted
    BY <1>6, <2>3
  <2> QED BY <2>3, <2>6, <2>7
<1>8. ASSUME ~server.http.valid
      PROVE  /\ req' \in Requests /\ req'.mount = i /\ req'.called = k /\ req'.path = req.path
             /\ req'.rebound = req.rebound /\ req'.mounted = req.mounted /\ RunInv'
  <2>1. req' = [r EXCEPT !.phase = "done"]
    BY <1>1, <1>8
  <2>2. /\ req' \in Requests /\ req'.phase = "done" /\ req'.mount = r.mount
        /\ req'.called = r.called /\ req'.path = r.path /\ req'.rebound = r.rebound
        /\ req'.mounted = r.mounted /\ req'.ids = r.ids /\ req'.method = r.method
        /\ req'.known = r.known /\ req'.at = r.at /\ req'.ran = r.ran /\ req'.ret = r.ret
    BY <1>6, <2>1 DEF Requests
  <2>a. /\ req'.phase = "done" /\ req'.path = req.path /\ req'.method = req.method
        /\ req'.ids = req.ids /\ req'.known = req.known /\ req'.at = req.at
        /\ req'.ran = req.ran /\ req'.ret = req.ret /\ chain' = chain
    BY <1>1, <1>6, <2>2
  <2>3. RunInv'
    BY <2>a DEF IInv, RunInv, Ascending, request_match, server_match_all
  <2>4. /\ req'.mount = i /\ req'.called = k /\ req'.path = req.path
        /\ req'.rebound = req.rebound /\ req'.mounted = req.mounted
    BY <1>6, <2>2
  <2> QED BY <2>2, <2>3, <2>4
<1>9. /\ req' \in Requests /\ req'.mount = i /\ req'.called = k /\ req'.path = req.path
      /\ req'.rebound = req.rebound /\ req'.mounted = req.mounted /\ RunInv'
  BY <1>7, <1>8
<1>10. TypeOK'
  BY <1>1, <1>9 DEF IInv, TypeOK
<1>11. FindInv'
  <2>1. /\ server.made = "none" => Len(server.mounts) = 0
        /\ req.mounted <= Len(server.mounts) /\ i <= Len(server.mounts)
    BY <1>2, <1>3 DEF IInv, FindInv
  <2>2. ASSUME ~req.rebound, NEW j \in 1 .. req.mounted,
               IsPrefix(server.mounts[j].mnt, req.path)
        PROVE  j <= i /\ IsPrefix(server.mounts[i].mnt, req.path)
    <3>1. j <= req.mount /\ IsPrefix(server.mounts[req.mount].mnt, req.path)
      BY <1>1, <2>2 DEF IInv, FindInv
    <3>2. req.mount # 0
      BY <1>2, <3>1 DEF Requests
    <3> QED BY <1>3, <3>1, <3>2
  <2> QED BY <1>1, <1>4, <1>9, <2>1, <2>2 DEF FindInv
<1> QED BY <1>1, <1>9, <1>10, <1>11, ServerSame DEF IInv

\* onrequest's first function keeps it: nothing of the chain is called yet.
LEMMA CallBaseIInv ==
  ASSUME IInv, NEW outcome \in Outcomes, CallBase(outcome)
  PROVE  IInv'
<1> DEFINE ret == IF req.base = "plain" THEN outcome ELSE "throw"
<1>1. /\ req' = [req EXCEPT !.base = "none", !.ret = ret]
      /\ UNCHANGED <<server, chain, timers>> /\ req.at = 0
  BY DEF CallBase
<1>2. req \in Requests /\ ret \in Outcomes
  BY DEF IInv, TypeOK, Outcomes
<1> HIDE DEF ret
<1>3. /\ req' \in Requests /\ req'.phase = req.phase /\ req'.mount = req.mount
      /\ req'.called = req.called /\ req'.path = req.path /\ req'.rebound = req.rebound
      /\ req'.mounted = req.mounted /\ req'.ids = req.ids /\ req'.method = req.method
      /\ req'.known = req.known /\ req'.at = req.at /\ req'.ran = req.ran
  BY <1>1, <1>2 DEF Requests, Bases
<1>4. TypeOK'
  BY <1>1, <1>3 DEF IInv, TypeOK
<1>5. RunInv'
  <2>1. req.ran \in Seq(Nat) /\ Len(req.ran) <= 0
    BY <1>1, <1>2 DEF IInv, RunInv, Requests
  <2>2. Len(req.ran) = 0
    BY <2>1
  <2> QED BY <1>1, <1>3, <2>2 DEF IInv, RunInv, Ascending
<1>6. FindInv'
  BY <1>1, <1>3 DEF IInv, FindInv
<1> QED BY <1>1, <1>4, <1>5, <1>6, ServerSame DEF IInv

\* The end of the chain keeps it.
LEMMA FinishIInv ==
  ASSUME IInv, Finish
  PROVE  IInv'
<1>1. /\ req' = [req EXCEPT !.phase = "done"] /\ UNCHANGED <<server, chain, timers>>
      /\ req.phase = "chained" /\ req \in Requests
  BY DEF Finish, IInv, TypeOK
<1>2. /\ req' \in Requests /\ req'.phase = "done" /\ req'.mount = req.mount
      /\ req'.called = req.called /\ req'.path = req.path /\ req'.rebound = req.rebound
      /\ req'.mounted = req.mounted /\ req'.ids = req.ids /\ req'.method = req.method
      /\ req'.known = req.known /\ req'.at = req.at /\ req'.ran = req.ran
      /\ req'.ret = req.ret
  BY <1>1 DEF Requests
<1>3. TypeOK'
  BY <1>1, <1>2 DEF IInv, TypeOK
<1>4. RunInv'
  BY <1>1, <1>2 DEF IInv, RunInv, Ascending, request_match, server_match_all
<1>5. FindInv'
  BY <1>1, <1>2 DEF IInv, FindInv
<1> QED BY <1>1, <1>3, <1>4, <1>5, ServerSame DEF IInv

\* A next() that is called later keeps it.
LEMMA NextLaterIInv ==
  ASSUME IInv, NextLater
  PROVE  IInv'
<1>1. PICK id \in DOMAIN chain : /\ chain' = [chain EXCEPT ![id].next = TRUE]
                                 /\ UNCHANGED <<server, timers, req>>
  BY DEF NextLater
<1>2. chain \in Seq(Closures) /\ id \in 1 .. Len(chain) /\ chain[id] \in Closures
  BY ElementOfSeq DEF IInv, TypeOK
<1> DEFINE d == [chain[id] EXCEPT !.next = TRUE]
<1>3. chain' = [chain EXCEPT ![id] = d]
  BY <1>1
<1>4. d \in Closures /\ d.path = chain[id].path /\ d.method = chain[id].method /\ d.next
  BY <1>2 DEF Closures
<1> HIDE DEF d
<1>5. /\ chain' \in Seq(Closures) /\ Len(chain') = Len(chain)
      /\ \A j \in 1 .. Len(chain) : chain'[j] = IF j = id THEN d ELSE chain[j]
  BY <1>2, <1>3, <1>4, ExceptSeq
<1>6. TypeOK'
  BY <1>1, <1>5 DEF IInv, TypeOK
<1>7. RunInv'
  <2>1. \A j \in 1 .. Len(chain) : /\ chain'[j].path = chain[j].path
                                   /\ chain'[j].method = chain[j].method
                                   /\ chain[j].next => chain'[j].next
    BY <1>4, <1>5
  <2>2. Len(chain) <= Len(chain')
    BY <1>2, <1>5
  <2> QED BY <1>1, <1>5, <2>1, <2>2, RunGrows DEF IInv
<1> QED BY <1>1, <1>5, <1>6, <1>7, ServerSame, FindSame DEF IInv

\* The next closure of the chain keeps it: it comes after all that were called,
\* and calls its function only when none of them waits for its next().
LEMMA CallHandlerIInv ==
  ASSUME IInv, NEW outcome \in Outcomes, NEW calls \in BOOLEAN, CallHandler(outcome, calls)
  PROVE  IInv'
<1> DEFINE n == Len(chain)
           at == req.at + 1
           id == req.ids[at]
           c == chain[id]
           m == minnet_server_match(req, c, outcome, calls)
           ran == req.ran
           ran2 == IF m.called THEN Append(ran, id) ELSE ran
<1>1. /\ chain' = [chain EXCEPT ![id] = m.c]
      /\ req' = [req EXCEPT !.at = at, !.ret = m.ret, !.ran = ran2]
      /\ UNCHANGED <<server, timers>> /\ req.phase = "chained" /\ req.at < Len(req.ids)
  BY DEF CallHandler
<1>2. /\ req \in Requests /\ chain \in Seq(Closures) /\ n \in Nat /\ req.at \in Nat
      /\ req.ids \in Seq(Nat) /\ Len(req.ids) \in Nat /\ req.known \in Nat
      /\ ran \in Seq(Nat) /\ Len(ran) \in Nat
  BY DEF IInv, TypeOK, Requests
<1>3. at \in 1 .. Len(req.ids) /\ at \in Nat
  BY <1>1, <1>2
<1>4. id \in 1 .. req.known /\ id \in 1 .. n /\ id \in Nat
  <2>1. id \in 1 .. req.known /\ req.known <= n
    BY <1>3 DEF IInv, RunInv
  <2> HIDE DEF id, n
  <2> QED BY <1>2, <2>1
<1>5. c \in Closures
  BY <1>2, <1>4, ElementOfSeq
<1>6. /\ m.c \in Closures /\ m.ret \in Outcomes /\ m.called \in BOOLEAN
      /\ m.c.path = c.path /\ m.c.method = c.method /\ (c.next => m.c.next)
      /\ ~m.called => m.ret = req.ret
      /\ m.called => /\ req.ret # "one" /\ request_match(req, c)
                     /\ server_match_all(m.c) /\ ~m.c.next => m.ret = "one"
  <2> HIDE DEF c
  <2> QED BY <1>2, <1>5, MatchIs
<1>7. \A i \in 1 .. Len(ran) :
        /\ ran[i] \in 1 .. req.known /\ ran[i] \in 1 .. n
        /\ ran[i] < id /\ ran[i] # id
        /\ \A k \in at + 1 .. Len(req.ids) : ran[i] < req.ids[k]
  <2> SUFFICES ASSUME NEW i \in 1 .. Len(ran)
               PROVE  /\ ran[i] \in 1 .. req.known /\ ran[i] \in 1 .. n
                      /\ ran[i] < id /\ ran[i] # id
                      /\ \A k \in at + 1 .. Len(req.ids) : ran[i] < req.ids[k]
    OBVIOUS
  <2>1. /\ ran[i] \in 1 .. req.known /\ req.known <= n
        /\ \A k \in req.at + 1 .. Len(req.ids) : ran[i] < req.ids[k]
    BY DEF IInv, RunInv
  <2>2. at \in req.at + 1 .. Len(req.ids) /\ at + 1 .. Len(req.ids) \subseteq req.at + 1 .. Len(req.ids)
    BY <1>2, <1>3
  <2>3. ran[i] < id
    BY <2>1, <2>2
  <2> HIDE DEF id, at, ran, n
  <2> QED BY <1>2, <1>4, <2>1, <2>2, <2>3, SMTT(60)
<1>8. \A k \in at + 1 .. Len(req.ids) : id < req.ids[k]
  <2>1. \A k \in at + 1 .. Len(req.ids) : k \in 1 .. Len(req.ids) /\ at < k
    BY <1>2, <1>3
  <2> QED BY <1>3, <2>1 DEF IInv, RunInv, Ascending
<1>9. /\ chain' \in Seq(Closures) /\ Len(chain') = n
      /\ \A j \in 1 .. n : chain'[j] = IF j = id THEN m.c ELSE chain[j]
  <2> HIDE DEF m, id
  <2> QED BY <1>1, <1>2, <1>4, <1>6, ExceptSeq
<1>10. /\ ran2 \in Seq(Nat)
       /\ Len(ran2) \in Nat /\ Len(ran) <= Len(ran2) /\ Len(ran2) <= Len(ran) + 1
       /\ \A i \in 1 .. Len(ran) : ran2[i] = ran[i]
       /\ \A i \in 1 .. Len(ran2) :
            i \in 1 .. Len(ran) \/ (m.called /\ i = Len(ran) + 1 /\ ran2[i] = id /\ i = Len(ran2))
  <2>1. CASE m.called
    <3> DEFINE a == Append(ran, id)
    <3>1. ran2 = a
      BY <2>1
    <3> HIDE DEF id
    <3>2. /\ a \in Seq(Nat) /\ Len(a) = Len(ran) + 1
          /\ \A i \in 1 .. Len(ran) : a[i] = ran[i]
          /\ a[Len(ran) + 1] = id
      <4> HIDE DEF ran
      <4> QED BY <1>2, <1>4, AppendProperties
    <3> HIDE DEF a
    <3>3. \A i \in 1 .. Len(a) : i \in 1 .. Len(ran) \/ i = Len(ran) + 1
      BY <1>2, <3>2
    <3> HIDE DEF ran2, ran, m
    <3> QED BY <1>2, <2>1, <3>1, <3>2, <3>3, SMTT(60)
  <2>2. CASE ~m.called
    <3>1. ran2 = ran
      BY <2>2
    <3> HIDE DEF ran2, ran, m
    <3> QED BY <1>2, <3>1
  <2> QED BY <1>6, <2>1, <2>2, ZenonT(60)
<1>11. /\ req' \in Requests /\ req'.phase = req.phase /\ req'.mount = req.mount
       /\ req'.called = req.called /\ req'.path = req.path /\ req'.rebound = req.rebound
       /\ req'.mounted = req.mounted /\ req'.ids = req.ids /\ req'.method = req.method
       /\ req'.known = req.known /\ req'.at = at /\ req'.ran = ran2 /\ req'.ret = m.ret
  <2> HIDE DEF m, at, ran2
  <2> QED BY <1>1, <1>2, <1>3, <1>6, <1>10 DEF Requests
<1>12. \A j \in 1 .. n : /\ request_match(req', chain'[j]) <=> request_match(req, chain[j])
                         /\ server_match_all(chain'[j]) <=> server_match_all(chain[j])
                         /\ chain[j].next => chain'[j].next
  <2>1. \A j \in 1 .. n : /\ chain'[j].path = chain[j].path
                          /\ chain'[j].method = chain[j].method
                          /\ chain[j].next => chain'[j].next
    <3> HIDE DEF m, id, n
    <3> QED BY <1>6, <1>9, SMTT(60)
  <2> QED BY <1>11, <2>1 DEF request_match, server_match_all
<1>13. TypeOK'
  BY <1>1, <1>9, <1>11 DEF IInv, TypeOK
<1> HIDE DEF m, id, n, at, ran2, c
<1>14. req'.known <= Len(chain') /\ req'.at <= Len(req'.ids) /\ Len(req'.ran) <= req'.at
  BY <1>2, <1>3, <1>9, <1>10, <1>11, SMTT(60) DEF IInv, RunInv, n, at
<1>15. Ascending(req'.ids) /\ \A k \in 1 .. Len(req'.ids) : req'.ids[k] \in 1 .. req'.known
  BY <1>11 DEF IInv, RunInv
<1>16. Ascending(req'.ran)
  <2> SUFFICES ASSUME NEW i \in 1 .. Len(ran2), NEW j \in 1 .. Len(ran2), i < j
               PROVE  ran2[i] < ran2[j]
    BY <1>11 DEF Ascending
  <2>1. CASE j \in 1 .. Len(ran)
    <3>1. i \in 1 .. Len(ran)
      BY <1>2, <1>10, <2>1
    <3>2. ran[i] < ran[j]
      BY <2>1, <3>1 DEF IInv, RunInv, Ascending
    <3> QED BY <1>10, <2>1, <3>1, <3>2
  <2>2. CASE ~(j \in 1 .. Len(ran))
    <3>1. j = Len(ran) + 1 /\ ran2[j] = id
      BY <1>10, <2>2
    <3>2. i \in 1 .. Len(ran)
      BY <1>2, <1>10, <3>1
    <3> QED BY <1>7, <1>10, <3>1, <3>2
  <2> QED BY <2>1, <2>2
<1>17. \A i \in 1 .. Len(req'.ran) :
         /\ req'.ran[i] \in 1 .. req'.known
         /\ request_match(req', chain'[req'.ran[i]])
         /\ \A k \in req'.at + 1 .. Len(req'.ids) : req'.ran[i] < req'.ids[k]
  <2> SUFFICES ASSUME NEW i \in 1 .. Len(ran2)
               PROVE  /\ ran2[i] \in 1 .. req.known
                      /\ request_match(req', chain'[ran2[i]])
                      /\ \A k \in at + 1 .. Len(req.ids) : ran2[i] < req.ids[k]
    BY <1>11
  <2>1. CASE i \in 1 .. Len(ran)
    <3>1. request_match(req, chain[ran[i]])
      BY <2>1 DEF IInv, RunInv
    <3>2. ran[i] \in 1 .. n /\ ran2[i] = ran[i]
      BY <1>7, <1>10, <2>1
    <3> QED BY <1>7, <1>12, <2>1, <3>1, <3>2
  <2>2. CASE ~(i \in 1 .. Len(ran))
    <3>1. m.called /\ ran2[i] = id
      BY <1>10, <2>2
    <3>2. request_match(req, chain[id])
      BY <1>6, <3>1 DEF c
    <3> QED BY <1>4, <1>8, <1>12, <3>1, <3>2
  <2> QED BY <2>1, <2>2
<1>18. \A i \in 1 .. Len(req'.ran) :
         server_match_all(chain'[req'.ran[i]]) /\ ~chain'[req'.ran[i]].next =>
           req'.ret = "one" /\ i = Len(req'.ran)
  <2> SUFFICES ASSUME NEW i \in 1 .. Len(ran2), server_match_all(chain'[ran2[i]]),
                      ~chain'[ran2[i]].next
               PROVE  m.ret = "one" /\ i = Len(ran2)
    BY <1>11
  <2>1. CASE i \in 1 .. Len(ran)
    <3>1. ran[i] \in 1 .. n /\ ran2[i] = ran[i]
      BY <1>7, <1>10, <2>1
    <3>2. server_match_all(chain[ran[i]]) /\ ~chain[ran[i]].next
      BY <1>12, <3>1
    <3>3. req.ret = "one" /\ i = Len(ran)
      BY <2>1, <3>2 DEF IInv, RunInv
    <3>4. ~m.called
      BY <1>6, <3>3
    <3>5. ran2 = ran
      BY <3>4 DEF ran2
    <3> QED BY <1>6, <3>3, <3>4, <3>5
  <2>2. CASE ~(i \in 1 .. Len(ran))
    <3>1. m.called /\ ran2[i] = id /\ i = Len(ran2)
      BY <1>10, <2>2
    <3>2. chain'[id] = m.c
      BY <1>4, <1>9
    <3> QED BY <1>6, <3>1, <3>2
  <2> QED BY <2>1, <2>2
<1>19. RunInv'
  BY <1>1, <1>11, <1>14, <1>15, <1>16, <1>17, <1>18 DEF RunInv
<1>20. FindInv'
  BY <1>1, <1>11 DEF IInv, FindInv
<1>21. Len(chain') = Len(chain)
  BY <1>9 DEF n
<1> QED BY <1>1, <1>13, <1>19, <1>20, <1>21, ServerSame DEF IInv

\* Every step keeps it.
LEMMA NextIInv == IInv /\ [Next]_vars => IInv'
<1> SUFFICES ASSUME IInv, [Next]_vars PROVE IInv'
  OBVIOUS
<1>1. CASE Making
  <2>1. ASSUME Construct(FALSE, FALSE, FALSE, <<>>, "ok")
        PROVE  IInv'
    <3>1. server_mounts(<<>>) \in Seq(MountRecords)
      <4>1. <<>> \in [1 .. 0 -> Mountables(Names, Origins)]
        OBVIOUS
      <4> QED BY <4>1, MountsFrom
    <3> QED BY <2>1, <3>1, ConstructIInv
  <2>2. ASSUME NEW n \in 0 .. MaxMounts, NEW list \in [1 .. n -> Mountables(Names, Origins)],
               NEW port \in BOOLEAN, NEW onRequest \in BOOLEAN,
               NEW outcome \in {"ok", "context", "vhost"},
               Construct(TRUE, port, onRequest, list, outcome)
        PROVE  IInv'
    <3>1. n \in Nat
      BY ConstantsAssumption
    <3>2. server_mounts(list) \in Seq(MountRecords)
      BY <3>1, MountsFrom
    <3> QED BY <2>2, <3>2, ConstructIInv
  <2>3. ASSUME NEW list \in UNION {[1 .. n -> Mountables(Names, Origins)] : n \in 0 .. MaxMounts}
        PROVE  \E n \in 0 .. MaxMounts : list \in [1 .. n -> Mountables(Names, Origins)]
    OBVIOUS
  <2> QED BY <1>1, <2>1, <2>2, <2>3 DEF Making
<1>2. CASE \E outcome \in {"ok", "context", "vhost"} : Listen(outcome)
  BY <1>2, ListenIInv
<1>3. CASE TimerFires
  BY <1>3, TimerFiresIInv
<1>4. CASE Registering
  BY <1>4, RegisterIInv, SetOnrequestIInv, MountIInv DEF Registering
<1>5. CASE Serving
  BY <1>5, FilterIInv, BindIInv, HttpIInv, CallBaseIInv, CallHandlerIInv, FinishIInv
     DEF Serving
<1>6. CASE NextLater
  BY <1>6, NextLaterIInv
<1>7. CASE UNCHANGED vars
  BY <1>7, RunSame, FindSame, ServerSame DEF vars, IInv, TypeOK
<1> QED BY <1>1, <1>2, <1>3, <1>4, <1>5, <1>6, <1>7 DEF Next

\* The inductive invariant holds of every reachable state.
THEOREM Invariance == Spec => []IInv
BY InitIInv, NextIInv, PTL DEF Spec

-----------------------------------------------------------------------------

\* Of a server that listens the timer that services libwebsockets waits exactly
\* once, and none that another listen() replaced waits twice
\* (minnet_server_timeout, js_timer_callback, js_timer_restart).
THEOREM TimerOnceHolds == Spec => []TimerOnce
<1>1. IInv => TimerOnce
  <2> SUFFICES ASSUME IInv PROVE TimerOnce
    OBVIOUS
  <2>1. timers \in Seq({0, 1}) /\ DOMAIN timers = 1 .. Len(timers)
    BY DEF IInv, TypeOK
  <2>2. \A i \in DOMAIN timers : timers[i] <= 1
    BY <2>1, ElementOfSeq
  <2> QED BY <2>2 DEF IInv, TimerInv, TimerOf, TimerOnce
<1> QED BY <1>1, Invariance, PTL

\* However handlers are registered and onrequest is assigned meanwhile, a request
\* is given to those registered before it that match it, in the order of their
\* registration and to none twice (server_match, minnet_server_match).
THEOREM HandlersInOrderHolds == Spec => []HandlersInOrder
<1>1. IInv => HandlersInOrder
  <2> SUFFICES ASSUME IInv PROVE HandlersInOrder
    OBVIOUS
  <2>1. req.ran \in Seq(Nat) /\ DOMAIN req.ran = 1 .. Len(req.ran) /\ req.known \in Nat
    BY DEF IInv, TypeOK, Requests
  <2>2. \A i \in DOMAIN req.ran : req.ran[i] \in 1 .. req.known
    BY <2>1 DEF IInv, RunInv
  <2>3. \A i \in DOMAIN req.ran : req.ran[i] <= req.known
    BY <2>1, <2>2
  <2> QED BY <2>1, <2>3 DEF IInv, RunInv, Ascending, HandlersInOrder
<1> QED BY <1>1, Invariance, PTL

\* A handler for every request that has not called its next() is the last one that
\* is called (minnet_server_match).
THEOREM GateHoldsAlways == Spec => []GateHolds
<1>1. IInv => GateHolds
  <2> SUFFICES ASSUME IInv PROVE GateHolds
    OBVIOUS
  <2>1. DOMAIN req.ran = 1 .. Len(req.ran)
    BY DEF IInv, TypeOK, Requests
  <2> QED BY <2>1 DEF IInv, RunInv, GateHolds
<1> QED BY <1>1, Invariance, PTL

\* Where no mountpoint comes after a longer one it begins, the mount whose handler
\* answers a request is the most specific one (mount_find, http_server_callback).
THEOREM MostSpecificHolds == Spec => []MostSpecific
<1>1. IInv => MostSpecific
  <2> SUFFICES ASSUME IInv, req.phase \in {"chained", "done"}, ~req.rebound,
                      GeneralFirst(server.mounts),
                      NEW j \in 1 .. req.mounted, IsPrefix(server.mounts[j].mnt, req.path)
               PROVE  /\ req.mount # 0 /\ IsPrefix(server.mounts[req.mount].mnt, req.path)
                      /\ Len(server.mounts[j].mnt) <= Len(server.mounts[req.mount].mnt)
                      /\ server.mounts[req.mount].protocol = "callback" =>
                           req.called = req.mount
    BY DEF MostSpecific
  <2> DEFINE mounts == server.mounts
             i == req.mount
  <2>1. /\ mounts \in Seq(MountRecords) /\ req.path \in Seq(Pieces) /\ i \in Nat
        /\ req.mounted \in Nat /\ Len(mounts) \in Nat /\ DOMAIN mounts = 1 .. Len(mounts)
    BY DEF IInv, TypeOK, Servers, Requests
  <2>2. j <= i /\ IsPrefix(mounts[i].mnt, req.path)
    BY DEF IInv, FindInv
  <2>3. i <= Len(mounts) /\ req.mounted <= Len(mounts)
    BY DEF IInv, FindInv
  <2>4. i # 0 /\ i \in 1 .. Len(mounts) /\ j \in 1 .. Len(mounts)
    <3> HIDE DEF mounts, i
    <3> QED BY <2>1, <2>2, <2>3
  <2>5. mounts[i].mnt \in Seq(Pieces) /\ mounts[j].mnt \in Seq(Pieces)
    BY <2>1, <2>4, ElementOfSeq DEF MountRecords
  <2>6. Len(mounts[j].mnt) <= Len(mounts[i].mnt)
    <3>1. CASE Len(mounts[i].mnt) <= Len(mounts[j].mnt)
      <4>1. IsPrefix(mounts[i].mnt, mounts[j].mnt)
        BY <2>1, <2>2, <2>5, <3>1, PrefixesCompare
      <4>2. j < i => mounts[j].mnt = mounts[i].mnt
        BY <2>1, <2>4, <4>1 DEF GeneralFirst
      <4>3. mounts[j].mnt = mounts[i].mnt
        BY <2>1, <2>2, <2>4, <4>2
      <4> QED BY <2>5, <4>3
    <3>2. CASE ~(Len(mounts[i].mnt) <= Len(mounts[j].mnt))
      BY <2>5, <3>2
    <3> QED BY <3>1, <3>2
  <2>7. mounts[i].protocol = "callback" => req.called = i
    BY <2>4 DEF IInv, FindInv
  <2> QED BY <2>2, <2>4, <2>6, <2>7
<1> QED BY <1>1, Invariance, PTL
=============================================================================
