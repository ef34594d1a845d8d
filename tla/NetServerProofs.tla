--------------------------- MODULE NetServerProofs ---------------------------
(***************************************************************************)
(* ServerSound of NetServer for every set of pool sizes, every number of   *)
(* connections and every number of descriptors.  The inductive invariant   *)
(* SrvGood joins the life of each connection (conn) with the functors that *)
(* wait for it in the loops (SrvTokens): connectEstablished only while it  *)
(* is queued and before connectDestroyed (SrvLine), removeConnection only  *)
(* in the base loop, connectDestroyed for exactly the connections that     *)
(* left the map and are not destroyed.                                     *)
(***************************************************************************)
EXTENDS NetServer, FiniteSetTheorems, SequenceTheorems, TLAPS

\* The states of a connection, those the map lists, and the functors of the loops.
SrvStates == {"none", "queued", "up", "closing", "removed", "destroyed"}
SrvListed == {"queued", "up", "closing"}
SrvFunctors == {"listen", "established", "remove", "destroyed"} \X Nat

\* The functors of one loop, in order: no two are equal, and a connection's connectEstablished comes first.
SrvLine(s) ==
  /\ s \in Seq(SrvFunctors)
  /\ \A j, k \in DOMAIN s : s[j] = s[k] => j = k
  /\ \A j, k \in DOMAIN s : s[j][1] = "destroyed" /\ s[k] = <<"established", s[j][2]>> => k < j

\* What is told apart: the shapes, what the server's map lists, the functors each connection waits for.
SrvShapes(made, home, conn, map, mode, R) ==
  /\ made \in 0 .. SrvConns /\ home \in [SrvIds -> SrvLoops] /\ conn \in [SrvIds -> SrvStates]
  /\ map \in SUBSET SrvIds /\ mode \in {"alive", "dying", "dead"} /\ R \in [SrvLoops -> SUBSET SrvFunctors]

SrvLists(made, home, conn, map, mode) ==
  /\ \A i \in SrvIds : conn[i] = "none" <=> i > made
  /\ \A i \in SrvIds : conn[i] \in {"queued", "closing"} => home[i] # 0
  /\ mode = "alive" => \A i \in SrvIds : i \in map <=> conn[i] \in SrvListed
  /\ mode # "alive" => \A i \in SrvIds : i \notin map /\ (home[i] = 0 => conn[i] \notin SrvListed)

SrvTokens(home, conn, map, mode, R) ==
  /\ \A l \in SrvLoops : \A f \in R[l] :
       /\ f[1] = "listen" => l = 0 /\ f[2] = 0
       /\ f[1] # "listen" => f[2] \in SrvIds
       /\ f[1] = "established" => l # 0 /\ home[f[2]] = l /\ conn[f[2]] = "queued"
       /\ f[1] = "remove" => l = 0 /\ conn[f[2]] \in {"closing", "destroyed"} /\ (mode = "alive" => conn[f[2]] = "closing")
       /\ f[1] = "destroyed" => home[f[2]] = l /\ f[2] \notin map /\ conn[f[2]] \in SrvListed \cup {"removed"}
  /\ \A i \in SrvIds : conn[i] \in SrvListed \cup {"removed"} /\ i \notin map => <<"destroyed", i>> \in R[home[i]]

SrvBook(made, home, conn, map, mode, R) ==
  /\ SrvShapes(made, home, conn, map, mode, R)
  /\ SrvLists(made, home, conn, map, mode)
  /\ SrvTokens(home, conn, map, mode, R)

-----------------------------------------------------------------------------
\* queueInLoop of a functor that is not there yet.
LEMMA SrvLineAppend ==
  ASSUME NEW s, SrvLine(s), NEW f \in SrvFunctors, f \notin Range(s),
         f[1] = "established" => <<"destroyed", f[2]>> \notin Range(s)
  PROVE  SrvLine(Append(s, f)) /\ Range(Append(s, f)) = Range(s) \cup {f}
<1> DEFINE t == Append(s, f)
<1>1. s \in Seq(SrvFunctors) /\ t \in Seq(SrvFunctors)
  BY DEF SrvLine
<1>2. /\ DOMAIN t = 1 .. (Len(s) + 1) /\ DOMAIN s = 1 .. Len(s) /\ Len(s) \in Nat
      /\ \A j \in 1 .. Len(s) : t[j] = s[j]
      /\ t[Len(s) + 1] = f
  BY <1>1
<1>3. \A j \in DOMAIN s : s[j] # f /\ s[j] \in SrvFunctors
  BY <1>1 DEF Range
<1> HIDE DEF t
<1>4. \A j, k \in DOMAIN t : t[j] = t[k] => j = k
  <2>1. \A j, k \in DOMAIN s : s[j] = s[k] => j = k
    BY DEF SrvLine
  <2> QED  BY <1>2, <1>3, <2>1
<1>5. \A j, k \in DOMAIN t : t[j][1] = "destroyed" /\ t[k] = <<"established", t[j][2]>> => k < j
  <2>1. \A j, k \in DOMAIN s : s[j][1] = "destroyed" /\ s[k] = <<"established", s[j][2]>> => k < j
    BY DEF SrvLine
  <2>2. ASSUME NEW j \in DOMAIN s, s[j][1] = "destroyed", f = <<"established", s[j][2]>>  PROVE FALSE
    <3>1. s[j] = <<"destroyed", f[2]>>
      BY <1>3, <2>2 DEF SrvFunctors
    <3> QED  BY <2>2, <3>1, Zenon DEF Range
  <2>3. ~(f[1] = "destroyed" /\ f = <<"established", f[2]>>)
    OBVIOUS
  <2> QED  BY <1>2, <2>1, <2>2, <2>3
<1>6. Range(t) = Range(s) \cup {f}
  BY <1>2 DEF Range
<1> QED  BY <1>1, <1>4, <1>5, <1>6 DEF SrvLine, t

\* Append and Tail of a concatenation.
LEMMA ConcatAppend ==
  ASSUME NEW T, NEW s \in Seq(T), NEW u \in Seq(T), NEW e \in T
  PROVE  s \o Append(u, e) = Append(s \o u, e)
<1>1. Append(u, e) = u \o <<e>> /\ <<e>> \in Seq(T) /\ s \o u \in Seq(T)
  BY AppendIsConcat, ConcatProperties
<1>2. Append(s \o u, e) = (s \o u) \o <<e>>
  BY <1>1, AppendIsConcat
<1> QED  BY <1>1, <1>2, ConcatAssociative

\* Append and Tail of a concatenation.
LEMMA ConcatTail ==
  ASSUME NEW T, NEW s \in Seq(T), s # << >>, NEW u \in Seq(T)
  PROVE  Tail(s) \o u = Tail(s \o u) /\ Head(s \o u) = Head(s) /\ s \o u # << >>
<1> DEFINE v == s \o u
<1>1. /\ v \in Seq(T) /\ Len(v) = Len(s) + Len(u) /\ Len(s) \in Nat /\ Len(s) > 0 /\ Len(u) \in Nat
      /\ \A j \in 1 .. (Len(s) + Len(u)) : v[j] = IF j <= Len(s) THEN s[j] ELSE u[j - Len(s)]
  BY ConcatProperties
<1> HIDE DEF v
<1>2. v # << >> /\ Head(v) = v[1] /\ Head(s) = s[1] /\ v[1] = s[1]
  BY <1>1
<1>3. /\ Tail(s) \in Seq(T) /\ Len(Tail(s)) = Len(s) - 1 /\ \A j \in 1 .. (Len(s) - 1) : Tail(s)[j] = s[j + 1]
      /\ Tail(v) \in Seq(T) /\ Len(Tail(v)) = Len(v) - 1 /\ \A j \in 1 .. (Len(v) - 1) : Tail(v)[j] = v[j + 1]
  BY <1>1, <1>2, HeadTailProperties
<1> DEFINE w == Tail(s) \o u
           x == Tail(v)
           y == Tail(s)
<1>4. /\ w \in Seq(T) /\ Len(w) = Len(y) + Len(u)
      /\ \A j \in 1 .. (Len(y) + Len(u)) : w[j] = IF j <= Len(y) THEN y[j] ELSE u[j - Len(y)]
  BY <1>3, ConcatProperties
<1>5. /\ y \in Seq(T) /\ Len(y) = Len(s) - 1 /\ \A j \in 1 .. (Len(s) - 1) : y[j] = s[j + 1]
      /\ x \in Seq(T) /\ Len(x) = Len(v) - 1 /\ \A j \in 1 .. (Len(v) - 1) : x[j] = v[j + 1]
  BY <1>3
<1> HIDE DEF w, x, y
<1>6. ASSUME NEW j \in 1 .. Len(w)  PROVE w[j] = x[j]
  <2>1. Len(w) = Len(s) - 1 + Len(u) /\ Len(x) = Len(s) - 1 + Len(u)
    BY <1>1, <1>4, <1>5
  <2>2. j \in 1 .. (Len(v) - 1) /\ j + 1 \in 1 .. (Len(s) + Len(u)) /\ j \in 1 .. (Len(y) + Len(u))
    BY <1>1, <1>5, <2>1
  <2>3. x[j] = v[j + 1] /\ v[j + 1] = IF j + 1 <= Len(s) THEN s[j + 1] ELSE u[j + 1 - Len(s)]
    BY <1>1, <1>5, <2>2
  <2>4. w[j] = IF j <= Len(y) THEN y[j] ELSE u[j - Len(y)]
    BY <1>4, <2>2
  <2>5. CASE j <= Len(y)
    BY <1>1, <1>5, <2>2, <2>3, <2>4, <2>5
  <2>6. CASE j > Len(y)
    <3>1. j - Len(y) = j + 1 - Len(s) /\ ~(j + 1 <= Len(s)) /\ ~(j <= Len(y))
      BY <1>1, <1>5, <2>2, <2>6
    <3> QED  BY <2>3, <2>4, <3>1
  <2> QED  BY <1>1, <1>5, <2>2, <2>5, <2>6
<1>7. w = x
  <2>1. Len(w) = Len(x)
    BY <1>1, <1>4, <1>5
  <2> QED  BY <1>4, <1>5, <1>6, <2>1, SeqEqual, Zenon
<1> QED  BY <1>2, <1>7 DEF w, x, v

\* The first functor is taken out.
LEMMA SrvLineTail ==
  ASSUME NEW s, SrvLine(s), s # << >>
  PROVE  /\ SrvLine(Tail(s)) /\ Head(s) \in Range(s) /\ Head(s) \in SrvFunctors
         /\ Range(Tail(s)) = Range(s) \ {Head(s)}
         /\ Head(s)[1] = "destroyed" => <<"established", Head(s)[2]>> \notin Range(s)
<1> DEFINE t == Tail(s)
           f == Head(s)
<1>1. s \in Seq(SrvFunctors)
  BY DEF SrvLine
<1>2. /\ DOMAIN t = 1 .. (Len(s) - 1) /\ DOMAIN s = 1 .. Len(s) /\ Len(s) \in Nat /\ Len(s) > 0
      /\ \A j \in 1 .. (Len(s) - 1) : t[j] = s[j + 1]
      /\ s[1] = f /\ f \in SrvFunctors /\ t \in Seq(SrvFunctors)
  BY <1>1, HeadTailProperties
<1> HIDE DEF t, f
<1>3. \A j, k \in DOMAIN s : s[j] = s[k] => j = k
  BY DEF SrvLine
<1>4. \A j, k \in DOMAIN s : s[j][1] = "destroyed" /\ s[k] = <<"established", s[j][2]>> => k < j
  BY DEF SrvLine
<1>5. SrvLine(t)
  <2>0. \A j \in DOMAIN t : j \in Int /\ j + 1 \in DOMAIN s /\ t[j] = s[j + 1]
    BY <1>2
  <2>1. ASSUME NEW j \in DOMAIN t, NEW k \in DOMAIN t, t[j] = t[k]  PROVE j = k
    <3>1. s[j + 1] = s[k + 1] /\ j + 1 \in DOMAIN s /\ k + 1 \in DOMAIN s
      BY <2>0, <2>1, Zenon
    <3>2. j + 1 = k + 1
      BY <1>3, <3>1, Zenon
    <3> QED  BY <2>0, <3>2
  <2>2. ASSUME NEW j \in DOMAIN t, NEW k \in DOMAIN t, t[j][1] = "destroyed", t[k] = <<"established", t[j][2]>>
        PROVE  k < j
    <3>1. s[j + 1][1] = "destroyed" /\ s[k + 1] = <<"established", s[j + 1][2]>>
          /\ j + 1 \in DOMAIN s /\ k + 1 \in DOMAIN s
      BY <2>0, <2>2, Zenon
    <3>2. k + 1 < j + 1
      BY <1>4, <3>1, Zenon
    <3> QED  BY <2>0, <3>2
  <2> QED  BY <1>2, <2>1, <2>2 DEF SrvLine
<1>6. Range(t) = Range(s) \ {f}
  <2>1. ASSUME NEW x \in Range(t)  PROVE x \in Range(s) \ {f}
    <3>1. PICK j \in DOMAIN t : x = t[j]
      BY DEF Range
    <3>2. j + 1 \in DOMAIN s /\ x = s[j + 1] /\ j + 1 # 1 /\ 1 \in DOMAIN s
      BY <1>2, <3>1
    <3> QED  BY <1>2, <1>3, <3>2 DEF Range
  <2>2. ASSUME NEW x \in Range(s) \ {f}  PROVE x \in Range(t)
    <3>1. PICK j \in DOMAIN s : x = s[j]
      BY DEF Range
    <3>2. j - 1 \in DOMAIN t /\ x = t[j - 1]
      BY <1>2, <2>2, <3>1
    <3> QED  BY <3>2 DEF Range
  <2> QED  BY <2>1, <2>2
<1>7. f \in Range(s)
  BY <1>2 DEF Range
<1>8. f[1] = "destroyed" => <<"established", f[2]>> \notin Range(s)
  <2> SUFFICES ASSUME f[1] = "destroyed", NEW k \in DOMAIN s, s[k] = <<"established", f[2]>>  PROVE FALSE
    BY DEF Range
  <2>0. 1 \in DOMAIN s /\ s[1][1] = "destroyed" /\ s[k] = <<"established", s[1][2]>>
    BY <1>2
  <2>1. k < 1
    BY <1>4, <2>0, Zenon
  <2> QED  BY <1>2, <2>1
<1> QED  BY <1>2, <1>5, <1>6, <1>7, <1>8 DEF t, f

\* The destructor queues connectDestroyed for several connections.
LEMMA SrvLineConcat ==
  ASSUME NEW s, SrvLine(s), NEW t \in Seq(SrvFunctors), \A j, k \in DOMAIN t : t[j] = t[k] => j = k,
         \A f \in Range(t) : f[1] = "destroyed" /\ f \notin Range(s)
  PROVE  SrvLine(s \o t) /\ Range(s \o t) = Range(s) \cup Range(t)
<1> DEFINE u == s \o t
<1>1. s \in Seq(SrvFunctors)
  BY DEF SrvLine
<1>2. /\ DOMAIN u = 1 .. (Len(s) + Len(t)) /\ DOMAIN s = 1 .. Len(s) /\ DOMAIN t = 1 .. Len(t)
      /\ Len(s) \in Nat /\ Len(t) \in Nat /\ u \in Seq(SrvFunctors)
      /\ \A j \in 1 .. (Len(s) + Len(t)) : u[j] = IF j <= Len(s) THEN s[j] ELSE t[j - Len(s)]
  BY <1>1
<1> HIDE DEF u
<1>3. \A j \in DOMAIN s, k \in DOMAIN t : s[j] # t[k]
  BY DEF Range
<1>4. \A j, k \in DOMAIN s : s[j] = s[k] => j = k
  BY DEF SrvLine
<1>5. \A j, k \in DOMAIN s : s[j][1] = "destroyed" /\ s[k] = <<"established", s[j][2]>> => k < j
  BY DEF SrvLine
<1>6. \A k \in DOMAIN t : t[k][1] = "destroyed"
  BY DEF Range
<1>7. \A j \in DOMAIN u : \/ j \in DOMAIN s /\ u[j] = s[j]
                          \/ j - Len(s) \in DOMAIN t /\ j > Len(s) /\ u[j] = t[j - Len(s)]
  BY <1>2
<1>8. \A j, k \in DOMAIN u : u[j] = u[k] => j = k
  <2> SUFFICES ASSUME NEW j \in DOMAIN u, NEW k \in DOMAIN u, u[j] = u[k]  PROVE j = k
    OBVIOUS
  <2>1. CASE j \in DOMAIN s /\ u[j] = s[j]
    <3>1. \/ k \in DOMAIN s /\ u[k] = s[k]
          \/ k - Len(s) \in DOMAIN t /\ u[k] = t[k - Len(s)]
      BY <1>7, Zenon
    <3> QED  BY <1>3, <1>4, <2>1, <3>1, Zenon
  <2>2. CASE j - Len(s) \in DOMAIN t /\ j > Len(s) /\ u[j] = t[j - Len(s)]
    <3>1. k - Len(s) \in DOMAIN t /\ u[k] = t[k - Len(s)]
      <4>1. \/ k \in DOMAIN s /\ u[k] = s[k]
            \/ k - Len(s) \in DOMAIN t /\ u[k] = t[k - Len(s)]
        BY <1>7, Zenon
      <4> QED  BY <1>3, <2>2, <4>1, Zenon
    <3>2. j - Len(s) = k - Len(s)
      BY <2>2, <3>1, Zenon
    <3> QED  BY <1>2, <3>2
  <2> QED  BY <1>7, <2>1, <2>2
<1>9. \A j, k \in DOMAIN u : u[j][1] = "destroyed" /\ u[k] = <<"established", u[j][2]>> => k < j
  <2> SUFFICES ASSUME NEW j \in DOMAIN u, NEW k \in DOMAIN u,
                      u[j][1] = "destroyed", u[k] = <<"established", u[j][2]>>
               PROVE  k < j
    OBVIOUS
  <2>1. u[k][1] # "destroyed"
    OBVIOUS
  <2>2. k \in DOMAIN s /\ u[k] = s[k]
    BY <1>6, <1>7, <2>1
  <2>3. CASE j \in DOMAIN s /\ u[j] = s[j]
    BY <1>5, <2>2, <2>3
  <2>4. CASE j > Len(s)
    BY <1>2, <2>2, <2>4
  <2> QED  BY <1>7, <2>3, <2>4
<1>10. Range(u) = Range(s) \cup Range(t)
  <2>1. \A x \in Range(u) : x \in Range(s) \cup Range(t)
    BY <1>7 DEF Range
  <2>2. \A j \in DOMAIN s : j \in DOMAIN u /\ u[j] = s[j]
    BY <1>2
  <2>3. \A k \in DOMAIN t : k + Len(s) \in DOMAIN u /\ u[k + Len(s)] = t[k]
    BY <1>2
  <2>4. \A x \in Range(s) \cup Range(t) : x \in Range(u)
    BY <2>2, <2>3 DEF Range
  <2> QED  BY <2>1, <2>4
<1> QED  BY <1>2, <1>8, <1>9, <1>10, Zenon DEF SrvLine, u

-----------------------------------------------------------------------------
\* A function changed in one place, functors gained and lost by one loop.
SrvSetTo(g, h, x, v) == h = [g EXCEPT ![x] = v]
SrvGains(R, R2, l, f) == R2 = [R EXCEPT ![l] = @ \cup {f}]
SrvLoses(R, R2, l, f) == R2 = [R EXCEPT ![l] = @ \ {f}]
SrvLacks(M, M2, i) == M2 = M \ {i}
SrvIsOf(f, kind, i) == f[1] = kind /\ f[2] = i

\* Connection i closed, or is about to, and its removal waits nowhere.
SrvRemovable(conn, R, i) == conn[i] \in {"up", "closing"} /\ \A l \in SrvLoops : <<"remove", i>> \notin R[l]

\* A functor other than connectDestroyed is gone from the loops.
LEMMA SrvBookLess ==
  ASSUME NEW made, NEW home, NEW conn, NEW map, NEW mode, NEW R, SrvBook(made, home, conn, map, mode, R),
         NEW R2 \in [SrvLoops -> SUBSET SrvFunctors],
         \A l \in SrvLoops : R2[l] \subseteq R[l] /\ \A f \in R[l] \ R2[l] : f[1] # "destroyed"
  PROVE  SrvBook(made, home, conn, map, mode, R2)
<1>1. SrvShapes(made, home, conn, map, mode, R) /\ SrvLists(made, home, conn, map, mode)
      /\ SrvTokens(home, conn, map, mode, R)
  BY DEF SrvBook
<1>2. SrvShapes(made, home, conn, map, mode, R2)
  BY <1>1 DEF SrvShapes
<1>3. \A l \in SrvLoops : \A f \in R2[l] : f \in R[l]
  OBVIOUS
<1>4. \A i \in SrvIds : home[i] \in SrvLoops /\ (<<"destroyed", i>> \in R[home[i]] => <<"destroyed", i>> \in R2[home[i]])
  BY <1>1 DEF SrvShapes
<1>5. SrvTokens(home, conn, map, mode, R2)
  BY <1>1, <1>3, <1>4, Zenon DEF SrvTokens
<1> QED  BY <1>1, <1>2, <1>5 DEF SrvBook

\* start() queues listen.
LEMMA SrvBookListen ==
  ASSUME NEW made, NEW home, NEW conn, NEW map, NEW mode, NEW R, SrvBook(made, home, conn, map, mode, R),
         NEW R2, SrvGains(R, R2, 0, <<"listen", 0>>), 0 \in SrvLoops
  PROVE  SrvBook(made, home, conn, map, mode, R2)
<1> USE DEF SrvGains
<1>1. SrvShapes(made, home, conn, map, mode, R) /\ SrvLists(made, home, conn, map, mode)
      /\ SrvTokens(home, conn, map, mode, R)
  BY DEF SrvBook
<1>2. SrvShapes(made, home, conn, map, mode, R2)
  BY <1>1 DEF SrvShapes, SrvFunctors
<1>3. \A l \in SrvLoops : \A f \in R2[l] : f \in R[l] \/ (l = 0 /\ f = <<"listen", 0>>)
  BY <1>1 DEF SrvShapes
<1>4. \A l \in SrvLoops : R[l] \subseteq R2[l]
  BY <1>1 DEF SrvShapes
<1>5. \A i \in SrvIds : home[i] \in SrvLoops
  BY <1>1 DEF SrvShapes
<1>6. <<"listen", 0>>[1] = "listen" /\ <<"listen", 0>>[2] = 0
  OBVIOUS
<1>7. SrvTokens(home, conn, map, mode, R2)
  BY <1>1, <1>3, <1>4, <1>5, <1>6 DEF SrvTokens
<1> QED  BY <1>1, <1>2, <1>7 DEF SrvBook

\* newConnection with its loop's connectEstablished queued, or run at once in the base loop.
SrvMakes(made, home, conn, map, R, i, l, home2, conn2, map2, R2) ==
  /\ made < SrvConns /\ SrvConns \in Nat /\ i = made + 1 /\ l \in SrvLoops
  /\ conn2 = [conn EXCEPT ![i] = IF l = 0 THEN "up" ELSE "queued"]
  /\ home2 = [home EXCEPT ![i] = l] /\ map2 = map \cup {i}
  /\ R2 = IF l = 0 THEN R ELSE [R EXCEPT ![l] = @ \cup {<<"established", i>>}]

\* It is in the server's map, and no functor of it waits elsewhere.
LEMMA SrvBookNew ==
  ASSUME NEW made, NEW home, NEW conn, NEW map, NEW R, SrvBook(made, home, conn, map, "alive", R),
         NEW i, NEW l, NEW home2, NEW conn2, NEW map2, NEW R2,
         SrvMakes(made, home, conn, map, R, i, l, home2, conn2, map2, R2)
  PROVE  /\ SrvBook(i, home2, conn2, map2, "alive", R2)
         /\ i \in SrvIds /\ \A m \in SrvLoops : <<"established", i>> \notin R[m] /\ <<"destroyed", i>> \notin R[m]
<1> USE DEF SrvMakes
<1>1. SrvShapes(made, home, conn, map, "alive", R) /\ SrvLists(made, home, conn, map, "alive")
      /\ SrvTokens(home, conn, map, "alive", R)
  BY DEF SrvBook
<1>2. i \in SrvIds /\ made \in Nat
  BY <1>1 DEF SrvShapes, SrvIds
<1>3. conn[i] = "none" /\ i \notin map
  BY <1>1, <1>2 DEF SrvLists, SrvIds, SrvListed
<1>4. \A m \in SrvLoops : \A f \in R[m] : f[1] # "listen" => f[2] \in SrvIds /\ f[2] # i
  <2>1. \A m \in SrvLoops : \A f \in R[m] : f[1] \in {"listen", "established", "remove", "destroyed"}
    BY <1>1 DEF SrvShapes, SrvFunctors
  <2> QED  BY <1>1, <1>3, <2>1 DEF SrvTokens, SrvListed
<1>5. /\ \A j \in SrvIds : home2[j] = IF j = i THEN l ELSE home[j]
      /\ \A j \in SrvIds : conn2[j] = IF j = i THEN IF l = 0 THEN "up" ELSE "queued" ELSE conn[j]
  BY <1>1 DEF SrvShapes
<1>6. SrvShapes(i, home2, conn2, map2, "alive", R2)
  <2>1. R2 \in [SrvLoops -> SUBSET SrvFunctors]
    BY <1>1, <1>2 DEF SrvShapes, SrvFunctors
  <2>2. conn2 \in [SrvIds -> SrvStates] /\ home2 \in [SrvIds -> SrvLoops] /\ map2 \in SUBSET SrvIds
    BY <1>1, <1>2 DEF SrvShapes, SrvStates
  <2>3. i \in 0 .. SrvConns
    BY <1>2 DEF SrvIds
  <2> QED  BY <2>1, <2>2, <2>3 DEF SrvShapes
<1>7. SrvLists(i, home2, conn2, map2, "alive")
  <2>1. \A j \in SrvIds : conn2[j] = "none" <=> j > i
    BY <1>1, <1>2, <1>5 DEF SrvLists, SrvIds
  <2>2. \A j \in SrvIds : conn2[j] \in {"queued", "closing"} => home2[j] # 0
    BY <1>1, <1>5 DEF SrvLists
  <2>3. \A j \in SrvIds : j \in map2 <=> conn2[j] \in SrvListed
    BY <1>1, <1>5 DEF SrvLists, SrvListed
  <2> QED  BY <2>1, <2>2, <2>3 DEF SrvLists
<1>8. SrvTokens(home2, conn2, map2, "alive", R2)
  <2>1. \A m \in SrvLoops : \A f \in R2[m] : f \in R[m] \/ (m = l /\ l # 0 /\ f = <<"established", i>>)
    BY <1>1 DEF SrvShapes
  <2>2. \A m \in SrvLoops : R[m] \subseteq R2[m]
    BY <1>1 DEF SrvShapes
  <2>3. conn2[i] = "queued" \/ l = 0
    BY <1>2, <1>5
  <2>4. home2[i] = l
    BY <1>2, <1>5
  <2>5. ASSUME NEW m \in SrvLoops, NEW f \in R2[m]
        PROVE  /\ f[1] = "listen" => m = 0 /\ f[2] = 0
               /\ f[1] # "listen" => f[2] \in SrvIds
               /\ f[1] = "established" => m # 0 /\ home2[f[2]] = m /\ conn2[f[2]] = "queued"
               /\ f[1] = "remove" => m = 0 /\ conn2[f[2]] \in {"closing", "destroyed"} /\ conn2[f[2]] = "closing"
               /\ f[1] = "destroyed" => home2[f[2]] = m /\ f[2] \notin map2
                                        /\ conn2[f[2]] \in SrvListed \cup {"removed"}
    <3>1. CASE f \in R[m]
      <4>1. f[1] # "listen" => f[2] \in SrvIds /\ conn2[f[2]] = conn[f[2]] /\ home2[f[2]] = home[f[2]]
                               /\ (f[2] \in map2 => f[2] \in map)
        BY <1>4, <1>5, <3>1
      <4> QED  BY <1>1, <3>1, <4>1 DEF SrvTokens
    <3>2. CASE m = l /\ l # 0 /\ f = <<"established", i>>
      BY <1>2, <2>3, <2>4, <3>2
    <3> QED  BY <2>1, <3>1, <3>2
  <2>6. ASSUME NEW j \in SrvIds, conn2[j] \in SrvListed \cup {"removed"}, j \notin map2
        PROVE  <<"destroyed", j>> \in R2[home2[j]]
    <3>1. j # i /\ conn2[j] = conn[j] /\ home2[j] = home[j] /\ j \notin map /\ home[j] \in SrvLoops
      BY <1>1, <1>5, <2>6 DEF SrvShapes
    <3>2. <<"destroyed", j>> \in R[home[j]]
      BY <1>1, <2>6, <3>1 DEF SrvTokens
    <3> QED  BY <2>2, <3>1, <3>2
  <2> QED  BY <2>5, <2>6 DEF SrvTokens
<1>9. \A m \in SrvLoops : <<"established", i>> \notin R[m] /\ <<"destroyed", i>> \notin R[m]
  <2>1. <<"established", i>>[1] # "listen" /\ <<"established", i>>[2] = i
        /\ <<"destroyed", i>>[1] # "listen" /\ <<"destroyed", i>>[2] = i
    OBVIOUS
  <2> QED  BY <1>4, <2>1, Zenon
<1> QED  BY <1>2, <1>6, <1>7, <1>8, <1>9 DEF SrvBook

\* What does not concern connection i is as before.
SrvOthersSame(i, conn, map, R, conn2, map2, R2) ==
  /\ i \in SrvIds /\ R2 \in [SrvLoops -> SUBSET SrvFunctors]
  /\ \A j \in SrvIds \ {i} : conn2[j] = conn[j] /\ (j \in map2 <=> j \in map)
  /\ \A l \in SrvLoops : \A f \in SrvFunctors : f[2] # i \/ f[1] = "listen" => (f \in R2[l] <=> f \in R[l])

\* The functors of connection i agree with its state.
SrvPlaced(i, home, conn, map, mode, R) ==
  /\ \A l \in SrvLoops :
       /\ <<"established", i>> \in R[l] => l # 0 /\ home[i] = l /\ conn[i] = "queued"
       /\ <<"remove", i>> \in R[l] => l = 0 /\ conn[i] \in {"closing", "destroyed"} /\ (mode = "alive" => conn[i] = "closing")
       /\ <<"destroyed", i>> \in R[l] => home[i] = l /\ i \notin map /\ conn[i] \in SrvListed \cup {"removed"}
  /\ conn[i] \in SrvListed \cup {"removed"} /\ i \notin map => <<"destroyed", i>> \in R[home[i]]

\* So a step of connection i needs to be looked at for i only.
LEMMA SrvTokensMove ==
  ASSUME NEW home, NEW conn, NEW map, NEW mode, NEW R, SrvTokens(home, conn, map, mode, R),
         R \in [SrvLoops -> SUBSET SrvFunctors], home \in [SrvIds -> SrvLoops],
         NEW i, NEW conn2, NEW map2, NEW R2, SrvOthersSame(i, conn, map, R, conn2, map2, R2),
         SrvPlaced(i, home, conn2, map2, mode, R2)
  PROVE  SrvTokens(home, conn2, map2, mode, R2)
<1>a. i \in SrvIds /\ R2 \in [SrvLoops -> SUBSET SrvFunctors]
  BY DEF SrvOthersSame
<1>b. \A j \in SrvIds \ {i} : conn2[j] = conn[j] /\ (j \in map2 <=> j \in map)
  BY DEF SrvOthersSame
<1>c. \A l \in SrvLoops : \A f \in SrvFunctors : f[2] # i \/ f[1] = "listen" => (f \in R2[l] <=> f \in R[l])
  BY DEF SrvOthersSame
<1> USE <1>a, <1>b
<1>1. ASSUME NEW m \in SrvLoops, NEW f \in R2[m]
      PROVE  /\ f[1] = "listen" => m = 0 /\ f[2] = 0
             /\ f[1] # "listen" => f[2] \in SrvIds
             /\ f[1] = "established" => m # 0 /\ home[f[2]] = m /\ conn2[f[2]] = "queued"
             /\ f[1] = "remove" => /\ m = 0 /\ conn2[f[2]] \in {"closing", "destroyed"}
                                   /\ mode = "alive" => conn2[f[2]] = "closing"
             /\ f[1] = "destroyed" => home[f[2]] = m /\ f[2] \notin map2 /\ conn2[f[2]] \in SrvListed \cup {"removed"}
  <2>1. f \in SrvFunctors /\ f = <<f[1], f[2]>> /\ f[1] \in {"listen", "established", "remove", "destroyed"}
    BY <1>1 DEF SrvFunctors
  <2>2. CASE f[2] # i \/ f[1] = "listen"
    <3>1. f \in R[m]
      BY <1>1, <1>c, <2>1, <2>2, Zenon
    <3>2. f[1] # "listen" => f[2] \in SrvIds \ {i}
      BY <2>2, <3>1 DEF SrvTokens
    <3> QED  BY <3>1, <3>2 DEF SrvTokens
  <2>3. CASE f[2] = i /\ f[1] # "listen"
    <3>1. f = <<f[1], i>>
      BY <2>1, <2>3
    <3> QED  BY <1>1, <2>1, <2>3, <3>1 DEF SrvPlaced
  <2> QED  BY <2>2, <2>3
<1>2. ASSUME NEW j \in SrvIds, conn2[j] \in SrvListed \cup {"removed"}, j \notin map2
      PROVE  <<"destroyed", j>> \in R2[home[j]]
  <2>1. CASE j = i
    BY <1>2, <2>1 DEF SrvPlaced
  <2>2. CASE j # i
    <3>1. conn[j] \in SrvListed \cup {"removed"} /\ j \notin map /\ home[j] \in SrvLoops
      BY <1>2, <2>2
    <3>2. <<"destroyed", j>> \in R[home[j]]
      BY <3>1 DEF SrvTokens
    <3>3. <<"destroyed", j>> \in SrvFunctors /\ <<"destroyed", j>>[2] # i
      BY <2>2 DEF SrvFunctors, SrvIds
    <3> QED  BY <1>c, <3>1, <3>2, <3>3, Zenon
  <2> QED  BY <2>1, <2>2
<1> QED  BY <1>1, <1>2 DEF SrvTokens

\* connectEstablished.
LEMMA SrvBookEstablish ==
  ASSUME NEW made, NEW home, NEW conn, NEW map, NEW mode, NEW R, SrvBook(made, home, conn, map, mode, R),
         NEW l \in SrvLoops, NEW f \in R[l], NEW i, SrvIsOf(f, "established", i),
         NEW conn2, SrvSetTo(conn, conn2, i, "up"), NEW R2, SrvLoses(R, R2, l, f)
  PROVE  SrvBook(made, home, conn2, map, mode, R2) /\ i \in SrvIds /\ conn[i] = "queued"
<1> USE DEF SrvLoses, SrvSetTo, SrvIsOf
<1>1. SrvShapes(made, home, conn, map, mode, R) /\ SrvLists(made, home, conn, map, mode)
      /\ SrvTokens(home, conn, map, mode, R)
  BY DEF SrvBook
<1>2. i \in SrvIds /\ l # 0 /\ home[i] = l /\ conn[i] = "queued"
  BY <1>1 DEF SrvTokens
<1>3. f = <<"established", i>>
  BY <1>1 DEF SrvShapes, SrvFunctors
<1>4. /\ conn2 \in [SrvIds -> SrvStates] /\ conn2[i] = "up" /\ \A j \in SrvIds \ {i} : conn2[j] = conn[j]
      /\ R2 \in [SrvLoops -> SUBSET SrvFunctors]
      /\ \A m \in SrvLoops : R2[m] = IF m = l THEN R[m] \ {f} ELSE R[m]
  BY <1>1, <1>2 DEF SrvShapes, SrvStates
<1>5. SrvShapes(made, home, conn2, map, mode, R2)
  BY <1>1, <1>4 DEF SrvShapes
<1>6. SrvLists(made, home, conn2, map, mode)
  BY <1>1, <1>2, <1>4 DEF SrvLists, SrvListed
<1>7. SrvTokens(home, conn2, map, mode, R2)
  <2>1. \A m \in SrvLoops : \A g \in SrvFunctors : g[2] # i \/ g[1] = "listen" => (g \in R2[m] <=> g \in R[m])
    BY <1>3, <1>4
  <2>2. \A m \in SrvLoops : <<"established", i>> \notin R2[m]
    <3>1. \A m \in SrvLoops : <<"established", i>> \in R[m] => m = l
      BY <1>1, <1>2 DEF SrvTokens
    <3> QED  BY <1>3, <1>4, <3>1
  <2>3. \A m \in SrvLoops : <<"remove", i>> \notin R2[m]
    <3>1. \A m \in SrvLoops : <<"remove", i>> \notin R[m]
      BY <1>1, <1>2 DEF SrvTokens
    <3> QED  BY <1>4, <3>1
  <2>4. \A m \in SrvLoops : <<"destroyed", i>> \in R2[m] <=> <<"destroyed", i>> \in R[m]
    BY <1>3, <1>4
  <2>5. \A m \in SrvLoops : <<"destroyed", i>> \in R[m] => home[i] = m /\ i \notin map
    BY <1>1 DEF SrvTokens
  <2>6. i \notin map => <<"destroyed", i>> \in R[home[i]]
    BY <1>1, <1>2 DEF SrvTokens, SrvListed
  <2>7. R \in [SrvLoops -> SUBSET SrvFunctors] /\ home \in [SrvIds -> SrvLoops]
    BY <1>1 DEF SrvShapes
  <2>8. "up" \in SrvListed \cup {"removed"}
    BY DEF SrvListed
  <2>9. SrvOthersSame(i, conn, map, R, conn2, map, R2)
    BY <1>2, <1>4, <2>1, Zenon DEF SrvOthersSame
  <2>10. SrvPlaced(i, home, conn2, map, mode, R2)
    <3>1. home[i] \in SrvLoops
      BY <1>2
    <3> QED  BY <1>4, <2>2, <2>3, <2>4, <2>5, <2>6, <2>8, <3>1, Zenon DEF SrvPlaced
  <2> QED  BY <1>1, <2>7, <2>9, <2>10, SrvTokensMove, Zenon
<1> QED  BY <1>2, <1>5, <1>6, <1>7 DEF SrvBook

\* handleClose of a connection of the pool: removeConnection goes to the base loop.
LEMMA SrvBookClose ==
  ASSUME NEW made, NEW home, NEW conn, NEW map, NEW mode, NEW R, SrvBook(made, home, conn, map, mode, R),
         NEW i \in SrvIds, conn[i] = "up", home[i] # 0, 0 \in SrvLoops,
         NEW conn2, SrvSetTo(conn, conn2, i, "closing"), NEW R2, SrvGains(R, R2, 0, <<"remove", i>>)
  PROVE  SrvBook(made, home, conn2, map, mode, R2) /\ <<"remove", i>> \notin R[0]
<1> USE DEF SrvGains, SrvSetTo
<1>1. SrvShapes(made, home, conn, map, mode, R) /\ SrvLists(made, home, conn, map, mode)
      /\ SrvTokens(home, conn, map, mode, R)
  BY DEF SrvBook
<1>2. <<"remove", i>> \in SrvFunctors
  BY DEF SrvFunctors, SrvIds
<1>3. /\ conn2 \in [SrvIds -> SrvStates] /\ conn2[i] = "closing" /\ \A j \in SrvIds \ {i} : conn2[j] = conn[j]
      /\ R2 \in [SrvLoops -> SUBSET SrvFunctors]
      /\ \A m \in SrvLoops : R2[m] = IF m = 0 THEN R[m] \cup {<<"remove", i>>} ELSE R[m]
  BY <1>1, <1>2, Zenon DEF SrvShapes, SrvStates
<1>4. \A m \in SrvLoops : <<"remove", i>> \notin R[m] /\ <<"established", i>> \notin R[m]
  BY <1>1 DEF SrvTokens
<1>5. SrvShapes(made, home, conn2, map, mode, R2)
  BY <1>1, <1>3 DEF SrvShapes
<1>6. SrvLists(made, home, conn2, map, mode)
  BY <1>1, <1>3 DEF SrvLists, SrvListed
<1>7. SrvTokens(home, conn2, map, mode, R2)
  <2>1. \A m \in SrvLoops : \A g \in SrvFunctors : g[2] # i \/ g[1] = "listen" => (g \in R2[m] <=> g \in R[m])
    BY <1>3
  <2>2. SrvOthersSame(i, conn, map, R, conn2, map, R2)
    BY <1>3, <2>1, Zenon DEF SrvOthersSame
  <2>3. \A m \in SrvLoops : /\ <<"established", i>> \notin R2[m]
                            /\ <<"remove", i>> \in R2[m] => m = 0
                            /\ <<"destroyed", i>> \in R2[m] <=> <<"destroyed", i>> \in R[m]
    BY <1>3, <1>4
  <2>4. \A m \in SrvLoops : <<"destroyed", i>> \in R[m] => home[i] = m /\ i \notin map
    BY <1>1 DEF SrvTokens
  <2>5. i \notin map => <<"destroyed", i>> \in R[home[i]]
    BY <1>1 DEF SrvTokens, SrvListed
  <2>6. R \in [SrvLoops -> SUBSET SrvFunctors] /\ home \in [SrvIds -> SrvLoops] /\ home[i] \in SrvLoops
    BY <1>1 DEF SrvShapes
  <2>7. "closing" \in SrvListed \cup {"removed"} /\ "closing" \in {"closing", "destroyed"}
    BY DEF SrvListed
  <2>8. SrvPlaced(i, home, conn2, map, mode, R2)
    BY <1>3, <2>3, <2>4, <2>5, <2>6, <2>7, Zenon DEF SrvPlaced
  <2> QED  BY <1>1, <2>2, <2>6, <2>8, SrvTokensMove, Zenon
<1> QED  BY <1>4, <1>5, <1>6, <1>7 DEF SrvBook

\* removeConnectionInLoop.
LEMMA SrvBookRemove ==
  ASSUME NEW made, NEW home, NEW conn, NEW map, NEW R, SrvBook(made, home, conn, map, "alive", R),
         NEW i \in SrvIds, SrvRemovable(conn, R, i),
         NEW conn2, SrvSetTo(conn, conn2, i, "removed"), NEW map2, SrvLacks(map, map2, i),
         NEW R2, SrvGains(R, R2, home[i], <<"destroyed", i>>)
  PROVE  /\ SrvBook(made, home, conn2, map2, "alive", R2) /\ i \in map
         /\ <<"destroyed", i>> \notin R[home[i]]
<1> DEFINE l == home[i]
<1> USE DEF SrvGains, SrvSetTo, SrvLacks, SrvRemovable
<1>1. SrvShapes(made, home, conn, map, "alive", R) /\ SrvLists(made, home, conn, map, "alive")
      /\ SrvTokens(home, conn, map, "alive", R)
  BY DEF SrvBook
<1>2. <<"destroyed", i>> \in SrvFunctors /\ l \in SrvLoops /\ i \in map
  BY <1>1 DEF SrvFunctors, SrvIds, SrvShapes, SrvLists, SrvListed
<1>3. /\ conn2 \in [SrvIds -> SrvStates] /\ conn2[i] = "removed" /\ \A j \in SrvIds \ {i} : conn2[j] = conn[j]
      /\ R2 \in [SrvLoops -> SUBSET SrvFunctors]
      /\ \A m \in SrvLoops : R2[m] = IF m = l THEN R[m] \cup {<<"destroyed", i>>} ELSE R[m]
  BY <1>1, <1>2, Zenon DEF SrvShapes, SrvStates
<1>4. \A m \in SrvLoops : <<"destroyed", i>> \notin R[m] /\ <<"established", i>> \notin R[m]
  BY <1>1, <1>2 DEF SrvTokens
<1>5. SrvShapes(made, home, conn2, map2, "alive", R2)
  BY <1>1, <1>3 DEF SrvShapes
<1>6. SrvLists(made, home, conn2, map2, "alive")
  BY <1>1, <1>3 DEF SrvLists, SrvListed
<1>7. SrvTokens(home, conn2, map2, "alive", R2)
  <2>1. \A m \in SrvLoops : \A g \in SrvFunctors : g[2] # i \/ g[1] = "listen" => (g \in R2[m] <=> g \in R[m])
    BY <1>3
  <2>2. SrvOthersSame(i, conn, map, R, conn2, map2, R2)
    BY <1>3, <2>1, Zenon DEF SrvOthersSame
  <2>3. \A m \in SrvLoops : /\ <<"established", i>> \notin R2[m] /\ <<"remove", i>> \notin R2[m]
                            /\ <<"destroyed", i>> \in R2[m] <=> m = l
    BY <1>3, <1>4
  <2>4. R \in [SrvLoops -> SUBSET SrvFunctors] /\ home \in [SrvIds -> SrvLoops]
    BY <1>1 DEF SrvShapes
  <2>5. SrvPlaced(i, home, conn2, map2, "alive", R2)
    BY <1>2, <1>3, <2>3, Zenon DEF SrvPlaced
  <2> QED  BY <1>1, <2>2, <2>4, <2>5, SrvTokensMove, Zenon
<1> QED  BY <1>2, <1>4, <1>5, <1>6, <1>7 DEF SrvBook

\* connectDestroyed.
LEMMA SrvBookDestroy ==
  ASSUME NEW made, NEW home, NEW conn, NEW map, NEW mode, NEW R, SrvBook(made, home, conn, map, mode, R),
         NEW l \in SrvLoops, NEW f \in R[l], NEW i, SrvIsOf(f, "destroyed", i), <<"established", i>> \notin R[l],
         NEW conn2, SrvSetTo(conn, conn2, i, "destroyed"), NEW R2, SrvLoses(R, R2, l, f)
  PROVE  SrvBook(made, home, conn2, map, mode, R2) /\ i \in SrvIds /\ conn[i] # "destroyed"
<1> USE DEF SrvLoses, SrvSetTo, SrvIsOf
<1>1. SrvShapes(made, home, conn, map, mode, R) /\ SrvLists(made, home, conn, map, mode)
      /\ SrvTokens(home, conn, map, mode, R)
  BY DEF SrvBook
<1>2. i \in SrvIds /\ home[i] = l /\ i \notin map /\ conn[i] \in {"queued", "up", "closing", "removed"}
  BY <1>1 DEF SrvTokens, SrvListed
<1>3. f = <<"destroyed", i>>
  BY <1>1 DEF SrvShapes, SrvFunctors
<1>4. /\ conn2 \in [SrvIds -> SrvStates] /\ conn2[i] = "destroyed" /\ \A j \in SrvIds \ {i} : conn2[j] = conn[j]
      /\ R2 \in [SrvLoops -> SUBSET SrvFunctors]
      /\ \A m \in SrvLoops : R2[m] = IF m = l THEN R[m] \ {f} ELSE R[m]
  BY <1>1, <1>2, Zenon DEF SrvShapes, SrvStates
<1>5. SrvShapes(made, home, conn2, map, mode, R2)
  BY <1>1, <1>4 DEF SrvShapes
<1>6. SrvLists(made, home, conn2, map, mode)
  BY <1>1, <1>2, <1>4 DEF SrvLists, SrvListed
<1>7. SrvTokens(home, conn2, map, mode, R2)
  <2>1. \A m \in SrvLoops : \A g \in SrvFunctors : g[2] # i \/ g[1] = "listen" => (g \in R2[m] <=> g \in R[m])
    BY <1>3, <1>4
  <2>2. SrvOthersSame(i, conn, map, R, conn2, map, R2)
    BY <1>2, <1>4, <2>1, Zenon DEF SrvOthersSame
  <2>3. \A m \in SrvLoops : <<"destroyed", i>> \in R[m] \/ <<"established", i>> \in R[m] => m = l
    BY <1>1, <1>2 DEF SrvTokens
  <2>4. \A m \in SrvLoops : <<"destroyed", i>> \notin R2[m] /\ <<"established", i>> \notin R2[m]
    BY <1>3, <1>4, <2>3
  <2>5. \A m \in SrvLoops : <<"remove", i>> \in R2[m] => m = 0 /\ mode # "alive"
    <3>1. mode = "alive" => conn[i] = "removed"
      BY <1>1, <1>2 DEF SrvLists, SrvListed
    <3>2. \A m \in SrvLoops : <<"remove", i>> \in R[m] => m = 0 /\ (mode = "alive" => conn[i] = "closing")
      BY <1>1 DEF SrvTokens
    <3>3. \A m \in SrvLoops : <<"remove", i>> \in R2[m] => <<"remove", i>> \in R[m]
      BY <1>4
    <3> QED  BY <3>1, <3>2, <3>3
  <2>6. R \in [SrvLoops -> SUBSET SrvFunctors] /\ home \in [SrvIds -> SrvLoops]
    BY <1>1 DEF SrvShapes
  <2>7. "destroyed" \notin SrvListed \cup {"removed"} /\ "destroyed" \in {"closing", "destroyed"}
    BY DEF SrvListed
  <2>8. SrvPlaced(i, home, conn2, map, mode, R2)
    BY <1>4, <2>4, <2>5, <2>7, Zenon DEF SrvPlaced
  <2> QED  BY <1>1, <2>2, <2>6, <2>8, SrvTokensMove, Zenon
<1> QED  BY <1>2, <1>5, <1>6, <1>7 DEF SrvBook

\* ~TcpServer: connectDestroyed of every connection, at once for those of the base loop.
SrvUnmakes(home, conn, map, R, conn2, R2) ==
  /\ conn2 = [i \in SrvIds |-> IF i \in map /\ home[i] = 0 THEN "destroyed" ELSE conn[i]]
  /\ R2 \in [SrvLoops -> SUBSET SrvFunctors]
  /\ \A l \in SrvLoops : R2[l] = IF l = 0 THEN R[l]
                                 ELSE R[l] \cup {<<"destroyed", i>> : i \in {j \in map : home[j] = l}}

\* Each connection in its own loop.
LEMMA SrvBookDestructor ==
  ASSUME NEW made, NEW home, NEW conn, NEW map, NEW R, SrvBook(made, home, conn, map, "alive", R),
         NEW conn2, NEW R2, SrvUnmakes(home, conn, map, R, conn2, R2)
  PROVE  SrvBook(made, home, conn2, {}, "dying", R2)
<1> USE DEF SrvUnmakes
<1>1. SrvShapes(made, home, conn, map, "alive", R) /\ SrvLists(made, home, conn, map, "alive")
      /\ SrvTokens(home, conn, map, "alive", R)
  BY DEF SrvBook
<1>2. \A i \in SrvIds : /\ i \in map <=> conn[i] \in SrvListed
                        /\ home[i] \in SrvLoops
                        /\ conn2[i] = IF i \in map /\ home[i] = 0 THEN "destroyed" ELSE conn[i]
  BY <1>1 DEF SrvLists, SrvShapes
<1>3. SrvShapes(made, home, conn2, {}, "dying", R2)
  <2>1. conn2 \in [SrvIds -> SrvStates]
    BY <1>1 DEF SrvShapes, SrvStates
  <2> QED  BY <1>1, <2>1 DEF SrvShapes
<1>4. SrvLists(made, home, conn2, {}, "dying")
  BY <1>1, <1>2 DEF SrvLists, SrvListed
<1>5. \A l \in SrvLoops : \A f \in R2[l] :
        \/ f \in R[l]
        \/ l # 0 /\ f[1] = "destroyed" /\ f[2] \in map /\ home[f[2]] = l
  OBVIOUS
<1>6. \A l \in SrvLoops : R[l] \subseteq R2[l]
  OBVIOUS
<1>7. ASSUME NEW l \in SrvLoops, NEW f \in R2[l]
      PROVE  /\ f[1] = "listen" => l = 0 /\ f[2] = 0
             /\ f[1] # "listen" => f[2] \in SrvIds
             /\ f[1] = "established" => l # 0 /\ home[f[2]] = l /\ conn2[f[2]] = "queued"
             /\ f[1] = "remove" => l = 0 /\ conn2[f[2]] \in {"closing", "destroyed"}
             /\ f[1] = "destroyed" => home[f[2]] = l /\ conn2[f[2]] \in SrvListed \cup {"removed"}
  <2>1. CASE f \in R[l]
    <3>1. /\ f[1] = "listen" => l = 0 /\ f[2] = 0
          /\ f[1] # "listen" => f[2] \in SrvIds
          /\ f[1] = "established" => l # 0 /\ home[f[2]] = l /\ conn[f[2]] = "queued"
          /\ f[1] = "remove" => l = 0 /\ conn[f[2]] = "closing"
          /\ f[1] = "destroyed" => home[f[2]] = l /\ f[2] \notin map /\ conn[f[2]] \in SrvListed \cup {"removed"}
      BY <1>1, <2>1 DEF SrvTokens
    <3>2. \A i \in SrvIds : conn[i] \in {"queued", "closing"} => home[i] # 0
      BY <1>1 DEF SrvLists
    <3> QED  BY <1>2, <3>1, <3>2
  <2>2. CASE l # 0 /\ f[1] = "destroyed" /\ f[2] \in map /\ home[f[2]] = l
    <3>1. f[2] \in SrvIds
      BY <1>1, <2>2 DEF SrvShapes
    <3> QED  BY <1>2, <2>2, <3>1
  <2> QED  BY <1>5, <2>1, <2>2
<1>8. ASSUME NEW i \in SrvIds, conn2[i] \in SrvListed \cup {"removed"}  PROVE <<"destroyed", i>> \in R2[home[i]]
  <2>1. conn2[i] = conn[i] /\ ~(i \in map /\ home[i] = 0)
    BY <1>2, <1>8 DEF SrvListed
  <2>2. CASE i \in map
    BY <1>2, <2>1, <2>2
  <2>3. CASE i \notin map
    <3>1. <<"destroyed", i>> \in R[home[i]]
      BY <1>1, <1>8, <2>1, <2>3 DEF SrvTokens
    <3> QED  BY <1>2, <1>6, <3>1
  <2> QED  BY <2>2, <2>3
<1>9. SrvTokens(home, conn2, {}, "dying", R2)
  BY <1>7, <1>8 DEF SrvTokens
<1> QED  BY <1>3, <1>4, <1>9 DEF SrvBook

-----------------------------------------------------------------------------
\* SrvOrdered lists a finite set, each element once.
LEMMA SrvOrderedLists ==
  ASSUME NEW T, NEW S, S \subseteq T, IsFiniteSet(S)
  PROVE  /\ SrvOrdered(S) \in Seq(T) /\ Range(SrvOrdered(S)) = S
         /\ \A j, k \in DOMAIN SrvOrdered(S) : SrvOrdered(S)[j] = SrvOrdered(S)[k] => j = k
<1> DEFINE n == Cardinality(S)
           D == 1 .. n
           P(f) == f \in [D -> S] /\ \A j, k \in D : f[j] = f[k] => j = k
           s == SrvOrdered(S)
<1>1. n \in Nat
  BY FS_CardinalityType
<1>2. PICK g : P(g)
  <2>1. ExistsBijection(D, S)
    BY FS_CardinalityType
  <2>2. PICK g \in Bijection(D, S) : TRUE
    BY <2>1 DEF ExistsBijection
  <2> QED  BY <2>2, Zenon DEF Bijection, Injection, IsInjective
<1>3. P(s)
  <2>1. \E f \in [D -> S] : IsInjective(f)
    BY <1>2, Zenon DEF IsInjective
  <2>2. s \in [D -> S] /\ IsInjective(s)
    BY <2>1, Zenon DEF SrvOrdered
  <2> HIDE DEF s
  <2> QED  BY <2>2 DEF IsInjective
<1> HIDE DEF s
<1>4. Range(s) = S
  <2>1. IsFiniteSet(D) /\ Cardinality(D) = n
    BY <1>1, FS_Interval
  <2>2. s \in Injection(D, S)
    BY <1>3 DEF Injection, IsInjective
  <2>3. s \in Surjection(D, S)
    BY <2>1, <2>2, FS_Surjection, FS_Injection
  <2> QED  BY <1>3, <2>3 DEF Surjection, Range
<1>5. s \in Seq(T) /\ DOMAIN s = D
  BY <1>1, <1>3
<1> QED  BY <1>3, <1>4, <1>5 DEF s

\* getNextLoop's counter runs through the pool in turn.
LEMMA TurnAdvances ==
  ASSUME NEW p \in Nat, p # 0, NEW m \in Nat, NEW x, x = m % p
  PROVE  x \in 0 .. (p - 1) /\ (m + 1) % p = IF x + 1 >= p THEN 0 ELSE x + 1
<1> DEFINE k == m \div p
<1>1. x \in 0 .. (p - 1) /\ k \in Nat /\ m = p * k + x
  OBVIOUS
<1> HIDE DEF k
<1>2. \A j \in Nat, y \in 0 .. (p - 1) : (p * j + y) % p = y
  OBVIOUS
<1>3. CASE x + 1 < p
  <2>1. x + 1 \in 0 .. (p - 1)
    BY <1>1, <1>3
  <2>2. p * k \in Nat
    BY <1>1
  <2>3. m + 1 = p * k + (x + 1)
    BY <1>1, <2>2
  <2>4. (p * k + (x + 1)) % p = x + 1
    BY <1>1, <1>2, <2>1, Zenon
  <2> QED  BY <1>1, <1>3, <2>3, <2>4
<1>4. CASE x + 1 >= p
  <2>1. x + 1 = p
    BY <1>1, <1>4
  <2>2. m + 1 = p * (k + 1) + 0 /\ 0 \in 0 .. (p - 1) /\ k + 1 \in Nat
    BY <1>1, <2>1
  <2> QED  BY <1>1, <1>2, <1>4, <2>2, Zenon
<1> QED  BY <1>1, <1>3, <1>4

SrvRecord == [lean : BOOLEAN, pool : SrvPools, started : Nat, listening : Nat, server : {"alive", "dying", "dead"},
              next : Nat, made : Nat, home : [SrvIds -> SrvLoops], conn : [SrvIds -> SrvStates],
              map : SUBSET SrvIds, q : [SrvLoops -> Seq(SrvFunctors)], run : [SrvLoops -> Seq(SrvFunctors)],
              top : [SrvLoops -> {"poll", "run", "done"}], told : Nat, backlog : Int, others : Int,
              spare : BOOLEAN, accepting : {"no", "closed", "dropped"}, stolen : BOOLEAN,
              exited : BOOLEAN, fault : BOOLEAN]

SrvPend(s) == [l \in SrvLoops |-> Range(s.run[l] \o s.q[l])]

SrvBooked(s) == /\ \A l \in SrvLoops : SrvLine(s.run[l] \o s.q[l])
                /\ SrvBook(s.made, s.home, s.conn, s.map, s.server, SrvPend(s))

SrvListens(s) == /\ s.listening \in {0, 1}
                 /\ s.started = 0 => s.listening = 0 /\ <<"listen", 0>> \notin SrvPend(s)[0]
                 /\ <<"listen", 0>> \in SrvPend(s)[0] => s.listening = 0

SrvTurns(s) == /\ s.next = IF s.pool = 0 THEN 0 ELSE s.made % s.pool
               /\ \A i \in 1 .. s.made : s.home[i] = IF s.pool = 0 THEN 0 ELSE ((i - 1) % s.pool) + 1

SrvTops(s) == /\ \A l \in SrvLoops : s.top[l] # "run" => s.run[l] = << >>
              /\ s.told \in 0 .. s.pool
              /\ \A l \in 1 .. s.told : l < s.told => s.top[l] = "done"
              /\ s.server = "dying" => s.top[0] = "poll"
              /\ s.server = "dead" => \A l \in 1 .. s.pool : s.top[l] = "done"

SrvGood(s) == /\ s \in SrvRecord /\ ~s.fault /\ SrvBooked(s)
              /\ SrvListens(s) /\ SrvTurns(s) /\ SrvTops(s)
              /\ (s.accepting = "no" /\ ~s.stolen => s.spare)

-----------------------------------------------------------------------------
\* The fields of a server have their types.
LEMMA SrvFields ==
  ASSUME NEW s \in SrvRecord
  PROVE  /\ s.pool \in SrvPools /\ s.started \in Nat /\ s.listening \in Nat /\ s.next \in Nat /\ s.made \in Nat
         /\ s.server \in {"alive", "dying", "dead"}
         /\ s.home \in [SrvIds -> SrvLoops] /\ s.conn \in [SrvIds -> SrvStates] /\ s.map \in SUBSET SrvIds
         /\ s.q \in [SrvLoops -> Seq(SrvFunctors)] /\ s.run \in [SrvLoops -> Seq(SrvFunctors)]
         /\ s.top \in [SrvLoops -> {"poll", "run", "done"}] /\ s.told \in Nat /\ s.backlog \in Int /\ s.others \in Int
BY DEF SrvRecord

\* The base loop and the pool's loops are loops.
LEMMA SrvLoopsOfPool ==
  /\ 0 \in SrvLoops /\ SrvLoops \subseteq Nat
  /\ \A p \in SrvPools : p \in Nat /\ p \in SrvLoops /\ \A l \in 0 .. p : l \in SrvLoops
<1> DEFINE top == CHOOSE n \in SrvPools : \A m \in SrvPools : m <= n
<1>1. top \in SrvPools /\ (\A m \in SrvPools : m <= top) /\ SrvPools \subseteq Nat
  BY SrvAssumption, Zenon
<1>2. SrvLoops = 0 .. top
  BY DEF SrvLoops
<1> HIDE DEF top
<1> QED  BY <1>1, <1>2

\* What a loop has in hand and queued, when a functor is queued in loop l.
LEMMA SrvPendQueue ==
  ASSUME NEW s \in SrvRecord, \A m \in SrvLoops : SrvLine(s.run[m] \o s.q[m]),
         NEW l \in SrvLoops, NEW f \in SrvFunctors, f \notin SrvPend(s)[l],
         f[1] = "established" => <<"destroyed", f[2]>> \notin SrvPend(s)[l],
         NEW t, t.run = s.run, SrvSetTo(s.q, t.q, l, Append(s.q[l], f))
  PROVE  (\A m \in SrvLoops : SrvLine(t.run[m] \o t.q[m])) /\ SrvGains(SrvPend(s), SrvPend(t), l, f)
<1> USE DEF SrvGains, SrvSetTo
<1>1. s.q \in [SrvLoops -> Seq(SrvFunctors)] /\ s.run \in [SrvLoops -> Seq(SrvFunctors)]
  BY SrvFields
<1>2. t.run[l] \o t.q[l] = Append(s.run[l] \o s.q[l], f)
  <2>1. t.q[l] = Append(s.q[l], f) /\ t.run[l] = s.run[l] /\ s.q[l] \in Seq(SrvFunctors) /\ s.run[l] \in Seq(SrvFunctors)
    BY <1>1
  <2>2. \A a, b \in Seq(SrvFunctors), e \in SrvFunctors : a \o Append(b, e) = Append(a \o b, e)
    BY ConcatAppend
  <2>3. s.run[l] \o Append(s.q[l], f) = Append(s.run[l] \o s.q[l], f)
    BY <2>1, <2>2, Zenon
  <2> QED  BY <2>1, <2>3, Zenon
<1>3. \A m \in SrvLoops \ {l} : t.run[m] \o t.q[m] = s.run[m] \o s.q[m]
  BY <1>1, Zenon
<1>4. SrvPend(s)[l] = Range(s.run[l] \o s.q[l])
  BY DEF SrvPend
<1>5. SrvLine(t.run[l] \o t.q[l]) /\ Range(t.run[l] \o t.q[l]) = SrvPend(s)[l] \cup {f}
  <2> DEFINE u == s.run[l] \o s.q[l]
  <2>1. SrvLine(u) /\ f \notin Range(u) /\ (f[1] = "established" => <<"destroyed", f[2]>> \notin Range(u))
    BY <1>4
  <2> HIDE DEF u
  <2>2. SrvLine(Append(u, f)) /\ Range(Append(u, f)) = Range(u) \cup {f}
    BY <2>1, SrvLineAppend
  <2> QED  BY <1>2, <1>4, <2>2, Zenon DEF u
<1>6. SrvPend(t) = [SrvPend(s) EXCEPT ![l] = @ \cup {f}]
  BY <1>3, <1>5, Zenon DEF SrvPend
<1> QED  BY <1>3, <1>5, <1>6

\* The same, when loop l takes its next functor.
SrvTakes(s, t, l, f) == /\ s.run[l] # << >> /\ f = Head(s.run[l]) /\ t.q = s.q
                        /\ t.run = [s.run EXCEPT ![l] = Tail(s.run[l])]

\* It was the first of its line.
LEMMA SrvPendTake ==
  ASSUME NEW s \in SrvRecord, \A m \in SrvLoops : SrvLine(s.run[m] \o s.q[m]),
         NEW l \in SrvLoops, NEW f, NEW t, SrvTakes(s, t, l, f)
  PROVE  /\ \A m \in SrvLoops : SrvLine(t.run[m] \o t.q[m])
         /\ SrvLoses(SrvPend(s), SrvPend(t), l, f)
         /\ f \in SrvPend(s)[l] /\ f \in SrvFunctors
         /\ f[1] = "destroyed" => <<"established", f[2]>> \notin SrvPend(s)[l]
<1> USE DEF SrvLoses, SrvTakes
<1>1. s.q \in [SrvLoops -> Seq(SrvFunctors)] /\ s.run \in [SrvLoops -> Seq(SrvFunctors)]
  BY SrvFields
<1> DEFINE u == s.run[l] \o s.q[l]
<1>2. t.run[l] \o t.q[l] = Tail(u) /\ f = Head(u) /\ u # << >>
  <2>1. t.q[l] = s.q[l] /\ t.run[l] = Tail(s.run[l]) /\ s.q[l] \in Seq(SrvFunctors) /\ s.run[l] \in Seq(SrvFunctors)
    BY <1>1
  <2>2. \A a, b \in Seq(SrvFunctors) :
          a # << >> => Tail(a) \o b = Tail(a \o b) /\ Head(a \o b) = Head(a) /\ a \o b # << >>
    BY ConcatTail, Zenon
  <2> QED  BY <2>1, <2>2, Zenon
<1>3. \A m \in SrvLoops \ {l} : t.run[m] \o t.q[m] = s.run[m] \o s.q[m]
  BY <1>1, Zenon
<1>4. SrvPend(s)[l] = Range(u) /\ SrvLine(u)
  BY DEF SrvPend
<1> HIDE DEF u
<1>5. /\ SrvLine(t.run[l] \o t.q[l]) /\ Range(t.run[l] \o t.q[l]) = SrvPend(s)[l] \ {f}
      /\ f \in SrvPend(s)[l] /\ f \in SrvFunctors
      /\ f[1] = "destroyed" => <<"established", f[2]>> \notin SrvPend(s)[l]
  BY <1>2, <1>4, SrvLineTail, Zenon
<1>6. SrvPend(t) = [SrvPend(s) EXCEPT ![l] = @ \ {f}]
  BY <1>3, <1>5, Zenon DEF SrvPend
<1> QED  BY <1>3, <1>5, <1>6, Zenon

\* The same, when loop l swaps its queue in.
LEMMA SrvPendSwap ==
  ASSUME NEW s \in SrvRecord, NEW l \in SrvLoops, s.run[l] = << >>,
         NEW t, SrvSetTo(s.q, t.q, l, << >>), SrvSetTo(s.run, t.run, l, s.q[l])
  PROVE  (\A m \in SrvLoops : t.run[m] \o t.q[m] = s.run[m] \o s.q[m]) /\ SrvPend(t) = SrvPend(s)
<1> USE DEF SrvSetTo
<1>1. s.q \in [SrvLoops -> Seq(SrvFunctors)] /\ s.run \in [SrvLoops -> Seq(SrvFunctors)]
  BY SrvFields
<1>2. t.run[l] \o t.q[l] = s.run[l] \o s.q[l]
  <2>1. t.q[l] = << >> /\ t.run[l] = s.q[l] /\ s.q[l] \in Seq(SrvFunctors)
    BY <1>1
  <2> QED  BY <2>1, ConcatEmptySeq, Zenon
<1>3. \A m \in SrvLoops \ {l} : t.run[m] \o t.q[m] = s.run[m] \o s.q[m]
  BY <1>1, Zenon
<1> QED  BY <1>2, <1>3, Zenon DEF SrvPend

\* t's loops, map and connections are s's.
SrvKept(s, t) == /\ t.made = s.made /\ t.home = s.home /\ t.conn = s.conn /\ t.map = s.map
                 /\ t.q = s.q /\ t.run = s.run /\ t.server = s.server

\* So are its pool and the places of its loops.
SrvStill(s, t) == SrvKept(s, t) /\ t.pool = s.pool /\ t.next = s.next /\ t.top = s.top /\ t.told = s.told

\* Then the functors still agree with the connections.
LEMMA SrvStaysBooked ==
  ASSUME NEW s, SrvBooked(s), NEW t, SrvKept(s, t)
  PROVE  SrvBooked(t) /\ SrvPend(t) = SrvPend(s)
<1>1. SrvPend(t) = SrvPend(s)
  BY DEF SrvPend, SrvKept
<1> QED  BY <1>1 DEF SrvBooked, SrvKept

\* The whole invariant, when the server only takes note of descriptors and clients.
LEMMA SrvStaysGood ==
  ASSUME NEW s, SrvGood(s), NEW t \in SrvRecord, SrvStill(s, t), ~t.fault,
         t.started = s.started, t.listening = s.listening,
         t.accepting = "no" /\ ~t.stolen => t.spare
  PROVE  SrvGood(t)
<1>1. SrvBooked(t) /\ SrvPend(t) = SrvPend(s)
  BY SrvStaysBooked DEF SrvGood, SrvStill
<1>2. SrvListens(t)
  BY <1>1 DEF SrvGood, SrvListens
<1>3. SrvTurns(t)
  BY DEF SrvGood, SrvTurns, SrvStill, SrvKept
<1>4. SrvTops(t)
  BY DEF SrvGood, SrvTops, SrvStill, SrvKept
<1> QED  BY <1>1, <1>2, <1>3, <1>4 DEF SrvGood

\* accept's trick with the spare descriptor, a failed accept, clients and other threads.
LEMMA SrvNotesGood ==
  ASSUME SrvGood(srv),
         AcceptorFullClose \/ AcceptorFullDrop \/ AcceptorFullReopen \/ LeanAcceptFails
           \/ SrvPeerConnects \/ SrvOthersOpen \/ SrvOthersClose
  PROVE  SrvGood(srv')
<1>1. srv \in SrvRecord /\ ~srv.fault /\ (srv.accepting = "no" /\ ~srv.stolen => srv.spare)
      /\ srv.backlog \in Int /\ srv.others \in Int
  BY SrvFields DEF SrvGood
<1>2. srv.backlog - 1 \in Int /\ srv.backlog + 1 \in Int /\ srv.others - 1 \in Int /\ srv.others + 1 \in Int
  BY <1>1
<1> DEFINE Noted(t) == /\ t \in SrvRecord /\ SrvStill(srv, t) /\ ~t.fault
                       /\ t.started = srv.started /\ t.listening = srv.listening
                       /\ t.accepting = "no" /\ ~t.stolen => t.spare
<1>3. CASE AcceptorFullClose
  <2>1. srv' = [srv EXCEPT !.spare = FALSE, !.accepting = "closed"]
    BY <1>3 DEF AcceptorFullClose
  <2>2. Noted(srv')
    BY <1>1, <2>1, Zenon DEF SrvRecord, SrvStill, SrvKept
  <2> QED  BY <2>2, SrvStaysGood
<1>4. CASE AcceptorFullDrop
  <2>1. \/ srv' = [srv EXCEPT !.backlog = @ - 1, !.accepting = "dropped"]
        \/ srv' = [srv EXCEPT !.stolen = TRUE, !.accepting = "dropped"]
    BY <1>4 DEF AcceptorFullDrop
  <2>2. CASE srv' = [srv EXCEPT !.backlog = @ - 1, !.accepting = "dropped"]
    <3>1. Noted(srv')
      BY <1>1, <1>2, <2>2, Zenon DEF SrvRecord, SrvStill, SrvKept
    <3> QED  BY <3>1, SrvStaysGood
  <2>3. CASE srv' = [srv EXCEPT !.stolen = TRUE, !.accepting = "dropped"]
    <3>1. Noted(srv')
      BY <1>1, <2>3, Zenon DEF SrvRecord, SrvStill, SrvKept
    <3> QED  BY <3>1, SrvStaysGood
  <2> QED  BY <2>1, <2>2, <2>3
<1>5. CASE AcceptorFullReopen
  <2>1. \/ srv' = [srv EXCEPT !.spare = TRUE, !.accepting = "no"]
        \/ srv' = [srv EXCEPT !.stolen = TRUE, !.accepting = "no"]
    BY <1>5 DEF AcceptorFullReopen
  <2>2. CASE srv' = [srv EXCEPT !.spare = TRUE, !.accepting = "no"]
    <3>1. Noted(srv')
      BY <1>1, <2>2, Zenon DEF SrvRecord, SrvStill, SrvKept
    <3> QED  BY <3>1, SrvStaysGood
  <2>3. CASE srv' = [srv EXCEPT !.stolen = TRUE, !.accepting = "no"]
    <3>1. Noted(srv')
      BY <1>1, <2>3, Zenon DEF SrvRecord, SrvStill, SrvKept
    <3> QED  BY <3>1, SrvStaysGood
  <2> QED  BY <2>1, <2>2, <2>3
<1>6. CASE LeanAcceptFails
  <2>1. srv' = [srv EXCEPT !.exited = TRUE]
    BY <1>6 DEF LeanAcceptFails
  <2>2. Noted(srv')
    BY <1>1, <2>1, Zenon DEF SrvRecord, SrvStill, SrvKept
  <2> QED  BY <2>2, SrvStaysGood
<1>7. CASE SrvPeerConnects
  <2>1. srv' = [srv EXCEPT !.backlog = @ + 1]
    BY <1>7 DEF SrvPeerConnects
  <2>2. Noted(srv')
    BY <1>1, <1>2, <2>1, Zenon DEF SrvRecord, SrvStill, SrvKept
  <2> QED  BY <2>2, SrvStaysGood
<1>8. CASE SrvOthersOpen \/ SrvOthersClose
  <2>1. srv' = [srv EXCEPT !.others = @ + 1] \/ srv' = [srv EXCEPT !.others = @ - 1]
    BY <1>8 DEF SrvOthersOpen, SrvOthersClose
  <2>2. CASE srv' = [srv EXCEPT !.others = @ + 1]
    <3>1. Noted(srv')
      BY <1>1, <1>2, <2>2, Zenon DEF SrvRecord, SrvStill, SrvKept
    <3> QED  BY <3>1, SrvStaysGood
  <2>3. CASE srv' = [srv EXCEPT !.others = @ - 1]
    <3>1. Noted(srv')
      BY <1>1, <1>2, <2>3, Zenon DEF SrvRecord, SrvStill, SrvKept
    <3> QED  BY <3>1, SrvStaysGood
  <2> QED  BY <2>1, <2>2, <2>3
<1> QED  BY <1>3, <1>4, <1>5, <1>6, <1>7, <1>8

\* The parts of the invariant depend on some of the fields only.
LEMMA SrvPartsSame ==
  ASSUME NEW s, NEW t
  PROVE  /\ SrvTops(s) /\ t.run = s.run /\ t.top = s.top /\ t.told = s.told /\ t.pool = s.pool /\ t.server = s.server
              => SrvTops(t)
         /\ SrvTurns(s) /\ t.pool = s.pool /\ t.next = s.next /\ t.made = s.made /\ t.home = s.home => SrvTurns(t)
         /\ SrvListens(s) /\ t.started = s.started /\ t.listening = s.listening
              /\ (<<"listen", 0>> \in SrvPend(t)[0] => <<"listen", 0>> \in SrvPend(s)[0]) => SrvListens(t)
BY DEF SrvTops, SrvTurns, SrvListens

\* removeConnectionInLoop of a connection the server knows.
LEMMA SrvRemoveGood ==
  ASSUME NEW s, SrvGood(s), s.server = "alive", NEW i \in SrvIds, SrvRemovable(s.conn, SrvPend(s), i)
  PROVE  SrvGood(RemoveInLoop(s, i))
<1> DEFINE t == RemoveInLoop(s, i)
           l == s.home[i]
           f == <<"destroyed", i>>
           conn2 == [s.conn EXCEPT ![i] = "removed"]
           map2 == s.map \ {i}
           q2 == [s.q EXCEPT ![l] = Append(s.q[l], f)]
           R2 == [SrvPend(s) EXCEPT ![l] = @ \cup {f}]
<1>1. /\ s \in SrvRecord /\ ~s.fault /\ (s.accepting = "no" /\ ~s.stolen => s.spare)
      /\ SrvBooked(s) /\ SrvTops(s) /\ SrvTurns(s) /\ SrvListens(s)
  BY DEF SrvGood
<1>2. SrvBook(s.made, s.home, s.conn, s.map, "alive", SrvPend(s)) /\ \A m \in SrvLoops : SrvLine(s.run[m] \o s.q[m])
  BY <1>1 DEF SrvBooked
<1>3. /\ SrvSetTo(s.conn, conn2, i, "removed") /\ SrvGains(SrvPend(s), R2, l, f)
      /\ SrvSetTo(s.q, q2, l, Append(s.q[l], f)) /\ SrvLacks(s.map, map2, i) /\ l = s.home[i]
  BY DEF SrvSetTo, SrvGains, SrvLacks
<1>4. f \in SrvFunctors /\ f[1] # "established"
  BY DEF SrvFunctors, SrvIds
<1>5. /\ s.q \in [SrvLoops -> Seq(SrvFunctors)] /\ s.conn \in [SrvIds -> SrvStates] /\ s.map \in SUBSET SrvIds
      /\ l \in SrvLoops
  BY <1>1, SrvFields
<1>6. q2 \in [SrvLoops -> Seq(SrvFunctors)] /\ conn2 \in [SrvIds -> SrvStates] /\ map2 \in SUBSET SrvIds
  BY <1>4, <1>5 DEF SrvStates
<1>7. t = [s EXCEPT !.map = map2, !.fault = s.fault \/ (i \notin s.map /\ ~s.lean), !.conn = conn2, !.q = q2]
  BY <1>1, Zenon DEF RemoveInLoop, SrvQueue, SrvRecord
<1>8. <<"listen", 0>> \in R2[0] => <<"listen", 0>> \in SrvPend(s)[0]
  BY <1>5 DEF SrvPend
<1> HIDE DEF t, q2, conn2, map2, R2, l
<1>9. SrvBook(s.made, s.home, conn2, map2, "alive", R2) /\ i \in s.map /\ f \notin SrvPend(s)[l]
  <2>1. /\ SrvBook(s.made, s.home, s.conn, s.map, "alive", SrvPend(s)) /\ SrvSetTo(s.conn, conn2, i, "removed")
        /\ SrvGains(SrvPend(s), R2, s.home[i], <<"destroyed", i>>) /\ SrvLacks(s.map, map2, i)
        /\ SrvRemovable(s.conn, SrvPend(s), i)
    BY <1>2, <1>3 DEF l
  <2>2. SrvBook(s.made, s.home, conn2, map2, "alive", R2) /\ i \in s.map /\ f \notin SrvPend(s)[s.home[i]]
    BY <2>1, SrvBookRemove, Zenon
  <2> QED  BY <2>2 DEF l
<1> HIDE DEF f
<1>10. /\ t \in SrvRecord /\ t.q = q2 /\ t.conn = conn2 /\ t.map = map2 /\ ~t.fault
       /\ t.run = s.run /\ t.made = s.made /\ t.home = s.home /\ t.server = s.server /\ t.pool = s.pool
       /\ t.next = s.next /\ t.top = s.top /\ t.told = s.told /\ t.started = s.started /\ t.listening = s.listening
       /\ t.accepting = s.accepting /\ t.stolen = s.stolen /\ t.spare = s.spare
  BY <1>1, <1>6, <1>7, <1>9, Zenon DEF SrvRecord
<1>11. (\A m \in SrvLoops : SrvLine(t.run[m] \o t.q[m])) /\ SrvGains(SrvPend(s), SrvPend(t), l, f)
  BY <1>1, <1>2, <1>3, <1>4, <1>5, <1>9, <1>10, SrvPendQueue, Zenon
<1>12. SrvPend(t) = R2
  BY <1>3, <1>11 DEF SrvGains
<1>13. SrvBooked(t)
  BY <1>9, <1>10, <1>11, <1>12 DEF SrvBooked
<1>14. SrvTops(t) /\ SrvTurns(t) /\ SrvListens(t)
  BY <1>1, <1>8, <1>10, <1>12, SrvPartsSame, Zenon
<1> QED  BY <1>1, <1>10, <1>13, <1>14, Zenon DEF SrvGood, t

\* handleClose of a connection.
LEMMA SrvConnClosesGood ==
  ASSUME SrvGood(srv), NEW i \in SrvIds, SrvConnCloses(i)
  PROVE  SrvGood(srv')
<1> DEFINE s == srv
           t == srv'
           f == <<"remove", i>>
           conn2 == [s.conn EXCEPT ![i] = "closing"]
           q2 == [s.q EXCEPT ![0] = Append(s.q[0], f)]
           R2 == [SrvPend(s) EXCEPT ![0] = @ \cup {f}]
<1>1. /\ s \in SrvRecord /\ ~s.fault /\ (s.accepting = "no" /\ ~s.stolen => s.spare)
      /\ SrvBooked(s) /\ SrvTops(s) /\ SrvTurns(s) /\ SrvListens(s)
  BY DEF SrvGood
<1>2. /\ SrvBook(s.made, s.home, s.conn, s.map, s.server, SrvPend(s))
      /\ \A m \in SrvLoops : SrvLine(s.run[m] \o s.q[m])
  BY <1>1 DEF SrvBooked
<1>3. CASE s.home[i] = 0
  <2>1. s.server = "alive"
    <3>1. SrvLists(s.made, s.home, s.conn, s.map, s.server)
      BY <1>2 DEF SrvBook
    <3> QED  BY <1>3, <3>1 DEF SrvLists, SrvListed, SrvConnCloses
  <2>2. \A l \in SrvLoops : <<"remove", i>> \notin SrvPend(s)[l]
    <3>1. SrvTokens(s.home, s.conn, s.map, s.server, SrvPend(s))
      BY <1>2 DEF SrvBook
    <3> QED  BY <3>1 DEF SrvTokens, SrvConnCloses
  <2>3. s.conn[i] \in {"up", "closing"} /\ t = RemoveInLoop(s, i)
    BY <1>3 DEF SrvConnCloses
  <2>4. SrvRemovable(s.conn, SrvPend(s), i)
    BY <2>2, <2>3 DEF SrvRemovable
  <2> QED  BY <2>1, <2>3, <2>4, SrvRemoveGood, Zenon
<1>4. CASE s.home[i] # 0
  <2>1. 0 \in SrvLoops /\ f \in SrvFunctors /\ f[1] # "established" /\ s.conn[i] = "up"
    BY SrvLoopsOfPool DEF SrvFunctors, SrvIds, SrvConnCloses
  <2>2. /\ SrvSetTo(s.conn, conn2, i, "closing") /\ SrvGains(SrvPend(s), R2, 0, f)
        /\ SrvSetTo(s.q, q2, 0, Append(s.q[0], f))
    BY DEF SrvSetTo, SrvGains
  <2>3. /\ s.q \in [SrvLoops -> Seq(SrvFunctors)] /\ s.conn \in [SrvIds -> SrvStates]
    BY <1>1, SrvFields
  <2>4. q2 \in [SrvLoops -> Seq(SrvFunctors)] /\ conn2 \in [SrvIds -> SrvStates]
    BY <2>1, <2>3 DEF SrvStates
  <2>5. t = SrvQueue([s EXCEPT !.conn[i] = "closing"], 0, f)
    BY <1>4 DEF SrvConnCloses
  <2>6. t = [s EXCEPT !.conn = conn2, !.q = q2]
    BY <1>1, <2>5, Zenon DEF SrvQueue, SrvRecord
  <2>7. <<"listen", 0>> \in R2[0] => <<"listen", 0>> \in SrvPend(s)[0]
    BY <2>1 DEF SrvPend
  <2> HIDE DEF t, q2, conn2, R2
  <2>8. SrvBook(s.made, s.home, conn2, s.map, s.server, R2) /\ f \notin SrvPend(s)[0]
    BY <1>2, <1>4, <2>1, <2>2, SrvBookClose, Zenon
  <2> HIDE DEF f
  <2>9. /\ t \in SrvRecord /\ t.q = q2 /\ t.conn = conn2 /\ t.map = s.map /\ ~t.fault
        /\ t.run = s.run /\ t.made = s.made /\ t.home = s.home /\ t.server = s.server /\ t.pool = s.pool
        /\ t.next = s.next /\ t.top = s.top /\ t.told = s.told /\ t.started = s.started /\ t.listening = s.listening
        /\ t.accepting = s.accepting /\ t.stolen = s.stolen /\ t.spare = s.spare
    BY <1>1, <2>4, <2>6, Zenon DEF SrvRecord
  <2>10. (\A m \in SrvLoops : SrvLine(t.run[m] \o t.q[m])) /\ SrvGains(SrvPend(s), SrvPend(t), 0, f)
    BY <1>1, <1>2, <2>1, <2>2, <2>8, <2>9, SrvPendQueue, Zenon
  <2>11. SrvPend(t) = R2
    BY <2>2, <2>10 DEF SrvGains
  <2>12. SrvBooked(t)
    BY <2>8, <2>9, <2>10, <2>11 DEF SrvBooked
  <2>13. SrvTops(t) /\ SrvTurns(t) /\ SrvListens(t)
    BY <1>1, <2>7, <2>9, <2>11, SrvPartsSame, Zenon
  <2> QED  BY <1>1, <2>9, <2>12, <2>13, Zenon DEF SrvGood, t
<1> QED  BY <1>3, <1>4

\* The base loop swaps its functors, runs them, looks at quit_ again; so does a loop of the pool.
LEMMA SrvSwapGood ==
  ASSUME SrvGood(srv), NEW l \in SrvLoops, SrvSwap(l)
  PROVE  SrvGood(srv')
<1> DEFINE s == srv
           t == srv'
           q2 == [s.q EXCEPT ![l] = << >>]
           run2 == [s.run EXCEPT ![l] = s.q[l]]
           top2 == [s.top EXCEPT ![l] = "run"]
<1>1. /\ s \in SrvRecord /\ ~s.fault /\ (s.accepting = "no" /\ ~s.stolen => s.spare)
      /\ SrvBooked(s) /\ SrvTops(s) /\ SrvTurns(s) /\ SrvListens(s)
  BY DEF SrvGood
<1>2. /\ s.q \in [SrvLoops -> Seq(SrvFunctors)] /\ s.run \in [SrvLoops -> Seq(SrvFunctors)]
      /\ s.top \in [SrvLoops -> {"poll", "run", "done"}]
  BY <1>1, SrvFields
<1>3. /\ q2 \in [SrvLoops -> Seq(SrvFunctors)] /\ run2 \in [SrvLoops -> Seq(SrvFunctors)]
      /\ top2 \in [SrvLoops -> {"poll", "run", "done"}]
  BY <1>2
<1>4. t = [s EXCEPT !.run = run2, !.q = q2, !.top = top2]
  BY DEF SrvSwap
<1>5. SrvSetTo(s.q, q2, l, << >>) /\ SrvSetTo(s.run, run2, l, s.q[l])
  BY DEF SrvSetTo
<1>6. s.top[l] = "poll" /\ l <= s.pool /\ (l = 0 => s.server # "dying") /\ s.run[l] = << >>
  BY <1>1 DEF SrvSwap, SrvFree, SrvTops
<1>7. \A m \in SrvLoops : /\ top2[m] = IF m = l THEN "run" ELSE s.top[m]
                          /\ m # l => run2[m] = s.run[m]
  BY <1>2
<1> HIDE DEF t, q2, run2, top2
<1>8. /\ t \in SrvRecord /\ t.q = q2 /\ t.run = run2 /\ t.top = top2 /\ ~t.fault
      /\ t.conn = s.conn /\ t.map = s.map /\ t.made = s.made /\ t.home = s.home /\ t.server = s.server
      /\ t.pool = s.pool /\ t.next = s.next /\ t.told = s.told /\ t.started = s.started
      /\ t.listening = s.listening /\ t.accepting = s.accepting /\ t.stolen = s.stolen /\ t.spare = s.spare
  BY <1>1, <1>3, <1>4, Zenon DEF SrvRecord
<1>9. (\A m \in SrvLoops : t.run[m] \o t.q[m] = s.run[m] \o s.q[m]) /\ SrvPend(t) = SrvPend(s)
  BY <1>1, <1>5, <1>6, <1>8, SrvPendSwap, Zenon
<1>10. SrvBooked(t)
  BY <1>1, <1>8, <1>9, Zenon DEF SrvBooked
<1>11. SrvTurns(t) /\ SrvListens(t)
  BY <1>1, <1>8, <1>9, SrvPartsSame, Zenon
<1>12. SrvTops(t)
  <2>0. s.pool \in SrvPools /\ s.told \in 0 .. s.pool
    BY <1>1, SrvFields DEF SrvTops
  <2>1. /\ \A m \in SrvLoops : s.top[m] # "run" => s.run[m] = << >>
        /\ \A m \in 1 .. s.told : m < s.told => s.top[m] = "done"
        /\ s.server = "dying" => s.top[0] = "poll"
        /\ s.server = "dead" => \A m \in 1 .. s.pool : s.top[m] = "done"
    BY <1>1 DEF SrvTops
  <2>2. (\A m \in 1 .. s.pool : m \in SrvLoops) /\ 0 \in SrvLoops /\ s.pool \in Nat
    BY <2>0, SrvLoopsOfPool
  <2>3. \A m \in SrvLoops : top2[m] # "run" => run2[m] = << >>
    BY <1>7, <2>1
  <2>4. \A m \in 1 .. s.told : m < s.told => top2[m] = "done"
    BY <1>6, <1>7, <2>0, <2>1, <2>2
  <2>5. s.server = "dying" => top2[0] = "poll"
    BY <1>6, <1>7, <2>1, <2>2
  <2>6. s.server = "dead" => \A m \in 1 .. s.pool : top2[m] = "done"
    BY <1>6, <1>7, <2>1, <2>2
  <2> QED  BY <1>8, <2>0, <2>3, <2>4, <2>5, <2>6 DEF SrvTops
<1> QED  BY <1>1, <1>8, <1>10, <1>11, <1>12, Zenon DEF SrvGood, t

\* The end of doPendingFunctors.
LEMMA SrvAgainGood ==
  ASSUME SrvGood(srv), NEW l \in SrvLoops, SrvAgain(l)
  PROVE  SrvGood(srv')
<1> DEFINE s == srv
           t == srv'
           w == IF SrvToldToQuit(l) THEN "done" ELSE "poll"
           top2 == [s.top EXCEPT ![l] = w]
<1>1. /\ s \in SrvRecord /\ ~s.fault /\ (s.accepting = "no" /\ ~s.stolen => s.spare)
      /\ SrvBooked(s) /\ SrvTops(s) /\ SrvTurns(s) /\ SrvListens(s)
  BY DEF SrvGood
<1>2. s.top \in [SrvLoops -> {"poll", "run", "done"}]
  BY <1>1, SrvFields
<1>3. top2 \in [SrvLoops -> {"poll", "run", "done"}]
  BY <1>2
<1>4. t = [s EXCEPT !.top = top2]
  BY DEF SrvAgain
<1>6. s.top[l] = "run" /\ s.run[l] = << >>
  BY DEF SrvAgain
<1>7. \A m \in SrvLoops \ {l} : top2[m] = s.top[m]
  BY <1>2
<1> HIDE DEF t, top2
<1>8. /\ t \in SrvRecord /\ t.q = s.q /\ t.run = s.run /\ t.top = top2 /\ ~t.fault
      /\ t.conn = s.conn /\ t.map = s.map /\ t.made = s.made /\ t.home = s.home /\ t.server = s.server
      /\ t.pool = s.pool /\ t.next = s.next /\ t.told = s.told /\ t.started = s.started
      /\ t.listening = s.listening /\ t.accepting = s.accepting /\ t.stolen = s.stolen /\ t.spare = s.spare
  BY <1>1, <1>3, <1>4, Zenon DEF SrvRecord
<1>9. SrvBooked(t) /\ SrvPend(t) = SrvPend(s)
  BY <1>1, <1>8, SrvStaysBooked DEF SrvKept
<1>11. SrvTurns(t) /\ SrvListens(t)
  BY <1>1, <1>8, <1>9, SrvPartsSame, Zenon
<1>12. SrvTops(t)
  <2>0. s.pool \in SrvPools /\ s.told \in 0 .. s.pool
    BY <1>1, SrvFields DEF SrvTops
  <2>1. /\ \A m \in SrvLoops : s.top[m] # "run" => s.run[m] = << >>
        /\ \A m \in 1 .. s.told : m < s.told => s.top[m] = "done"
        /\ s.server = "dying" => s.top[0] = "poll"
        /\ s.server = "dead" => \A m \in 1 .. s.pool : s.top[m] = "done"
    BY <1>1 DEF SrvTops
  <2>2. (\A m \in 1 .. s.pool : m \in SrvLoops) /\ 0 \in SrvLoops /\ s.pool \in Nat
    BY <2>0, SrvLoopsOfPool
  <2>3. \A m \in SrvLoops : top2[m] # "run" => s.run[m] = << >>
    BY <1>6, <1>7, <2>1
  <2>4. \A m \in 1 .. s.told : m < s.told => top2[m] = "done"
    BY <1>6, <1>7, <2>0, <2>1, <2>2
  <2>5. s.server = "dying" => top2[0] = "poll"
    BY <1>6, <1>7, <2>1, <2>2
  <2>6. s.server = "dead" => \A m \in 1 .. s.pool : top2[m] = "done"
    BY <1>6, <1>7, <2>1, <2>2
  <2> QED  BY <1>8, <2>0, <2>3, <2>4, <2>5, <2>6 DEF SrvTops
<1> QED  BY <1>1, <1>8, <1>9, <1>11, <1>12, Zenon DEF SrvGood, t

\* ~EventLoopThreadPool: the next loop is told to quit, or all of them have been joined.
LEMMA SrvQuitNextGood ==
  ASSUME SrvGood(srv), SrvQuitNext
  PROVE  SrvGood(srv')
<1> DEFINE s == srv
           t == srv'
<1>1. /\ s \in SrvRecord /\ ~s.fault /\ (s.accepting = "no" /\ ~s.stolen => s.spare)
      /\ SrvBooked(s) /\ SrvTops(s) /\ SrvTurns(s) /\ SrvListens(s)
  BY DEF SrvGood
<1>2. /\ s.told \in 0 .. s.pool /\ s.pool \in Nat /\ s.server = "dying" /\ (s.told = 0 \/ s.top[s.told] = "done")
      /\ s.told + 1 \in Nat
  BY <1>1, SrvFields, SrvLoopsOfPool DEF SrvTops, SrvQuitNext
<1>3. /\ \A m \in SrvLoops : s.top[m] # "run" => s.run[m] = << >>
      /\ \A m \in 1 .. s.told : m < s.told => s.top[m] = "done"
      /\ s.server = "dying" => s.top[0] = "poll"
  BY <1>1 DEF SrvTops
<1>4. CASE s.told < s.pool
  <2>1. t = [s EXCEPT !.told = s.told + 1]
    BY <1>4 DEF SrvQuitNext
  <2> HIDE DEF t
  <2>2. /\ t \in SrvRecord /\ t.q = s.q /\ t.run = s.run /\ t.top = s.top /\ ~t.fault
        /\ t.conn = s.conn /\ t.map = s.map /\ t.made = s.made /\ t.home = s.home /\ t.server = s.server
        /\ t.pool = s.pool /\ t.next = s.next /\ t.told = s.told + 1 /\ t.started = s.started
        /\ t.listening = s.listening /\ t.accepting = s.accepting /\ t.stolen = s.stolen /\ t.spare = s.spare
    BY <1>1, <1>2, <2>1, Zenon DEF SrvRecord
  <2>3. SrvBooked(t) /\ SrvPend(t) = SrvPend(s)
    BY <1>1, <2>2, SrvStaysBooked DEF SrvKept
  <2>4. SrvTurns(t) /\ SrvListens(t)
    BY <1>1, <2>2, <2>3, SrvPartsSame, Zenon
  <2>5. SrvTops(t)
    <3>1. \A m \in 1 .. (s.told + 1) : m < s.told + 1 => s.top[m] = "done"
      BY <1>2, <1>3
    <3> QED  BY <1>2, <1>3, <1>4, <2>2, <3>1 DEF SrvTops
  <2> QED  BY <1>1, <2>2, <2>3, <2>4, <2>5, Zenon DEF SrvGood, t
<1>5. CASE ~(s.told < s.pool)
  <2>1. t = [s EXCEPT !.server = "dead"]
    BY <1>5 DEF SrvQuitNext
  <2> HIDE DEF t
  <2>2. /\ t \in SrvRecord /\ t.q = s.q /\ t.run = s.run /\ t.top = s.top /\ ~t.fault
        /\ t.conn = s.conn /\ t.map = s.map /\ t.made = s.made /\ t.home = s.home /\ t.server = "dead"
        /\ t.pool = s.pool /\ t.next = s.next /\ t.told = s.told /\ t.started = s.started
        /\ t.listening = s.listening /\ t.accepting = s.accepting /\ t.stolen = s.stolen /\ t.spare = s.spare
    BY <1>1, <2>1, Zenon DEF SrvRecord
  <2>3. SrvPend(t) = SrvPend(s)
    BY <2>2 DEF SrvPend
  <2>4. SrvBooked(t)
    <3>1. SrvBook(s.made, s.home, s.conn, s.map, "dying", SrvPend(s)) /\ \A m \in SrvLoops : SrvLine(s.run[m] \o s.q[m])
      BY <1>1, <1>2 DEF SrvBooked
    <3>2. SrvBook(s.made, s.home, s.conn, s.map, "dead", SrvPend(s))
      BY <3>1, Zenon DEF SrvBook, SrvShapes, SrvLists, SrvTokens
    <3> QED  BY <2>2, <2>3, <3>1, <3>2 DEF SrvBooked
  <2>5. SrvTurns(t) /\ SrvListens(t)
    BY <1>1, <2>2, <2>3, SrvPartsSame, Zenon
  <2>6. SrvTops(t)
    <3>1. \A m \in 1 .. s.pool : s.top[m] = "done"
      BY <1>2, <1>3, <1>5
    <3> QED  BY <1>2, <1>3, <2>2, <3>1 DEF SrvTops
  <2> QED  BY <1>1, <2>2, <2>4, <2>5, <2>6, Zenon DEF SrvGood, t
<1> QED  BY <1>4, <1>5

\* start: the first call makes the base loop listen, now or in its turn.
LEMMA SrvStartGood ==
  ASSUME SrvGood(srv), NEW here \in BOOLEAN, TcpServerStart(here)
  PROVE  SrvGood(srv')
<1> DEFINE s == srv
           t == srv'
<1>1. /\ s \in SrvRecord /\ ~s.fault /\ (s.accepting = "no" /\ ~s.stolen => s.spare)
      /\ SrvBooked(s) /\ SrvTops(s) /\ SrvTurns(s) /\ SrvListens(s)
  BY DEF SrvGood
<1>2. s.started \in Nat /\ s.listening \in Nat /\ s.started + 1 \in Nat /\ s.listening + 1 \in Nat
  BY <1>1, SrvFields
<1> DEFINE Rest(r) == /\ r.run = s.run /\ r.made = s.made /\ r.home = s.home /\ r.server = s.server
                      /\ r.pool = s.pool /\ r.next = s.next /\ r.top = s.top /\ r.told = s.told /\ r.conn = s.conn
                      /\ r.map = s.map /\ r.accepting = s.accepting /\ r.stolen = s.stolen /\ r.spare = s.spare
                      /\ ~r.fault
<1>3. CASE s.started > 0
  <2>1. t = [s EXCEPT !.started = s.started + 1]
    BY <1>3 DEF TcpServerStart
  <2> HIDE DEF t
  <2>2. t \in SrvRecord /\ Rest(t) /\ t.q = s.q /\ t.started = s.started + 1 /\ t.listening = s.listening
    BY <1>1, <1>2, <2>1, Zenon DEF SrvRecord
  <2>3. SrvBooked(t) /\ SrvPend(t) = SrvPend(s)
    BY <1>1, <2>2, SrvStaysBooked DEF SrvKept
  <2>4. SrvTops(t) /\ SrvTurns(t)
    BY <1>1, <2>2, SrvPartsSame, Zenon
  <2>5. SrvListens(t)
    BY <1>1, <1>2, <2>2, <2>3 DEF SrvListens
  <2> QED  BY <1>1, <2>2, <2>3, <2>4, <2>5, Zenon DEF SrvGood, t
<1>4. CASE s.started = 0 /\ here
  <2>0. ~(s.started > 0)
    BY <1>4
  <2>1. t = [s EXCEPT !.started = 1, !.listening = s.listening + 1]
    BY <1>4, <2>0, Zenon DEF TcpServerStart
  <2> HIDE DEF t
  <2>2. t \in SrvRecord /\ Rest(t) /\ t.q = s.q /\ t.started = 1 /\ t.listening = s.listening + 1
    <3>1. 1 \in Nat
      OBVIOUS
    <3> QED  BY <1>1, <1>2, <2>1, <3>1, Zenon DEF SrvRecord
  <2>3. SrvBooked(t) /\ SrvPend(t) = SrvPend(s)
    BY <1>1, <2>2, SrvStaysBooked DEF SrvKept
  <2>4. SrvTops(t) /\ SrvTurns(t)
    BY <1>1, <2>2, SrvPartsSame, Zenon
  <2>5. SrvListens(t)
    BY <1>1, <1>2, <1>4, <2>2, <2>3 DEF SrvListens
  <2> QED  BY <1>1, <2>2, <2>3, <2>4, <2>5, Zenon DEF SrvGood, t
<1>5. CASE s.started = 0 /\ ~here
  <2> DEFINE f == <<"listen", 0>>
             q2 == [s.q EXCEPT ![0] = Append(s.q[0], f)]
             R2 == [SrvPend(s) EXCEPT ![0] = @ \cup {f}]
  <2>0. ~(s.started > 0)
    BY <1>5
  <2>1. t = SrvQueue([s EXCEPT !.started = 1], 0, f)
    BY <1>5, <2>0, Zenon DEF TcpServerStart
  <2>2. 0 \in SrvLoops /\ f \in SrvFunctors /\ f[1] # "established" /\ f \notin SrvPend(s)[0] /\ s.listening = 0
    BY <1>1, <1>5, SrvLoopsOfPool DEF SrvFunctors, SrvListens
  <2>3. SrvGains(SrvPend(s), R2, 0, f) /\ SrvSetTo(s.q, q2, 0, Append(s.q[0], f))
    BY DEF SrvSetTo, SrvGains
  <2>4. s.q \in [SrvLoops -> Seq(SrvFunctors)] /\ 1 \in Nat
    BY <1>1, SrvFields
  <2>5. q2 \in [SrvLoops -> Seq(SrvFunctors)]
    BY <2>2, <2>4
  <2>6. t = [s EXCEPT !.started = 1, !.q = q2]
    BY <1>1, <2>1, Zenon DEF SrvQueue, SrvRecord
  <2>7. SrvBook(s.made, s.home, s.conn, s.map, s.server, SrvPend(s)) /\ \A m \in SrvLoops : SrvLine(s.run[m] \o s.q[m])
    BY <1>1 DEF SrvBooked
  <2> HIDE DEF t, q2, R2
  <2>8. SrvBook(s.made, s.home, s.conn, s.map, s.server, R2)
    BY <2>2, <2>3, <2>7, SrvBookListen, Zenon
  <2> HIDE DEF f
  <2>9. t \in SrvRecord /\ Rest(t) /\ t.q = q2 /\ t.started = 1 /\ t.listening = s.listening
    BY <1>1, <2>4, <2>5, <2>6, Zenon DEF SrvRecord
  <2>10. (\A m \in SrvLoops : SrvLine(t.run[m] \o t.q[m])) /\ SrvGains(SrvPend(s), SrvPend(t), 0, f)
    BY <1>1, <2>2, <2>3, <2>7, <2>9, SrvPendQueue, Zenon
  <2>11. SrvPend(t) = R2
    BY <2>3, <2>10 DEF SrvGains
  <2>12. SrvBooked(t)
    BY <2>8, <2>9, <2>10, <2>11 DEF SrvBooked
  <2>13. SrvTops(t) /\ SrvTurns(t)
    BY <1>1, <2>9, SrvPartsSame, Zenon
  <2>14. SrvListens(t)
    BY <2>2, <2>9 DEF SrvListens
  <2> QED  BY <1>1, <2>9, <2>12, <2>13, <2>14, Zenon DEF SrvGood, t
<1> QED  BY <1>2, <1>3, <1>4, <1>5

\* getNextLoop gives a loop of the pool, or the base loop when there is none.
LEMMA SrvNextLoopInTurn ==
  ASSUME NEW s \in SrvRecord, SrvTurns(s), NEW i, i = s.made + 1, NEW l, l = SrvNextLoop(s)
  PROVE  /\ l \in SrvLoops /\ (l = 0 <=> s.pool = 0)
         /\ l = IF s.pool = 0 THEN 0 ELSE ((i - 1) % s.pool) + 1
         /\ (IF s.next + 1 >= s.pool THEN 0 ELSE s.next + 1) = IF s.pool = 0 THEN 0 ELSE i % s.pool
<1> DEFINE p == s.pool
           m == s.made
<1>1. p \in Nat /\ m \in Nat /\ 0 \in SrvLoops /\ (\A k \in 0 .. p : k \in SrvLoops)
      /\ s.next = IF p = 0 THEN 0 ELSE m % p
  BY SrvFields, SrvLoopsOfPool DEF SrvTurns
<1>2. CASE p = 0
  BY <1>1, <1>2 DEF SrvNextLoop
<1>3. CASE p # 0
  <2>1. s.next = m % p /\ l = s.next + 1
    BY <1>1, <1>3 DEF SrvNextLoop
  <2> HIDE DEF p, m
  <2>2. s.next \in 0 .. (p - 1) /\ (m + 1) % p = IF s.next + 1 >= p THEN 0 ELSE s.next + 1
    BY <1>1, <1>3, <2>1, TurnAdvances, Zenon
  <2>3. l \in SrvLoops /\ l # 0
    BY <1>1, <2>1, <2>2
  <2>4. i = m + 1 /\ i - 1 = m
    BY <1>1 DEF m
  <2> QED  BY <1>3, <2>1, <2>2, <2>3, <2>4 DEF p
<1> QED  BY <1>2, <1>3

\* newConnection: its loop's turn, and connectEstablished there.
LEMMA SrvAcceptGood ==
  ASSUME SrvGood(srv), AcceptorHandleRead
  PROVE  SrvGood(srv')
<1> DEFINE s == srv
           t == srv'
           i == s.made + 1
           l == SrvNextLoop(s)
           f == <<"established", i>>
           next2 == IF s.next + 1 >= s.pool THEN 0 ELSE s.next + 1
           home2 == [s.home EXCEPT ![i] = l]
           conn2 == [s.conn EXCEPT ![i] = IF l = 0 THEN "up" ELSE "queued"]
           map2 == s.map \cup {i}
           q2 == [s.q EXCEPT ![l] = Append(s.q[l], f)]
           R2 == IF l = 0 THEN SrvPend(s) ELSE [SrvPend(s) EXCEPT ![l] = @ \cup {f}]
           u == [s EXCEPT !.made = i, !.backlog = s.backlog - 1, !.home = home2,
                          !.conn = [s.conn EXCEPT ![i] = "queued"], !.map = map2, !.next = next2]
<1>1. /\ s \in SrvRecord /\ ~s.fault /\ (s.accepting = "no" /\ ~s.stolen => s.spare)
      /\ SrvBooked(s) /\ SrvTops(s) /\ SrvTurns(s) /\ SrvListens(s)
  BY DEF SrvGood
<1>2. /\ l \in SrvLoops /\ (l = 0 <=> s.pool = 0)
      /\ l = IF s.pool = 0 THEN 0 ELSE ((i - 1) % s.pool) + 1
      /\ next2 = IF s.pool = 0 THEN 0 ELSE i % s.pool
  BY <1>1, SrvNextLoopInTurn
<1>3. s.server = "alive" /\ s.made < SrvConns /\ SrvConns \in Nat
  BY SrvAssumption DEF AcceptorHandleRead, SrvAcceptable, SrvGoes
<1>4. SrvBook(s.made, s.home, s.conn, s.map, "alive", SrvPend(s)) /\ \A m \in SrvLoops : SrvLine(s.run[m] \o s.q[m])
  BY <1>1, <1>3 DEF SrvBooked
<1>5. SrvMakes(s.made, s.home, s.conn, s.map, SrvPend(s), i, l, home2, conn2, map2, R2)
  BY <1>2, <1>3 DEF SrvMakes
<1>6. /\ s.q \in [SrvLoops -> Seq(SrvFunctors)] /\ s.conn \in [SrvIds -> SrvStates] /\ s.map \in SUBSET SrvIds
      /\ s.home \in [SrvIds -> SrvLoops] /\ s.made \in Nat /\ s.next \in Nat /\ s.backlog \in Int
      /\ s.pool \in SrvPools /\ s.pool \in Nat
  BY <1>1, SrvFields, SrvLoopsOfPool
<1>7. i \in SrvIds /\ i \in Nat /\ next2 \in Nat /\ s.backlog - 1 \in Int
  BY <1>3, <1>6 DEF SrvIds
<1>8. f \in SrvFunctors /\ l \in SrvLoops
  BY <1>2, <1>7 DEF SrvFunctors
<1>9. /\ q2 \in [SrvLoops -> Seq(SrvFunctors)] /\ conn2 \in [SrvIds -> SrvStates] /\ map2 \in SUBSET SrvIds
      /\ home2 \in [SrvIds -> SrvLoops] /\ [s.conn EXCEPT ![i] = "queued"] \in [SrvIds -> SrvStates]
  BY <1>6, <1>7, <1>8 DEF SrvStates
<1>10. SrvSetTo(s.q, q2, l, Append(s.q[l], f)) /\ (l # 0 => SrvGains(SrvPend(s), R2, l, f)) /\ (l = 0 => R2 = SrvPend(s))
  BY DEF SrvSetTo, SrvGains
<1>11. t = NewConnection(s)
  BY DEF AcceptorHandleRead
<1>12. t = IF l = 0 THEN SrvEstablish(u, i) ELSE SrvQueue(u, l, f)
  BY <1>11 DEF NewConnection
<1>13. <<"listen", 0>> \in R2[0] => <<"listen", 0>> \in SrvPend(s)[0]
  BY <1>8 DEF SrvPend
<1>14. \A j \in 1 .. i : home2[j] = IF s.pool = 0 THEN 0 ELSE ((j - 1) % s.pool) + 1
  <2>1. \A j \in 1 .. s.made : s.home[j] = IF s.pool = 0 THEN 0 ELSE ((j - 1) % s.pool) + 1
    BY <1>1 DEF SrvTurns
  <2>2. \A j \in SrvIds : home2[j] = IF j = i THEN l ELSE s.home[j]
    BY <1>6
  <2>3. \A j \in 1 .. i : j \in SrvIds /\ (j # i => j \in 1 .. s.made)
    BY <1>3, <1>6, <1>7 DEF SrvIds
  <2> HIDE DEF l, home2, i
  <2> QED  BY <1>2, <2>1, <2>2, <2>3
<1>15. conn2 = IF l = 0 THEN [u.conn EXCEPT ![i] = "up"] ELSE u.conn
  <2>1. u.conn = [s.conn EXCEPT ![i] = "queued"]
    BY <1>1, Zenon DEF SrvRecord
  <2> HIDE DEF u, l, i
  <2> QED  BY <1>6, <1>7, <2>1
<1>16. u.conn[i] = "queued"
  <2>1. u.conn = [s.conn EXCEPT ![i] = "queued"]
    BY <1>1, Zenon DEF SrvRecord
  <2> HIDE DEF u, i
  <2> QED  BY <1>6, <1>7, <2>1
<1> DEFINE Rest(r) == /\ r.run = s.run /\ r.made = i /\ r.home = home2 /\ r.server = s.server /\ r.map = map2
                      /\ r.pool = s.pool /\ r.next = next2 /\ r.top = s.top /\ r.told = s.told
                      /\ r.accepting = s.accepting /\ r.stolen = s.stolen /\ r.spare = s.spare
                      /\ ~r.fault /\ r.started = s.started /\ r.listening = s.listening
<1> HIDE DEF t, q2, conn2, home2, map2, next2, R2, l
<1>17. SrvBook(i, home2, conn2, map2, "alive", R2) /\ \A m \in SrvLoops : f \notin SrvPend(s)[m] /\ <<"destroyed", i>> \notin SrvPend(s)[m]
  <2> HIDE DEF i
  <2> QED  BY <1>4, <1>5, SrvBookNew, Zenon
<1> HIDE DEF i, f
<1>18. u \in SrvRecord /\ Rest(u) /\ u.q = s.q
  BY <1>1, <1>7, <1>9, Zenon DEF SrvRecord
<1> HIDE DEF u
<1>19. CASE l = 0
  <2>1. t = [u EXCEPT !.conn = conn2, !.fault = u.fault \/ u.conn[i] # "queued"]
    BY <1>12, <1>15, <1>19 DEF SrvEstablish
  <2>2. t \in SrvRecord /\ Rest(t) /\ t.q = s.q /\ t.conn = conn2
    BY <1>9, <1>16, <1>18, <2>1, Zenon DEF SrvRecord
  <2>3. SrvPend(t) = R2 /\ \A m \in SrvLoops : SrvLine(t.run[m] \o t.q[m])
    BY <1>4, <1>10, <1>19, <2>2 DEF SrvPend
  <2>4. SrvBooked(t)
    BY <1>3, <1>17, <2>2, <2>3 DEF SrvBooked
  <2>5. SrvTurns(t)
    BY <1>2, <1>14, <2>2, Zenon DEF SrvTurns
  <2>6. SrvTops(t) /\ SrvListens(t)
    BY <1>1, <1>13, <2>2, <2>3, SrvPartsSame, Zenon
  <2> QED  BY <1>1, <2>2, <2>4, <2>5, <2>6, Zenon DEF SrvGood, t
<1>20. CASE l # 0
  <2>1. t = [u EXCEPT !.q = q2]
    BY <1>12, <1>18, <1>20, Zenon DEF SrvQueue, SrvRecord, q2
  <2>2. t \in SrvRecord /\ Rest(t) /\ t.q = q2 /\ t.conn = u.conn
    BY <1>9, <1>18, <2>1, Zenon DEF SrvRecord
  <2>3. t.conn = conn2
    BY <1>15, <1>20, <2>2
  <2>4. (\A m \in SrvLoops : SrvLine(t.run[m] \o t.q[m])) /\ SrvGains(SrvPend(s), SrvPend(t), l, f)
    <3>1. f \notin SrvPend(s)[l] /\ (f[1] = "established" => <<"destroyed", f[2]>> \notin SrvPend(s)[l])
      BY <1>8, <1>17 DEF f
    <3> QED  BY <1>1, <1>4, <1>8, <1>10, <2>2, <3>1, SrvPendQueue, Zenon
  <2>5. SrvPend(t) = R2
    BY <1>10, <1>20, <2>4 DEF SrvGains
  <2>6. SrvBooked(t)
    BY <1>3, <1>17, <2>2, <2>3, <2>4, <2>5 DEF SrvBooked
  <2>7. SrvTurns(t)
    BY <1>2, <1>14, <2>2, Zenon DEF SrvTurns
  <2>8. SrvTops(t) /\ SrvListens(t)
    BY <1>1, <1>13, <2>2, <2>5, SrvPartsSame, Zenon
  <2> QED  BY <1>1, <2>2, <2>6, <2>7, <2>8, Zenon DEF SrvGood, t
<1> QED  BY <1>19, <1>20

\* Loop l of s has taken functor f, nothing else: u.  What the rest of the step may rely on.
SrvTaken(s, u, l, f) ==
  /\ u \in SrvRecord /\ ~u.fault /\ (u.accepting = "no" /\ ~u.stolen => u.spare)
  /\ u.made = s.made /\ u.home = s.home /\ u.conn = s.conn /\ u.map = s.map /\ u.server = s.server
  /\ u.started = s.started /\ u.listening = s.listening
  /\ SrvTops(u) /\ SrvTurns(u)
  /\ \A m \in SrvLoops : SrvLine(u.run[m] \o u.q[m])
  /\ SrvLoses(SrvPend(s), SrvPend(u), l, f) /\ l \in SrvLoops /\ f \in SrvPend(s)[l] /\ f = <<f[1], f[2]>>
  /\ f[1] \in {"listen", "established", "remove", "destroyed"}
  /\ f[1] = "destroyed" => <<"established", f[2]>> \notin SrvPend(s)[l]

\* run[l] loses its first functor.
LEMMA SrvTakeTaken ==
  ASSUME NEW s, SrvGood(s), NEW l \in SrvLoops, s.top[l] = "run", s.run[l] # << >>
  PROVE  SrvTaken(s, [s EXCEPT !.run[l] = Tail(@)], l, Head(s.run[l]))
<1> DEFINE f == Head(s.run[l])
           run2 == [s.run EXCEPT ![l] = Tail(s.run[l])]
           u == [s EXCEPT !.run = run2]
<1>1. /\ s \in SrvRecord /\ ~s.fault /\ (s.accepting = "no" /\ ~s.stolen => s.spare)
      /\ SrvBooked(s) /\ SrvTops(s) /\ SrvTurns(s)
  BY DEF SrvGood
<1>2. \A m \in SrvLoops : SrvLine(s.run[m] \o s.q[m])
  BY <1>1 DEF SrvBooked
<1>3. s.run \in [SrvLoops -> Seq(SrvFunctors)]
  BY <1>1, SrvFields
<1>4. run2 \in [SrvLoops -> Seq(SrvFunctors)] /\ \A m \in SrvLoops \ {l} : run2[m] = s.run[m]
  BY <1>3
<1>5. /\ u \in SrvRecord /\ ~u.fault /\ (u.accepting = "no" /\ ~u.stolen => u.spare)
      /\ u.made = s.made /\ u.home = s.home /\ u.conn = s.conn /\ u.map = s.map /\ u.server = s.server
      /\ u.started = s.started /\ u.listening = s.listening
      /\ u.run = run2 /\ u.q = s.q /\ u.pool = s.pool /\ u.next = s.next /\ u.top = s.top /\ u.told = s.told
  BY <1>1, <1>4, Zenon DEF SrvRecord
<1>6. SrvTakes(s, u, l, f)
  BY <1>5, Zenon DEF SrvTakes
<1> HIDE DEF u, run2, f
<1>7. /\ \A m \in SrvLoops : SrvLine(u.run[m] \o u.q[m])
      /\ SrvLoses(SrvPend(s), SrvPend(u), l, f) /\ f \in SrvPend(s)[l] /\ f \in SrvFunctors
      /\ f[1] = "destroyed" => <<"established", f[2]>> \notin SrvPend(s)[l]
  BY <1>1, <1>2, <1>6, SrvPendTake, Zenon
<1>8. f[1] \in {"listen", "established", "remove", "destroyed"} /\ f = <<f[1], f[2]>>
  BY <1>7 DEF SrvFunctors
<1>9. SrvTurns(u)
  BY <1>1, <1>5, SrvPartsSame, Zenon
<1>10. SrvTops(u)
  BY <1>1, <1>4, <1>5 DEF SrvTops
<1>11. SrvTaken(s, u, l, f)
  BY <1>5, <1>7, <1>8, <1>9, <1>10, Zenon DEF SrvTaken
<1> QED  BY <1>11, Zenon DEF u, run2, f

\* The functors left, and what the one taken said.
LEMMA SrvTakenTokens ==
  ASSUME NEW s, SrvGood(s), NEW u, NEW l, NEW f, SrvTaken(s, u, l, f)
  PROVE  /\ SrvBook(s.made, s.home, s.conn, s.map, s.server, SrvPend(s))
         /\ f[1] # "destroyed" => SrvBook(s.made, s.home, s.conn, s.map, s.server, SrvPend(u))
         /\ f[1] # "listen" => f[2] \in SrvIds
         /\ f[1] = "listen" => l = 0 /\ f[2] = 0
         /\ f[1] # "listen" => (<<"listen", 0>> \in SrvPend(u)[0] <=> <<"listen", 0>> \in SrvPend(s)[0])
<1> DEFINE R == SrvPend(s)
           R2 == SrvPend(u)
<1>1. SrvBook(s.made, s.home, s.conn, s.map, s.server, R)
  BY DEF SrvGood, SrvBooked
<1>2. R \in [SrvLoops -> SUBSET SrvFunctors] /\ SrvTokens(s.home, s.conn, s.map, s.server, R)
  BY <1>1 DEF SrvBook, SrvShapes
<1>3. SrvLoses(R, R2, l, f) /\ l \in SrvLoops /\ f \in R[l]
  BY DEF SrvTaken
<1> HIDE DEF R, R2
<1>4. R2 \in [SrvLoops -> SUBSET SrvFunctors] /\ \A m \in SrvLoops : R2[m] = IF m = l THEN R[m] \ {f} ELSE R[m]
  BY <1>2, <1>3 DEF SrvLoses
<1>5. f[1] # "destroyed" => SrvBook(s.made, s.home, s.conn, s.map, s.server, R2)
  <2> SUFFICES ASSUME f[1] # "destroyed"  PROVE SrvBook(s.made, s.home, s.conn, s.map, s.server, R2)
    OBVIOUS
  <2>1. \A m \in SrvLoops : R2[m] \subseteq R[m] /\ \A g \in R[m] \ R2[m] : g[1] # "destroyed"
    BY <1>4
  <2> QED  BY <1>1, <1>4, <2>1, SrvBookLess
<1>6. (f[1] # "listen" => f[2] \in SrvIds) /\ (f[1] = "listen" => l = 0 /\ f[2] = 0)
  BY <1>2, <1>3 DEF SrvTokens
<1>7. f[1] # "listen" => (<<"listen", 0>> \in R2[0] <=> <<"listen", 0>> \in R[0])
  BY <1>4, SrvLoopsOfPool
<1> QED  BY <1>1, <1>5, <1>6, <1>7, Zenon DEF R, R2

\* The other functors stay.
LEMMA SrvTakenRest ==
  ASSUME NEW s, SrvGood(s), NEW u, NEW l, NEW f, SrvTaken(s, u, l, f), NEW m \in SrvLoops
  PROVE  SrvPend(u)[m] = IF m = l THEN SrvPend(s)[m] \ {f} ELSE SrvPend(s)[m]
<1>1. SrvPend(s) \in [SrvLoops -> SUBSET SrvFunctors]
  BY Zenon DEF SrvGood, SrvBooked, SrvBook, SrvShapes
<1> QED  BY <1>1, Zenon DEF SrvTaken, SrvLoses

\* t is u but for the life of a connection.
SrvRelives(u, t, conn2) ==
  /\ t \in SrvRecord /\ ~t.fault /\ t.conn = conn2
  /\ t.made = u.made /\ t.home = u.home /\ t.map = u.map /\ t.server = u.server
  /\ t.started = u.started /\ t.listening = u.listening
  /\ t.run = u.run /\ t.q = u.q /\ t.pool = u.pool /\ t.next = u.next /\ t.top = u.top /\ t.told = u.told
  /\ t.accepting = u.accepting /\ t.stolen = u.stolen /\ t.spare = u.spare

\* The invariant, when the functor taken changes the life of its connection.
LEMMA SrvRelivesGood ==
  ASSUME NEW s, SrvGood(s), NEW u, NEW l, NEW f, SrvTaken(s, u, l, f), f[1] # "listen",
         NEW conn2, SrvBook(s.made, s.home, conn2, s.map, s.server, SrvPend(u)),
         NEW t, SrvRelives(u, t, conn2)
  PROVE  SrvGood(t)
<1>1. SrvPend(t) = SrvPend(u) /\ \A m \in SrvLoops : SrvLine(t.run[m] \o t.q[m])
  BY DEF SrvPend, SrvRelives, SrvTaken
<1>2. SrvBooked(t)
  BY <1>1 DEF SrvBooked, SrvRelives, SrvTaken
<1>3. SrvTops(t) /\ SrvTurns(t)
  BY SrvPartsSame, Zenon DEF SrvRelives, SrvTaken
<1>4. <<"listen", 0>> \in SrvPend(u)[0] <=> <<"listen", 0>> \in SrvPend(s)[0]
  BY SrvTakenTokens, Zenon
<1>5. SrvListens(s) /\ t.started = s.started /\ t.listening = s.listening
  BY Zenon DEF SrvGood, SrvRelives, SrvTaken
<1>6. SrvListens(t)
  BY <1>1, <1>4, <1>5, SrvPartsSame, Zenon
<1> QED  BY <1>2, <1>3, <1>6, Zenon DEF SrvGood, SrvRelives, SrvTaken

\* listen runs in the base loop.
LEMMA SrvListenRuns ==
  ASSUME NEW s, SrvGood(s), NEW u, NEW l, NEW f, SrvTaken(s, u, l, f), f[1] = "listen"
  PROVE  SrvGood([u EXCEPT !.listening = @ + 1])
<1> DEFINE t == [u EXCEPT !.listening = @ + 1]
<1>1. u \in SrvRecord /\ u.listening + 1 \in Nat
  BY SrvFields DEF SrvTaken
<1>2. /\ t \in SrvRecord /\ t.fault = u.fault /\ t.listening = u.listening + 1 /\ SrvKept(u, t)
      /\ t.started = u.started /\ t.pool = u.pool /\ t.next = u.next /\ t.top = u.top /\ t.told = u.told
      /\ t.accepting = u.accepting /\ t.stolen = u.stolen /\ t.spare = u.spare
  BY <1>1, Zenon DEF SrvRecord, SrvKept
<1> HIDE DEF t
<1>3. SrvBooked(u)
  <2>1. SrvBook(s.made, s.home, s.conn, s.map, s.server, SrvPend(u))
    BY SrvTakenTokens
  <2> QED  BY <2>1 DEF SrvBooked, SrvTaken
<1>4. SrvBooked(t) /\ SrvPend(t) = SrvPend(u)
  BY <1>2, <1>3, SrvStaysBooked
<1>5. SrvTops(t) /\ SrvTurns(t)
  BY <1>2, SrvPartsSame, Zenon DEF SrvTaken, SrvKept
<1>6. SrvListens(t)
  <2>0. l = 0 /\ f[2] = 0
    BY SrvTakenTokens, Zenon
  <2>1. f = <<"listen", 0>> /\ l = 0 /\ f \in SrvPend(s)[0] /\ 0 \in SrvLoops
    BY <2>0 DEF SrvTaken
  <2>2. <<"listen", 0>> \notin SrvPend(u)[0]
    <3>1. \A m \in SrvLoops : SrvPend(u)[m] = IF m = l THEN SrvPend(s)[m] \ {f} ELSE SrvPend(s)[m]
      BY SrvTakenRest
    <3> QED  BY <2>1, <3>1, Zenon
  <2>3. SrvListens(s) /\ u.started = s.started /\ u.listening = s.listening
    BY DEF SrvGood, SrvTaken
  <2> QED  BY <1>2, <1>4, <2>1, <2>2, <2>3 DEF SrvListens
<1> QED  BY <1>2, <1>4, <1>5, <1>6, Zenon DEF SrvGood, SrvTaken, t

\* connectEstablished runs in the connection's loop.
LEMMA SrvEstablishedRuns ==
  ASSUME NEW s, SrvGood(s), NEW u, NEW l, NEW f, SrvTaken(s, u, l, f), f[1] = "established"
  PROVE  SrvGood(SrvEstablish(u, f[2]))
<1> DEFINE i == f[2]
           t == SrvEstablish(u, i)
           conn2 == [s.conn EXCEPT ![i] = "up"]
<1>1. u \in SrvRecord /\ u.conn = s.conn /\ ~u.fault /\ s.conn \in [SrvIds -> SrvStates]
  BY SrvFields DEF SrvTaken, SrvGood
<1>2. SrvSetTo(s.conn, conn2, i, "up") /\ SrvIsOf(f, "established", i)
  BY DEF SrvSetTo, SrvIsOf
<1>3. SrvBook(s.made, s.home, s.conn, s.map, s.server, SrvPend(s)) /\ l \in SrvLoops /\ f \in SrvPend(s)[l]
      /\ SrvLoses(SrvPend(s), SrvPend(u), l, f)
  BY SrvTakenTokens DEF SrvTaken
<1>4. conn2 \in [SrvIds -> SrvStates]
  BY <1>1, Zenon DEF SrvStates
<1>5. s.conn[i] = "queued"
  BY <1>3, Zenon DEF SrvBook, SrvTokens
<1>6. t = [u EXCEPT !.conn = conn2, !.fault = u.fault \/ s.conn[i] # "queued"]
  BY <1>1 DEF SrvEstablish
<1> HIDE DEF conn2, t, i
<1>7. SrvBook(s.made, s.home, conn2, s.map, s.server, SrvPend(u))
  BY <1>2, <1>3, SrvBookEstablish, Zenon
<1>8. SrvRelives(u, t, conn2)
  BY <1>1, <1>4, <1>5, <1>6, Zenon DEF SrvRecord, SrvRelives
<1>9. SrvGood(t)
  BY <1>7, <1>8, SrvRelivesGood
<1> QED  BY <1>9 DEF t, i

\* connectDestroyed runs in the connection's loop.
LEMMA SrvDestroyedRuns ==
  ASSUME NEW s, SrvGood(s), NEW u, NEW l, NEW f, SrvTaken(s, u, l, f), f[1] = "destroyed"
  PROVE  SrvGood(SrvDestroyConn(u, f[2]))
<1> DEFINE i == f[2]
           t == SrvDestroyConn(u, i)
           conn2 == [s.conn EXCEPT ![i] = "destroyed"]
<1>1. u \in SrvRecord /\ u.conn = s.conn /\ ~u.fault /\ s.conn \in [SrvIds -> SrvStates]
  BY SrvFields DEF SrvTaken, SrvGood
<1>2. SrvSetTo(s.conn, conn2, i, "destroyed") /\ SrvIsOf(f, "destroyed", i) /\ <<"established", i>> \notin SrvPend(s)[l]
  BY DEF SrvSetTo, SrvIsOf, SrvTaken
<1>3. SrvBook(s.made, s.home, s.conn, s.map, s.server, SrvPend(s)) /\ l \in SrvLoops /\ f \in SrvPend(s)[l]
      /\ SrvLoses(SrvPend(s), SrvPend(u), l, f)
  BY SrvTakenTokens DEF SrvTaken
<1>4. conn2 \in [SrvIds -> SrvStates]
  BY <1>1, Zenon DEF SrvStates
<1>5. t = [u EXCEPT !.conn = conn2, !.fault = u.fault \/ s.conn[i] = "destroyed"]
  BY <1>1 DEF SrvDestroyConn
<1> HIDE DEF conn2, t, i
<1>6. SrvBook(s.made, s.home, conn2, s.map, s.server, SrvPend(u)) /\ s.conn[i] # "destroyed"
  BY <1>2, <1>3, SrvBookDestroy, Zenon
<1>7. SrvRelives(u, t, conn2)
  BY <1>1, <1>4, <1>5, <1>6, Zenon DEF SrvRecord, SrvRelives
<1>8. SrvGood(t)
  BY <1>6, <1>7, SrvRelivesGood
<1> QED  BY <1>8 DEF t, i

\* removeConnectionInLoop runs in the base loop, while the server lives.
LEMMA SrvRemoveRuns ==
  ASSUME NEW s, SrvGood(s), NEW u, NEW l, NEW f, SrvTaken(s, u, l, f), f[1] = "remove", s.top[l] = "run", s.server # "dead"
  PROVE  SrvGood(RemoveInLoop(u, f[2]))
<1> DEFINE i == f[2]
<1>1. /\ SrvTokens(s.home, s.conn, s.map, s.server, SrvPend(s)) /\ l \in SrvLoops /\ f \in SrvPend(s)[l] /\ i \in SrvIds
      /\ SrvBook(s.made, s.home, s.conn, s.map, s.server, SrvPend(u)) /\ f = <<"remove", i>>
  BY SrvTakenTokens, Zenon DEF SrvTaken, SrvBook
<1>2. l = 0 /\ (s.server = "alive" => s.conn[i] = "closing") /\ \A m \in SrvLoops : <<"remove", i>> \in SrvPend(s)[m] => m = 0
  BY <1>1 DEF SrvTokens
<1>3. s.server = "alive"
  <2>1. SrvTops(s) /\ s.server \in {"alive", "dying", "dead"}
    BY SrvFields DEF SrvGood
  <2> QED  BY <1>2, <2>1 DEF SrvTops
<1>4. SrvBooked(u)
  BY <1>1 DEF SrvBooked, SrvTaken
<1>5. SrvListens(u)
  <2>1. SrvListens(s) /\ u.started = s.started /\ u.listening = s.listening
    BY DEF SrvGood, SrvTaken
  <2>2. <<"listen", 0>> \in SrvPend(u)[0] <=> <<"listen", 0>> \in SrvPend(s)[0]
    BY SrvTakenTokens
  <2> QED  BY <2>1, <2>2, SrvPartsSame, Zenon
<1>6. SrvGood(u)
  BY <1>4, <1>5, Zenon DEF SrvGood, SrvTaken
<1>7. SrvRemovable(u.conn, SrvPend(u), i) /\ u.server = "alive"
  <2>1. u.conn[i] = "closing" /\ u.server = "alive"
    BY <1>2, <1>3 DEF SrvTaken
  <2>2. \A m \in SrvLoops : SrvPend(u)[m] = IF m = l THEN SrvPend(s)[m] \ {f} ELSE SrvPend(s)[m]
    BY SrvTakenRest
  <2>3. \A m \in SrvLoops : <<"remove", i>> \notin SrvPend(u)[m]
    BY <1>1, <1>2, <2>2, Zenon
  <2> QED  BY <2>1, <2>3 DEF SrvRemovable
<1> QED  BY <1>1, <1>6, <1>7, SrvRemoveGood, Zenon

\* A loop runs its next functor.
LEMMA SrvFunctorGood ==
  ASSUME SrvGood(srv), NEW l \in SrvLoops, SrvFunctor(l)
  PROVE  SrvGood(srv')
<1> DEFINE f == Head(srv.run[l])
           u == [srv EXCEPT !.run[l] = Tail(@)]
<1>1. srv.top[l] = "run" /\ srv.run[l] # << >> /\ (srv.server = "dead" => f[1] = "destroyed")
  BY Zenon DEF SrvFunctor
<1>2. srv' = CASE f[1] = "listen" -> [u EXCEPT !.listening = @ + 1]
               [] f[1] = "established" -> SrvEstablish(u, f[2])
               [] f[1] = "remove" -> RemoveInLoop(u, f[2])
               [] f[1] = "destroyed" -> SrvDestroyConn(u, f[2])
  BY Zenon DEF SrvFunctor
<1>3. SrvTaken(srv, u, l, f)
  BY <1>1, SrvTakeTaken, Zenon
<1> HIDE DEF f, u
<1>4. f[1] \in {"listen", "established", "remove", "destroyed"}
  BY <1>3 DEF SrvTaken
<1>5. CASE f[1] = "listen"
  BY <1>2, <1>3, <1>5, SrvListenRuns
<1>6. CASE f[1] = "established"
  BY <1>2, <1>3, <1>6, SrvEstablishedRuns
<1>7. CASE f[1] = "remove"
  BY <1>1, <1>2, <1>3, <1>7, SrvRemoveRuns
<1>8. CASE f[1] = "destroyed"
  BY <1>2, <1>3, <1>8, SrvDestroyedRuns
<1> QED  BY <1>4, <1>5, <1>6, <1>7, <1>8

\* The connectDestroyed functors ~TcpServer sends to loop l; a sequence that lists a set of functors.
SrvSentTo(map, home, l) == {<<"destroyed", i>> : i \in {j \in map : home[j] = l}}
SrvListing(a, S) == a \in Seq(SrvFunctors) /\ Range(a) = S /\ \A j, k \in DOMAIN a : a[j] = a[k] => j = k

\* They are sent in the order the map has.
LEMMA SrvSentLists ==
  ASSUME NEW map, map \in SUBSET SrvIds, NEW home, NEW l
  PROVE  SrvListing(SrvOrdered(SrvSentTo(map, home, l)), SrvSentTo(map, home, l))
<1> DEFINE S == SrvSentTo(map, home, l)
           J == {j \in map : home[j] = l}
           g == [j \in J |-> <<"destroyed", j>>]
<1>1. IsFiniteSet(J)
  <2>1. IsFiniteSet(SrvIds)
    BY SrvAssumption, FS_Interval DEF SrvIds
  <2> QED  BY <2>1, FS_Subset
<1>2. S \subseteq SrvFunctors
  BY DEF SrvFunctors, SrvIds, SrvSentTo
<1>3. g \in Surjection(J, S)
  BY DEF Surjection, SrvSentTo
<1> HIDE DEF g, J, S
<1>4. IsFiniteSet(S)
  BY <1>1, <1>3, FS_Surjection
<1>5. /\ SrvOrdered(S) \in Seq(SrvFunctors) /\ Range(SrvOrdered(S)) = S
      /\ \A j, k \in DOMAIN SrvOrdered(S) : SrvOrdered(S)[j] = SrvOrdered(S)[k] => j = k
  BY <1>2, <1>4, SrvOrderedLists, Zenon
<1> QED  BY <1>5, Zenon DEF SrvListing, S

\* ~TcpServer.
LEMMA SrvDestructorGood ==
  ASSUME SrvGood(srv), SrvDestructor
  PROVE  SrvGood(srv')
<1> DEFINE s == srv
           t == srv'
           Of(l) == SrvSentTo(s.map, s.home, l)
           sent(l) == SrvOrdered(Of(l))
           q2 == [l \in SrvLoops |-> IF l = 0 THEN s.q[0] ELSE s.q[l] \o sent(l)]
           conn2 == [i \in SrvIds |-> IF i \in s.map /\ s.home[i] = 0 THEN "destroyed" ELSE s.conn[i]]
           R == SrvPend(s)
<1>1. /\ s \in SrvRecord /\ ~s.fault /\ (s.accepting = "no" /\ ~s.stolen => s.spare)
      /\ SrvBooked(s) /\ SrvTops(s) /\ SrvTurns(s) /\ SrvListens(s)
  BY DEF SrvGood
<1>2. s.server = "alive" /\ s.top[0] = "poll"
  BY DEF SrvDestructor, SrvGoes, SrvFree
<1>3. /\ SrvBook(s.made, s.home, s.conn, s.map, "alive", R)
      /\ \A m \in SrvLoops : SrvLine(s.run[m] \o s.q[m])
  BY <1>1, <1>2 DEF SrvBooked
<1>4. /\ s.q \in [SrvLoops -> Seq(SrvFunctors)] /\ s.conn \in [SrvIds -> SrvStates] /\ s.map \in SUBSET SrvIds
      /\ s.run \in [SrvLoops -> Seq(SrvFunctors)] /\ 0 \in SrvLoops
  BY <1>1, SrvFields, SrvLoopsOfPool
<1>5. \A l \in SrvLoops : /\ sent(l) \in Seq(SrvFunctors) /\ Range(sent(l)) = Of(l)
                          /\ \A j, k \in DOMAIN sent(l) : sent(l)[j] = sent(l)[k] => j = k
  <2> SUFFICES ASSUME NEW l \in SrvLoops
               PROVE  /\ sent(l) \in Seq(SrvFunctors) /\ Range(sent(l)) = Of(l)
                      /\ \A j, k \in DOMAIN sent(l) : sent(l)[j] = sent(l)[k] => j = k
    BY Zenon
  <2>1. s.map \in SUBSET SrvIds
    BY <1>4
  <2>2. SrvListing(sent(l), Of(l))
    BY <2>1, SrvSentLists, Zenon
  <2> QED  BY <2>2, Zenon DEF SrvListing
<1>6. \A l \in SrvLoops : \A f \in Of(l) : f[1] = "destroyed" /\ f \notin R[l]
  <2>1. \A l \in SrvLoops : \A f \in R[l] : f[1] = "destroyed" => f[2] \notin s.map
    BY <1>3 DEF SrvBook, SrvTokens
  <2> HIDE DEF R
  <2> QED  BY <2>1 DEF SrvSentTo
<1>7. t = [s EXCEPT !.server = "dying", !.map = {}, !.q = q2, !.conn = conn2]
  BY DEF SrvDestructor, SrvSentTo
<1>8. {} \in SUBSET SrvIds /\ conn2 \in [SrvIds -> SrvStates]
  BY <1>4 DEF SrvStates
<1> HIDE DEF sent
<1>9. \A l \in SrvLoops : q2[l] = IF l = 0 THEN s.q[0] ELSE s.q[l] \o sent(l)
  OBVIOUS
<1>10. q2 \in [SrvLoops -> Seq(SrvFunctors)]
  <2>1. \A l \in SrvLoops : (IF l = 0 THEN s.q[0] ELSE s.q[l] \o sent(l)) \in Seq(SrvFunctors)
    <3>1. \A a, b \in Seq(SrvFunctors) : a \o b \in Seq(SrvFunctors)
      BY ConcatProperties
    <3> QED  BY <1>4, <1>5, <3>1
  <2> QED  BY <2>1
<1>11. conn2 = [i \in SrvIds |-> IF i \in s.map /\ s.home[i] = 0 THEN "destroyed" ELSE s.conn[i]]
  OBVIOUS
<1> HIDE DEF t, q2, conn2
<1>12. /\ t \in SrvRecord /\ t.q = q2 /\ t.conn = conn2 /\ t.map = {} /\ ~t.fault /\ t.server = "dying"
       /\ t.run = s.run /\ t.made = s.made /\ t.home = s.home /\ t.pool = s.pool
       /\ t.next = s.next /\ t.top = s.top /\ t.told = s.told /\ t.started = s.started /\ t.listening = s.listening
       /\ t.accepting = s.accepting /\ t.stolen = s.stolen /\ t.spare = s.spare
  BY <1>1, <1>7, <1>8, <1>10, Zenon DEF SrvRecord
<1>13. ASSUME NEW l \in SrvLoops
       PROVE  SrvLine(t.run[l] \o t.q[l]) /\ Range(t.run[l] \o t.q[l]) = IF l = 0 THEN R[l] ELSE R[l] \cup Of(l)
  <2>0. R[l] = Range(s.run[l] \o s.q[l])
    BY DEF SrvPend
  <2>1. CASE l = 0
    BY <1>3, <1>9, <1>12, <2>0, <2>1
  <2>2. CASE l # 0
    <3> DEFINE a == s.run[l] \o s.q[l]
               b == sent(l)
    <3>1. t.run[l] \o t.q[l] = a \o b
      <4>1. \A x, y, z \in Seq(SrvFunctors) : (x \o y) \o z = x \o (y \o z)
        BY ConcatAssociative
      <4>2. s.run[l] \in Seq(SrvFunctors) /\ s.q[l] \in Seq(SrvFunctors) /\ b \in Seq(SrvFunctors)
        BY <1>4, <1>5
      <4>3. (s.run[l] \o s.q[l]) \o b = s.run[l] \o (s.q[l] \o b)
        BY <4>1, <4>2, Zenon
      <4>4. t.run[l] = s.run[l] /\ t.q[l] = s.q[l] \o b
        BY <1>9, <1>12, <2>2, Zenon
      <4> QED  BY <4>3, <4>4, Zenon
    <3>2. /\ SrvLine(a) /\ b \in Seq(SrvFunctors) /\ (\A j, k \in DOMAIN b : b[j] = b[k] => j = k)
          /\ Range(b) = Of(l)
      BY <1>3, <1>5
    <3>3. \A f \in Range(b) : f[1] = "destroyed" /\ f \notin Range(a)
      BY <1>6, <2>0, <3>2
    <3>4. R[l] = Range(a)
      BY <2>0
    <3> HIDE DEF a, b
    <3>5. SrvLine(a \o b) /\ Range(a \o b) = Range(a) \cup Range(b)
      BY <3>2, <3>3, SrvLineConcat
    <3> HIDE DEF R
    <3> QED  BY <2>2, <3>1, <3>2, <3>4, <3>5
  <2> QED  BY <2>1, <2>2
<1> DEFINE R2 == SrvPend(t)
<1>14. \A l \in SrvLoops : R2[l] = IF l = 0 THEN R[l] ELSE R[l] \cup Of(l)
  BY <1>13 DEF SrvPend
<1>15. R2 \in [SrvLoops -> SUBSET SrvFunctors]
  <2>1. R \in [SrvLoops -> SUBSET SrvFunctors]
    BY <1>3 DEF SrvBook, SrvShapes
  <2>2. \A l \in SrvLoops : Of(l) \subseteq SrvFunctors
    BY <1>4 DEF SrvFunctors, SrvIds, SrvSentTo
  <2>3. DOMAIN R2 = SrvLoops /\ R2 = [l \in SrvLoops |-> R2[l]]
    BY DEF SrvPend
  <2> HIDE DEF R, R2, Of
  <2>4. \A l \in SrvLoops : R2[l] \in SUBSET SrvFunctors
    BY <1>14, <2>1, <2>2, Zenon
  <2> QED  BY <2>3, <2>4
<1>16. SrvUnmakes(s.home, s.conn, s.map, R, conn2, R2)
  <2> HIDE DEF R, R2
  <2> QED  BY <1>11, <1>14, <1>15, Zenon DEF SrvUnmakes, SrvSentTo
<1>17. SrvBook(s.made, s.home, conn2, {}, "dying", R2)
  <2> HIDE DEF R, R2
  <2> QED  BY <1>3, <1>16, SrvBookDestructor, Zenon
<1>18. SrvBooked(t)
  BY <1>12, <1>13, <1>17, Zenon DEF SrvBooked
<1>19. SrvTurns(t) /\ SrvListens(t)
  <2>1. <<"listen", 0>> \in R2[0] => <<"listen", 0>> \in R[0]
    BY <1>4, <1>14, Zenon
  <2> QED  BY <1>1, <1>12, <2>1, SrvPartsSame, Zenon
<1>20. SrvTops(t)
  BY <1>1, <1>2, <1>12 DEF SrvTops
<1> QED  BY <1>1, <1>12, <1>18, <1>19, <1>20, Zenon DEF SrvGood, t

-----------------------------------------------------------------------------
\* The invariant of the server.
SrvInv == SrvGood(srv)

\* A server is made with empty loops, before start.
LEMMA SrvInitGood == SrvInit => SrvInv
<1> SUFFICES ASSUME SrvInit  PROVE SrvGood(srv)
  BY DEF SrvInv
<1> DEFINE s == srv
           none == [l \in SrvLoops |-> << >>]
<1>1. /\ s.pool \in SrvPools /\ s.started = 0 /\ s.listening = 0 /\ s.server = "alive" /\ s.next = 0 /\ s.made = 0
      /\ s.home = [i \in SrvIds |-> 0] /\ s.conn = [i \in SrvIds |-> "none"] /\ s.map = {}
      /\ s.q = none /\ s.run = none /\ s.top = [l \in SrvLoops |-> "poll"] /\ s.told = 0
      /\ s.spare = TRUE /\ s.fault = FALSE
  BY Zenon DEF SrvInit
<1>2. 0 \in SrvLoops /\ s.pool \in Nat /\ SrvConns \in Nat
  BY <1>1, SrvLoopsOfPool, SrvAssumption, Zenon
<1>3. s \in SrvRecord
  <2>1. /\ none \in [SrvLoops -> Seq(SrvFunctors)] /\ [i \in SrvIds |-> 0] \in [SrvIds -> SrvLoops]
        /\ [i \in SrvIds |-> "none"] \in [SrvIds -> SrvStates] /\ {} \in SUBSET SrvIds
        /\ [l \in SrvLoops |-> "poll"] \in [SrvLoops -> {"poll", "run", "done"}] /\ 0 \in Nat /\ 0 \in Int
    BY <1>2 DEF SrvStates
  <2>2. /\ "alive" \in {"alive", "dying", "dead"} /\ "no" \in {"no", "closed", "dropped"}
        /\ TRUE \in BOOLEAN /\ FALSE \in BOOLEAN
    OBVIOUS
  <2>3. /\ s.lean \in BOOLEAN /\ s.backlog = 0 /\ s.others = 0 /\ s.accepting = "no" /\ s.stolen = FALSE
        /\ s.exited = FALSE
        /\ s = [lean |-> s.lean, pool |-> s.pool, started |-> s.started, listening |-> s.listening,
                server |-> s.server, next |-> s.next, made |-> s.made, home |-> s.home, conn |-> s.conn,
                map |-> s.map, q |-> s.q, run |-> s.run, top |-> s.top, told |-> s.told, backlog |-> s.backlog,
                others |-> s.others, spare |-> s.spare, accepting |-> s.accepting, stolen |-> s.stolen,
                exited |-> s.exited, fault |-> s.fault]
    BY Zenon DEF SrvInit
  <2>4. /\ s.lean \in BOOLEAN /\ s.pool \in SrvPools /\ s.started \in Nat /\ s.listening \in Nat
        /\ s.server \in {"alive", "dying", "dead"} /\ s.next \in Nat /\ s.made \in Nat
        /\ s.home \in [SrvIds -> SrvLoops] /\ s.conn \in [SrvIds -> SrvStates] /\ s.map \in SUBSET SrvIds
    BY <1>1, <2>1, <2>2, <2>3
  <2>5. /\ s.q \in [SrvLoops -> Seq(SrvFunctors)] /\ s.run \in [SrvLoops -> Seq(SrvFunctors)]
        /\ s.top \in [SrvLoops -> {"poll", "run", "done"}] /\ s.told \in Nat /\ s.backlog \in Int /\ s.others \in Int
    BY <1>1, <2>1, <2>3
  <2>6. /\ s.spare \in BOOLEAN /\ s.accepting \in {"no", "closed", "dropped"} /\ s.stolen \in BOOLEAN
        /\ s.exited \in BOOLEAN /\ s.fault \in BOOLEAN
    BY <1>1, <2>2, <2>3, Zenon
  <2> QED  BY <2>3, <2>4, <2>5, <2>6, Zenon DEF SrvRecord
<1>4. \A l \in SrvLoops : s.run[l] \o s.q[l] = << >>
  BY <1>1
<1>5. SrvLine(<< >>) /\ Range(<< >>) = {}
  BY DEF SrvLine, Range
<1>6. \A l \in SrvLoops : SrvPend(s)[l] = {}
  BY <1>4, <1>5, Zenon DEF SrvPend
<1>7. SrvBooked(s)
  <2>1. SrvShapes(s.made, s.home, s.conn, s.map, s.server, SrvPend(s))
    BY <1>1, <1>2, <1>6 DEF SrvShapes, SrvStates, SrvPend
  <2>2. SrvLists(s.made, s.home, s.conn, s.map, s.server)
    BY <1>1 DEF SrvLists, SrvIds, SrvListed
  <2>3. SrvTokens(s.home, s.conn, s.map, s.server, SrvPend(s))
    BY <1>1, <1>6 DEF SrvTokens, SrvListed
  <2> QED  BY <1>4, <1>5, <2>1, <2>2, <2>3, Zenon DEF SrvBooked, SrvBook
<1>8. SrvListens(s)
  BY <1>1, <1>2, <1>6 DEF SrvListens
<1>9. SrvTurns(s)
  BY <1>1, <1>2 DEF SrvTurns
<1>10. SrvTops(s)
  BY <1>1, <1>2 DEF SrvTops
<1> QED  BY <1>1, <1>3, <1>7, <1>8, <1>9, <1>10 DEF SrvGood

\* Every step keeps the functors of each connection in agreement with its life.
LEMMA SrvStepGood == SrvInv /\ [SrvNext]_srv => SrvInv'
<1> SUFFICES ASSUME SrvGood(srv), [SrvNext]_srv  PROVE SrvGood(srv')
  BY DEF SrvInv
<1>1. CASE UNCHANGED srv
  BY <1>1
<1>2. ASSUME NEW here \in BOOLEAN, TcpServerStart(here)  PROVE SrvGood(srv')
  BY <1>2, SrvStartGood
<1>3. CASE AcceptorHandleRead
  BY <1>3, SrvAcceptGood
<1>4. CASE AcceptorFullClose \/ AcceptorFullDrop \/ AcceptorFullReopen \/ LeanAcceptFails
             \/ SrvPeerConnects \/ SrvOthersOpen \/ SrvOthersClose
  BY <1>4, SrvNotesGood
<1>5. CASE SrvDestructor
  BY <1>5, SrvDestructorGood
<1>6. CASE SrvQuitNext
  BY <1>6, SrvQuitNextGood
<1>7. ASSUME NEW i \in SrvIds, SrvConnCloses(i)  PROVE SrvGood(srv')
  BY <1>7, SrvConnClosesGood
<1>8. ASSUME NEW l \in SrvLoops, SrvSwap(l)  PROVE SrvGood(srv')
  BY <1>8, SrvSwapGood
<1>9. ASSUME NEW l \in SrvLoops, SrvAgain(l)  PROVE SrvGood(srv')
  BY <1>9, SrvAgainGood
<1>10. ASSUME NEW l \in SrvLoops, SrvFunctor(l)  PROVE SrvGood(srv')
  BY <1>10, SrvFunctorGood
<1> QED  BY <1>1, <1>2, <1>3, <1>4, <1>5, <1>6, <1>7, <1>8, <1>9, <1>10, Zenon DEF SrvNext

\* A connection is in the loop whose turn it was.
LEMMA SrvHomeInPool ==
  ASSUME NEW s \in SrvRecord, SrvTurns(s), NEW i \in 1 .. s.made
  PROVE  s.home[i] = 0 \/ s.home[i] \in 1 .. s.pool
<1> DEFINE p == s.pool
           m == i - 1
<1>1. p \in Nat /\ m \in Nat /\ s.home[i] = IF p = 0 THEN 0 ELSE (m % p) + 1
  BY SrvFields, SrvLoopsOfPool DEF SrvTurns
<1> HIDE DEF p, m
<1>2. p # 0 => m % p \in 0 .. (p - 1)
  BY <1>1
<1> QED  BY <1>1, <1>2 DEF p

\* The invariant gives what the server promises.
LEMMA SrvGoodSound == SrvInv => ServerSound
<1> SUFFICES ASSUME SrvGood(srv)  PROVE ServerSound
  BY DEF SrvInv
<1> DEFINE s == srv
<1>1. /\ s \in SrvRecord /\ ~s.fault /\ (s.accepting = "no" /\ ~s.stolen => s.spare)
      /\ SrvBooked(s) /\ SrvTops(s) /\ SrvTurns(s) /\ SrvListens(s)
  BY DEF SrvGood
<1>2. SrvLists(s.made, s.home, s.conn, s.map, s.server) /\ SrvTokens(s.home, s.conn, s.map, s.server, SrvPend(s))
      /\ s.map \in SUBSET SrvIds
  BY <1>1, SrvFields, Zenon DEF SrvBooked, SrvBook
<1>3. SrvMap
  <2>1. s.listening <= 1
    BY <1>1 DEF SrvListens
  <2>2. s.server = "alive" => s.map = {i \in SrvIds : s.conn[i] \in {"queued", "up", "closing"}}
    BY <1>2 DEF SrvLists, SrvListed
  <2> QED  BY <1>1, <2>1, <2>2 DEF SrvMap, SrvTurns
<1>4. SrvLeft
  <2> SUFFICES ASSUME s.server = "dead", NEW i \in SrvOpen(s)
               PROVE  \/ \E j \in DOMAIN s.q[s.home[i]] : s.q[s.home[i]][j] = <<"destroyed", i>>
                      \/ \E j \in DOMAIN s.run[0] : s.run[0][j][2] = i
                      \/ \E j \in DOMAIN s.q[0] : s.q[0][j] \in {<<"remove", i>>, <<"destroyed", i>>}
    BY Zenon DEF SrvLeft
  <2> DEFINE h == s.home[i]
             f == <<"destroyed", i>>
  <2>1. i \in SrvIds /\ s.conn[i] \in SrvListed \cup {"removed"} /\ s.conn[i] # "none"
    BY DEF SrvOpen, SrvListed
  <2>2. i \notin s.map /\ i \in 1 .. s.made
    <3>1. ~(i > s.made) /\ s.made \in Nat
      BY <1>1, <1>2, <2>1, SrvFields, Zenon DEF SrvLists
    <3> QED  BY <1>2, <2>1, <3>1 DEF SrvLists, SrvIds
  <2>3. h \in SrvLoops /\ s.q[h] \in Seq(SrvFunctors) /\ s.run[h] \in Seq(SrvFunctors) /\ f \in SrvPend(s)[h]
    <3>1. h \in SrvLoops
      BY <1>1, <2>1, SrvFields
    <3>2. f \in SrvPend(s)[h]
      BY <1>2, <2>1, <2>2 DEF SrvTokens
    <3>3. s.q \in [SrvLoops -> Seq(SrvFunctors)] /\ s.run \in [SrvLoops -> Seq(SrvFunctors)]
      BY <1>1, SrvFields
    <3> QED  BY <3>1, <3>2, <3>3, Zenon
  <2>4. h = 0 \/ s.run[h] = << >>
    <3>1. h = 0 \/ h \in 1 .. s.pool
      BY <1>1, <2>2, SrvHomeInPool
    <3> QED  BY <1>1, <2>3, <3>1 DEF SrvTops
  <2> HIDE DEF h
  <2>5. (\E j \in DOMAIN s.run[h] : s.run[h][j] = f) \/ (\E j \in DOMAIN s.q[h] : s.q[h][j] = f)
    <3> DEFINE a == s.run[h]
               b == s.q[h]
    <3>1. PICK k \in DOMAIN (a \o b) : (a \o b)[k] = f
      BY <2>3, Zenon DEF SrvPend, Range
    <3>2. a \in Seq(SrvFunctors) /\ b \in Seq(SrvFunctors)
      BY <2>3
    <3> HIDE DEF a, b
    <3>3. /\ k \in 1 .. (Len(a) + Len(b)) /\ DOMAIN a = 1 .. Len(a) /\ DOMAIN b = 1 .. Len(b)
          /\ Len(a) \in Nat /\ Len(b) \in Nat
          /\ (a \o b)[k] = IF k <= Len(a) THEN a[k] ELSE b[k - Len(a)]
      BY <3>1, <3>2, ConcatProperties
    <3>4. CASE k <= Len(a)
      BY <3>1, <3>3, <3>4 DEF a
    <3>5. CASE ~(k <= Len(a))
      <4>1. k - Len(a) \in DOMAIN b /\ b[k - Len(a)] = f
        BY <3>1, <3>3, <3>5
      <4> QED  BY <4>1 DEF b
    <3> QED  BY <3>4, <3>5
  <2>6. CASE h = 0
    BY <2>5, <2>6 DEF h
  <2>7. CASE s.run[h] = << >>
    <3>1. DOMAIN << >> = {}
      OBVIOUS
    <3>2. \E j \in DOMAIN s.q[h] : s.q[h][j] = f
      BY <2>5, <2>7, <3>1, Zenon
    <3> QED  BY <3>2 DEF h
  <2> QED  BY <2>4, <2>6, <2>7, Zenon
<1>5. SrvSpare
  BY <1>1 DEF SrvSpare
<1> QED  BY <1>1, <1>3, <1>4, <1>5 DEF ServerSound

(* Through every order of accepts, closes, functors run in the loops, a full      *)
(* descriptor table and ~TcpServer, for pools of any size and any number of       *)
(* connections: connectEstablished and connectDestroyed run once each and in this *)
(* order, the map lists the connections whose removal has not run, each is in the *)
(* loop whose turn it was, and one that outlives the server left its functor.     *)
THEOREM ServerAlwaysSound == SrvSpec => []ServerSound
<1>1. SrvInit => SrvInv
  BY SrvInitGood
<1>2. SrvInv /\ [SrvNext]_srv => SrvInv'
  BY SrvStepGood
<1>3. SrvInv => ServerSound
  BY SrvGoodSound
<1> QED  BY <1>1, <1>2, <1>3, PTL DEF SrvSpec
=============================================================================
