------------------------ MODULE SchedulingPasses_proofs ------------------------
(***************************************************************************)
(* What the passes of SimpleSchedulingPolicyv2.schedule make of the plans, *)
(* for any pipelines, sessions, models and backends.  A fold is unfolded   *)
(* into the sequence of its values, and a property of these is a set of    *)
(* indices, closed under the step.                                         *)
(***************************************************************************)
EXTENDS SchedulingPasses, FiniteSetTheorems, FunctionTheorems, SequenceTheorems, WellFoundedInduction, TLAPS

(* A set of naturals has a least element.                                  *)
LEMMA LeastElement ==
    ASSUME NEW T \in SUBSET Nat, T # {}
    PROVE  \E x \in T : \A y \in T : x <= y
  <1> DEFINE R == OpToRel(<, Nat)
  <1>1. IsWellFoundedOn(R, Nat)
    BY NatLessThanWellFounded
  <1>2. PICK x \in T : \A y \in T : ~ (<<y, x>> \in R)
    <2> HIDE DEF R
    <2> QED
      BY <1>1, WFMin
  <1>3. \A y \in T : ~ (y < x)
    BY <1>2 DEF OpToRel
  <1> QED
    BY <1>3

(* Induction up to n, for a property given by the set of its numbers.      *)
LEMMA UpTo ==
    ASSUME NEW n \in Nat, NEW P, 0 \in P, \A i \in 1 .. n : i - 1 \in P => i \in P
    PROVE  \A i \in 0 .. n : i \in P
  <1> SUFFICES ASSUME NEW i \in 0 .. n, i \notin P PROVE FALSE
    OBVIOUS
  <1> DEFINE T == {j \in 0 .. n : j \notin P}
  <1>1. T \in SUBSET Nat /\ T # {}
    OBVIOUS
  <1>2. PICK x \in T : \A y \in T : x <= y
    BY <1>1, LeastElement
  <1>3. x # 0 /\ x \in 1 .. n /\ x - 1 \in 0 .. n /\ ~ (x <= x - 1)
    BY <1>2
  <1>4. x - 1 \in P
    BY <1>2, <1>3
  <1> QED
    BY <1>3, <1>4

(* The greatest index of a set of indices is one of them.                  *)
LEMMA MaxOfSet ==
    ASSUME NEW n \in Nat, NEW t \in SUBSET (1 .. n), t # {}
    PROVE  Max(t) \in t /\ \A y \in t : Max(t) >= y
  <1> DEFINE T == {i \in Nat : \A y \in t : i >= y}
  <1>1. T \in SUBSET Nat /\ n \in T
    OBVIOUS
  <1>2. PICK x \in T : \A y \in T : x <= y
    BY <1>1, LeastElement
  <1>3. x \in t
    <2> SUFFICES ASSUME x \notin t PROVE FALSE
      OBVIOUS
    <2>1. PICK y \in t : TRUE
      OBVIOUS
    <2>2. x >= 1 /\ \A z \in t : z \in Nat /\ x >= z /\ x # z
      BY <1>2, <2>1
    <2>3. x - 1 \in T
      BY <1>2, <2>2
    <2> QED
      BY <1>2, <2>2, <2>3
  <1>4. \A y \in t : x >= y
    BY <1>2
  <1> QED
    BY <1>3, <1>4 DEF Max

(* The greatest index of a prefix is its last, and without it the prefix   *)
(* is one shorter.                                                         *)
LEMMA MaxOfInterval ==
    ASSUME NEW n \in Nat, NEW i \in 1 .. n
    PROVE  /\ 1 .. i \in SUBSET (1 .. n) /\ 1 .. i # {} /\ Max(1 .. i) = i
           /\ (1 .. i) \ {i} = 1 .. (i - 1)
  <1>1. 1 .. i \in SUBSET (1 .. n) /\ i \in 1 .. i /\ \A y \in 1 .. i : i >= y
    OBVIOUS
  <1>2. Max(1 .. i) \in 1 .. i /\ Max(1 .. i) >= i
    BY <1>1, MaxOfSet
  <1> QED
    BY <1>1, <1>2

(* A fold of the functions G[1], ..., G[n] over x0: a table of its values  *)
(* for every set of indices, and the sequence of its values.               *)
IsTable(h, U, n, x0, G) ==
    /\ h \in [SUBSET (1 .. n) -> U]
    /\ h[{}] = x0
    /\ \A t \in SUBSET (1 .. n) : t # {} => h[t] = G[Max(t)][h[t \ {Max(t)}]]
Unfolds(c, U, n, x0, G) ==
    /\ c[{}] = x0
    /\ \A t \in SUBSET (1 .. n) :
          t # {} /\ c[t \ {Max(t)}] \in U => c[t] = G[Max(t)][c[t \ {Max(t)}]]
IsRun(a, U, n, x0, G) ==
    /\ a \in [0 .. n -> U]
    /\ a[0] = x0
    /\ \A i \in 1 .. n : a[i] = G[i][a[i - 1]]

(* The table of a fold over n elements exists.                             *)
LEMMA FoldTable ==
    ASSUME NEW U, NEW n \in Nat, NEW x0 \in U, NEW G \in [1 .. n -> [U -> U]]
    PROVE  \E h : IsTable(h, U, n, x0, G)
  <1> DEFINE Table(k, h) == /\ h \in [SUBSET (1 .. k) -> U]
                            /\ h[{}] = x0
                            /\ \A t \in SUBSET (1 .. k) :
                                  t # {} => h[t] = G[Max(t)][h[t \ {Max(t)}]]
             P == {k \in 0 .. n : \E h : Table(k, h)}
  <1>1. 0 \in P
    <2> DEFINE h == [t \in SUBSET (1 .. 0) |-> x0]
    <2>1. 1 .. 0 = {} /\ SUBSET (1 .. 0) = {{}}
      OBVIOUS
    <2>2. h \in [SUBSET (1 .. 0) -> U] /\ h[{}] = x0
      BY <2>1
    <2>3. \A t \in SUBSET (1 .. 0) : t = {}
      BY <2>1
    <2> HIDE DEF h
    <2>4. Table(0, h)
      BY <2>2, <2>3
    <2>5. \E hh : Table(0, hh)
      BY <2>4
    <2>6. 0 \in 0 .. n
      OBVIOUS
    <2> HIDE DEF Table
    <2> QED
      BY <2>5, <2>6
  <1>2. ASSUME NEW i \in 1 .. n, i - 1 \in P
        PROVE  i \in P
    <2>1. PICK h : Table(i - 1, h)
      BY <1>2
    <2> DEFINE g == [t \in SUBSET (1 .. i) |-> IF i \in t THEN G[i][h[t \ {i}]] ELSE h[t]]
    <2>2. ASSUME NEW t \in SUBSET (1 .. i)
          PROVE  t \ {i} \in SUBSET (1 .. (i - 1)) /\ (i \notin t => t \in SUBSET (1 .. (i - 1)))
      OBVIOUS
    <2>3. g \in [SUBSET (1 .. i) -> U]
      BY <2>1, <2>2
    <2>4. g[{}] = x0
      BY <2>1
    <2>5. ASSUME NEW t \in SUBSET (1 .. i), t # {}
          PROVE  g[t] = G[Max(t)][g[t \ {Max(t)}]]
      <3>1. i \in Nat /\ Max(t) \in t /\ \A y \in t : Max(t) >= y
        <4>1. i \in Nat
          OBVIOUS
        <4> QED
          BY <2>5, <4>1, MaxOfSet
      <3>2. CASE i \in t
        <4>1. Max(t) = i
          <5>1. Max(t) \in 1 .. i /\ Max(t) >= i
            BY <3>1, <3>2
          <5> QED
            BY <3>1, <5>1
        <4>2. g[t] = G[i][h[t \ {i}]] /\ g[t \ {i}] = h[t \ {i}]
          BY <2>2, <3>2
        <4> QED
          BY <4>1, <4>2
      <3>3. CASE i \notin t
        <4>1. t \in SUBSET (1 .. (i - 1)) /\ i \notin t \ {Max(t)} /\ t \ {Max(t)} \in SUBSET (1 .. i)
          BY <2>2, <3>3
        <4>2. g[t] = h[t] /\ g[t \ {Max(t)}] = h[t \ {Max(t)}]
          BY <3>3, <4>1
        <4>3. h[t] = G[Max(t)][h[t \ {Max(t)}]]
          BY <2>1, <2>5, <4>1
        <4> QED
          BY <4>2, <4>3
      <3> QED
        BY <3>2, <3>3
    <2> HIDE DEF g
    <2>6. Table(i, g)
      BY <2>3, <2>4, <2>5
    <2>7. i \in 0 .. n
      OBVIOUS
    <2> HIDE DEF Table
    <2> QED
      BY <2>6, <2>7
  <1>3. n \in P
    <2>1. \A i \in 1 .. n : i - 1 \in P => i \in P
      BY <1>2
    <2>2. n \in 0 .. n
      OBVIOUS
    <2> HIDE DEF P
    <2> QED
      BY <1>1, <2>1, <2>2, UpTo
  <1> QED
    BY <1>3 DEF IsTable

(* The values a table takes on the prefixes are the steps of the fold.     *)
LEMMA FoldSteps ==
    ASSUME NEW U, NEW n \in Nat, NEW x0 \in U, NEW G \in [1 .. n -> [U -> U]],
           NEW c, Unfolds(c, U, n, x0, G)
    PROVE  \E a : IsRun(a, U, n, x0, G) /\ a[n] = c[1 .. n]
  <1> USE DEF Unfolds
  <1> DEFINE a == [i \in 0 .. n |-> c[1 .. i]]
             P == {i \in 0 .. n : a[i] \in U}
  <1>1. a[0] = x0
    <2>1. 1 .. 0 = {}
      OBVIOUS
    <2> QED
      BY <2>1
  <1>2. ASSUME NEW i \in 1 .. n, a[i - 1] \in U
        PROVE  a[i] = G[i][a[i - 1]]
    <2>1. /\ 1 .. i \in SUBSET (1 .. n) /\ 1 .. i # {} /\ Max(1 .. i) = i
          /\ (1 .. i) \ {i} = 1 .. (i - 1)
      BY MaxOfInterval
    <2>2. a[i] = c[1 .. i] /\ a[i - 1] = c[1 .. (i - 1)]
      OBVIOUS
    <2> HIDE DEF a
    <2> QED
      BY <1>2, <2>1, <2>2, ZenonT(30)
  <1>3. \A i \in 0 .. n : i \in P
    <2>1. 0 \in P
      BY <1>1
    <2>2. ASSUME NEW i \in 1 .. n, i - 1 \in P PROVE i \in P
      <3>1. i \in 0 .. n /\ a[i - 1] \in U
        BY <2>2
      <3>2. a[i] = G[i][a[i - 1]]
        BY <1>2, <3>1
      <3>3. a[i] \in U
        BY <3>1, <3>2
      <3> HIDE DEF a
      <3> QED
        BY <3>1, <3>3
    <2>3. \A i \in 1 .. n : i - 1 \in P => i \in P
      BY <2>2
    <2> HIDE DEF P
    <2> QED
      BY <2>1, <2>3, UpTo
  <1>4. a \in [0 .. n -> U] /\ \A i \in 1 .. n : a[i] = G[i][a[i - 1]]
    <2>1. \A i \in 0 .. n : a[i] \in U
      BY <1>3
    <2>2. \A i \in 1 .. n : i - 1 \in 0 .. n
      OBVIOUS
    <2>3. a \in [0 .. n -> U]
      BY <2>1
    <2> HIDE DEF a
    <2> QED
      BY <1>2, <2>1, <2>2, <2>3
  <1>5. a[n] = c[1 .. n]
    OBVIOUS
  <1> HIDE DEF a
  <1> QED
    BY <1>1, <1>4, <1>5 DEF IsRun

(* The steps of Concat. *)
LEMMA ConcatSteps ==
    ASSUME NEW U, NEW T, NEW ss \in Seq(T), <<>> \in U,
           \A u \in U : \A i \in 1 .. Len(ss) : (u \o ss[i]) \in U
    PROVE  \E a \in [0 .. Len(ss) -> U] :
              /\ a[0] = <<>>
              /\ \A i \in 1 .. Len(ss) : a[i] = (a[i - 1] \o ss[i])
              /\ Concat(ss) = a[Len(ss)]
  <1> DEFINE n == Len(ss)
             G == [i \in 1 .. n |-> [u \in U |-> (u \o ss[i])]]
             E(c) == [t \in SUBSET DOMAIN ss |->
                         IF t = {} THEN <<>> ELSE (c[t \ {Max(t)}] \o ss[Max(t)])]
  <1>1. n \in Nat /\ DOMAIN ss = 1 .. n
    OBVIOUS
  <1>2. G \in [1 .. n -> [U -> U]]
    OBVIOUS
  <1>3. \A i \in 1 .. n : \A u \in U : G[i][u] = (u \o ss[i])
    OBVIOUS
  <1> HIDE DEF n, G
  <1>4. PICK h : IsTable(h, U, n, <<>>, G)
    BY <1>1, <1>2, FoldTable
  <1>5. \A t \in SUBSET (1 .. n) : t # {} => Max(t) \in 1 .. n /\ t \ {Max(t)} \in SUBSET (1 .. n)
    BY <1>1, MaxOfSet
  <1>6. h = E(h)
    BY <1>1, <1>3, <1>4, <1>5 DEF IsTable
  <1>7. PICK c : c = E(c) /\ Concat(ss) = c[DOMAIN ss]
    BY <1>6 DEF Concat, FoldLeft, MapThenFoldSet
  <1>8. \A t \in SUBSET (1 .. n) : t # {} => c[t] = (c[t \ {Max(t)}] \o ss[Max(t)])
    BY <1>1, <1>7
  <1>9. Unfolds(c, U, n, <<>>, G)
    <2>1. c[{}] = <<>>
      BY <1>1, <1>7
    <2> HIDE DEF E
    <2>2. ASSUME NEW t \in SUBSET (1 .. n), t # {}, c[t \ {Max(t)}] \in U
          PROVE  c[t] = G[Max(t)][c[t \ {Max(t)}]]
      <3>1. Max(t) \in 1 .. n
        BY <1>5, <2>2
      <3> QED
        BY <1>3, <1>8, <2>2, <3>1
    <2> QED
      BY <2>1, <2>2 DEF Unfolds
  <1>10. PICK a : IsRun(a, U, n, <<>>, G) /\ a[n] = c[1 .. n]
    BY <1>1, <1>2, <1>9, FoldSteps
  <1>11. a \in [0 .. n -> U] /\ a[0] = <<>> /\ \A i \in 1 .. n : a[i - 1] \in U
    BY <1>1, <1>10 DEF IsRun
  <1>12. \A i \in 1 .. n : a[i] = (a[i - 1] \o ss[i])
    BY <1>3, <1>10, <1>11 DEF IsRun
  <1> QED
    BY <1>1, <1>7, <1>10, <1>11, <1>12 DEF n

(* The states between the steps of RemoveFromSessions.                     *)
RemoveRun(a, U, st, ks, m, b, g) ==
    /\ a \in [0 .. Len(ks) -> U]
    /\ a[0] = st
    /\ \A i \in 1 .. Len(ks) : a[i] = RemoveFromSession(a[i - 1], ks[i], m, b, g)
    /\ RemoveFromSessions(st, ks, m, b, g) = a[Len(ks)]

(* The steps of RemoveFromSessions. *)
LEMMA RemoveFromSessionsSteps ==
    ASSUME NEW U, NEW T, NEW st, NEW m, NEW b, NEW g, NEW ks \in Seq(T), st \in U,
           \A u \in U : \A i \in 1 .. Len(ks) : RemoveFromSession(u, ks[i], m, b, g) \in U
    PROVE  \E a : RemoveRun(a, U, st, ks, m, b, g)
  <1> DEFINE n == Len(ks)
             G == [i \in 1 .. n |-> [u \in U |-> RemoveFromSession(u, ks[i], m, b, g)]]
             E(c) == [t \in SUBSET DOMAIN ks |->
                         IF t = {} THEN st ELSE RemoveFromSession(c[t \ {Max(t)}], ks[Max(t)], m, b, g)]
  <1>1. n \in Nat /\ DOMAIN ks = 1 .. n
    OBVIOUS
  <1>2. G \in [1 .. n -> [U -> U]]
    OBVIOUS
  <1>3. \A i \in 1 .. n : \A u \in U : G[i][u] = RemoveFromSession(u, ks[i], m, b, g)
    OBVIOUS
  <1> HIDE DEF n, G
  <1>4. PICK h : IsTable(h, U, n, st, G)
    BY <1>1, <1>2, FoldTable
  <1>5. \A t \in SUBSET (1 .. n) : t # {} => Max(t) \in 1 .. n /\ t \ {Max(t)} \in SUBSET (1 .. n)
    BY <1>1, MaxOfSet
  <1>6. h = E(h)
    BY <1>1, <1>3, <1>4, <1>5 DEF IsTable
  <1>7. PICK c : c = E(c) /\ RemoveFromSessions(st, ks, m, b, g) = c[DOMAIN ks]
    BY <1>6 DEF RemoveFromSessions, FoldLeft, MapThenFoldSet
  <1>8. \A t \in SUBSET (1 .. n) : t # {} => c[t] = RemoveFromSession(c[t \ {Max(t)}], ks[Max(t)], m, b, g)
    BY <1>1, <1>7
  <1>9. Unfolds(c, U, n, st, G)
    <2>1. c[{}] = st
      BY <1>1, <1>7
    <2> HIDE DEF E
    <2>2. ASSUME NEW t \in SUBSET (1 .. n), t # {}, c[t \ {Max(t)}] \in U
          PROVE  c[t] = G[Max(t)][c[t \ {Max(t)}]]
      <3>1. Max(t) \in 1 .. n
        BY <1>5, <2>2
      <3> QED
        BY <1>3, <1>8, <2>2, <3>1
    <2> QED
      BY <2>1, <2>2 DEF Unfolds
  <1>10. PICK a : IsRun(a, U, n, st, G) /\ a[n] = c[1 .. n]
    BY <1>1, <1>2, <1>9, FoldSteps
  <1>11. a \in [0 .. n -> U] /\ a[0] = st /\ \A i \in 1 .. n : a[i - 1] \in U
    BY <1>1, <1>10 DEF IsRun
  <1>12. \A i \in 1 .. n : a[i] = RemoveFromSession(a[i - 1], ks[i], m, b, g)
    BY <1>3, <1>10, <1>11 DEF IsRun
  <1> QED
    BY <1>1, <1>7, <1>10, <1>11, <1>12 DEF n, RemoveRun

(* The steps of RemoveEach. *)
LEMMA RemoveEachSteps ==
    ASSUME NEW U, NEW T, NEW st, NEW g, NEW xs \in Seq(T), st \in U,
           \A u \in U : \A i \in 1 .. Len(xs) : RemoveCmodelFromBackend(u, xs[i][1], xs[i][2], g) \in U
    PROVE  \E a \in [0 .. Len(xs) -> U] :
              /\ a[0] = st
              /\ \A i \in 1 .. Len(xs) : a[i] = RemoveCmodelFromBackend(a[i - 1], xs[i][1], xs[i][2], g)
              /\ RemoveEach(st, xs, g) = a[Len(xs)]
  <1> DEFINE n == Len(xs)
             G == [i \in 1 .. n |-> [u \in U |-> RemoveCmodelFromBackend(u, xs[i][1], xs[i][2], g)]]
             E(c) == [t \in SUBSET DOMAIN xs |->
                         IF t = {} THEN st ELSE RemoveCmodelFromBackend(c[t \ {Max(t)}], xs[Max(t)][1], xs[Max(t)][2], g)]
  <1>1. n \in Nat /\ DOMAIN xs = 1 .. n
    OBVIOUS
  <1>2. G \in [1 .. n -> [U -> U]]
    OBVIOUS
  <1>3. \A i \in 1 .. n : \A u \in U : G[i][u] = RemoveCmodelFromBackend(u, xs[i][1], xs[i][2], g)
    OBVIOUS
  <1> HIDE DEF n, G
  <1>4. PICK h : IsTable(h, U, n, st, G)
    BY <1>1, <1>2, FoldTable
  <1>5. \A t \in SUBSET (1 .. n) : t # {} => Max(t) \in 1 .. n /\ t \ {Max(t)} \in SUBSET (1 .. n)
    BY <1>1, MaxOfSet
  <1>6. h = E(h)
    BY <1>1, <1>3, <1>4, <1>5 DEF IsTable
  <1>7. PICK c : c = E(c) /\ RemoveEach(st, xs, g) = c[DOMAIN xs]
    BY <1>6 DEF RemoveEach, FoldLeft, MapThenFoldSet
  <1>8. \A t \in SUBSET (1 .. n) : t # {} => c[t] = RemoveCmodelFromBackend(c[t \ {Max(t)}], xs[Max(t)][1], xs[Max(t)][2], g)
    BY <1>1, <1>7
  <1>9. Unfolds(c, U, n, st, G)
    <2>1. c[{}] = st
      BY <1>1, <1>7
    <2> HIDE DEF E
    <2>2. ASSUME NEW t \in SUBSET (1 .. n), t # {}, c[t \ {Max(t)}] \in U
          PROVE  c[t] = G[Max(t)][c[t \ {Max(t)}]]
      <3>1. Max(t) \in 1 .. n
        BY <1>5, <2>2
      <3> QED
        BY <1>3, <1>8, <2>2, <3>1
    <2> QED
      BY <2>1, <2>2 DEF Unfolds
  <1>10. PICK a : IsRun(a, U, n, st, G) /\ a[n] = c[1 .. n]
    BY <1>1, <1>2, <1>9, FoldSteps
  <1>11. a \in [0 .. n -> U] /\ a[0] = st /\ \A i \in 1 .. n : a[i - 1] \in U
    BY <1>1, <1>10 DEF IsRun
  <1>12. \A i \in 1 .. n : a[i] = RemoveCmodelFromBackend(a[i - 1], xs[i][1], xs[i][2], g)
    BY <1>3, <1>10, <1>11 DEF IsRun
  <1> QED
    BY <1>1, <1>7, <1>10, <1>11, <1>12 DEF n

(* RemoveEach stays in a set its steps do not leave.                       *)
LEMMA RemoveEachIn ==
    ASSUME NEW U, NEW T, NEW st, NEW g, NEW xs \in Seq(T), st \in U,
           \A u \in U : \A i \in 1 .. Len(xs) : RemoveCmodelFromBackend(u, xs[i][1], xs[i][2], g) \in U
    PROVE  RemoveEach(st, xs, g) \in U
  BY RemoveEachSteps

(* The steps of RemoveSessions. *)
LEMMA RemoveSessionsSteps ==
    ASSUME NEW U, NEW T, NEW st, NEW known, NEW cur, NEW ks \in Seq(T), st \in U,
           \A u \in U : \A i \in 1 .. Len(ks) : RemoveSession(u, ks[i], known, cur) \in U
    PROVE  \E a \in [0 .. Len(ks) -> U] :
              /\ a[0] = st
              /\ \A i \in 1 .. Len(ks) : a[i] = RemoveSession(a[i - 1], ks[i], known, cur)
              /\ RemoveSessions(st, ks, known, cur) = a[Len(ks)]
  <1> DEFINE n == Len(ks)
             G == [i \in 1 .. n |-> [u \in U |-> RemoveSession(u, ks[i], known, cur)]]
             E(c) == [t \in SUBSET DOMAIN ks |->
                         IF t = {} THEN st ELSE RemoveSession(c[t \ {Max(t)}], ks[Max(t)], known, cur)]
  <1>1. n \in Nat /\ DOMAIN ks = 1 .. n
    OBVIOUS
  <1>2. G \in [1 .. n -> [U -> U]]
    OBVIOUS
  <1>3. \A i \in 1 .. n : \A u \in U : G[i][u] = RemoveSession(u, ks[i], known, cur)
    OBVIOUS
  <1> HIDE DEF n, G
  <1>4. PICK h : IsTable(h, U, n, st, G)
    BY <1>1, <1>2, FoldTable
  <1>5. \A t \in SUBSET (1 .. n) : t # {} => Max(t) \in 1 .. n /\ t \ {Max(t)} \in SUBSET (1 .. n)
    BY <1>1, MaxOfSet
  <1>6. h = E(h)
    BY <1>1, <1>3, <1>4, <1>5 DEF IsTable
  <1>7. PICK c : c = E(c) /\ RemoveSessions(st, ks, known, cur) = c[DOMAIN ks]
    BY <1>6 DEF RemoveSessions, FoldLeft, MapThenFoldSet
  <1>8. \A t \in SUBSET (1 .. n) : t # {} => c[t] = RemoveSession(c[t \ {Max(t)}], ks[Max(t)], known, cur)
    BY <1>1, <1>7
  <1>9. Unfolds(c, U, n, st, G)
    <2>1. c[{}] = st
      BY <1>1, <1>7
    <2> HIDE DEF E
    <2>2. ASSUME NEW t \in SUBSET (1 .. n), t # {}, c[t \ {Max(t)}] \in U
          PROVE  c[t] = G[Max(t)][c[t \ {Max(t)}]]
      <3>1. Max(t) \in 1 .. n
        BY <1>5, <2>2
      <3> QED
        BY <1>3, <1>8, <2>2, <3>1
    <2> QED
      BY <2>1, <2>2 DEF Unfolds
  <1>10. PICK a : IsRun(a, U, n, st, G) /\ a[n] = c[1 .. n]
    BY <1>1, <1>2, <1>9, FoldSteps
  <1>11. a \in [0 .. n -> U] /\ a[0] = st /\ \A i \in 1 .. n : a[i - 1] \in U
    BY <1>1, <1>10 DEF IsRun
  <1>12. \A i \in 1 .. n : a[i] = RemoveSession(a[i - 1], ks[i], known, cur)
    BY <1>3, <1>10, <1>11 DEF IsRun
  <1> QED
    BY <1>1, <1>7, <1>10, <1>11, <1>12 DEF n

(* RemoveSessions stays in a set its steps do not leave.                   *)
LEMMA RemoveSessionsIn ==
    ASSUME NEW U, NEW T, NEW st, NEW known, NEW cur, NEW ks \in Seq(T), st \in U,
           \A u \in U : \A i \in 1 .. Len(ks) : RemoveSession(u, ks[i], known, cur) \in U
    PROVE  RemoveSessions(st, ks, known, cur) \in U
  BY RemoveSessionsSteps

(* The steps of UndeployEach. *)
LEMMA UndeployEachSteps ==
    ASSUME NEW U, NEW T, NEW st, NEW d, NEW cur, NEW ms \in Seq(T), st \in U,
           \A u \in U : \A i \in 1 .. Len(ms) : Undeploy(u, ms[i], d, cur) \in U
    PROVE  \E a \in [0 .. Len(ms) -> U] :
              /\ a[0] = st
              /\ \A i \in 1 .. Len(ms) : a[i] = Undeploy(a[i - 1], ms[i], d, cur)
              /\ UndeployEach(st, ms, d, cur) = a[Len(ms)]
  <1> DEFINE n == Len(ms)
             G == [i \in 1 .. n |-> [u \in U |-> Undeploy(u, ms[i], d, cur)]]
             E(c) == [t \in SUBSET DOMAIN ms |->
                         IF t = {} THEN st ELSE Undeploy(c[t \ {Max(t)}], ms[Max(t)], d, cur)]
  <1>1. n \in Nat /\ DOMAIN ms = 1 .. n
    OBVIOUS
  <1>2. G \in [1 .. n -> [U -> U]]
    OBVIOUS
  <1>3. \A i \in 1 .. n : \A u \in U : G[i][u] = Undeploy(u, ms[i], d, cur)
    OBVIOUS
  <1> HIDE DEF n, G
  <1>4. PICK h : IsTable(h, U, n, st, G)
    BY <1>1, <1>2, FoldTable
  <1>5. \A t \in SUBSET (1 .. n) : t # {} => Max(t) \in 1 .. n /\ t \ {Max(t)} \in SUBSET (1 .. n)
    BY <1>1, MaxOfSet
  <1>6. h = E(h)
    BY <1>1, <1>3, <1>4, <1>5 DEF IsTable
  <1>7. PICK c : c = E(c) /\ UndeployEach(st, ms, d, cur) = c[DOMAIN ms]
    BY <1>6 DEF UndeployEach, FoldLeft, MapThenFoldSet
  <1>8. \A t \in SUBSET (1 .. n) : t # {} => c[t] = Undeploy(c[t \ {Max(t)}], ms[Max(t)], d, cur)
    BY <1>1, <1>7
  <1>9. Unfolds(c, U, n, st, G)
    <2>1. c[{}] = st
      BY <1>1, <1>7
    <2> HIDE DEF E
    <2>2. ASSUME NEW t \in SUBSET (1 .. n), t # {}, c[t \ {Max(t)}] \in U
          PROVE  c[t] = G[Max(t)][c[t \ {Max(t)}]]
      <3>1. Max(t) \in 1 .. n
        BY <1>5, <2>2
      <3> QED
        BY <1>3, <1>8, <2>2, <3>1
    <2> QED
      BY <2>1, <2>2 DEF Unfolds
  <1>10. PICK a : IsRun(a, U, n, st, G) /\ a[n] = c[1 .. n]
    BY <1>1, <1>2, <1>9, FoldSteps
  <1>11. a \in [0 .. n -> U] /\ a[0] = st /\ \A i \in 1 .. n : a[i - 1] \in U
    BY <1>1, <1>10 DEF IsRun
  <1>12. \A i \in 1 .. n : a[i] = Undeploy(a[i - 1], ms[i], d, cur)
    BY <1>3, <1>10, <1>11 DEF IsRun
  <1> QED
    BY <1>1, <1>7, <1>10, <1>11, <1>12 DEF n

(* UndeployEach stays in a set its steps do not leave.                     *)
LEMMA UndeployEachIn ==
    ASSUME NEW U, NEW T, NEW st, NEW d, NEW cur, NEW ms \in Seq(T), st \in U,
           \A u \in U : \A i \in 1 .. Len(ms) : Undeploy(u, ms[i], d, cur) \in U
    PROVE  UndeployEach(st, ms, d, cur) \in U
  BY UndeployEachSteps

(* The steps of AddSchedulingPlans. *)
LEMMA AddSchedulingPlansSteps ==
    ASSUME NEW U, NEW T, NEW d, NEW m, NEW b, NEW ks \in Seq(T), d \in U,
           \A u \in U : \A i \in 1 .. Len(ks) : AddSchedulingPlan(u, ks[i], m, b) \in U
    PROVE  \E a \in [0 .. Len(ks) -> U] :
              /\ a[0] = d
              /\ \A i \in 1 .. Len(ks) : a[i] = AddSchedulingPlan(a[i - 1], ks[i], m, b)
              /\ AddSchedulingPlans(d, ks, m, b) = a[Len(ks)]
  <1> DEFINE n == Len(ks)
             G == [i \in 1 .. n |-> [u \in U |-> AddSchedulingPlan(u, ks[i], m, b)]]
             E(c) == [t \in SUBSET DOMAIN ks |->
                         IF t = {} THEN d ELSE AddSchedulingPlan(c[t \ {Max(t)}], ks[Max(t)], m, b)]
  <1>1. n \in Nat /\ DOMAIN ks = 1 .. n
    OBVIOUS
  <1>2. G \in [1 .. n -> [U -> U]]
    OBVIOUS
  <1>3. \A i \in 1 .. n : \A u \in U : G[i][u] = AddSchedulingPlan(u, ks[i], m, b)
    OBVIOUS
  <1> HIDE DEF n, G
  <1>4. PICK h : IsTable(h, U, n, d, G)
    BY <1>1, <1>2, FoldTable
  <1>5. \A t \in SUBSET (1 .. n) : t # {} => Max(t) \in 1 .. n /\ t \ {Max(t)} \in SUBSET (1 .. n)
    BY <1>1, MaxOfSet
  <1>6. h = E(h)
    BY <1>1, <1>3, <1>4, <1>5 DEF IsTable
  <1>7. PICK c : c = E(c) /\ AddSchedulingPlans(d, ks, m, b) = c[DOMAIN ks]
    BY <1>6 DEF AddSchedulingPlans, FoldLeft, MapThenFoldSet
  <1>8. \A t \in SUBSET (1 .. n) : t # {} => c[t] = AddSchedulingPlan(c[t \ {Max(t)}], ks[Max(t)], m, b)
    BY <1>1, <1>7
  <1>9. Unfolds(c, U, n, d, G)
    <2>1. c[{}] = d
      BY <1>1, <1>7
    <2> HIDE DEF E
    <2>2. ASSUME NEW t \in SUBSET (1 .. n), t # {}, c[t \ {Max(t)}] \in U
          PROVE  c[t] = G[Max(t)][c[t \ {Max(t)}]]
      <3>1. Max(t) \in 1 .. n
        BY <1>5, <2>2
      <3> QED
        BY <1>3, <1>8, <2>2, <3>1
    <2> QED
      BY <2>1, <2>2 DEF Unfolds
  <1>10. PICK a : IsRun(a, U, n, d, G) /\ a[n] = c[1 .. n]
    BY <1>1, <1>2, <1>9, FoldSteps
  <1>11. a \in [0 .. n -> U] /\ a[0] = d /\ \A i \in 1 .. n : a[i - 1] \in U
    BY <1>1, <1>10 DEF IsRun
  <1>12. \A i \in 1 .. n : a[i] = AddSchedulingPlan(a[i - 1], ks[i], m, b)
    BY <1>3, <1>10, <1>11 DEF IsRun
  <1> QED
    BY <1>1, <1>7, <1>10, <1>11, <1>12 DEF n

(* What PlaceModels starts from.                                           *)
Start(st) == [st |-> st, ok |-> TRUE, new |-> <<>>]

(* The steps of PlaceModels. *)
LEMMA PlaceModelsSteps ==
    ASSUME NEW U, NEW T, NEW st, NEW ks, NEW cur, NEW ms \in Seq(T),
           Start(st) \in U,
           \A u \in U : \A i \in 1 .. Len(ms) : PlaceModel(u, ms[i], ks, cur) \in U
    PROVE  \E a \in [0 .. Len(ms) -> U] :
              /\ a[0] = Start(st)
              /\ \A i \in 1 .. Len(ms) : a[i] = PlaceModel(a[i - 1], ms[i], ks, cur)
              /\ PlaceModels(st, ms, ks, cur) = a[Len(ms)]
  <1> DEFINE n == Len(ms)
             G == [i \in 1 .. n |-> [u \in U |-> PlaceModel(u, ms[i], ks, cur)]]
             E(c) == [t \in SUBSET DOMAIN ms |->
                         IF t = {} THEN [st |-> st, ok |-> TRUE, new |-> <<>>] ELSE PlaceModel(c[t \ {Max(t)}], ms[Max(t)], ks, cur)]
  <1>1. n \in Nat /\ DOMAIN ms = 1 .. n
    OBVIOUS
  <1>2. G \in [1 .. n -> [U -> U]]
    OBVIOUS
  <1>3. \A i \in 1 .. n : \A u \in U : G[i][u] = PlaceModel(u, ms[i], ks, cur)
    OBVIOUS
  <1> HIDE DEF n, G
  <1>4. PICK h : IsTable(h, U, n, Start(st), G)
    BY <1>1, <1>2, FoldTable
  <1>5. \A t \in SUBSET (1 .. n) : t # {} => Max(t) \in 1 .. n /\ t \ {Max(t)} \in SUBSET (1 .. n)
    BY <1>1, MaxOfSet
  <1>6. h = E(h)
    BY <1>1, <1>3, <1>4, <1>5 DEF IsTable, Start
  <1>7. PICK c : c = E(c) /\ PlaceModels(st, ms, ks, cur) = c[DOMAIN ms]
    BY <1>6 DEF PlaceModels, FoldLeft, MapThenFoldSet
  <1>8. \A t \in SUBSET (1 .. n) : t # {} => c[t] = PlaceModel(c[t \ {Max(t)}], ms[Max(t)], ks, cur)
    BY <1>1, <1>7
  <1>9. Unfolds(c, U, n, Start(st), G)
    <2>1. c[{}] = Start(st)
      BY <1>1, <1>7 DEF Start
    <2> HIDE DEF E
    <2>2. ASSUME NEW t \in SUBSET (1 .. n), t # {}, c[t \ {Max(t)}] \in U
          PROVE  c[t] = G[Max(t)][c[t \ {Max(t)}]]
      <3>1. Max(t) \in 1 .. n
        BY <1>5, <2>2
      <3> QED
        BY <1>3, <1>8, <2>2, <3>1
    <2> QED
      BY <2>1, <2>2 DEF Unfolds
  <1>10. PICK a : IsRun(a, U, n, Start(st), G) /\ a[n] = c[1 .. n]
    BY <1>1, <1>2, <1>9, FoldSteps
  <1>11. a \in [0 .. n -> U] /\ a[0] = Start(st) /\ \A i \in 1 .. n : a[i - 1] \in U
    BY <1>1, <1>10 DEF IsRun
  <1>12. \A i \in 1 .. n : a[i] = PlaceModel(a[i - 1], ms[i], ks, cur)
    BY <1>3, <1>10, <1>11 DEF IsRun
  <1> QED
    BY <1>1, <1>7, <1>10, <1>11, <1>12 DEF n

(* The steps of SharePlans. *)
LEMMA SharePlansSteps ==
    ASSUME NEW U, NEW T, NEW d, NEW objs, NEW ks \in Seq(T), d \in U,
           \A u \in U : \A i \in 1 .. Len(ks) : ShareWith(u, ks[i], objs) \in U
    PROVE  \E a \in [0 .. Len(ks) -> U] :
              /\ a[0] = d
              /\ \A i \in 1 .. Len(ks) : a[i] = ShareWith(a[i - 1], ks[i], objs)
              /\ SharePlans(d, ks, objs) = a[Len(ks)]
  <1> DEFINE n == Len(ks)
             G == [i \in 1 .. n |-> [u \in U |-> ShareWith(u, ks[i], objs)]]
             E(c) == [t \in SUBSET DOMAIN ks |->
                         IF t = {} THEN d ELSE ShareWith(c[t \ {Max(t)}], ks[Max(t)], objs)]
  <1>1. n \in Nat /\ DOMAIN ks = 1 .. n
    OBVIOUS
  <1>2. G \in [1 .. n -> [U -> U]]
    OBVIOUS
  <1>3. \A i \in 1 .. n : \A u \in U : G[i][u] = ShareWith(u, ks[i], objs)
    OBVIOUS
  <1> HIDE DEF n, G
  <1>4. PICK h : IsTable(h, U, n, d, G)
    BY <1>1, <1>2, FoldTable
  <1>5. \A t \in SUBSET (1 .. n) : t # {} => Max(t) \in 1 .. n /\ t \ {Max(t)} \in SUBSET (1 .. n)
    BY <1>1, MaxOfSet
  <1>6. h = E(h)
    BY <1>1, <1>3, <1>4, <1>5 DEF IsTable
  <1>7. PICK c : c = E(c) /\ SharePlans(d, ks, objs) = c[DOMAIN ks]
    BY <1>6 DEF SharePlans, FoldLeft, MapThenFoldSet
  <1>8. \A t \in SUBSET (1 .. n) : t # {} => c[t] = ShareWith(c[t \ {Max(t)}], ks[Max(t)], objs)
    BY <1>1, <1>7
  <1>9. Unfolds(c, U, n, d, G)
    <2>1. c[{}] = d
      BY <1>1, <1>7
    <2> HIDE DEF E
    <2>2. ASSUME NEW t \in SUBSET (1 .. n), t # {}, c[t \ {Max(t)}] \in U
          PROVE  c[t] = G[Max(t)][c[t \ {Max(t)}]]
      <3>1. Max(t) \in 1 .. n
        BY <1>5, <2>2
      <3> QED
        BY <1>3, <1>8, <2>2, <3>1
    <2> QED
      BY <2>1, <2>2 DEF Unfolds
  <1>10. PICK a : IsRun(a, U, n, d, G) /\ a[n] = c[1 .. n]
    BY <1>1, <1>2, <1>9, FoldSteps
  <1>11. a \in [0 .. n -> U] /\ a[0] = d /\ \A i \in 1 .. n : a[i - 1] \in U
    BY <1>1, <1>10 DEF IsRun
  <1>12. \A i \in 1 .. n : a[i] = ShareWith(a[i - 1], ks[i], objs)
    BY <1>3, <1>10, <1>11 DEF IsRun
  <1> QED
    BY <1>1, <1>7, <1>10, <1>11, <1>12 DEF n

(* SharePlans stays in a set its steps do not leave.                       *)
LEMMA SharePlansIn ==
    ASSUME NEW U, NEW T, NEW d, NEW objs, NEW ks \in Seq(T), d \in U,
           \A u \in U : \A i \in 1 .. Len(ks) : ShareWith(u, ks[i], objs) \in U
    PROVE  SharePlans(d, ks, objs) \in U
  BY SharePlansSteps

(* The states between the steps of DeployPipelines.                        *)
DeployRun(a, st, ps, reqs, cur) ==
    /\ a[0] = st
    /\ \A i \in 1 .. Len(ps) : a[i] = DeployPipeline(a[i - 1], ps[i], reqs, cur)
    /\ DeployPipelines(st, ps, reqs, cur) = a[Len(ps)]

(* The steps of DeployPipelines, which need not all be of one kind. *)
LEMMA DeployPipelinesRun ==
    ASSUME NEW T, NEW st, NEW reqs, NEW cur, NEW ps \in Seq(T)
    PROVE  \E a : DeployRun(a, st, ps, reqs, cur)
  <1> DEFINE n == Len(ps)
             Op(u, i) == DeployPipeline(u, ps[i], reqs, cur)
             E(c) == [t \in SUBSET DOMAIN ps |-> IF t = {} THEN st ELSE Op(c[t \ {Max(t)}], Max(t))]
             Table(k, h) == /\ h = [t \in SUBSET (1 .. k) |-> h[t]]
                            /\ h[{}] = st
                            /\ \A t \in SUBSET (1 .. k) : t # {} => h[t] = Op(h[t \ {Max(t)}], Max(t))
             P == {k \in 0 .. n : \E h : Table(k, h)}
  <1>1. n \in Nat /\ DOMAIN ps = 1 .. n
    OBVIOUS
  <1> HIDE DEF n, Op
  <1>2. 0 \in P
    <2> DEFINE h == [t \in SUBSET (1 .. 0) |-> st]
    <2>1. 1 .. 0 = {} /\ SUBSET (1 .. 0) = {{}}
      OBVIOUS
    <2>2. h = [t \in SUBSET (1 .. 0) |-> h[t]] /\ h[{}] = st
      BY <2>1
    <2>3. \A t \in SUBSET (1 .. 0) : t = {}
      BY <2>1
    <2> HIDE DEF h
    <2>4. Table(0, h)
      BY <2>2, <2>3
    <2>5. \E hh : Table(0, hh)
      BY <2>4
    <2>6. 0 \in 0 .. n
      BY <1>1
    <2> HIDE DEF Table
    <2> QED
      BY <2>5, <2>6
  <1>3. ASSUME NEW i \in 1 .. n, i - 1 \in P PROVE i \in P
    <2>0. i \in Nat /\ i \in 0 .. n
      BY <1>1
    <2>1. PICK h : Table(i - 1, h)
      BY <1>3
    <2> DEFINE g == [t \in SUBSET (1 .. i) |-> IF i \in t THEN Op(h[t \ {i}], i) ELSE h[t]]
    <2>2. ASSUME NEW t \in SUBSET (1 .. i)
          PROVE  t \ {i} \in SUBSET (1 .. (i - 1)) /\ (i \notin t => t \in SUBSET (1 .. (i - 1)))
      BY <2>0
    <2>3. g = [t \in SUBSET (1 .. i) |-> g[t]]
      OBVIOUS
    <2>4. g[{}] = st
      BY <2>1
    <2>5. ASSUME NEW t \in SUBSET (1 .. i), t # {} PROVE g[t] = Op(g[t \ {Max(t)}], Max(t))
      <3>1. Max(t) \in t /\ \A y \in t : Max(t) >= y
        BY <2>0, <2>5, MaxOfSet
      <3>2. CASE i \in t
        <4>1. Max(t) = i
          <5>1. Max(t) \in 1 .. i /\ Max(t) >= i
            BY <3>1, <3>2
          <5> QED
            BY <2>0, <5>1
        <4>2. t \ {i} \in SUBSET (1 .. i) /\ i \notin t \ {i}
          OBVIOUS
        <4>3. g[t] = Op(h[t \ {i}], i)
          BY <3>2
        <4>4. g[t \ {i}] = h[t \ {i}]
          BY <4>2
        <4> HIDE DEF g
        <4> QED
          BY <4>1, <4>3, <4>4
      <3>3. CASE i \notin t
        <4>1. t \in SUBSET (1 .. (i - 1)) /\ i \notin t \ {Max(t)} /\ t \ {Max(t)} \in SUBSET (1 .. i)
          BY <2>2, <3>3
        <4>2. g[t] = h[t] /\ g[t \ {Max(t)}] = h[t \ {Max(t)}]
          BY <3>3, <4>1
        <4>3. h[t] = Op(h[t \ {Max(t)}], Max(t))
          BY <2>1, <2>5, <4>1
        <4> HIDE DEF g
        <4> QED
          BY <4>2, <4>3
      <3> QED
        BY <3>2, <3>3
    <2> HIDE DEF g
    <2>6. Table(i, g)
      BY <2>3, <2>4, <2>5
    <2> HIDE DEF Table
    <2> QED
      BY <2>0, <2>6
  <1>4. n \in P
    <2>1. \A i \in 1 .. n : i - 1 \in P => i \in P
      BY <1>3
    <2>2. n \in 0 .. n
      BY <1>1
    <2> HIDE DEF P
    <2> QED
      BY <1>1, <1>2, <2>1, <2>2, UpTo
  <1>5. PICK h : Table(n, h)
    BY <1>4
  <1>6. h = E(h)
    <2>1. \A t \in SUBSET (1 .. n) : h[t] = IF t = {} THEN st ELSE Op(h[t \ {Max(t)}], Max(t))
      BY <1>5
    <2>2. h = [t \in SUBSET (1 .. n) |-> h[t]]
      BY <1>5
    <2> HIDE DEF Table
    <2> QED
      BY <1>1, <2>1, <2>2
  <1>7. PICK c : c = E(c) /\ DeployPipelines(st, ps, reqs, cur) = c[DOMAIN ps]
    BY <1>6 DEF DeployPipelines, FoldLeft, MapThenFoldSet, Op
  <1>8. /\ c[{}] = st
        /\ \A t \in SUBSET (1 .. n) : t # {} => c[t] = Op(c[t \ {Max(t)}], Max(t))
    BY <1>1, <1>7
  <1> HIDE DEF E, Table
  <1> DEFINE a == [i \in 0 .. n |-> c[1 .. i]]
  <1>9. a[0] = st /\ a[n] = c[1 .. n]
    <2>1. 1 .. 0 = {} /\ 0 \in 0 .. n /\ n \in 0 .. n
      BY <1>1
    <2> QED
      BY <1>8, <2>1
  <1>10. ASSUME NEW i \in 1 .. n PROVE a[i] = Op(a[i - 1], i)
    <2>1. /\ 1 .. i \in SUBSET (1 .. n) /\ 1 .. i # {} /\ Max(1 .. i) = i
          /\ (1 .. i) \ {i} = 1 .. (i - 1)
      BY <1>1, MaxOfInterval
    <2>2. a[i] = c[1 .. i] /\ a[i - 1] = c[1 .. (i - 1)]
      BY <1>1
    <2> HIDE DEF a
    <2> QED
      BY <1>8, <2>1, <2>2
  <1> HIDE DEF a
  <1> QED
    BY <1>1, <1>7, <1>9, <1>10 DEF n, Op, DeployRun

(* The states between the steps of AssignModels.                        *)
AssignRun(a, d, k, ms, old) ==
    /\ a[0] = d
    /\ \A i \in 1 .. Len(ms) : a[i] = AssignModel(a[i - 1], k, ms[i], HostSeq(old, ms[i]))
    /\ AssignModels(d, k, ms, old) = a[Len(ms)]

(* The steps of AssignModels, which need not all be of one kind. *)
LEMMA AssignModelsRun ==
    ASSUME NEW T, NEW d, NEW k, NEW old, NEW ms \in Seq(T)
    PROVE  \E a : AssignRun(a, d, k, ms, old)
  <1> DEFINE n == Len(ms)
             Op(u, i) == AssignModel(u, k, ms[i], HostSeq(old, ms[i]))
             E(c) == [t \in SUBSET DOMAIN ms |-> IF t = {} THEN d ELSE Op(c[t \ {Max(t)}], Max(t))]
             Table(q, h) == /\ h = [t \in SUBSET (1 .. q) |-> h[t]]
                            /\ h[{}] = d
                            /\ \A t \in SUBSET (1 .. q) : t # {} => h[t] = Op(h[t \ {Max(t)}], Max(t))
             P == {q \in 0 .. n : \E h : Table(q, h)}
  <1>1. n \in Nat /\ DOMAIN ms = 1 .. n
    OBVIOUS
  <1> HIDE DEF n, Op
  <1>2. 0 \in P
    <2> DEFINE h == [t \in SUBSET (1 .. 0) |-> d]
    <2>1. 1 .. 0 = {} /\ SUBSET (1 .. 0) = {{}}
      OBVIOUS
    <2>2. h = [t \in SUBSET (1 .. 0) |-> h[t]] /\ h[{}] = d
      BY <2>1
    <2>3. \A t \in SUBSET (1 .. 0) : t = {}
      BY <2>1
    <2> HIDE DEF h
    <2>4. Table(0, h)
      BY <2>2, <2>3
    <2>5. \E hh : Table(0, hh)
      BY <2>4
    <2>6. 0 \in 0 .. n
      BY <1>1
    <2> HIDE DEF Table
    <2> QED
      BY <2>5, <2>6
  <1>3. ASSUME NEW i \in 1 .. n, i - 1 \in P PROVE i \in P
    <2>0. i \in Nat /\ i \in 0 .. n
      BY <1>1
    <2>1. PICK h : Table(i - 1, h)
      BY <1>3
    <2> DEFINE g == [t \in SUBSET (1 .. i) |-> IF i \in t THEN Op(h[t \ {i}], i) ELSE h[t]]
    <2>2. ASSUME NEW t \in SUBSET (1 .. i)
          PROVE  t \ {i} \in SUBSET (1 .. (i - 1)) /\ (i \notin t => t \in SUBSET (1 .. (i - 1)))
      BY <2>0
    <2>3. g = [t \in SUBSET (1 .. i) |-> g[t]]
      OBVIOUS
    <2>4. g[{}] = d
      BY <2>1
    <2>5. ASSUME NEW t \in SUBSET (1 .. i), t # {} PROVE g[t] = Op(g[t \ {Max(t)}], Max(t))
      <3>1. Max(t) \in t /\ \A y \in t : Max(t) >= y
        BY <2>0, <2>5, MaxOfSet
      <3>2. CASE i \in t
        <4>1. Max(t) = i
          <5>1. Max(t) \in 1 .. i /\ Max(t) >= i
            BY <3>1, <3>2
          <5> QED
            BY <2>0, <5>1
        <4>2. t \ {i} \in SUBSET (1 .. i) /\ i \notin t \ {i}
          OBVIOUS
        <4>3. g[t] = Op(h[t \ {i}], i)
          BY <3>2
        <4>4. g[t \ {i}] = h[t \ {i}]
          BY <4>2
        <4> HIDE DEF g
        <4> QED
          BY <4>1, <4>3, <4>4
      <3>3. CASE i \notin t
        <4>1. t \in SUBSET (1 .. (i - 1)) /\ i \notin t \ {Max(t)} /\ t \ {Max(t)} \in SUBSET (1 .. i)
          BY <2>2, <3>3
        <4>2. g[t] = h[t] /\ g[t \ {Max(t)}] = h[t \ {Max(t)}]
          BY <3>3, <4>1
        <4>3. h[t] = Op(h[t \ {Max(t)}], Max(t))
          BY <2>1, <2>5, <4>1
        <4> HIDE DEF g
        <4> QED
          BY <4>2, <4>3
      <3> QED
        BY <3>2, <3>3
    <2> HIDE DEF g
    <2>6. Table(i, g)
      BY <2>3, <2>4, <2>5
    <2> HIDE DEF Table
    <2> QED
      BY <2>0, <2>6
  <1>4. n \in P
    <2>1. \A i \in 1 .. n : i - 1 \in P => i \in P
      BY <1>3
    <2>2. n \in 0 .. n
      BY <1>1
    <2> HIDE DEF P
    <2> QED
      BY <1>1, <1>2, <2>1, <2>2, UpTo
  <1>5. PICK h : Table(n, h)
    BY <1>4
  <1>6. h = E(h)
    <2>1. \A t \in SUBSET (1 .. n) : h[t] = IF t = {} THEN d ELSE Op(h[t \ {Max(t)}], Max(t))
      BY <1>5
    <2>2. h = [t \in SUBSET (1 .. n) |-> h[t]]
      BY <1>5
    <2> HIDE DEF Table
    <2> QED
      BY <1>1, <2>1, <2>2
  <1>7. PICK c : c = E(c) /\ AssignModels(d, k, ms, old) = c[DOMAIN ms]
    BY <1>6 DEF AssignModels, FoldLeft, MapThenFoldSet, Op
  <1>8. /\ c[{}] = d
        /\ \A t \in SUBSET (1 .. n) : t # {} => c[t] = Op(c[t \ {Max(t)}], Max(t))
    BY <1>1, <1>7
  <1> HIDE DEF E, Table
  <1> DEFINE a == [i \in 0 .. n |-> c[1 .. i]]
  <1>9. a[0] = d /\ a[n] = c[1 .. n]
    <2>1. 1 .. 0 = {} /\ 0 \in 0 .. n /\ n \in 0 .. n
      BY <1>1
    <2> QED
      BY <1>8, <2>1
  <1>10. ASSUME NEW i \in 1 .. n PROVE a[i] = Op(a[i - 1], i)
    <2>1. /\ 1 .. i \in SUBSET (1 .. n) /\ 1 .. i # {} /\ Max(1 .. i) = i
          /\ (1 .. i) \ {i} = 1 .. (i - 1)
      BY <1>1, MaxOfInterval
    <2>2. a[i] = c[1 .. i] /\ a[i - 1] = c[1 .. (i - 1)]
      BY <1>1
    <2> HIDE DEF a
    <2> QED
      BY <1>8, <2>1, <2>2
  <1> HIDE DEF a
  <1> QED
    BY <1>1, <1>7, <1>9, <1>10 DEF n, Op, AssignRun

(* The steps of AssignBackends. *)
LEMMA AssignBackendsSteps ==
    ASSUME NEW U, NEW T, NEW st, NEW reqs \in Seq(T), st \in U,
           \A u \in U : \A i \in 1 .. Len(reqs) : AssignSession(u, reqs[i].key) \in U
    PROVE  \E a \in [0 .. Len(reqs) -> U] :
              /\ a[0] = st
              /\ \A i \in 1 .. Len(reqs) : a[i] = AssignSession(a[i - 1], reqs[i].key)
              /\ AssignBackends(st, reqs) = a[Len(reqs)]
  <1> DEFINE n == Len(reqs)
             G == [i \in 1 .. n |-> [u \in U |-> AssignSession(u, reqs[i].key)]]
             E(c) == [t \in SUBSET DOMAIN reqs |->
                         IF t = {} THEN st ELSE AssignSession(c[t \ {Max(t)}], reqs[Max(t)].key)]
  <1>1. n \in Nat /\ DOMAIN reqs = 1 .. n
    OBVIOUS
  <1>2. G \in [1 .. n -> [U -> U]]
    OBVIOUS
  <1>3. \A i \in 1 .. n : \A u \in U : G[i][u] = AssignSession(u, reqs[i].key)
    OBVIOUS
  <1> HIDE DEF n, G
  <1>4. PICK h : IsTable(h, U, n, st, G)
    BY <1>1, <1>2, FoldTable
  <1>5. \A t \in SUBSET (1 .. n) : t # {} => Max(t) \in 1 .. n /\ t \ {Max(t)} \in SUBSET (1 .. n)
    BY <1>1, MaxOfSet
  <1>6. h = E(h)
    BY <1>1, <1>3, <1>4, <1>5 DEF IsTable
  <1>7. PICK c : c = E(c) /\ AssignBackends(st, reqs) = c[DOMAIN reqs]
    BY <1>6 DEF AssignBackends, FoldLeft, MapThenFoldSet
  <1>8. \A t \in SUBSET (1 .. n) : t # {} => c[t] = AssignSession(c[t \ {Max(t)}], reqs[Max(t)].key)
    BY <1>1, <1>7
  <1>9. Unfolds(c, U, n, st, G)
    <2>1. c[{}] = st
      BY <1>1, <1>7
    <2> HIDE DEF E
    <2>2. ASSUME NEW t \in SUBSET (1 .. n), t # {}, c[t \ {Max(t)}] \in U
          PROVE  c[t] = G[Max(t)][c[t \ {Max(t)}]]
      <3>1. Max(t) \in 1 .. n
        BY <1>5, <2>2
      <3> QED
        BY <1>3, <1>8, <2>2, <3>1
    <2> QED
      BY <2>1, <2>2 DEF Unfolds
  <1>10. PICK a : IsRun(a, U, n, st, G) /\ a[n] = c[1 .. n]
    BY <1>1, <1>2, <1>9, FoldSteps
  <1>11. a \in [0 .. n -> U] /\ a[0] = st /\ \A i \in 1 .. n : a[i - 1] \in U
    BY <1>1, <1>10 DEF IsRun
  <1>12. \A i \in 1 .. n : a[i] = AssignSession(a[i - 1], reqs[i].key)
    BY <1>3, <1>10, <1>11 DEF IsRun
  <1> QED
    BY <1>1, <1>7, <1>10, <1>11, <1>12 DEF n

(* AssignBackends stays in a set its steps do not leave.                   *)
LEMMA AssignBackendsIn ==
    ASSUME NEW U, NEW T, NEW st, NEW reqs \in Seq(T), st \in U,
           \A u \in U : \A i \in 1 .. Len(reqs) : AssignSession(u, reqs[i].key) \in U
    PROVE  AssignBackends(st, reqs) \in U
  BY AssignBackendsSteps

(* The steps of RequestedFps. *)
LEMMA RequestedFpsSteps ==
    ASSUME NEW U, NEW T, NEW m, NEW reqs \in Seq(T), 0 \in U,
           \A u \in U : \A i \in 1 .. Len(reqs) : AddFps(u, reqs[i], m) \in U
    PROVE  \E a \in [0 .. Len(reqs) -> U] :
              /\ a[0] = 0
              /\ \A i \in 1 .. Len(reqs) : a[i] = AddFps(a[i - 1], reqs[i], m)
              /\ RequestedFps(reqs, m) = a[Len(reqs)]
  <1> DEFINE n == Len(reqs)
             G == [i \in 1 .. n |-> [u \in U |-> AddFps(u, reqs[i], m)]]
             E(c) == [t \in SUBSET DOMAIN reqs |->
                         IF t = {} THEN 0 ELSE AddFps(c[t \ {Max(t)}], reqs[Max(t)], m)]
  <1>1. n \in Nat /\ DOMAIN reqs = 1 .. n
    OBVIOUS
  <1>2. G \in [1 .. n -> [U -> U]]
    OBVIOUS
  <1>3. \A i \in 1 .. n : \A u \in U : G[i][u] = AddFps(u, reqs[i], m)
    OBVIOUS
  <1> HIDE DEF n, G
  <1>4. PICK h : IsTable(h, U, n, 0, G)
    BY <1>1, <1>2, FoldTable
  <1>5. \A t \in SUBSET (1 .. n) : t # {} => Max(t) \in 1 .. n /\ t \ {Max(t)} \in SUBSET (1 .. n)
    BY <1>1, MaxOfSet
  <1>6. h = E(h)
    BY <1>1, <1>3, <1>4, <1>5 DEF IsTable
  <1>7. PICK c : c = E(c) /\ RequestedFps(reqs, m) = c[DOMAIN reqs]
    BY <1>6 DEF RequestedFps, FoldLeft, MapThenFoldSet
  <1>8. \A t \in SUBSET (1 .. n) : t # {} => c[t] = AddFps(c[t \ {Max(t)}], reqs[Max(t)], m)
    BY <1>1, <1>7
  <1>9. Unfolds(c, U, n, 0, G)
    <2>1. c[{}] = 0
      BY <1>1, <1>7
    <2> HIDE DEF E
    <2>2. ASSUME NEW t \in SUBSET (1 .. n), t # {}, c[t \ {Max(t)}] \in U
          PROVE  c[t] = G[Max(t)][c[t \ {Max(t)}]]
      <3>1. Max(t) \in 1 .. n
        BY <1>5, <2>2
      <3> QED
        BY <1>3, <1>8, <2>2, <3>1
    <2> QED
      BY <2>1, <2>2 DEF Unfolds
  <1>10. PICK a : IsRun(a, U, n, 0, G) /\ a[n] = c[1 .. n]
    BY <1>1, <1>2, <1>9, FoldSteps
  <1>11. a \in [0 .. n -> U] /\ a[0] = 0 /\ \A i \in 1 .. n : a[i - 1] \in U
    BY <1>1, <1>10 DEF IsRun
  <1>12. \A i \in 1 .. n : a[i] = AddFps(a[i - 1], reqs[i], m)
    BY <1>3, <1>10, <1>11 DEF IsRun
  <1> QED
    BY <1>1, <1>7, <1>10, <1>11, <1>12 DEF n

(* RequestedFps stays in a set its steps do not leave.                     *)
LEMMA RequestedFpsIn ==
    ASSUME NEW U, NEW T, NEW m, NEW reqs \in Seq(T), 0 \in U,
           \A u \in U : \A i \in 1 .. Len(reqs) : AddFps(u, reqs[i], m) \in U
    PROVE  RequestedFps(reqs, m) \in U
  BY RequestedFpsSteps

(* The states between the steps of ScaleDownBy. *)
DownRun(a, U, st, m, num, cur) ==
    /\ a \in [0 .. num -> U]
    /\ a[0] = st
    /\ \A i \in 1 .. num : a[i] = ScaleDown(a[i - 1], m, cur)
    /\ ScaleDownBy(st, m, num, cur) = a[num]

(* The steps of ScaleDownBy.                                               *)
LEMMA ScaleDownBySteps ==
    ASSUME NEW U, NEW st, NEW m, NEW cur, NEW num \in Nat, st \in U,
           \A u \in U : ScaleDown(u, m, cur) \in U
    PROVE  \E a : DownRun(a, U, st, m, num, cur)
  <1> DEFINE n == num
             G == [i \in 1 .. n |-> [u \in U |-> ScaleDown(u, m, cur)]]
             E(c) == [t \in SUBSET DOMAIN Times(num) |->
                         IF t = {} THEN st ELSE ScaleDown(c[t \ {Max(t)}], m, cur)]
  <1>1. n \in Nat /\ DOMAIN Times(num) = 1 .. n
    BY DEF Times
  <1>2. G \in [1 .. n -> [U -> U]]
    OBVIOUS
  <1>3. \A i \in 1 .. n : \A u \in U : G[i][u] = ScaleDown(u, m, cur)
    OBVIOUS
  <1> HIDE DEF n, G
  <1>4. PICK h : IsTable(h, U, n, st, G)
    BY <1>1, <1>2, FoldTable
  <1>5. \A t \in SUBSET (1 .. n) : t # {} => Max(t) \in 1 .. n /\ t \ {Max(t)} \in SUBSET (1 .. n)
    BY <1>1, MaxOfSet
  <1>6. h = E(h)
    BY <1>1, <1>3, <1>4, <1>5, ZenonT(30) DEF IsTable
  <1>7. PICK c : c = E(c) /\ ScaleDownBy(st, m, num, cur) = c[DOMAIN Times(num)]
    BY <1>6 DEF ScaleDownBy, FoldLeft, MapThenFoldSet
  <1>8. \A t \in SUBSET (1 .. n) : t # {} => c[t] = ScaleDown(c[t \ {Max(t)}], m, cur)
    BY <1>1, <1>7
  <1>9. Unfolds(c, U, n, st, G)
    <2>1. c[{}] = st
      BY <1>1, <1>7
    <2> HIDE DEF E
    <2>2. ASSUME NEW t \in SUBSET (1 .. n), t # {}, c[t \ {Max(t)}] \in U
          PROVE  c[t] = G[Max(t)][c[t \ {Max(t)}]]
      <3>1. Max(t) \in 1 .. n
        BY <1>5, <2>2
      <3> QED
        BY <1>3, <1>8, <2>2, <3>1
    <2> QED
      BY <2>1, <2>2 DEF Unfolds
  <1>10. PICK a : IsRun(a, U, n, st, G) /\ a[n] = c[1 .. n]
    BY <1>1, <1>2, <1>9, FoldSteps
  <1>11. a \in [0 .. n -> U] /\ a[0] = st /\ \A i \in 1 .. n : a[i - 1] \in U
    BY <1>1, <1>10 DEF IsRun
  <1>12. \A i \in 1 .. n : a[i] = ScaleDown(a[i - 1], m, cur)
    BY <1>3, <1>10, <1>11 DEF IsRun
  <1> QED
    BY <1>1, <1>7, <1>10, <1>11, <1>12 DEF n, DownRun

(* The states between the steps of ScaleUpBy. *)
UpRun(a, U, st, m, num, ks, cur) ==
    /\ a \in [0 .. num -> U]
    /\ a[0] = st
    /\ \A i \in 1 .. num : a[i] = ScaleUp(a[i - 1], m, ks, cur)
    /\ ScaleUpBy(st, m, num, ks, cur) = a[num]

(* The steps of ScaleUpBy.                                                 *)
LEMMA ScaleUpBySteps ==
    ASSUME NEW U, NEW st, NEW m, NEW ks, NEW cur, NEW num \in Nat, st \in U,
           \A u \in U : ScaleUp(u, m, ks, cur) \in U
    PROVE  \E a : UpRun(a, U, st, m, num, ks, cur)
  <1> DEFINE n == num
             G == [i \in 1 .. n |-> [u \in U |-> ScaleUp(u, m, ks, cur)]]
             E(c) == [t \in SUBSET DOMAIN Times(num) |->
                         IF t = {} THEN st ELSE ScaleUp(c[t \ {Max(t)}], m, ks, cur)]
  <1>1. n \in Nat /\ DOMAIN Times(num) = 1 .. n
    BY DEF Times
  <1>2. G \in [1 .. n -> [U -> U]]
    OBVIOUS
  <1>3. \A i \in 1 .. n : \A u \in U : G[i][u] = ScaleUp(u, m, ks, cur)
    OBVIOUS
  <1> HIDE DEF n, G
  <1>4. PICK h : IsTable(h, U, n, st, G)
    BY <1>1, <1>2, FoldTable
  <1>5. \A t \in SUBSET (1 .. n) : t # {} => Max(t) \in 1 .. n /\ t \ {Max(t)} \in SUBSET (1 .. n)
    BY <1>1, MaxOfSet
  <1>6. h = E(h)
    BY <1>1, <1>3, <1>4, <1>5, ZenonT(30) DEF IsTable
  <1>7. PICK c : c = E(c) /\ ScaleUpBy(st, m, num, ks, cur) = c[DOMAIN Times(num)]
    BY <1>6 DEF ScaleUpBy, FoldLeft, MapThenFoldSet
  <1>8. \A t \in SUBSET (1 .. n) : t # {} => c[t] = ScaleUp(c[t \ {Max(t)}], m, ks, cur)
    BY <1>1, <1>7
  <1>9. Unfolds(c, U, n, st, G)
    <2>1. c[{}] = st
      BY <1>1, <1>7
    <2> HIDE DEF E
    <2>2. ASSUME NEW t \in SUBSET (1 .. n), t # {}, c[t \ {Max(t)}] \in U
          PROVE  c[t] = G[Max(t)][c[t \ {Max(t)}]]
      <3>1. Max(t) \in 1 .. n
        BY <1>5, <2>2
      <3> QED
        BY <1>3, <1>8, <2>2, <3>1
    <2> QED
      BY <2>1, <2>2 DEF Unfolds
  <1>10. PICK a : IsRun(a, U, n, st, G) /\ a[n] = c[1 .. n]
    BY <1>1, <1>2, <1>9, FoldSteps
  <1>11. a \in [0 .. n -> U] /\ a[0] = st /\ \A i \in 1 .. n : a[i - 1] \in U
    BY <1>1, <1>10 DEF IsRun
  <1>12. \A i \in 1 .. n : a[i] = ScaleUp(a[i - 1], m, ks, cur)
    BY <1>3, <1>10, <1>11 DEF IsRun
  <1> QED
    BY <1>1, <1>7, <1>10, <1>11, <1>12 DEF n, UpRun

(* The states between the steps of ScaleModels. *)
ScaleRun(a, U, st, ms, before, reqs, cur) ==
    /\ a \in [0 .. Len(ms) -> U]
    /\ a[0] = st
    /\ \A i \in 1 .. Len(ms) : a[i] = ScaleModel(a[i - 1], ms[i], before, reqs, cur)
    /\ ScaleModels(st, ms, before, reqs, cur) = a[Len(ms)]

(* The steps of ScaleModels.                                               *)
LEMMA ScaleModelsSteps ==
    ASSUME NEW U, NEW T, NEW st, NEW before, NEW reqs, NEW cur, NEW ms \in Seq(T), st \in U,
           \A u \in U : \A i \in 1 .. Len(ms) : ScaleModel(u, ms[i], before, reqs, cur) \in U
    PROVE  \E a : ScaleRun(a, U, st, ms, before, reqs, cur)
  <1> DEFINE n == Len(ms)
             G == [i \in 1 .. n |-> [u \in U |-> ScaleModel(u, ms[i], before, reqs, cur)]]
             E(c) == [t \in SUBSET DOMAIN ms |->
                         IF t = {} THEN st ELSE ScaleModel(c[t \ {Max(t)}], ms[Max(t)], before, reqs, cur)]
  <1>1. n \in Nat /\ DOMAIN ms = 1 .. n
    OBVIOUS
  <1>2. G \in [1 .. n -> [U -> U]]
    OBVIOUS
  <1>3. \A i \in 1 .. n : \A u \in U : G[i][u] = ScaleModel(u, ms[i], before, reqs, cur)
    OBVIOUS
  <1> HIDE DEF n, G
  <1>4. PICK h : IsTable(h, U, n, st, G)
    BY <1>1, <1>2, FoldTable
  <1>5. \A t \in SUBSET (1 .. n) : t # {} => Max(t) \in 1 .. n /\ t \ {Max(t)} \in SUBSET (1 .. n)
    BY <1>1, MaxOfSet
  <1>6. h = E(h)
    BY <1>1, <1>3, <1>4, <1>5 DEF IsTable
  <1>7. PICK c : c = E(c) /\ ScaleModels(st, ms, before, reqs, cur) = c[DOMAIN ms]
    BY <1>6 DEF ScaleModels, FoldLeft, MapThenFoldSet
  <1>8. \A t \in SUBSET (1 .. n) : t # {} => c[t] = ScaleModel(c[t \ {Max(t)}], ms[Max(t)], before, reqs, cur)
    BY <1>1, <1>7
  <1>9. Unfolds(c, U, n, st, G)
    <2>1. c[{}] = st
      BY <1>1, <1>7
    <2> HIDE DEF E
    <2>2. ASSUME NEW t \in SUBSET (1 .. n), t # {}, c[t \ {Max(t)}] \in U
          PROVE  c[t] = G[Max(t)][c[t \ {Max(t)}]]
      <3>1. Max(t) \in 1 .. n
        BY <1>5, <2>2
      <3> QED
        BY <1>3, <1>8, <2>2, <3>1
    <2> QED
      BY <2>1, <2>2 DEF Unfolds
  <1>10. PICK a : IsRun(a, U, n, st, G) /\ a[n] = c[1 .. n]
    BY <1>1, <1>2, <1>9, FoldSteps
  <1>11. a \in [0 .. n -> U] /\ a[0] = st /\ \A i \in 1 .. n : a[i - 1] \in U
    BY <1>1, <1>10 DEF IsRun
  <1>12. \A i \in 1 .. n : a[i] = ScaleModel(a[i - 1], ms[i], before, reqs, cur)
    BY <1>3, <1>10, <1>11 DEF IsRun
  <1> QED
    BY <1>1, <1>7, <1>10, <1>11, <1>12 DEF n, ScaleRun

(* At takes its elements from the positions in I, each once, in their      *)
(* order.                                                                  *)
LEMMA AtMap ==
    ASSUME NEW T, NEW s \in Seq(T), NEW I \in SUBSET DOMAIN s
    PROVE  /\ IsFiniteSet(I) /\ Cardinality(I) \in Nat
           /\ \E f \in [1 .. Cardinality(I) -> I] :
                 /\ \A i \in I : \E n \in 1 .. Cardinality(I) : f[n] = i
                 /\ \A m, n \in 1 .. Cardinality(I) : m < n => f[m] < f[n]
                 /\ At(s, I) = [n \in 1 .. Cardinality(I) |-> s[f[n]]]
  <1> DEFINE Upto(i) == {j \in I : j <= i}
             c == Cardinality(I)
             rank == [i \in I |-> Cardinality(Upto(i))]
             Nth(n) == CHOOSE i \in I : Cardinality({j \in I : j <= i}) = n
             f == [n \in 1 .. c |-> Nth(n)]
  <1>1. DOMAIN s = 1 .. Len(s) /\ Len(s) \in Nat /\ \A i \in DOMAIN s : s[i] \in T
    OBVIOUS
  <1>2. IsFiniteSet(I) /\ c \in Nat
    <2>1. IsFiniteSet(1 .. Len(s))
      BY <1>1, FS_Interval
    <2>2. I \in SUBSET (1 .. Len(s))
      BY <1>1
    <2>3. IsFiniteSet(I)
      BY <2>1, <2>2, FS_Subset
    <2> QED
      BY <2>3, FS_CardinalityType
  <1>3. \A i \in I : i \in Nat
    BY <1>1
  <1>4. ASSUME NEW i \in I
        PROVE  IsFiniteSet(Upto(i)) /\ Cardinality(Upto(i)) \in 1 .. c
    <2>1. Upto(i) \in SUBSET I /\ i \in Upto(i)
      BY <1>3
    <2>2. IsFiniteSet(Upto(i)) /\ Cardinality(Upto(i)) <= c
      BY <1>2, <2>1, FS_Subset
    <2>3. Cardinality(Upto(i)) \in Nat /\ Cardinality(Upto(i)) # 0
      BY <2>1, <2>2, FS_CardinalityType, FS_EmptySet
    <2> QED
      BY <1>2, <2>2, <2>3
  <1>5. ASSUME NEW i \in I, NEW j \in I, i < j
        PROVE  Cardinality(Upto(i)) < Cardinality(Upto(j))
    <2>1. Upto(i) \in SUBSET Upto(j) /\ j \in Upto(j) /\ j \notin Upto(i)
      BY <1>3, <1>5
    <2>2. IsFiniteSet(Upto(j)) /\ Cardinality(Upto(i)) \in 1 .. c /\ Cardinality(Upto(j)) \in 1 .. c
      BY <1>4
    <2> HIDE DEF Upto
    <2>3. /\ Cardinality(Upto(i)) <= Cardinality(Upto(j))
          /\ Cardinality(Upto(j)) = Cardinality(Upto(i)) => Upto(j) = Upto(i)
      BY <2>1, <2>2, FS_Subset
    <2> QED
      BY <1>2, <2>1, <2>2, <2>3
  <1>6. rank \in Injection(I, 1 .. c)
    <2>1. rank \in [I -> 1 .. c]
      BY <1>4
    <2>2. \A i, j \in I : rank[i] = rank[j] => i = j
      <3> SUFFICES ASSUME NEW i \in I, NEW j \in I, i # j
                   PROVE  rank[i] # rank[j]
        OBVIOUS
      <3>1. i < j \/ j < i
        BY <1>3
      <3>2. rank[i] = Cardinality(Upto(i)) /\ rank[j] = Cardinality(Upto(j))
        OBVIOUS
      <3>3. rank[i] \in 1 .. c /\ rank[j] \in 1 .. c
        BY <2>1
      <3> HIDE DEF rank, Upto
      <3> QED
        BY <1>2, <1>5, <3>1, <3>2, <3>3
    <2> HIDE DEF rank
    <2> QED
      BY <2>1, <2>2 DEF Injection, IsInjective
  <1>7. rank \in Surjection(I, 1 .. c)
    <2>1. IsFiniteSet(1 .. c) /\ Cardinality(1 .. c) = c
      BY <1>2, FS_Interval
    <2> HIDE DEF rank
    <2> QED
      BY <1>2, <1>6, <2>1, FS_Injection
  <1>8. ASSUME NEW n \in 1 .. c
        PROVE  Nth(n) \in I /\ Cardinality(Upto(Nth(n))) = n
    <2>1. \E i \in I : rank[i] = n
      BY <1>7 DEF Surjection
    <2>2. \E i \in I : Cardinality({j \in I : j <= i}) = n
      BY <2>1
    <2> QED
      BY <2>2
  <1>9. At(s, I) = [n \in 1 .. c |-> s[Nth(n)]]
    BY DEF At
  <1> HIDE DEF Nth
  <1>10. f \in [1 .. c -> I] /\ \A n \in 1 .. c : f[n] = Nth(n)
    BY <1>8
  <1>11. At(s, I) = [n \in 1 .. c |-> s[f[n]]]
    BY <1>9, <1>10
  <1>12. ASSUME NEW i \in I PROVE \E n \in 1 .. c : f[n] = i
    <2>1. Cardinality(Upto(i)) \in 1 .. c
      BY <1>4
    <2>2. Nth(Cardinality(Upto(i))) \in I /\ Cardinality(Upto(Nth(Cardinality(Upto(i))))) = Cardinality(Upto(i))
      BY <1>8, <2>1
    <2>3. Nth(Cardinality(Upto(i))) = i
      <3>1. Nth(Cardinality(Upto(i))) < i \/ i < Nth(Cardinality(Upto(i))) \/ Nth(Cardinality(Upto(i))) = i
        BY <1>3, <2>2
      <3> HIDE DEF Upto
      <3> QED
        BY <1>2, <1>5, <2>1, <2>2, <3>1
    <2> QED
      BY <1>10, <2>1, <2>3
  <1>13. ASSUME NEW m \in 1 .. c, NEW n \in 1 .. c, m < n PROVE f[m] < f[n]
    <2>1. f[m] \in I /\ f[n] \in I /\ Cardinality(Upto(f[m])) = m /\ Cardinality(Upto(f[n])) = n
      BY <1>8, <1>10
    <2>2. f[m] < f[n] \/ f[m] = f[n] \/ f[n] < f[m]
      BY <1>3, <2>1
    <2> HIDE DEF Upto, f
    <2> QED
      BY <1>2, <1>5, <1>13, <2>1, <2>2
  <1> HIDE DEF f
  <1> QED
    BY <1>2, <1>10, <1>11, <1>12, <1>13

(* At returns exactly the elements at the positions in I, and no position  *)
(* twice.                                                                  *)
LEMMA AtElements ==
    ASSUME NEW T, NEW s \in Seq(T), NEW I \in SUBSET DOMAIN s
    PROVE  /\ At(s, I) \in Seq(T) /\ Len(At(s, I)) = Cardinality(I)
           /\ ToSet(At(s, I)) = {s[i] : i \in I}
           /\ IsInjective(s) => IsInjective(At(s, I))
           /\ At(s, I) = <<>> <=> I = {}
  <1> DEFINE c == Cardinality(I)
  <1>1. PICK f \in [1 .. c -> I] :
           /\ \A i \in I : \E n \in 1 .. c : f[n] = i
           /\ \A m, n \in 1 .. c : m < n => f[m] < f[n]
           /\ At(s, I) = [n \in 1 .. c |-> s[f[n]]]
    BY AtMap
  <1>2. c \in Nat /\ IsFiniteSet(I) /\ (c = 0 <=> I = {})
    BY AtMap, FS_EmptySet
  <1>3. \A i \in I : i \in DOMAIN s /\ s[i] \in T /\ i \in Nat
    OBVIOUS
  <1> HIDE DEF c
  <1>4. At(s, I) \in Seq(T) /\ Len(At(s, I)) = c /\ DOMAIN At(s, I) = 1 .. c
    BY <1>1, <1>2, <1>3
  <1>5. ToSet(At(s, I)) = {s[i] : i \in I}
    <2>1. \A n \in 1 .. c : At(s, I)[n] = s[f[n]] /\ f[n] \in I
      BY <1>1
    <2>2. ToSet(At(s, I)) \subseteq {s[i] : i \in I}
      BY <1>4, <2>1 DEF ToSet
    <2>3. ASSUME NEW i \in I PROVE s[i] \in ToSet(At(s, I))
      <3>1. PICK n \in 1 .. c : f[n] = i
        BY <1>1
      <3> QED
        BY <1>4, <2>1, <3>1 DEF ToSet
    <2> QED
      BY <2>2, <2>3
  <1>6. ASSUME IsInjective(s), NEW m \in 1 .. c, NEW n \in 1 .. c, At(s, I)[m] = At(s, I)[n]
        PROVE  m = n
    <2>1. f[m] \in DOMAIN s /\ f[n] \in DOMAIN s /\ s[f[m]] = s[f[n]]
      BY <1>1, <1>3, <1>6
    <2>2. f[m] = f[n] /\ f[m] \in Nat
      BY <1>3, <1>6, <2>1 DEF IsInjective
    <2>3. m < n \/ m = n \/ n < m
      BY <1>2
    <2> QED
      BY <1>1, <2>2, <2>3
  <1>7. IsInjective(s) => IsInjective(At(s, I))
    BY <1>4, <1>6 DEF IsInjective
  <1>8. At(s, I) = <<>> <=> I = {}
    BY <1>2, <1>4, EmptySeq
  <1> QED
    BY <1>4, <1>5, <1>7, <1>8 DEF c

(* The first element of At is the one at the least of the positions.       *)
LEMMA AtFirst ==
    ASSUME NEW T, NEW s \in Seq(T), NEW I \in SUBSET DOMAIN s, I # {}
    PROVE  \E i \in I : At(s, I)[1] = s[i] /\ \A j \in I : i <= j
  <1> DEFINE c == Cardinality(I)
  <1>1. PICK f \in [1 .. c -> I] :
           /\ \A i \in I : \E n \in 1 .. c : f[n] = i
           /\ \A m, n \in 1 .. c : m < n => f[m] < f[n]
           /\ At(s, I) = [n \in 1 .. c |-> s[f[n]]]
    BY AtMap
  <1>2. c \in Nat /\ c # 0
    BY AtMap, FS_EmptySet
  <1> HIDE DEF c
  <1>3. 1 \in 1 .. c /\ f[1] \in I /\ At(s, I)[1] = s[f[1]]
    BY <1>1, <1>2
  <1>4. ASSUME NEW j \in I PROVE f[1] <= j
    <2>1. PICK n \in 1 .. c : f[n] = j
      BY <1>1
    <2>2. f[1] \in Nat /\ j \in Nat /\ (n = 1 \/ 1 < n)
      BY <1>2, <1>3, <2>1
    <2> QED
      BY <1>1, <1>3, <2>1, <2>2
  <1> QED
    BY <1>3, <1>4

(* Only keeps exactly the elements in S.                                   *)
LEMMA OnlyElements ==
    ASSUME NEW T, NEW s \in Seq(T), NEW S
    PROVE  /\ Only(s, S) \in Seq(T)
           /\ ToSet(Only(s, S)) = ToSet(s) \cap S
           /\ IsInjective(s) => IsInjective(Only(s, S))
           /\ Only(s, S) = <<>> <=> ToSet(s) \cap S = {}
  <1> DEFINE I == {i \in DOMAIN s : s[i] \in S}
  <1>1. I \in SUBSET DOMAIN s /\ Only(s, S) = At(s, I)
    BY DEF Only
  <1>2. {s[i] : i \in I} = ToSet(s) \cap S /\ (I = {} <=> ToSet(s) \cap S = {})
    BY DEF ToSet
  <1> HIDE DEF I
  <1> QED
    BY <1>1, <1>2, AtElements

(* Distinct keeps every element, once.                                     *)
LEMMA DistinctElements ==
    ASSUME NEW T, NEW s \in Seq(T)
    PROVE  /\ Distinct(s) \in Seq(T)
           /\ ToSet(Distinct(s)) = ToSet(s)
           /\ IsInjective(Distinct(s))
  <1> DEFINE I == {i \in DOMAIN s : \A j \in 1 .. (i - 1) : s[j] # s[i]}
             c == Cardinality(I)
  <1>1. I \in SUBSET DOMAIN s /\ Distinct(s) = At(s, I) /\ DOMAIN s = 1 .. Len(s) /\ Len(s) \in Nat
    BY DEF Distinct
  <1>2. ASSUME NEW i \in DOMAIN s PROVE \E h \in I : s[h] = s[i]
    <2> DEFINE J == {h \in DOMAIN s : s[h] = s[i]}
    <2>1. J \in SUBSET Nat /\ J # {}
      BY <1>1
    <2>2. PICK h \in J : \A y \in J : h <= y
      BY <2>1, LeastElement
    <2>3. \A j \in 1 .. (h - 1) : j \in DOMAIN s /\ ~ (h <= j)
      BY <1>1, <2>2
    <2> QED
      BY <2>2, <2>3
  <1>3. ASSUME NEW i \in I, NEW j \in I, s[i] = s[j] PROVE ~ (i < j)
    <2>1. i < j => i \in 1 .. (j - 1)
      BY <1>1
    <2> QED
      BY <1>3, <2>1
  <1> HIDE DEF I
  <1>4. {s[i] : i \in I} = ToSet(s)
    <2>1. {s[i] : i \in I} \subseteq ToSet(s)
      BY <1>1 DEF ToSet
    <2>2. ToSet(s) \subseteq {s[i] : i \in I}
      BY <1>2 DEF ToSet
    <2> QED
      BY <2>1, <2>2
  <1>5. PICK f \in [1 .. c -> I] :
           /\ \A m, n \in 1 .. c : m < n => f[m] < f[n]
           /\ At(s, I) = [n \in 1 .. c |-> s[f[n]]]
    BY <1>1, AtMap, SMTT(30)
  <1>6. c \in Nat
    BY <1>1, AtMap
  <1> HIDE DEF c
  <1>7. IsInjective(At(s, I))
    <2>1. ASSUME NEW m \in 1 .. c, NEW n \in 1 .. c, s[f[m]] = s[f[n]] PROVE m = n
      <3>1. f[m] \in I /\ f[n] \in I /\ (m < n \/ m = n \/ n < m)
        BY <1>5, <1>6
      <3> QED
        BY <1>3, <1>5, <2>1, <3>1
    <2> QED
      BY <1>5, <2>1 DEF IsInjective
  <1>8. At(s, I) \in Seq(T) /\ ToSet(At(s, I)) = {s[i] : i \in I}
    BY <1>1, AtElements
  <1> QED
    BY <1>1, <1>4, <1>7, <1>8

(* Concat stays in a set that concatenation does not leave.                *)
LEMMA ConcatClosed ==
    ASSUME NEW U, <<>> \in U, \A u, v \in U : u \o v \in U, NEW ss \in Seq(U)
    PROVE  Concat(ss) \in U
  <1>1. \A u \in U : \A i \in 1 .. Len(ss) : (u \o ss[i]) \in U
    OBVIOUS
  <1>2. PICK a \in [0 .. Len(ss) -> U] : Concat(ss) = a[Len(ss)]
    BY <1>1, ConcatSteps
  <1> QED
    BY <1>2

(* The elements of a concatenation.                                        *)
LEMMA ToSetOfConcat ==
    ASSUME NEW T, NEW s \in Seq(T), NEW t \in Seq(T)
    PROVE  s \o t \in Seq(T) /\ ToSet(s \o t) = ToSet(s) \cup ToSet(t)
  <1>1. /\ s \o t \in Seq(T) /\ DOMAIN s = 1 .. Len(s) /\ DOMAIN t = 1 .. Len(t)
        /\ DOMAIN (s \o t) = 1 .. (Len(s) + Len(t)) /\ Len(s) \in Nat /\ Len(t) \in Nat
        /\ \A i \in 1 .. Len(s) + Len(t) : (s \o t)[i] = IF i <= Len(s) THEN s[i] ELSE t[i - Len(s)]
    BY ConcatProperties
  <1>2. ASSUME NEW i \in 1 .. (Len(s) + Len(t)) PROVE (s \o t)[i] \in ToSet(s) \cup ToSet(t)
    <2>1. i <= Len(s) => i \in 1 .. Len(s)
      BY <1>1
    <2>2. ~ (i <= Len(s)) => i - Len(s) \in 1 .. Len(t)
      BY <1>1
    <2> QED
      BY <1>1, <2>1, <2>2 DEF ToSet
  <1>3. ASSUME NEW i \in 1 .. Len(s) PROVE s[i] \in ToSet(s \o t)
    <2>1. i \in 1 .. (Len(s) + Len(t)) /\ i <= Len(s)
      BY <1>1
    <2> QED
      BY <1>1, <2>1 DEF ToSet
  <1>4. ASSUME NEW i \in 1 .. Len(t) PROVE t[i] \in ToSet(s \o t)
    <2>1. i + Len(s) \in 1 .. (Len(s) + Len(t)) /\ ~ (i + Len(s) <= Len(s)) /\ (i + Len(s)) - Len(s) = i
      BY <1>1
    <2> QED
      BY <1>1, <2>1 DEF ToSet
  <1>5. ToSet(s \o t) \subseteq ToSet(s) \cup ToSet(t)
    BY <1>1, <1>2 DEF ToSet
  <1>6. ToSet(s) \subseteq ToSet(s \o t)
    BY <1>1, <1>3 DEF ToSet
  <1>7. ToSet(t) \subseteq ToSet(s \o t)
    BY <1>1, <1>4 DEF ToSet
  <1> QED
    BY <1>1, <1>5, <1>6, <1>7

(* Concat has exactly the elements of its sequences.                       *)
LEMMA ConcatElements ==
    ASSUME NEW T, NEW ss \in Seq(Seq(T))
    PROVE  /\ Concat(ss) \in Seq(T)
           /\ ToSet(Concat(ss)) = UNION {ToSet(ss[i]) : i \in DOMAIN ss}
  <1> DEFINE n == Len(ss)
  <1>1. n \in Nat /\ DOMAIN ss = 1 .. n /\ \A i \in 1 .. n : ss[i] \in Seq(T)
    OBVIOUS
  <1>2. \A u \in Seq(T) : \A i \in 1 .. Len(ss) : (u \o ss[i]) \in Seq(T)
    BY <1>1, ConcatProperties
  <1>3. PICK a \in [0 .. n -> Seq(T)] :
           a[0] = <<>> /\ (\A i \in 1 .. n : a[i] = (a[i - 1] \o ss[i])) /\ Concat(ss) = a[n]
    <2>1. <<>> \in Seq(T)
      OBVIOUS
    <2> QED
      BY <1>2, <2>1, ConcatSteps
  <1> DEFINE P == {i \in 0 .. n : ToSet(a[i]) = UNION {ToSet(ss[j]) : j \in 1 .. i}}
  <1> HIDE DEF n
  <1>4. 0 \in P
    <2>1. ToSet(a[0]) = {} /\ 1 .. 0 = {}
      BY <1>3 DEF ToSet
    <2> QED
      BY <1>1, <2>1
  <1>5. ASSUME NEW i \in 1 .. n, i - 1 \in P PROVE i \in P
    <2>1. a[i - 1] \in Seq(T) /\ ss[i] \in Seq(T) /\ i \in 0 .. n
      BY <1>1, <1>5
    <2>2. ToSet(a[i]) = ToSet(a[i - 1]) \cup ToSet(ss[i])
      <3>1. a[i] = (a[i - 1] \o ss[i])
        BY <1>3
      <3>2. ToSet(a[i - 1] \o ss[i]) = ToSet(a[i - 1]) \cup ToSet(ss[i])
        BY <2>1, ToSetOfConcat
      <3> QED
        BY <3>1, <3>2
    <2>3. ToSet(a[i - 1]) = UNION {ToSet(ss[j]) : j \in 1 .. (i - 1)}
      BY <1>5
    <2>4. 1 .. i = (1 .. (i - 1)) \cup {i}
      BY <1>1
    <2>5. UNION {ToSet(ss[j]) : j \in 1 .. i} = (UNION {ToSet(ss[j]) : j \in 1 .. (i - 1)}) \cup ToSet(ss[i])
      BY <2>4
    <2>6. ToSet(a[i]) = UNION {ToSet(ss[j]) : j \in 1 .. i}
      BY <2>2, <2>3, <2>5
    <2> QED
      BY <2>1, <2>6
  <1>6. n \in P
    <2>1. \A i \in 1 .. n : i - 1 \in P => i \in P
      BY <1>5
    <2>2. n \in 0 .. n
      BY <1>1
    <2> HIDE DEF P
    <2> QED
      BY <1>1, <1>4, <2>1, <2>2, UpTo
  <1> QED
    BY <1>1, <1>3, <1>6

(* A sequence whose elements are in T is a sequence over T.                *)
LEMMA SeqIn ==
    ASSUME NEW S, NEW T, NEW s \in Seq(S), \A i \in DOMAIN s : s[i] \in T
    PROVE  s \in Seq(T)
  OBVIOUS

(* Plans on the backends in B, the entries of sessions in K, and the       *)
(* dictionaries of such entries: a key occurs once, and the objects with   *)
(* one identity are the same.  When each pipeline has one model of its own *)
(* (Alone), a session has one plan, made for it.                           *)
Plan(B) == [id : Nat, model : Models, owner : Key, backs : Seq(B)]
Alone ==
    /\ \A p \in Pipelines : Len(PipelineModels[p]) <= 1
    /\ \A p, q \in Pipelines : ToSet(PipelineModels[p]) \cap ToSet(PipelineModels[q]) # {} => p = q
Own(k, objs) ==
    /\ \A o \in ToSet(objs) : o.model \in ToSet(ModelsOf(k)) /\ (Alone => o.owner = k)
    /\ Alone => Len(objs) <= 1
Entry(K, B) == {e \in [key : K, objs : Seq(Plan(B))] : Own(e.key, e.objs)}
Consistent(O) == \A o, q \in O : o.id = q.id => o = q
Dict(K, B) == {d \in Seq(Entry(K, B)) : IsInjective(KeySeq(d)) /\ Consistent(AllObjs(d))}

(* The first plan for each model has a backend: it is the one             *)
(* _remove_cmodel_from_backend looks at.                                   *)
IsFirst(objs, j) == \A h \in 1 .. (j - 1) : objs[h].model # objs[j].model
Solid(objs) == \A j \in DOMAIN objs : IsFirst(objs, j) => objs[j].backs # <<>>
SolidDict(K, B) == {d \in Dict(K, B) : \A i \in DOMAIN d : d[i].objs # <<>> /\ Solid(d[i].objs)}

(* What an entry of a dictionary is.                                       *)
LEMMA DictEntries ==
    ASSUME NEW K, NEW B, NEW d \in Dict(K, B), NEW i \in DOMAIN d
    PROVE  /\ Len(d) \in Nat /\ DOMAIN d = 1 .. Len(d)
           /\ d[i] \in [key : K, objs : Seq(Plan(B))] /\ d[i].key \in K /\ d[i].objs \in Seq(Plan(B))
           /\ \A j \in DOMAIN d[i].objs :
                 /\ d[i].objs[j] \in Plan(B) /\ d[i].objs[j] \in AllObjs(d)
                 /\ d[i].objs[j].model \in ToSet(ModelsOf(d[i].key))
           /\ ToSet(d[i].objs) \subseteq AllObjs(d)
           /\ d[i] \in ToSet(d) /\ Own(d[i].key, d[i].objs)
  <1>1. d \in Seq(Entry(K, B)) /\ d[i] \in Entry(K, B)
    BY DEF Dict
  <1>2. /\ d[i] \in [key : K, objs : Seq(Plan(B))] /\ d[i].objs \in Seq(Plan(B)) /\ d[i].key \in K
        /\ Own(d[i].key, d[i].objs)
    BY <1>1 DEF Entry
  <1>3. ToSet(d[i].objs) \subseteq AllObjs(d)
    BY DEF AllObjs
  <1>4. ASSUME NEW j \in DOMAIN d[i].objs
        PROVE  /\ d[i].objs[j] \in Plan(B) /\ d[i].objs[j] \in ToSet(d[i].objs)
               /\ d[i].objs[j].model \in ToSet(ModelsOf(d[i].key))
    <2>1. d[i].objs[j] \in ToSet(d[i].objs)
      BY DEF ToSet
    <2>2. d[i].objs[j] \in Plan(B)
      BY <1>2
    <2> QED
      BY <1>2, <2>1, <2>2 DEF Own
  <1>5. d[i] \in ToSet(d)
    BY DEF ToSet
  <1> QED
    BY <1>1, <1>2, <1>3, <1>4, <1>5

(* A key names one entry of a dictionary.                                  *)
LEMMA DictKeys ==
    ASSUME NEW K, NEW B, NEW d \in Dict(K, B)
    PROVE  /\ Keys(d) \subseteq K /\ Keys(d) = ToSet(KeySeq(d)) /\ KeySeq(d) \in Seq(K)
           /\ DOMAIN KeySeq(d) = DOMAIN d /\ Len(KeySeq(d)) = Len(d)
           /\ \A i \in DOMAIN d : KeySeq(d)[i] = d[i].key
           /\ \A i, j \in DOMAIN d : d[i].key = d[j].key => i = j
           /\ \A i \in DOMAIN d : IndexOf(d, d[i].key) = i /\ ObjsOf(d, d[i].key) = d[i].objs /\ d[i].key \in Keys(d)
           /\ \A k \in Keys(d) : \E i \in DOMAIN d : d[i].key = k
           /\ \A k : k \notin Keys(d) => ObjsOf(d, k) = <<>>
  <1>1. d \in Seq(Entry(K, B)) /\ IsInjective(KeySeq(d))
    BY DEF Dict
  <1>2. \A i \in DOMAIN d : d[i].key \in K
    BY DictEntries
  <1>3. DOMAIN KeySeq(d) = DOMAIN d /\ \A i \in DOMAIN d : KeySeq(d)[i] = d[i].key
    BY DEF KeySeq
  <1>4. DOMAIN d = 1 .. Len(d) /\ Len(d) \in Nat
    BY <1>1
  <1>5. KeySeq(d) \in Seq(K) /\ Len(KeySeq(d)) = Len(d)
    BY <1>2, <1>4 DEF KeySeq
  <1>6. \A i, j \in DOMAIN d : d[i].key = d[j].key => i = j
    BY <1>1, <1>3 DEF IsInjective
  <1>7. ASSUME NEW i \in DOMAIN d
        PROVE  IndexOf(d, d[i].key) = i /\ ObjsOf(d, d[i].key) = d[i].objs /\ d[i].key \in Keys(d)
    <2>1. d[i].key \in Keys(d)
      BY DEF Keys
    <2>2. IndexOf(d, d[i].key) = i
      BY <1>6 DEF IndexOf
    <2> QED
      BY <2>1, <2>2 DEF ObjsOf
  <1>8. Keys(d) \subseteq K /\ Keys(d) = ToSet(KeySeq(d))
    BY <1>2, <1>3 DEF Keys, ToSet
  <1>9. \A k \in Keys(d) : \E i \in DOMAIN d : d[i].key = k
    BY DEF Keys
  <1>10. \A k : k \notin Keys(d) => ObjsOf(d, k) = <<>>
    BY DEF ObjsOf
  <1> QED
    BY <1>3, <1>5, <1>6, <1>7, <1>8, <1>9, <1>10

(* What a session's plans are, whether it has an entry or not.             *)
LEMMA DictObjs ==
    ASSUME NEW K, NEW B, NEW d \in Dict(K, B), NEW k
    PROVE  /\ ObjsOf(d, k) \in Seq(Plan(B)) /\ ToSet(ObjsOf(d, k)) \subseteq AllObjs(d)
           /\ \A o \in ToSet(ObjsOf(d, k)) : o.model \in ToSet(ModelsOf(k))
           /\ Own(k, ObjsOf(d, k))
           /\ AllObjs(d) \subseteq Plan(B)
           /\ \A o \in AllObjs(d) : \E i \in DOMAIN d : o \in ToSet(d[i].objs)
  <1>1. CASE k \in Keys(d)
    <2>1. PICK i \in DOMAIN d : d[i].key = k
      BY <1>1, DictKeys
    <2>2. ObjsOf(d, k) = d[i].objs
      BY <2>1, DictKeys
    <2>3. d[i].objs \in Seq(Plan(B)) /\ ToSet(d[i].objs) \subseteq AllObjs(d)
      BY DictEntries
    <2>7. Own(k, d[i].objs)
      BY <2>1, DictEntries
    <2>4. \A o \in ToSet(d[i].objs) : o.model \in ToSet(ModelsOf(k))
      BY <2>7 DEF Own
    <2>5. \A o \in AllObjs(d) : \E h \in DOMAIN d : o \in ToSet(d[h].objs)
      BY DEF AllObjs
    <2>6. AllObjs(d) \subseteq Plan(B)
      BY <2>5, DictEntries DEF ToSet
    <2> QED
      BY <2>2, <2>3, <2>4, <2>5, <2>6, <2>7
  <1>2. CASE k \notin Keys(d)
    <2>1. ObjsOf(d, k) = <<>> /\ ToSet(<<>>) = {} /\ <<>> \in Seq(Plan(B))
      BY <1>2, DictKeys DEF ToSet
    <2>5. \A o \in AllObjs(d) : \E h \in DOMAIN d : o \in ToSet(d[h].objs)
      BY DEF AllObjs
    <2>6. AllObjs(d) \subseteq Plan(B)
      BY <2>5, DictEntries DEF ToSet
    <2>7. Own(k, <<>>)
      BY <2>1 DEF Own
    <2> QED
      BY <2>1, <2>5, <2>6, <2>7
  <1> QED
    BY <1>1, <1>2

(* A sequence of entries with distinct keys and consistent plans.          *)
LEMMA MakeDict ==
    ASSUME NEW K, NEW B, NEW d \in Seq([key : K, objs : Seq(Plan(B))]),
           \A i \in DOMAIN d : Own(d[i].key, d[i].objs),
           \A i, j \in DOMAIN d : d[i].key = d[j].key => i = j,
           NEW O, Consistent(O), \A i \in DOMAIN d : ToSet(d[i].objs) \subseteq O
    PROVE  d \in Dict(K, B)
  <1>1. ASSUME NEW i \in DOMAIN d PROVE d[i] \in Entry(K, B)
    <2>1. i \in 1 .. Len(d)
      OBVIOUS
    <2>2. d[i] \in [key : K, objs : Seq(Plan(B))]
      BY <2>1, ElementOfSeq
    <2> QED
      BY <2>2 DEF Entry
  <1>2. d \in Seq(Entry(K, B))
    BY <1>1
  <1>3. AllObjs(d) \subseteq O
    BY DEF AllObjs
  <1>4. Consistent(AllObjs(d))
    BY <1>3 DEF Consistent
  <1>5. DOMAIN KeySeq(d) = DOMAIN d /\ \A i \in DOMAIN d : KeySeq(d)[i] = d[i].key
    BY DEF KeySeq
  <1>6. IsInjective(KeySeq(d))
    BY <1>5 DEF IsInjective
  <1> QED
    BY <1>2, <1>4, <1>6 DEF Dict

(* A plan after the assignment of backs to the plan object id.             *)
Rebacked(o, id, backs) == IF o.id = id THEN [o EXCEPT !.backs = backs] ELSE o

(* The assignment of backends to a plan object keeps the dictionary and    *)
(* changes that object only, in every entry that holds it.                 *)
LEMMA SetBacksEntries ==
    ASSUME NEW K, NEW B, NEW d \in Dict(K, B), NEW id, NEW backs \in Seq(B)
    PROVE  /\ SetBacks(d, id, backs) \in Dict(K, B)
           /\ DOMAIN SetBacks(d, id, backs) = DOMAIN d
           /\ KeySeq(SetBacks(d, id, backs)) = KeySeq(d)
           /\ \A i \in DOMAIN d :
                 /\ SetBacks(d, id, backs)[i].key = d[i].key
                 /\ SetBacks(d, id, backs)[i].objs \in Seq(Plan(B))
                 /\ DOMAIN SetBacks(d, id, backs)[i].objs = DOMAIN d[i].objs
                 /\ \A j \in DOMAIN d[i].objs :
                       SetBacks(d, id, backs)[i].objs[j] = Rebacked(d[i].objs[j], id, backs)
  <1> DEFINE d2 == SetBacks(d, id, backs)
             New(o) == Rebacked(o, id, backs)
             O == {New(o) : o \in AllObjs(d)}
  <1>1. DOMAIN d = 1 .. Len(d) /\ Len(d) \in Nat /\ AllObjs(d) \subseteq Plan(B) /\ Consistent(AllObjs(d))
    BY DictObjs DEF Dict
  <1>2. DOMAIN d2 = DOMAIN d
    BY DEF SetBacks
  <1>3. ASSUME NEW o \in AllObjs(d)
        PROVE  /\ New(o) \in Plan(B) /\ New(o).model = o.model /\ New(o).id = o.id /\ New(o) \in O
               /\ New(o).owner = o.owner
    BY <1>1 DEF Plan, Rebacked
  <1>4. ASSUME NEW i \in DOMAIN d
        PROVE  /\ d2[i] \in [key : K, objs : Seq(Plan(B))]
               /\ d2[i].key = d[i].key /\ DOMAIN d2[i].objs = DOMAIN d[i].objs
               /\ d2[i].objs \in Seq(Plan(B))
               /\ \A j \in DOMAIN d[i].objs : d2[i].objs[j] = New(d[i].objs[j])
    <2>1. d[i] \in [key : K, objs : Seq(Plan(B))] /\ d[i].objs \in Seq(Plan(B))
      BY DictEntries
    <2> DEFINE os == [j \in DOMAIN d[i].objs |-> New(d[i].objs[j])]
    <2>2. d2[i] = [d[i] EXCEPT !.objs = os]
      BY DEF SetBacks, Rebacked
    <2>3. \A j \in DOMAIN d[i].objs : New(d[i].objs[j]) \in Plan(B)
      BY <1>3, DictEntries
    <2>4. os \in Seq(Plan(B)) /\ DOMAIN os = DOMAIN d[i].objs
      BY <2>1, <2>3
    <2>5. \A j \in DOMAIN d[i].objs : os[j] = New(d[i].objs[j])
      OBVIOUS
    <2> HIDE DEF os, d2, New
    <2>6. d2[i] \in [key : K, objs : Seq(Plan(B))] /\ d2[i].key = d[i].key /\ d2[i].objs = os
      BY <2>1, <2>2, <2>4
    <2> QED
      BY <2>4, <2>5, <2>6
  <1> HIDE DEF d2
  <1>5. d2 \in Seq([key : K, objs : Seq(Plan(B))])
    <2>1. d2 = [i \in 1 .. Len(d) |-> d2[i]]
      BY <1>1 DEF d2, SetBacks
    <2> QED
      BY <1>1, <1>4, <2>1
  <1>6. Consistent(O)
    <2>1. ASSUME NEW o \in AllObjs(d), NEW q \in AllObjs(d), New(o).id = New(q).id
          PROVE  New(o) = New(q)
      <3>1. o.id = q.id
        BY <1>3, <2>1
      <3> QED
        BY <1>1, <3>1 DEF Consistent
    <2> HIDE DEF New
    <2> QED
      BY <2>1 DEF Consistent
  <1>7. ASSUME NEW i \in DOMAIN d2, NEW x \in ToSet(d2[i].objs)
        PROVE  /\ x \in O /\ x.model \in ToSet(ModelsOf(d2[i].key))
               /\ Alone => x.owner = d2[i].key
    <2>1. i \in DOMAIN d
      BY <1>2
    <2>2. PICK j \in DOMAIN d[i].objs : x = New(d[i].objs[j])
      BY <1>4, <2>1 DEF ToSet
    <2>3. /\ d[i].objs[j] \in AllObjs(d) /\ d[i].objs[j].model \in ToSet(ModelsOf(d[i].key))
          /\ d[i].objs[j] \in ToSet(d[i].objs) /\ Own(d[i].key, d[i].objs)
      BY <2>1, DictEntries DEF ToSet
    <2>4. Alone => d[i].objs[j].owner = d[i].key
      BY <2>3 DEF Own
    <2> HIDE DEF New, O
    <2> QED
      BY <1>3, <1>4, <2>1, <2>2, <2>3, <2>4
  <1>11. \A i \in DOMAIN d2 : Own(d2[i].key, d2[i].objs)
    <2> SUFFICES ASSUME NEW i \in DOMAIN d2 PROVE Own(d2[i].key, d2[i].objs)
      OBVIOUS
    <2>1. i \in DOMAIN d /\ DOMAIN d2[i].objs = DOMAIN d[i].objs /\ d2[i].objs \in Seq(Plan(B))
      BY <1>2, <1>4
    <2>2. d[i].objs \in Seq(Plan(B)) /\ Own(d[i].key, d[i].objs)
      BY <2>1, DictEntries
    <2>3. Len(d2[i].objs) = Len(d[i].objs)
      BY <2>1, <2>2
    <2> QED
      BY <1>7, <2>2, <2>3 DEF Own
  <1>8. \A i, j \in DOMAIN d2 : d2[i].key = d2[j].key => i = j
    BY <1>2, <1>4, DictKeys
  <1>9. d2 \in Dict(K, B)
    <2> HIDE DEF O
    <2> QED
      BY <1>5, <1>6, <1>7, <1>8, <1>11, MakeDict
  <1>10. KeySeq(d2) = KeySeq(d)
    BY <1>2, <1>4 DEF KeySeq
  <1> QED
    BY <1>2, <1>4, <1>9, <1>10 DEF d2

(* The assignment of a session's plans.                                    *)
Fits(d, k, objs, B) ==
    objs \in Seq(Plan(B)) /\ Own(k, objs) /\ Consistent(AllObjs(d) \cup ToSet(objs))
Replaced(d, d2, k, objs) ==
    /\ ToSet(d2) = {e \in ToSet(d) : e.key # k} \cup {[key |-> k, objs |-> objs]}
    /\ Keys(d2) = Keys(d) \cup {k}
    /\ AllObjs(d2) \subseteq AllObjs(d) \cup ToSet(objs)

(* The assignment of a session's plans keeps the dictionary and the other  *)
(* entries.                                                                *)
LEMMA SetObjsEntries ==
    ASSUME NEW K, NEW B, NEW d \in Dict(K, B), NEW k \in K, NEW objs, Fits(d, k, objs, B)
    PROVE  /\ SetObjs(d, k, objs) \in Dict(K, B)
           /\ Replaced(d, SetObjs(d, k, objs), k, objs)
           /\ k \in Keys(d) => /\ DOMAIN SetObjs(d, k, objs) = DOMAIN d
                               /\ KeySeq(SetObjs(d, k, objs)) = KeySeq(d)
                               /\ \A i \in DOMAIN d : SetObjs(d, k, objs)[i] =
                                     IF d[i].key = k THEN [key |-> k, objs |-> objs] ELSE d[i]
  <1>0. objs \in Seq(Plan(B)) /\ Own(k, objs) /\ Consistent(AllObjs(d) \cup ToSet(objs))
    BY DEF Fits
  <1> DEFINE d2 == SetObjs(d, k, objs)
             new == [key |-> k, objs |-> objs]
             E == [key : K, objs : Seq(Plan(B))]
  <1>1. DOMAIN d = 1 .. Len(d) /\ Len(d) \in Nat /\ new \in E /\ new.key = k /\ new.objs = objs
    BY <1>0 DEF Dict
  <1>2. \A i \in DOMAIN d : d[i] \in E /\ ToSet(d[i].objs) \subseteq AllObjs(d) /\ Own(d[i].key, d[i].objs)
    BY DictEntries
  <1>3. d \in Seq(E)
    <2>1. d \in Seq(Entry(K, B)) /\ Entry(K, B) \subseteq E
      BY DEF Dict, Entry
    <2> QED
      BY <2>1, SeqMonotonic
  <1> HIDE DEF new, E
  <1>4. /\ d2 \in Seq(E)
        /\ \A i \in DOMAIN d2 : d2[i] = new \/ (i \in DOMAIN d /\ d2[i] = d[i] /\ d[i].key # k)
        /\ \A i, j \in DOMAIN d2 : d2[i] = new /\ d2[j] = new => i = j
        /\ \E i \in DOMAIN d2 : d2[i] = new
        /\ \A i \in DOMAIN d : d[i].key # k => i \in DOMAIN d2 /\ d2[i] = d[i]
        /\ k \in Keys(d) => /\ DOMAIN d2 = DOMAIN d
                            /\ \A i \in DOMAIN d : d2[i] = IF d[i].key = k THEN new ELSE d[i]
    <2>1. CASE k \in Keys(d)
      <3>1. d2 = [i \in DOMAIN d |-> IF d[i].key = k THEN new ELSE d[i]]
        BY <2>1 DEF SetObjs, new
      <3>2. PICK i \in DOMAIN d : d[i].key = k
        BY <2>1, DictKeys
      <3>3. \A h, j \in DOMAIN d : d[h].key = k /\ d[j].key = k => h = j
        BY DictKeys
      <3> HIDE DEF d2
      <3>4. DOMAIN d2 = DOMAIN d /\ \A h \in DOMAIN d : d2[h] = IF d[h].key = k THEN new ELSE d[h]
        BY <3>1
      <3>5. d2 \in Seq(E)
        BY <1>1, <1>2, <3>1
      <3>6. \A h \in DOMAIN d : d2[h] = new => d[h].key = k
        BY <1>1, <3>4
      <3> QED
        BY <3>2, <3>3, <3>4, <3>5, <3>6
    <2>2. CASE k \notin Keys(d)
      <3>1. d2 = Append(d, new)
        BY <2>2 DEF SetObjs, new
      <3>2. \A i \in DOMAIN d : d[i].key # k
        BY <2>2 DEF Keys
      <3> HIDE DEF d2
      <3>3. /\ d2 \in Seq(E) /\ DOMAIN d2 = 1 .. (Len(d) + 1) /\ d2[Len(d) + 1] = new
            /\ \A i \in 1 .. Len(d) : d2[i] = d[i]
        BY <1>1, <1>3, <3>1
      <3>4. \A i \in DOMAIN d2 : i \in DOMAIN d \/ i = Len(d) + 1
        BY <1>1, <3>3
      <3>5. \A i \in DOMAIN d : i \in DOMAIN d2 /\ d2[i] = d[i] /\ d2[i] # new
        BY <1>1, <3>2, <3>3
      <3>6. Len(d) + 1 \in DOMAIN d2
        BY <1>1, <3>3
      <3>7. \A i, j \in DOMAIN d2 : d2[i] = new /\ d2[j] = new => i = j
        BY <3>4, <3>5
      <3> QED
        BY <2>2, <3>2, <3>3, <3>4, <3>5, <3>6, <3>7
    <2> QED
      BY <2>1, <2>2
  <1> HIDE DEF d2
  <1>5. ASSUME NEW i \in DOMAIN d2
        PROVE  /\ ToSet(d2[i].objs) \subseteq AllObjs(d) \cup ToSet(objs)
               /\ Own(d2[i].key, d2[i].objs)
    BY <1>0, <1>1, <1>2, <1>4
  <1>6. ASSUME NEW i \in DOMAIN d2, NEW j \in DOMAIN d2, d2[i].key = d2[j].key
        PROVE  i = j
    <2>1. \A h, l \in DOMAIN d : d[h].key = d[l].key => h = l
      BY DictKeys
    <2>2. d2[i] = new \/ (i \in DOMAIN d /\ d2[i] = d[i] /\ d[i].key # k)
      BY <1>4
    <2>3. d2[j] = new \/ (j \in DOMAIN d /\ d2[j] = d[j] /\ d[j].key # k)
      BY <1>4
    <2> QED
      BY <1>1, <1>4, <1>6, <2>1, <2>2, <2>3
  <1>7. d2 \in Dict(K, B)
    BY <1>0, <1>4, <1>5, <1>6, MakeDict DEF E
  <1>8. ToSet(d2) = {e \in ToSet(d) : e.key # k} \cup {new}
    <2>1. ToSet(d2) \subseteq {e \in ToSet(d) : e.key # k} \cup {new}
      BY <1>4 DEF ToSet
    <2>2. {e \in ToSet(d) : e.key # k} \subseteq ToSet(d2)
      BY <1>4 DEF ToSet
    <2>3. new \in ToSet(d2)
      BY <1>4 DEF ToSet
    <2> QED
      BY <2>1, <2>2, <2>3
  <1>9. Keys(d2) = Keys(d) \cup {k}
    <2>1. \A x : x \in Keys(d2) <=> \E e \in ToSet(d2) : e.key = x
      BY DEF Keys, ToSet
    <2>2. \A x : x \in Keys(d) <=> \E e \in ToSet(d) : e.key = x
      BY DEF Keys, ToSet
    <2> QED
      BY <1>1, <1>8, <2>1, <2>2
  <1>10. AllObjs(d2) \subseteq AllObjs(d) \cup ToSet(objs)
    BY <1>5 DEF AllObjs
  <1>11. k \in Keys(d) => KeySeq(d2) = KeySeq(d)
    BY <1>1, <1>4 DEF KeySeq
  <1> QED
    BY <1>4, <1>7, <1>8, <1>9, <1>10, <1>11 DEF d2, new, Replaced

(* Some of the entries of a dictionary are a dictionary.                   *)
LEMMA AtDict ==
    ASSUME NEW K, NEW B, NEW d \in Dict(K, B), NEW I \in SUBSET DOMAIN d
    PROVE  At(d, I) \in Dict(K, B) /\ ToSet(At(d, I)) = {d[i] : i \in I}
  <1> DEFINE c == Cardinality(I)
             E == [key : K, objs : Seq(Plan(B))]
  <1>1. d \in Seq(Entry(K, B)) /\ \A i \in DOMAIN d : i \in Nat
    BY DEF Dict
  <1>2. PICK f \in [1 .. c -> I] :
           /\ \A m, n \in 1 .. c : m < n => f[m] < f[n]
           /\ At(d, I) = [n \in 1 .. c |-> d[f[n]]]
    BY <1>1, AtMap
  <1>3. c \in Nat
    BY <1>1, AtMap
  <1> HIDE DEF c
  <1>4. At(d, I) \in Seq(E)
    <2>1. \A n \in 1 .. c : d[f[n]] \in E
      BY <1>2, DictEntries
    <2> HIDE DEF E
    <2> QED
      BY <1>2, <1>3, <2>1
  <1>5. \A n \in 1 .. c : At(d, I)[n] = d[f[n]] /\ f[n] \in DOMAIN d
    BY <1>2
  <1>6. \A m, n \in 1 .. c : At(d, I)[m].key = At(d, I)[n].key => m = n
    <2> SUFFICES ASSUME NEW m \in 1 .. c, NEW n \in 1 .. c, At(d, I)[m].key = At(d, I)[n].key
                 PROVE  m = n
      OBVIOUS
    <2>1. f[m] = f[n] /\ f[m] \in Nat
      BY <1>1, <1>5, DictKeys
    <2>2. m < n \/ m = n \/ n < m
      BY <1>3
    <2> QED
      BY <1>2, <2>1, <2>2
  <1>7. DOMAIN At(d, I) = 1 .. c
    BY <1>2
  <1>8. \A n \in 1 .. c : /\ ToSet(At(d, I)[n].objs) \subseteq AllObjs(d)
                          /\ Own(At(d, I)[n].key, At(d, I)[n].objs)
    <2>1. \A i \in DOMAIN d : ToSet(d[i].objs) \subseteq AllObjs(d) /\ Own(d[i].key, d[i].objs)
      BY DictEntries
    <2> QED
      BY <1>5, <2>1
  <1>9. Consistent(AllObjs(d))
    BY DEF Dict
  <1>10. At(d, I) \in Dict(K, B)
    BY <1>4, <1>6, <1>7, <1>8, <1>9, MakeDict
  <1> QED
    BY <1>1, <1>10, AtElements

(* DropKeys drops exactly the entries with these keys.                     *)
LEMMA DropKeysEntries ==
    ASSUME NEW K, NEW B, NEW d \in Dict(K, B), NEW ks
    PROVE  /\ DropKeys(d, ks) \in Dict(K \ ks, B)
           /\ ToSet(DropKeys(d, ks)) = {e \in ToSet(d) : e.key \notin ks}
           /\ Keys(DropKeys(d, ks)) = Keys(d) \ ks
  <1> DEFINE I == {i \in DOMAIN d : d[i].key \notin ks}
             d2 == DropKeys(d, ks)
  <1>1. I \in SUBSET DOMAIN d /\ d2 = At(d, I)
    BY DEF DropKeys
  <1>2. {d[i] : i \in I} = {e \in ToSet(d) : e.key \notin ks}
    BY DEF ToSet
  <1> HIDE DEF I, d2
  <1>3. d2 \in Dict(K, B) /\ ToSet(d2) = {e \in ToSet(d) : e.key \notin ks}
    BY <1>1, <1>2, AtDict
  <1>4. ASSUME NEW i \in DOMAIN d2
        PROVE  d2[i].key \notin ks /\ d2[i] \in Entry(K, B)
    <2>1. d2[i] \in ToSet(d2)
      BY DEF ToSet
    <2>2. d2[i] \in Entry(K, B)
      BY <1>3 DEF Dict
    <2> QED
      BY <1>3, <2>1, <2>2
  <1>5. \A i \in DOMAIN d2 : d2[i] \in Entry(K \ ks, B)
    BY <1>4 DEF Entry
  <1>6. d2 \in Seq(Entry(K \ ks, B))
    BY <1>3, <1>5, SeqIn DEF Dict
  <1>7. d2 \in Dict(K \ ks, B)
    BY <1>3, <1>6 DEF Dict
  <1>8. Keys(d2) = Keys(d) \ ks
    <2>1. \A x : x \in Keys(d2) <=> \E e \in ToSet(d2) : e.key = x
      BY DEF Keys, ToSet
    <2>2. \A x : x \in Keys(d) <=> \E e \in ToSet(d) : e.key = x
      BY DEF Keys, ToSet
    <2> QED
      BY <1>3, <2>1, <2>2
  <1> QED
    BY <1>3, <1>7, <1>8 DEF d2

(* The image of a finite set is finite.                                    *)
LEMMA ImageFinite ==
    ASSUME NEW S, NEW T, NEW f \in [S -> T], IsFiniteSet(S)
    PROVE  IsFiniteSet({f[x] : x \in S})
  <1> DEFINE R == {f[x] : x \in S}
  <1>1. f \in Surjection(S, R)
    BY DEF Surjection
  <1> HIDE DEF R
  <1>2. IsFiniteSet(R)
    BY <1>1, FS_Surjection
  <1> QED
    BY <1>2 DEF R

(* The identity of a new plan is not in use.                               *)
LEMMA NewIdFresh ==
    ASSUME NEW K, NEW B, NEW d \in Dict(K, B)
    PROVE  NewId(d) \in Nat /\ \A o \in AllObjs(d) : o.id # NewId(d)
  <1> DEFINE used == {o.id : o \in AllObjs(d)}
             c == Cardinality(used)
             N == {n \in 0 .. c : n \notin used}
  <1>1. DOMAIN d = 1 .. Len(d) /\ Len(d) \in Nat
    BY DEF Dict
  <1>2. \A i \in DOMAIN d : IsFiniteSet(ToSet(d[i].objs))
    <2> SUFFICES ASSUME NEW i \in DOMAIN d PROVE IsFiniteSet(ToSet(d[i].objs))
      OBVIOUS
    <2>1. d[i].objs \in Seq(Plan(B))
      BY DictEntries
    <2>2. DOMAIN d[i].objs = 1 .. Len(d[i].objs) /\ Len(d[i].objs) \in Nat
      BY <2>1
    <2>3. IsFiniteSet(DOMAIN d[i].objs)
      BY <2>2, FS_Interval
    <2>4. d[i].objs \in [DOMAIN d[i].objs -> Plan(B)]
      BY <2>1
    <2> DEFINE objs == d[i].objs
    <2> HIDE DEF objs
    <2>5. IsFiniteSet({objs[j] : j \in DOMAIN objs})
      BY <2>3, <2>4, ImageFinite DEF objs
    <2> QED
      BY <2>5 DEF objs, ToSet
  <1>3. IsFiniteSet(AllObjs(d))
    <2>1. IsFiniteSet(DOMAIN d)
      BY <1>1, FS_Interval
    <2> DEFINE f == [i \in DOMAIN d |-> ToSet(d[i].objs)]
    <2>3. f \in [DOMAIN d -> {ToSet(d[i].objs) : i \in DOMAIN d}]
      OBVIOUS
    <2>4. IsFiniteSet({f[i] : i \in DOMAIN d})
      <3> HIDE DEF f
      <3> QED
        BY <2>1, <2>3, ImageFinite
    <2>2. IsFiniteSet({ToSet(d[i].objs) : i \in DOMAIN d})
      BY <2>4
    <2> QED
      BY <1>2, <2>2, FS_UNION DEF AllObjs
  <1>4. IsFiniteSet(used) /\ c \in Nat
    <2> DEFINE f == [o \in AllObjs(d) |-> o.id]
    <2>1. f \in [AllObjs(d) -> used]
      OBVIOUS
    <2>2. f \in Surjection(AllObjs(d), used)
      BY <2>1 DEF Surjection
    <2>3. IsFiniteSet(used)
      <3> HIDE DEF f, used
      <3> QED
        BY <1>3, <2>2, FS_Surjection
    <2> QED
      BY <2>3, FS_CardinalityType
  <1> HIDE DEF used
  <1>5. N # {}
    <2> SUFFICES ASSUME N = {} PROVE FALSE
      OBVIOUS
    <2>1. 0 .. c \in SUBSET used
      OBVIOUS
    <2>2. Cardinality(0 .. c) <= c
      BY <1>4, <2>1, FS_Subset
    <2>3. Cardinality(0 .. c) = c + 1
      BY <1>4, FS_Interval
    <2> HIDE DEF c
    <2> QED
      BY <1>4, <2>2, <2>3
  <1> HIDE DEF c
  <1>6. PICK n \in N : \A q \in N : n <= q
    <2>1. N \in SUBSET Nat
      BY <1>4
    <2> QED
      BY <1>5, <2>1, LeastElement
  <1>7. \A q \in 0 .. (n - 1) : q \in used
    <2> SUFFICES ASSUME NEW q \in 0 .. (n - 1), q \notin used PROVE FALSE
      OBVIOUS
    <2>1. q \in N /\ ~ (n <= q)
      BY <1>4, <1>6
    <2> QED
      BY <1>6, <2>1
  <1>8. \E x \in 0 .. c : x \notin used /\ \A q \in 0 .. (x - 1) : q \in used
    BY <1>6, <1>7
  <1>9. NewId(d) = CHOOSE x \in 0 .. c : x \notin used /\ \A q \in 0 .. (x - 1) : q \in used
    BY DEF NewId, used, c
  <1>10. NewId(d) \in 0 .. c /\ NewId(d) \notin used
    BY <1>8, <1>9
  <1> QED
    BY <1>4, <1>10 DEF used

(* A session has one first plan for a model.                               *)
LEMMA FirstUnique ==
    ASSUME NEW B, NEW objs \in Seq(Plan(B)), NEW i \in DOMAIN objs, NEW j \in DOMAIN objs,
           IsFirst(objs, i), IsFirst(objs, j), objs[i].model = objs[j].model
    PROVE  i = j
  <1>1. i \in Nat \ {0} /\ j \in Nat \ {0}
    OBVIOUS
  <1>2. (i < j => i \in 1 .. (j - 1)) /\ (j < i => j \in 1 .. (i - 1))
    BY <1>1
  <1> QED
    BY <1>1, <1>2 DEF IsFirst

(* The plans of a session for a model, and the first of them.              *)
LEMMA PlansForModel ==
    ASSUME NEW B, NEW objs \in Seq(Plan(B)), NEW m
    PROVE  /\ PlansFor(objs, m) \in Seq(Plan(B))
           /\ ToSet(PlansFor(objs, m)) = {o \in ToSet(objs) : o.model = m}
           /\ PlansFor(objs, m) = <<>> => \A o \in ToSet(objs) : o.model # m
           /\ PlansFor(objs, m) # <<>> =>
                 \E j \in DOMAIN objs : /\ PlansFor(objs, m)[1] = objs[j]
                                        /\ objs[j].model = m /\ IsFirst(objs, j)
  <1> DEFINE I == {i \in DOMAIN objs : objs[i].model = m}
  <1>1. I \in SUBSET DOMAIN objs /\ PlansFor(objs, m) = At(objs, I)
    BY DEF PlansFor
  <1>2. {objs[i] : i \in I} = {o \in ToSet(objs) : o.model = m}
    BY DEF ToSet
  <1>3. I = {} => \A o \in ToSet(objs) : o.model # m
    BY DEF ToSet
  <1>4. /\ At(objs, I) \in Seq(Plan(B)) /\ ToSet(At(objs, I)) = {objs[i] : i \in I}
        /\ At(objs, I) = <<>> <=> I = {}
    BY <1>1, AtElements
  <1>5. ASSUME I # {}
        PROVE  \E j \in DOMAIN objs : At(objs, I)[1] = objs[j] /\ objs[j].model = m /\ IsFirst(objs, j)
    <2>1. PICK j \in I : At(objs, I)[1] = objs[j] /\ \A h \in I : j <= h
      BY <1>1, <1>5, AtFirst
    <2>2. ASSUME NEW h \in 1 .. (j - 1) PROVE objs[h].model # objs[j].model
      <3>1. j \in Nat /\ DOMAIN objs = 1 .. Len(objs) /\ j \in 1 .. Len(objs) /\ Len(objs) \in Nat
        OBVIOUS
      <3>2. h \in DOMAIN objs /\ ~ (j <= h)
        BY <3>1
      <3> QED
        BY <2>1, <3>2
    <2> QED
      BY <2>1, <2>2 DEF IsFirst
  <1> HIDE DEF I
  <1> QED
    BY <1>1, <1>2, <1>3, <1>4, <1>5

(* FirstPlan is the first plan of the entry for the model, if there is     *)
(* one.                                                                    *)
LEMMA FirstPlanOf ==
    ASSUME NEW K, NEW B, NEW d \in Dict(K, B), NEW i \in DOMAIN d, NEW k, d[i].key = k, NEW m
    PROVE  /\ HasPlan(d, k, m) =>
                 \E j \in DOMAIN d[i].objs : /\ FirstPlan(d, k, m) = d[i].objs[j]
                                             /\ d[i].objs[j].model = m /\ IsFirst(d[i].objs, j)
           /\ ~ HasPlan(d, k, m) => \A o \in ToSet(d[i].objs) : o.model # m
  <1>1. ObjsOf(d, k) = d[i].objs /\ d[i].objs \in Seq(Plan(B))
    BY DictKeys, DictEntries
  <1> QED
    BY <1>1, PlansForModel DEF HasPlan, FirstPlan

-----------------------------------------------------------------------------
(* The record the passes work on.  Only pipelines of several models can    *)
(* raise anything.                                                         *)
Unsched ==
    {u \in UNION {[D -> SUBSET (Models \X Backends)] : D \in SUBSET Key} :
        \A k \in DOMAIN u : \A x \in u[k] : x[1] \in ToSet(ModelsOf(k))}
Exceptions == IF \A p \in Pipelines : Len(PipelineModels[p]) <= 1 THEN {} ELSE {"AttributeError"}
State(D, R) == [plans : D, unsched : Unsched, mem : [Backends -> Int], raised : SUBSET R]

(* An assignment to unscheduling_plans_dict changes one key.               *)
LEMMA UnschedPut ==
    ASSUME NEW u \in Unsched, NEW k \in Key, NEW S \in SUBSET (Models \X Backends),
           \A x \in S : x[1] \in ToSet(ModelsOf(k))
    PROVE  /\ Put(u, k, S) \in Unsched /\ DOMAIN Put(u, k, S) = DOMAIN u \cup {k}
           /\ Put(u, k, S)[k] = S /\ \A x \in DOMAIN u : x # k => Put(u, k, S)[x] = u[x]
           /\ DOMAIN u \subseteq Key /\ \A x \in DOMAIN u : u[x] \in SUBSET (Models \X Backends)
           /\ \A x \in DOMAIN u : \A y \in u[x] : y[1] \in ToSet(ModelsOf(x))
  <1>1. PICK D \in SUBSET Key : u \in [D -> SUBSET (Models \X Backends)]
    BY DEF Unsched
  <1>2. D \cup {k} \in SUBSET Key /\ DOMAIN u = D
    BY <1>1
  <1>3. Put(u, k, S) \in [D \cup {k} -> SUBSET (Models \X Backends)]
    BY <1>1, <1>2 DEF Put
  <1>5. /\ DOMAIN Put(u, k, S) = DOMAIN u \cup {k}
        /\ Put(u, k, S)[k] = S /\ \A x \in DOMAIN u : x # k => Put(u, k, S)[x] = u[x]
    BY <1>2 DEF Put
  <1>6. \A x \in DOMAIN u : \A y \in u[x] : y[1] \in ToSet(ModelsOf(x))
    BY DEF Unsched
  <1>4. Put(u, k, S) \in Unsched
    BY <1>2, <1>3, <1>5, <1>6 DEF Unsched
  <1> QED
    BY <1>1, <1>2, <1>4, <1>5, <1>6

(* Two models in a session: a pipeline has several.                        *)
LEMMA SeveralModels ==
    ASSUME NEW k \in Key, NEW x \in ToSet(ModelsOf(k)), NEW y \in ToSet(ModelsOf(k)), x # y
    PROVE  "AttributeError" \in Exceptions
  <1>1. k[1] \in Pipelines /\ ModelsOf(k) = PipelineModels[k[1]] /\ ModelsOf(k) \in Seq(Models)
    BY PolicyAssumption DEF Key, ModelsOf
  <1>2. PICK i \in DOMAIN ModelsOf(k), j \in DOMAIN ModelsOf(k) : i # j
    BY DEF ToSet
  <1>3. ~ (Len(ModelsOf(k)) <= 1)
    BY <1>1, <1>2
  <1> QED
    BY <1>1, <1>3 DEF Exceptions

-----------------------------------------------------------------------------
(* _remove_cmodel_from_backend.                                            *)

(* The removal of b from the plans for m: what it leaves of an entry, what *)
(* entries it takes, and that the first plan for m was dealt with.         *)
Trimmed(e, e2, m, b) ==
    /\ e2.key = e.key /\ DOMAIN e2.objs = DOMAIN e.objs
    /\ \A j \in DOMAIN e.objs :
          /\ e2.objs[j].id = e.objs[j].id /\ e2.objs[j].model = e.objs[j].model
          /\ e2.objs[j].owner = e.objs[j].owner
          /\ ToSet(e.objs[j].backs) \ {b} \subseteq ToSet(e2.objs[j].backs)
          /\ ToSet(e2.objs[j].backs) \subseteq ToSet(e.objs[j].backs)
          /\ e.objs[j].model # m => ToSet(e2.objs[j].backs) = ToSet(e.objs[j].backs)
Emptied(e, m, b) ==
    \E j \in DOMAIN e.objs : /\ IsFirst(e.objs, j) /\ e.objs[j].model = m
                             /\ ToSet(e.objs[j].backs) \subseteq {b}
Cleaned(objs, m, b) ==
    \A j \in DOMAIN objs : objs[j].model = m /\ IsFirst(objs, j) =>
        objs[j].backs # <<>> /\ b \notin ToSet(objs[j].backs)
Trimming(e, e2, m, b, visited) ==
    \/ e2.key = e.key /\ e2.objs = <<>> /\ Emptied(e, m, b)
    \/ Trimmed(e, e2, m, b) /\ (visited => Cleaned(e2.objs, m, b))

(* Unscheduling plans are added, and only for sessions without any.        *)
Grown(u, u2, ks, m, b, g) ==
    /\ DOMAIN u \subseteq DOMAIN u2 /\ \A k \in DOMAIN u : u2[k] = u[k]
    /\ \A k \in DOMAIN u2 \ DOMAIN u : g /\ k \in ks /\ u2[k] = {<<m, b>>}

(* A sequence without elements is empty.                                   *)
LEMMA EmptySet ==
    ASSUME NEW T, NEW s \in Seq(T)
    PROVE  s = <<>> <=> ToSet(s) = {}
  <1>1. s = <<>> => ToSet(s) = {}
    BY DEF ToSet
  <1>2. s # <<>> => 1 \in DOMAIN s
    OBVIOUS
  <1>3. 1 \in DOMAIN s => s[1] \in ToSet(s)
    BY DEF ToSet
  <1> QED
    BY <1>1, <1>2, <1>3

(* One visit, for one entry; o is the plan cleaned, and left what is left  *)
(* of its backends.                                                        *)
LEMMA TrimOther ==
    ASSUME NEW K, NEW B, NEW d \in Dict(K, B), NEW i \in DOMAIN d, NEW e, NEW m, NEW b,
           NEW visited, Trimming(e, d[i], m, b, visited),
           NEW o \in AllObjs(d), o.model = m,
           NEW left \in Seq(B), ToSet(left) = ToSet(o.backs) \ {b}
    PROVE  Trimming(e, SetBacks(d, o.id, left)[i], m, b, visited)
  <1> DEFINE e2 == SetBacks(d, o.id, left)[i]
  <1>1. /\ e2.key = d[i].key /\ e2.objs \in Seq(Plan(B)) /\ DOMAIN e2.objs = DOMAIN d[i].objs
        /\ \A j \in DOMAIN d[i].objs : e2.objs[j] = Rebacked(d[i].objs[j], o.id, left)
    BY SetBacksEntries
  <1>2. d[i].objs \in Seq(Plan(B)) /\ \A j \in DOMAIN d[i].objs : d[i].objs[j] \in Plan(B)
    BY DictEntries
  <1>3. \A j \in DOMAIN d[i].objs : d[i].objs[j].id = o.id => d[i].objs[j] = o
    BY DictEntries DEF Dict, Consistent
  <1>4. ASSUME NEW j \in DOMAIN d[i].objs
        PROVE  /\ e2.objs[j].id = d[i].objs[j].id /\ e2.objs[j].model = d[i].objs[j].model
               /\ e2.objs[j].owner = d[i].objs[j].owner
               /\ \/ e2.objs[j] = d[i].objs[j]
                  \/ d[i].objs[j] = o /\ e2.objs[j].backs = left
    BY <1>1, <1>2, <1>3 DEF Plan, Rebacked
  <1> HIDE DEF e2
  <1>5. CASE d[i].objs = <<>>
    <2>1. e2.objs = <<>>
      <3>1. DOMAIN e2.objs = {}
        BY <1>1, <1>5 DEF e2
      <3>2. e2.objs \in Seq(Plan(B))
        BY <1>1 DEF e2
      <3> QED
        BY <3>1, <3>2
    <2>2. Emptied(e, m, b) \/ Trimmed(e, d[i], m, b)
      BY DEF Trimming
    <2>3. CASE Emptied(e, m, b) /\ e.key = d[i].key
      BY <1>1, <2>1, <2>3 DEF Trimming, e2
    <2>4. CASE Trimmed(e, d[i], m, b)
      <3>1. DOMAIN e.objs = {}
        BY <1>5, <2>4 DEF Trimmed
      <3> QED
        BY <1>1, <1>5, <2>1, <2>4, <3>1 DEF Trimming, Trimmed, Cleaned, e2
    <2> QED
      BY <2>2, <2>3, <2>4 DEF Trimming
  <1>6. CASE d[i].objs # <<>>
    <2>1. Trimmed(e, d[i], m, b) /\ (visited => Cleaned(d[i].objs, m, b))
      BY <1>6 DEF Trimming
    <2>2. Trimmed(e, e2, m, b)
      <3>1. e2.key = e.key /\ DOMAIN e2.objs = DOMAIN e.objs
        BY <1>1, <2>1 DEF Trimmed
      <3>2. ASSUME NEW j \in DOMAIN e.objs
            PROVE  /\ e2.objs[j].id = e.objs[j].id /\ e2.objs[j].model = e.objs[j].model
                   /\ e2.objs[j].owner = e.objs[j].owner
                   /\ ToSet(e.objs[j].backs) \ {b} \subseteq ToSet(e2.objs[j].backs)
                   /\ ToSet(e2.objs[j].backs) \subseteq ToSet(e.objs[j].backs)
                   /\ e.objs[j].model # m => ToSet(e2.objs[j].backs) = ToSet(e.objs[j].backs)
        <4>1. j \in DOMAIN d[i].objs
          BY <2>1 DEF Trimmed
        <4>2. /\ d[i].objs[j].id = e.objs[j].id /\ d[i].objs[j].model = e.objs[j].model
              /\ d[i].objs[j].owner = e.objs[j].owner
              /\ ToSet(e.objs[j].backs) \ {b} \subseteq ToSet(d[i].objs[j].backs)
              /\ ToSet(d[i].objs[j].backs) \subseteq ToSet(e.objs[j].backs)
              /\ e.objs[j].model # m => ToSet(d[i].objs[j].backs) = ToSet(e.objs[j].backs)
          BY <2>1 DEF Trimmed
        <4> QED
          BY <1>4, <4>1, <4>2
      <3> QED
        BY <3>1, <3>2 DEF Trimmed
    <2>3. ASSUME visited PROVE Cleaned(e2.objs, m, b)
      <3> SUFFICES ASSUME NEW j \in DOMAIN e2.objs, e2.objs[j].model = m, IsFirst(e2.objs, j)
                   PROVE  e2.objs[j].backs # <<>> /\ b \notin ToSet(e2.objs[j].backs)
        BY DEF Cleaned
      <3>1. j \in DOMAIN d[i].objs /\ d[i].objs[j].model = m
        BY <1>1, <1>4
      <3>2. IsFirst(d[i].objs, j)
        <4>1. \A h \in 1 .. (j - 1) : h \in DOMAIN d[i].objs
          BY <1>2, <3>1
        <4> QED
          BY <1>4, <3>1, <4>1 DEF IsFirst
      <3>3. d[i].objs[j].backs # <<>> /\ b \notin ToSet(d[i].objs[j].backs)
        BY <2>1, <2>3, <3>1, <3>2 DEF Cleaned
      <3>4. CASE e2.objs[j] = d[i].objs[j]
        BY <3>3, <3>4
      <3>5. CASE d[i].objs[j] = o /\ e2.objs[j].backs = left
        <4>1. o.backs \in Seq(B) /\ ToSet(left) = ToSet(o.backs)
          BY <1>2, <3>1, <3>3, <3>5 DEF Plan
        <4> QED
          BY <3>3, <3>5, <4>1, EmptySet
      <3> QED
        BY <1>4, <3>1, <3>4, <3>5
    <2> QED
      BY <2>2, <2>3 DEF Trimming, e2
  <1> QED
    BY <1>5, <1>6

(* The session visited: its first plan for m, at j, is the one cleaned.    *)
LEMMA TrimVisited ==
    ASSUME NEW K, NEW B, NEW d \in Dict(K, B), NEW i \in DOMAIN d, NEW e, NEW m, NEW b,
           NEW visited, Trimming(e, d[i], m, b, visited),
           NEW j \in DOMAIN d[i].objs, d[i].objs[j].model = m, IsFirst(d[i].objs, j),
           NEW left \in Seq(B), ToSet(left) = ToSet(d[i].objs[j].backs) \ {b}
    PROVE  /\ left # <<>> => Trimming(e, SetBacks(d, d[i].objs[j].id, left)[i], m, b, TRUE)
           /\ left = <<>> => Emptied(e, m, b)
  <1> DEFINE o == d[i].objs[j]
             e2 == SetBacks(d, o.id, left)[i]
  <1>1. o \in AllObjs(d) /\ o \in Plan(B) /\ d[i].objs \in Seq(Plan(B))
    BY DictEntries
  <1>2. Trimmed(e, d[i], m, b) /\ e.key = d[i].key
    <2>1. d[i].objs # <<>>
      OBVIOUS
    <2>2. Trimmed(e, d[i], m, b)
      BY <2>1 DEF Trimming
    <2> QED
      BY <2>2 DEF Trimmed
  <1>3. ASSUME left = <<>> PROVE Emptied(e, m, b)
    <2>1. j \in DOMAIN e.objs /\ e.objs[j].model = m /\ ToSet(e.objs[j].backs) \ {b} \subseteq ToSet(o.backs)
      BY <1>2 DEF Trimmed
    <2>2. ToSet(e.objs[j].backs) \subseteq {b}
      BY <1>3, <2>1 DEF ToSet
    <2>3. IsFirst(e.objs, j)
      <3>1. \A h \in 1 .. (j - 1) : h \in DOMAIN d[i].objs
        BY <1>1
      <3>2. \A h \in DOMAIN d[i].objs : d[i].objs[h].model = e.objs[h].model
        BY <1>2 DEF Trimmed
      <3> QED
        BY <3>1, <3>2 DEF IsFirst
    <2> QED
      BY <2>1, <2>2, <2>3 DEF Emptied
  <1>4. ASSUME left # <<>> PROVE Trimming(e, e2, m, b, TRUE)
    <2>1. Trimming(e, e2, m, b, visited)
      BY <1>1, TrimOther
    <2>2. /\ e2.objs \in Seq(Plan(B)) /\ DOMAIN e2.objs = DOMAIN d[i].objs
          /\ \A h \in DOMAIN d[i].objs : e2.objs[h] = Rebacked(d[i].objs[h], o.id, left)
      BY SetBacksEntries
    <2>3. \A h \in DOMAIN d[i].objs : e2.objs[h].model = d[i].objs[h].model
      <3>1. \A h \in DOMAIN d[i].objs : d[i].objs[h] \in Plan(B)
        BY DictEntries
      <3> HIDE DEF e2, o
      <3> QED
        BY <2>2, <3>1 DEF Rebacked, Plan
    <2>4. e2.objs[j].backs = left
      BY <1>1, <2>2 DEF Rebacked, Plan
    <2> HIDE DEF e2, o
    <2>5. Cleaned(e2.objs, m, b)
      <3> SUFFICES ASSUME NEW h \in DOMAIN e2.objs, e2.objs[h].model = m, IsFirst(e2.objs, h)
                   PROVE  e2.objs[h].backs # <<>> /\ b \notin ToSet(e2.objs[h].backs)
        BY DEF Cleaned
      <3>1. h \in DOMAIN d[i].objs /\ d[i].objs[h].model = m
        BY <2>2, <2>3
      <3>2. IsFirst(d[i].objs, h)
        <4>1. \A x \in 1 .. (h - 1) : x \in DOMAIN d[i].objs
          BY <1>1, <3>1
        <4> QED
          BY <2>3, <3>1, <4>1 DEF IsFirst
      <3>3. h = j
        BY <1>1, <3>1, <3>2, FirstUnique
      <3> QED
        BY <1>4, <2>4, <3>3
    <2>6. e2.objs # <<>>
      BY <2>2
    <2> QED
      BY <2>1, <2>5, <2>6 DEF Trimming
  <1> QED
    BY <1>3, <1>4

(* What the visits made so far leave of d0 and u0; V are the sessions      *)
(* visited.                                                                *)
Loose(d0, u0, st, K, B, R, m, b, V, g) ==
    /\ st \in State(Dict(K, B), R)
    /\ DOMAIN st.plans = DOMAIN d0 /\ KeySeq(st.plans) = KeySeq(d0)
    /\ \A i \in DOMAIN d0 : Trimming(d0[i], st.plans[i], m, b, d0[i].key \in V)
    /\ Grown(u0, st.unsched, Keys(d0), m, b, g)

(* The dictionary after a visit of session k.                              *)
LEMMA VisitPlans ==
    ASSUME NEW K, NEW B \in SUBSET Backends, NEW d0 \in Dict(K, B), NEW d \in Dict(K, B),
           NEW m \in Models, NEW b \in Backends, NEW V,
           DOMAIN d = DOMAIN d0, KeySeq(d) = KeySeq(d0),
           \A i \in DOMAIN d0 : Trimming(d0[i], d[i], m, b, d0[i].key \in V),
           NEW k \in Keys(d), HasPlan(d, k, m)
    PROVE  LET o == FirstPlan(d, k, m)
               left == Only(o.backs, Backends \ {b})
               d2 == SetBacks(d, o.id, left)
               d3 == IF left = <<>> THEN SetObjs(d2, k, <<>>) ELSE d2
           IN  /\ d3 \in Dict(K, B) /\ DOMAIN d3 = DOMAIN d0 /\ KeySeq(d3) = KeySeq(d0)
               /\ \A i \in DOMAIN d0 : Trimming(d0[i], d3[i], m, b, d0[i].key \in V \cup {k})
  <1> DEFINE o == FirstPlan(d, k, m)
             left == Only(o.backs, Backends \ {b})
             d2 == SetBacks(d, o.id, left)
             d3 == IF left = <<>> THEN SetObjs(d2, k, <<>>) ELSE d2
  <1>1. PICK i0 \in DOMAIN d : d[i0].key = k
    BY DictKeys
  <1>2. PICK j0 \in DOMAIN d[i0].objs : o = d[i0].objs[j0] /\ o.model = m /\ IsFirst(d[i0].objs, j0)
    BY <1>1, FirstPlanOf
  <1>3. o \in AllObjs(d) /\ o \in Plan(B)
    BY <1>2, DictEntries
  <1>4. left \in Seq(B) /\ ToSet(left) = ToSet(o.backs) \ {b}
    <2>1. o.backs \in Seq(B)
      BY <1>3 DEF Plan
    <2>2. ToSet(o.backs) \subseteq Backends
      BY <2>1 DEF ToSet
    <2> QED
      BY <2>1, <2>2, OnlyElements
  <1> HIDE DEF o, left
  <1>5. d2 \in Dict(K, B) /\ DOMAIN d2 = DOMAIN d /\ KeySeq(d2) = KeySeq(d)
    BY <1>4, SetBacksEntries
  <1>6. \A i \in DOMAIN d0 : Trimming(d0[i], d2[i], m, b, d0[i].key \in V)
    BY <1>2, <1>3, <1>4, TrimOther
  <1>7. /\ left # <<>> => Trimming(d0[i0], d2[i0], m, b, TRUE)
        /\ left = <<>> => Emptied(d0[i0], m, b)
    BY <1>1, <1>2, <1>4, TrimVisited
  <1>8. \A i \in DOMAIN d0 : d[i].key = d0[i].key /\ d2[i].key = d0[i].key
    BY <1>5 DEF KeySeq
  <1>9. \A i \in DOMAIN d0 : i # i0 => d0[i].key # k
    BY <1>1, <1>8, DictKeys
  <1> HIDE DEF d2
  <1>10. CASE left # <<>>
    <2>1. d3 = d2
      BY <1>10
    <2>2. \A i \in DOMAIN d0 : Trimming(d0[i], d2[i], m, b, d0[i].key \in V \cup {k})
      <3> SUFFICES ASSUME NEW i \in DOMAIN d0 PROVE Trimming(d0[i], d2[i], m, b, d0[i].key \in V \cup {k})
        OBVIOUS
      <3>1. CASE i = i0
        BY <1>7, <1>10, <3>1 DEF Trimming
      <3>2. CASE i # i0
        BY <1>6, <1>9, <3>2 DEF Trimming
      <3> QED
        BY <3>1, <3>2
    <2> QED
      BY <1>5, <2>1, <2>2 DEF d2, left, o
  <1>11. CASE left = <<>>
    <2>1. d3 = SetObjs(d2, k, <<>>)
      BY <1>11
    <2>2. k \in K /\ k \in Keys(d2) /\ <<>> \in Seq(Plan(B)) /\ ToSet(<<>>) = {}
      <3>1. k \in K
        BY DictKeys
      <3>2. Keys(d2) = Keys(d)
        BY <1>5, DictKeys
      <3> QED
        BY <3>1, <3>2 DEF ToSet
    <2>3. Consistent(AllObjs(d2) \cup ToSet(<<>>))
      BY <1>5, <2>2 DEF Dict
    <2>4. /\ d3 \in Dict(K, B) /\ DOMAIN d3 = DOMAIN d2 /\ KeySeq(d3) = KeySeq(d2)
          /\ \A i \in DOMAIN d2 : d3[i] = IF d2[i].key = k THEN [key |-> k, objs |-> <<>>] ELSE d2[i]
      <3> DEFINE none == <<>>
      <3>1. d3 = SetObjs(d2, k, none) /\ none \in Seq(Plan(B)) /\ ToSet(none) = {}
        BY <2>1, <2>2
      <3>2. Fits(d2, k, none, B)
        BY <2>2, <2>3 DEF Own, Fits
      <3> HIDE DEF d3, none
      <3>3. /\ d3 \in Dict(K, B) /\ DOMAIN d3 = DOMAIN d2 /\ KeySeq(d3) = KeySeq(d2)
            /\ \A i \in DOMAIN d2 : d3[i] = IF d2[i].key = k THEN [key |-> k, objs |-> none] ELSE d2[i]
        BY <1>5, <2>2, <3>1, <3>2, SetObjsEntries
      <3> QED
        BY <3>3 DEF none
    <2> HIDE DEF d3
    <2>5. \A i \in DOMAIN d0 : Trimming(d0[i], d3[i], m, b, d0[i].key \in V \cup {k})
      <3> SUFFICES ASSUME NEW i \in DOMAIN d0 PROVE Trimming(d0[i], d3[i], m, b, d0[i].key \in V \cup {k})
        OBVIOUS
      <3>1. CASE i = i0
        <4>1. d3[i].key = d0[i].key /\ d3[i].objs = <<>>
          BY <1>1, <1>5, <1>8, <2>4, <3>1
        <4> QED
          BY <1>7, <1>11, <3>1, <4>1 DEF Trimming
      <3>2. CASE i # i0
        <4>1. d3[i] = d2[i]
          BY <1>5, <1>8, <1>9, <2>4, <3>2
        <4> QED
          BY <1>6, <1>9, <3>2, <4>1 DEF Trimming
      <3> QED
        BY <3>1, <3>2
    <2> QED
      BY <1>5, <2>4, <2>5 DEF d3, d2, left, o
  <1> QED
    BY <1>10, <1>11

(* The fields of the record the passes work on.                            *)
LEMMA StateFields ==
    ASSUME NEW D, NEW R, NEW st \in State(D, R)
    PROVE  /\ st.plans \in D /\ st.unsched \in Unsched /\ st.mem \in [Backends -> Int]
           /\ st.raised \in SUBSET R
           /\ st = [plans |-> st.plans, unsched |-> st.unsched, mem |-> st.mem, raised |-> st.raised]
  BY DEF State

(* One visit of _remove_cmodel_from_backend trims the entries, deals with  *)
(* the session visited, and adds unscheduling plans only for a session     *)
(* without any.                                                            *)
LEMMA RemoveFromSessionKeeps ==
    ASSUME NEW K \in SUBSET Key, NEW B \in SUBSET Backends, NEW R, Exceptions \subseteq R,
           NEW d0 \in Dict(K, B), NEW u0,
           NEW m \in Models, NEW b \in Backends, NEW V, NEW g \in BOOLEAN,
           NEW st, Loose(d0, u0, st, K, B, R, m, b, V, g), NEW k \in Keys(d0)
    PROVE  /\ Loose(d0, u0, RemoveFromSession(st, k, m, b, g), K, B, R, m, b, V \cup {k}, g)
           /\ RemoveFromSession(st, k, m, b, g).mem = st.mem
  <1> DEFINE d == st.plans
             res == RemoveFromSession(st, k, m, b, g)
  <1>1. /\ st \in State(Dict(K, B), R) /\ d \in Dict(K, B) /\ DOMAIN d = DOMAIN d0 /\ KeySeq(d) = KeySeq(d0)
        /\ \A i \in DOMAIN d0 : Trimming(d0[i], d[i], m, b, d0[i].key \in V)
        /\ Grown(u0, st.unsched, Keys(d0), m, b, g)
    BY StateFields DEF Loose
  <1>2. Keys(d) = Keys(d0) /\ k \in Keys(d) /\ k \in Key
    BY <1>1, DictKeys
  <1>3. \A i \in DOMAIN d0 : d[i].key = d0[i].key
    BY <1>1 DEF KeySeq
  <1>0. d = st.plans
    OBVIOUS
  <1> HIDE DEF d
  <1>4. CASE ~ HasPlan(d, k, m)
    <2>1. res = st
      BY <1>4 DEF RemoveFromSession, d
    <2>2. ASSUME NEW i \in DOMAIN d0 PROVE Trimming(d0[i], d[i], m, b, d0[i].key \in V \cup {k})
      <3>1. CASE d0[i].key = k
        <4>1. \A o \in ToSet(d[i].objs) : o.model # m
          BY <1>1, <1>3, <1>4, <3>1, FirstPlanOf
        <4>2. Cleaned(d[i].objs, m, b)
          BY <4>1 DEF Cleaned, ToSet
        <4> QED
          BY <1>1, <4>2 DEF Trimming
      <3>2. CASE d0[i].key # k
        <4>1. d0[i].key \in V \cup {k} <=> d0[i].key \in V
          BY <3>2
        <4> QED
          BY <1>1, <4>1 DEF Trimming
      <3> QED
        BY <3>1, <3>2
    <2> QED
      BY <1>0, <1>1, <2>1, <2>2 DEF Loose
  <1>5. CASE HasPlan(d, k, m)
    <2> DEFINE o == FirstPlan(d, k, m)
               left == Only(o.backs, Backends \ {b})
               d2 == SetBacks(d, o.id, left)
               d3 == IF left = <<>> THEN SetObjs(d2, k, <<>>) ELSE d2
               others == {x \in ToSet(ObjsOf(d, k)) : x.model # m}
               shared == \E e \in ToSet(d) : e.key # k /\ o \in ToSet(e.objs)
               u == st.unsched
               u2 == IF g /\ Serves(d, k, m, b) /\ k \notin DOMAIN u THEN Put(u, k, {<<m, b>>}) ELSE u
               when == left = <<>> /\ others # {} /\ shared
               r == IF when THEN st.raised \cup {"AttributeError"} ELSE st.raised
    <2>1. /\ d3 \in Dict(K, B) /\ DOMAIN d3 = DOMAIN d0 /\ KeySeq(d3) = KeySeq(d0)
          /\ \A i \in DOMAIN d0 : Trimming(d0[i], d3[i], m, b, d0[i].key \in V \cup {k})
      BY <1>1, <1>2, <1>5, VisitPlans
    <2>2. res = Raise([st EXCEPT !.plans = d3, !.unsched = u2], "AttributeError", when)
      BY <1>5 DEF RemoveFromSession, d
    <2>3. u2 \in Unsched /\ Grown(u0, u2, Keys(d0), m, b, g)
      <3>1. u \in Unsched
        BY <1>1, StateFields
      <3> DEFINE S == {<<m, b>>}
      <3>5. PICK i \in DOMAIN d : d[i].key = k
        BY <1>1, <1>2, DictKeys
      <3>6. PICK j \in DOMAIN d[i].objs : d[i].objs[j].model = m
        <4>1. d \in Dict(K, B) /\ i \in DOMAIN d /\ d[i].key = k /\ HasPlan(d, k, m)
          BY <1>1, <1>5, <3>5
        <4> QED
          BY <4>1, FirstPlanOf
      <3>7. m \in ToSet(ModelsOf(k))
        BY <1>1, <3>5, <3>6, DictEntries
      <3>2. S \in SUBSET (Models \X Backends) /\ \A x \in S : x[1] \in ToSet(ModelsOf(k))
        BY <3>7
      <3>3. CASE g /\ Serves(d, k, m, b) /\ k \notin DOMAIN u
        <4>1. u2 = Put(u, k, {<<m, b>>})
          BY <3>3
        <4>3. u2 = Put(u, k, S)
          BY <4>1
        <4> HIDE DEF u2, u, S
        <4>2. /\ u2 \in Unsched /\ DOMAIN u2 = DOMAIN u \cup {k}
              /\ u2[k] = S /\ \A x \in DOMAIN u : x # k => u2[x] = u[x]
          BY <1>2, <3>1, <3>2, <4>3, UnschedPut
        <4> QED
          BY <1>1, <1>2, <3>3, <4>2 DEF Grown, u, S
      <3>4. CASE ~ (g /\ Serves(d, k, m, b) /\ k \notin DOMAIN u)
        BY <1>1, <3>1, <3>4
      <3> QED
        BY <3>3, <3>4
    <2>4. when => "AttributeError" \in Exceptions
      <3> SUFFICES ASSUME others # {} PROVE "AttributeError" \in Exceptions
        OBVIOUS
      <3>1. PICK x \in ToSet(ObjsOf(d, k)) : x.model # m
        OBVIOUS
      <3>2. PICK i \in DOMAIN d : d[i].key = k
        BY <1>1, <1>2, DictKeys
      <3>3. PICK j \in DOMAIN d[i].objs : d[i].objs[j].model = m
        <4>1. d \in Dict(K, B) /\ i \in DOMAIN d /\ d[i].key = k /\ HasPlan(d, k, m)
          BY <1>1, <1>5, <3>2
        <4> QED
          BY <4>1, FirstPlanOf
      <3>4. d[i].objs[j].model \in ToSet(ModelsOf(k)) /\ x.model \in ToSet(ModelsOf(k))
        BY <1>1, <3>1, <3>2, DictEntries, DictObjs
      <3> QED
        BY <1>2, <3>1, <3>3, <3>4, SeveralModels
    <2>5. r \in SUBSET R
      BY <1>1, <2>4, StateFields
    <2> HIDE DEF d3, u2, when
    <2>6. res = [plans |-> d3, unsched |-> u2, mem |-> st.mem, raised |-> r]
      <3>1. st = [plans |-> st.plans, unsched |-> st.unsched, mem |-> st.mem, raised |-> st.raised]
        BY <1>1, StateFields
      <3> QED
        BY <2>2, <3>1 DEF Raise
    <2> HIDE DEF res, r
    <2>7. /\ res \in State(Dict(K, B), R) /\ res.plans = d3 /\ res.unsched = u2 /\ res.mem = st.mem
      <3>1. st.mem \in [Backends -> Int]
        BY <1>1, StateFields
      <3> QED
        BY <2>1, <2>3, <2>5, <2>6, <3>1 DEF State
    <2> QED
      BY <2>1, <2>3, <2>7 DEF Loose, res
  <1> QED
    BY <1>4, <1>5

(* All visits of _remove_cmodel_from_backend deal with every session.      *)
LEMMA RemoveFromSessionsKeeps ==
    ASSUME NEW K \in SUBSET Key, NEW B \in SUBSET Backends, NEW R, Exceptions \subseteq R,
           NEW st \in State(Dict(K, B), R),
           NEW m \in Models, NEW b \in Backends, NEW g \in BOOLEAN,
           NEW acc, acc = RemoveFromSessions(st, KeySeq(st.plans), m, b, g)
    PROVE  Loose(st.plans, st.unsched, acc, K, B, R, m, b, Keys(st.plans), g) /\ acc.mem = st.mem
  <1> DEFINE d0 == st.plans
             u0 == st.unsched
             ks == KeySeq(d0)
             n == Len(ks)
             U == {x \in State(Dict(K, B), R) : Loose(d0, u0, x, K, B, R, m, b, {}, g) /\ x.mem = st.mem}
             V(i) == {ks[j] : j \in 1 .. i}
             Op(x, k) == RemoveFromSession(x, k, m, b, g)
  <1>1. d0 \in Dict(K, B) /\ ks \in Seq(K) /\ n \in Nat /\ ToSet(ks) = Keys(d0) /\ DOMAIN ks = 1 .. n
    BY StateFields, DictKeys
  <1>2. Loose(d0, u0, st, K, B, R, m, b, {}, g)
    <2>1. Grown(u0, u0, Keys(d0), m, b, g)
      BY DEF Grown
    <2>2. \A i \in DOMAIN d0 : Trimming(d0[i], d0[i], m, b, FALSE)
      BY DEF Trimming, Trimmed
    <2>3. \A i \in DOMAIN d0 : Trimming(d0[i], d0[i], m, b, d0[i].key \in {})
      BY <2>2 DEF Trimming
    <2> QED
      BY <2>1, <2>3 DEF Loose
  <1>3. \A W, x : Loose(d0, u0, x, K, B, R, m, b, W, g) => Loose(d0, u0, x, K, B, R, m, b, {}, g)
    BY DEF Loose, Trimming
  <1>4. \A i \in 1 .. n : ks[i] \in Keys(d0)
    BY <1>1 DEF ToSet
  <1> HIDE DEF ks, n, d0, u0
  <1>5. \A x \in U : \A i \in 1 .. Len(ks) : RemoveFromSession(x, ks[i], m, b, g) \in U
    <2> SUFFICES ASSUME NEW x \in U, NEW i \in 1 .. n PROVE RemoveFromSession(x, ks[i], m, b, g) \in U
      BY DEF n
    <2> DEFINE none == {}
               k == ks[i]
    <2>0. Loose(d0, u0, x, K, B, R, m, b, none, g) /\ x.mem = st.mem /\ k \in Keys(d0) /\ d0 \in Dict(K, B)
      BY <1>1, <1>4
    <2> HIDE DEF none, U, k
    <2>3. /\ Loose(d0, u0, RemoveFromSession(x, k, m, b, g), K, B, R, m, b, none \cup {k}, g)
          /\ RemoveFromSession(x, k, m, b, g).mem = x.mem
      BY <2>0, RemoveFromSessionKeeps
    <2>1. /\ Loose(d0, u0, Op(x, ks[i]), K, B, R, m, b, none \cup {ks[i]}, g)
          /\ Op(x, ks[i]).mem = st.mem
      BY <2>0, <2>3 DEF k
    <2>2. Op(x, ks[i]) \in State(Dict(K, B), R)
      BY <2>1 DEF Loose
    <2> HIDE DEF Op
    <2> QED
      BY <1>3, <2>1, <2>2 DEF Op, U
  <1>6. PICK a \in [0 .. n -> U] :
           /\ a[0] = st
           /\ \A i \in 1 .. n : a[i] = RemoveFromSession(a[i - 1], ks[i], m, b, g)
           /\ acc = a[n]
    <2>1. st \in U
      BY <1>2
    <2> HIDE DEF U
    <2>2. PICK a : RemoveRun(a, U, st, ks, m, b, g)
      BY <1>1, <1>5, <2>1, RemoveFromSessionsSteps
    <2> QED
      BY <2>2 DEF RemoveRun, n, ks, d0
  <1> DEFINE P == {i \in 0 .. n : Loose(d0, u0, a[i], K, B, R, m, b, V(i), g)}
  <1>7. 0 \in P
    <2>1. V(0) = {}
      OBVIOUS
    <2>2. Loose(d0, u0, a[0], K, B, R, m, b, V(0), g)
      BY <1>2, <1>6, <2>1 DEF d0, u0
    <2>3. 0 \in 0 .. n
      BY <1>1
    <2> HIDE DEF V
    <2> QED
      BY <2>2, <2>3
  <1>8. ASSUME NEW i \in 1 .. n, i - 1 \in P PROVE i \in P
    <2>1. Loose(d0, u0, a[i - 1], K, B, R, m, b, V(i - 1), g)
      BY <1>8
    <2>2. Loose(d0, u0, a[i], K, B, R, m, b, V(i - 1) \cup {ks[i]}, g)
      <3> HIDE DEF V
      <3> QED
        BY <1>1, <1>4, <1>6, <2>1, RemoveFromSessionKeeps
    <2>3. V(i) = V(i - 1) \cup {ks[i]}
      <3>1. 1 .. i = (1 .. (i - 1)) \cup {i}
        BY <1>1
      <3> QED
        BY <3>1
    <2>4. i \in 0 .. n
      BY <1>1
    <2> HIDE DEF V
    <2> QED
      BY <2>2, <2>3, <2>4
  <1>9. n \in P
    <2>1. \A i \in 1 .. n : i - 1 \in P => i \in P
      BY <1>8
    <2>2. n \in 0 .. n
      BY <1>1
    <2> HIDE DEF P
    <2> QED
      BY <1>1, <1>7, <2>1, <2>2, UpTo
  <1>10. V(n) = Keys(d0)
    BY <1>1 DEF ToSet
  <1>11. acc.mem = st.mem
    BY <1>1, <1>6
  <1> HIDE DEF V
  <1> QED
    BY <1>6, <1>9, <1>10, <1>11 DEF d0, u0

(* A dictionary over fewer keys and backends is one over more.             *)
LEMMA DictMonotone ==
    ASSUME NEW K, NEW B, NEW K2, NEW B2, K \subseteq K2, B \subseteq B2
    PROVE  Dict(K, B) \subseteq Dict(K2, B2) /\ SolidDict(K, B) \subseteq SolidDict(K2, B2)
  <1>1. Seq(B) \subseteq Seq(B2)
    BY SeqMonotonic
  <1>2. Plan(B) \subseteq Plan(B2)
    BY <1>1 DEF Plan
  <1>3. Seq(Plan(B)) \subseteq Seq(Plan(B2))
    BY <1>2, SeqMonotonic
  <1>4. Entry(K, B) \subseteq Entry(K2, B2)
    BY <1>3 DEF Entry
  <1>5. Seq(Entry(K, B)) \subseteq Seq(Entry(K2, B2))
    BY <1>4, SeqMonotonic
  <1>6. Dict(K, B) \subseteq Dict(K2, B2)
    BY <1>5 DEF Dict
  <1> QED
    BY <1>6 DEF SolidDict

(* An entry stays solid when its plans for a model are trimmed and         *)
(* cleaned.                                                                *)
LEMMA SolidTrimmed ==
    ASSUME NEW B, NEW e, NEW e2, e.objs \in Seq(Plan(B)), e2.objs \in Seq(Plan(B)), NEW m, NEW b,
           Solid(e.objs), Trimmed(e, e2, m, b), Cleaned(e2.objs, m, b)
    PROVE  Solid(e2.objs)
  <1> SUFFICES ASSUME NEW j \in DOMAIN e2.objs, IsFirst(e2.objs, j)
               PROVE  e2.objs[j].backs # <<>>
    BY DEF Solid
  <1>1. /\ DOMAIN e2.objs = DOMAIN e.objs
        /\ \A h \in DOMAIN e.objs : e2.objs[h].model = e.objs[h].model
        /\ e.objs[j].model # m => ToSet(e2.objs[j].backs) = ToSet(e.objs[j].backs)
    BY DEF Trimmed
  <1>2. CASE e2.objs[j].model = m
    BY <1>2 DEF Cleaned
  <1>3. CASE e2.objs[j].model # m
    <2>1. \A h \in 1 .. (j - 1) : h \in DOMAIN e2.objs
      OBVIOUS
    <2>2. IsFirst(e.objs, j)
      BY <1>1, <2>1 DEF IsFirst
    <2>3. e.objs[j].backs # <<>>
      BY <1>1, <2>2 DEF Solid
    <2>4. e.objs[j].backs \in Seq(B) /\ e2.objs[j].backs \in Seq(B)
      <3>1. e.objs[j] \in Plan(B) /\ e2.objs[j] \in Plan(B)
        BY <1>1
      <3> QED
        BY <3>1 DEF Plan
    <2> QED
      BY <1>1, <1>3, <2>3, <2>4, EmptySet
  <1> QED
    BY <1>2, <1>3

(* What the removal of model m from backend b does to a dictionary.        *)
Removed(d, d2, m, b) ==
    /\ \A e2 \in ToSet(d2) : \E e \in ToSet(d) : Trimmed(e, e2, m, b) /\ Cleaned(e2.objs, m, b)
    /\ \A e \in ToSet(d) : Emptied(e, m, b) \/ \E e2 \in ToSet(d2) : Trimmed(e, e2, m, b)

(* _remove_cmodel_from_backend leaves a solid dictionary, raises nothing   *)
(* but AttributeError, and takes the model from that backend only.         *)
LEMMA RemoveCmodelResult ==
    ASSUME NEW K \in SUBSET Key, NEW B \in SUBSET Backends, NEW R, Exceptions \subseteq R,
           NEW st \in State(SolidDict(K, B), R),
           NEW m \in Models, NEW b \in Backends, NEW g \in BOOLEAN,
           NEW res, res = RemoveCmodelFromBackend(st, m, b, g)
    PROVE  /\ res \in State(SolidDict(K, B), R)
           /\ Removed(st.plans, res.plans, m, b)
           /\ Grown(st.unsched, res.unsched, Keys(st.plans), m, b, g)
           /\ Keys(res.plans) \subseteq Keys(st.plans)
  <1> DEFINE d0 == st.plans
             acc == RemoveFromSessions(st, KeySeq(st.plans), m, b, g)
             d == acc.plans
             empty == {e.key : e \in {x \in ToSet(d) : x.objs = <<>>}}
             d2 == DropKeys(d, empty)
             found == \E k \in Keys(st.plans) : Serves(st.plans, k, m, b)
             mem2 == IF found THEN ReturnResource(acc.mem, m, b) ELSE acc.mem
  <1>1. d0 \in SolidDict(K, B) /\ d0 \in Dict(K, B) /\ st \in State(Dict(K, B), R)
    BY StateFields DEF State, SolidDict
  <1>2. Loose(d0, st.unsched, acc, K, B, R, m, b, Keys(d0), g) /\ acc.mem = st.mem
    <2> HIDE DEF acc
    <2> QED
      BY <1>1, RemoveFromSessionsKeeps DEF acc
  <1>3. res = [acc EXCEPT !.plans = d2, !.mem = mem2]
    BY DEF RemoveCmodelFromBackend
  <1>4. /\ acc \in State(Dict(K, B), R) /\ d \in Dict(K, B) /\ DOMAIN d = DOMAIN d0 /\ KeySeq(d) = KeySeq(d0)
        /\ \A i \in DOMAIN d0 : Trimming(d0[i], d[i], m, b, d0[i].key \in Keys(d0))
        /\ Grown(st.unsched, acc.unsched, Keys(d0), m, b, g)
    <2> HIDE DEF acc
    <2> QED
      BY <1>2, StateFields DEF Loose
  <1>5. mem2 \in [Backends -> Int]
    <2>1. acc.mem \in [Backends -> Int] /\ ModelMem[m] \in Int
      BY <1>4, StateFields, PolicyAssumption
    <2> HIDE DEF acc, found
    <2> QED
      BY <2>1 DEF ReturnResource
  <1> HIDE DEF acc, found, mem2, d, empty, d0
  <1>6. d2 \in Dict(K, B) /\ ToSet(d2) = {e \in ToSet(d) : e.key \notin empty} /\ Keys(d2) \subseteq Keys(d0)
    <2>1. /\ d2 \in Dict(K \ empty, B) /\ Keys(d2) = Keys(d) \ empty
          /\ ToSet(d2) = {e \in ToSet(d) : e.key \notin empty}
      <3>1. d \in Dict(K, B)
        BY <1>4
      <3> QED
        BY <3>1, DropKeysEntries
    <2>2. Keys(d) = Keys(d0)
      BY <1>1, <1>4, DictKeys
    <2>3. Dict(K \ empty, B) \subseteq Dict(K, B)
      BY DictMonotone
    <2> QED
      BY <2>1, <2>2, <2>3
  <1>7. \A e \in ToSet(d) : e.key \in empty <=> e.objs = <<>>
    <2> SUFFICES ASSUME NEW e \in ToSet(d) PROVE e.key \in empty <=> e.objs = <<>>
      OBVIOUS
    <2>1. PICK i \in DOMAIN d : e = d[i]
      BY DEF ToSet
    <2>2. \A x \in ToSet(d) : x.key = e.key => x = e
      BY <1>4, <2>1, DictKeys DEF ToSet
    <2> QED
      BY <2>2 DEF empty
  <1>8. \A i \in DOMAIN d0 : /\ d[i].objs # <<>> => Trimmed(d0[i], d[i], m, b) /\ Cleaned(d[i].objs, m, b)
                             /\ d[i].objs = <<>> => Emptied(d0[i], m, b)
    <2> SUFFICES ASSUME NEW i \in DOMAIN d0
                 PROVE  /\ d[i].objs # <<>> => Trimmed(d0[i], d[i], m, b) /\ Cleaned(d[i].objs, m, b)
                        /\ d[i].objs = <<>> => Emptied(d0[i], m, b)
      OBVIOUS
    <2>1. d0[i].key \in Keys(d0)
      BY DEF Keys
    <2>2. d0[i].objs # <<>> /\ d0[i].objs \in Seq(Plan(B))
      BY <1>1, DictEntries DEF SolidDict
    <2>3. Trimmed(d0[i], d[i], m, b) => d[i].objs # <<>>
      BY <2>2 DEF Trimmed
    <2> QED
      BY <1>4, <2>1, <2>3 DEF Trimming
  <1>9. Removed(d0, d2, m, b)
    <2>1. ASSUME NEW e2 \in ToSet(d2)
          PROVE  \E e \in ToSet(d0) : Trimmed(e, e2, m, b) /\ Cleaned(e2.objs, m, b)
      <3>1. e2 \in ToSet(d) /\ e2.objs # <<>>
        BY <1>6, <1>7
      <3>2. PICK i \in DOMAIN d0 : e2 = d[i]
        BY <1>4, <3>1 DEF ToSet
      <3>3. d0[i] \in ToSet(d0)
        BY DEF ToSet
      <3> QED
        BY <1>8, <3>1, <3>2, <3>3
    <2>2. ASSUME NEW e \in ToSet(d0)
          PROVE  Emptied(e, m, b) \/ \E e2 \in ToSet(d2) : Trimmed(e, e2, m, b)
      <3>1. PICK i \in DOMAIN d0 : e = d0[i]
        BY DEF ToSet
      <3>2. CASE d[i].objs = <<>>
        BY <1>8, <3>1, <3>2
      <3>3. CASE d[i].objs # <<>>
        <4>1. d[i] \in ToSet(d)
          BY <1>4 DEF ToSet
        <4>2. d[i] \in ToSet(d2)
          BY <1>6, <1>7, <3>3, <4>1
        <4> QED
          BY <1>8, <3>1, <3>3, <4>2
      <3> QED
        BY <3>2, <3>3
    <2> QED
      BY <2>1, <2>2 DEF Removed
  <1>10. d2 \in SolidDict(K, B)
    <2> SUFFICES ASSUME NEW i \in DOMAIN d2 PROVE d2[i].objs # <<>> /\ Solid(d2[i].objs)
      BY <1>6 DEF SolidDict
    <2>1. d2[i] \in ToSet(d2)
      BY DEF ToSet
    <2>2. PICK e \in ToSet(d0) : Trimmed(e, d2[i], m, b) /\ Cleaned(d2[i].objs, m, b)
      BY <1>9, <2>1 DEF Removed
    <2>3. PICK h \in DOMAIN d0 : e = d0[h]
      BY DEF ToSet
    <2>4. e.objs \in Seq(Plan(B)) /\ Solid(e.objs)
      BY <1>1, <2>3, DictEntries DEF SolidDict
    <2>5. d2[i].objs \in Seq(Plan(B))
      BY <1>6, DictEntries
    <2>6. Solid(d2[i].objs)
      BY <2>2, <2>4, <2>5, SolidTrimmed
    <2> QED
      BY <1>6, <1>7, <2>1, <2>6
  <1> HIDE DEF d2
  <1>11. /\ res \in State(SolidDict(K, B), R) /\ res.plans = d2 /\ res.unsched = acc.unsched
    <2>1. /\ acc = [plans |-> acc.plans, unsched |-> acc.unsched, mem |-> acc.mem, raised |-> acc.raised]
          /\ acc.unsched \in Unsched /\ acc.raised \in SUBSET R
      BY <1>4, StateFields
    <2>2. res = [plans |-> d2, unsched |-> acc.unsched, mem |-> mem2, raised |-> acc.raised]
      BY <1>3, <2>1
    <2> QED
      BY <1>5, <1>10, <2>1, <2>2 DEF State
  <1> QED
    BY <1>4, <1>6, <1>9, <1>11 DEF d0

(* The removal of several models and backends leaves a solid dictionary.   *)
LEMMA RemoveEachKeeps ==
    ASSUME NEW K \in SUBSET Key, NEW B \in SUBSET Backends, NEW R, Exceptions \subseteq R,
           NEW st \in State(SolidDict(K, B), R),
           NEW xs \in Seq(Models \X Backends), NEW g \in BOOLEAN
    PROVE  /\ RemoveEach(st, xs, g) \in State(SolidDict(K, B), R)
           /\ Keys(RemoveEach(st, xs, g).plans) \subseteq Keys(st.plans)
  <1> DEFINE U == {x \in State(SolidDict(K, B), R) : Keys(x.plans) \subseteq Keys(st.plans)}
  <1>1. ASSUME NEW x \in U, NEW i \in 1 .. Len(xs)
        PROVE  RemoveCmodelFromBackend(x, xs[i][1], xs[i][2], g) \in U
    <2>1. xs[i] \in Models \X Backends /\ x \in State(SolidDict(K, B), R) /\ Keys(x.plans) \subseteq Keys(st.plans)
      OBVIOUS
    <2>2. xs[i][1] \in Models /\ xs[i][2] \in Backends
      BY <2>1
    <2> DEFINE m == xs[i][1]
               b == xs[i][2]
               y == RemoveCmodelFromBackend(x, m, b, g)
    <2> HIDE DEF y, U, m, b
    <2>4. m \in Models /\ b \in Backends
      BY <2>2 DEF m, b
    <2>3. y \in State(SolidDict(K, B), R) /\ Keys(y.plans) \subseteq Keys(x.plans)
      BY <2>1, <2>4, RemoveCmodelResult DEF y
    <2> QED
      BY <2>1, <2>3 DEF U, y, m, b
  <1>2. st \in U
    OBVIOUS
  <1> DEFINE T == Models \X Backends
  <1>0. xs \in Seq(T) /\ \A u \in U : \A i \in 1 .. Len(xs) : RemoveCmodelFromBackend(u, xs[i][1], xs[i][2], g) \in U
    BY <1>1
  <1> HIDE DEF U, T
  <1>4. RemoveEach(st, xs, g) \in U
    BY <1>0, <1>2, RemoveEachIn
  <1> QED
    BY <1>4 DEF U

(* The same entry, up to the order of the backends.                        *)
SameEntry(e, e2) ==
    /\ e2.key = e.key /\ DOMAIN e2.objs = DOMAIN e.objs
    /\ \A j \in DOMAIN e.objs :
          /\ e2.objs[j].id = e.objs[j].id /\ e2.objs[j].model = e.objs[j].model
          /\ e2.objs[j].owner = e.objs[j].owner
          /\ ToSet(e2.objs[j].backs) = ToSet(e.objs[j].backs)

(* A backend that an entry does not use can be removed without changing it.*)
LEMMA NotRemoved ==
    ASSUME NEW K, NEW B, NEW d \in SolidDict(K, B), NEW d2, NEW m, NEW b, Removed(d, d2, m, b),
           NEW e \in ToSet(d), \A j \in DOMAIN e.objs : b \notin ToSet(e.objs[j].backs)
    PROVE  \E e2 \in ToSet(d2) : SameEntry(e, e2)
  <1>1. PICK i \in DOMAIN d : e = d[i]
    BY DEF ToSet
  <1>2. d \in Dict(K, B) /\ e.objs \in Seq(Plan(B)) /\ Solid(e.objs)
    BY <1>1, DictEntries DEF SolidDict
  <1>3. ~ Emptied(e, m, b)
    <2> SUFFICES ASSUME NEW j \in DOMAIN e.objs, IsFirst(e.objs, j), ToSet(e.objs[j].backs) \subseteq {b}
                 PROVE  FALSE
      BY DEF Emptied
    <2>1. ToSet(e.objs[j].backs) = {}
      OBVIOUS
    <2>2. e.objs[j].backs \in Seq(B)
      <3>1. e.objs[j] \in Plan(B)
        BY <1>2
      <3> QED
        BY <3>1 DEF Plan
    <2>3. e.objs[j].backs = <<>>
      BY <2>1, <2>2, EmptySet
    <2> QED
      BY <1>2, <2>3 DEF Solid
  <1>4. PICK e2 \in ToSet(d2) : Trimmed(e, e2, m, b)
    BY <1>3 DEF Removed
  <1>5. SameEntry(e, e2)
    <2>1. \A j \in DOMAIN e.objs : ToSet(e.objs[j].backs) \ {b} = ToSet(e.objs[j].backs)
      OBVIOUS
    <2> QED
      BY <1>4, <2>1 DEF Trimmed, SameEntry
  <1> QED
    BY <1>5

(* SameEntry is transitive.                                                *)
LEMMA SameTrans ==
    ASSUME NEW e, NEW e2, NEW e3, SameEntry(e, e2), SameEntry(e2, e3)
    PROVE  SameEntry(e, e3)
  BY DEF SameEntry

(* The entries of d whose keys are not in V are entries of d2.             *)
Kept(d, d2, V) == \A e \in ToSet(d) : e.key \notin V => \E e2 \in ToSet(d2) : SameEntry(e, e2)

(* No session but k uses the backends of the pairs xs.                     *)
Free(xs, d, k) ==
    \A i \in DOMAIN xs : \A e \in ToSet(d) : e.key # k =>
        \A j \in DOMAIN e.objs : xs[i][2] \notin ToSet(e.objs[j].backs)

(* The removal of backends only session k uses leaves the others as they   *)
(* are.                                                                    *)
LEMMA RemoveFreed ==
    ASSUME NEW K \in SUBSET Key, NEW B \in SUBSET Backends, NEW R, Exceptions \subseteq R,
           NEW st \in State(SolidDict(K, B), R), NEW k,
           NEW xs \in Seq(Models \X Backends), Free(xs, st.plans, k),
           NEW res, res = RemoveEach(st, xs, FALSE)
    PROVE  /\ res \in State(SolidDict(K, B), R) /\ Keys(res.plans) \subseteq Keys(st.plans)
           /\ res.unsched = st.unsched
           /\ Kept(st.plans, res.plans, {k})
  <1> DEFINE KeptIn(x) == Kept(st.plans, x.plans, {k})
             U == {x \in State(SolidDict(K, B), R) :
                      Keys(x.plans) \subseteq Keys(st.plans) /\ x.unsched = st.unsched /\ KeptIn(x)}
  <1>1. ASSUME NEW x \in U, NEW i \in 1 .. Len(xs)
        PROVE  RemoveCmodelFromBackend(x, xs[i][1], xs[i][2], FALSE) \in U
    <2>1. /\ xs[i] \in Models \X Backends /\ i \in DOMAIN xs /\ x \in State(SolidDict(K, B), R)
          /\ Keys(x.plans) \subseteq Keys(st.plans) /\ x.unsched = st.unsched /\ KeptIn(x)
      OBVIOUS
    <2> DEFINE m == xs[i][1]
               b == xs[i][2]
               y == RemoveCmodelFromBackend(x, m, b, FALSE)
    <2>2. m \in Models /\ b \in Backends
      BY <2>1
    <2>3. \A e \in ToSet(st.plans) : e.key # k => \A j \in DOMAIN e.objs : b \notin ToSet(e.objs[j].backs)
      BY <2>1 DEF Free
    <2> HIDE DEF y, U, m, b
    <2>4. /\ y \in State(SolidDict(K, B), R) /\ Keys(y.plans) \subseteq Keys(x.plans)
          /\ Removed(x.plans, y.plans, m, b) /\ Grown(x.unsched, y.unsched, Keys(x.plans), m, b, FALSE)
      BY <2>1, <2>2, RemoveCmodelResult DEF y
    <2>5. y.unsched = x.unsched
      <3>1. x.unsched \in Unsched /\ y.unsched \in Unsched
        BY <2>1, <2>4, StateFields
      <3>2. /\ x.unsched = [q \in DOMAIN x.unsched |-> x.unsched[q]]
            /\ y.unsched = [q \in DOMAIN y.unsched |-> y.unsched[q]]
        BY <3>1 DEF Unsched
      <3>3. DOMAIN x.unsched = DOMAIN y.unsched /\ \A q \in DOMAIN x.unsched : y.unsched[q] = x.unsched[q]
        BY <2>4 DEF Grown
      <3> QED
        BY <3>2, <3>3
    <2>6. KeptIn(y)
      <3> SUFFICES ASSUME NEW e \in ToSet(st.plans), e.key # k
                   PROVE  \E e2 \in ToSet(y.plans) : SameEntry(e, e2)
        BY DEF Kept
      <3>1. PICK e2 \in ToSet(x.plans) : SameEntry(e, e2)
        BY <2>1 DEF Kept
      <3>2. \A j \in DOMAIN e2.objs : b \notin ToSet(e2.objs[j].backs)
        BY <2>3, <3>1 DEF SameEntry
      <3>3. x.plans \in SolidDict(K, B)
        BY <2>1, StateFields
      <3>4. PICK e3 \in ToSet(y.plans) : SameEntry(e2, e3)
        BY <2>4, <3>2, <3>3, NotRemoved
      <3> QED
        BY <3>1, <3>4, SameTrans
    <2> QED
      BY <2>1, <2>4, <2>5, <2>6 DEF U, y, m, b
  <1>2. st \in U
    BY DEF SameEntry, Kept
  <1> DEFINE T == Models \X Backends
  <1>0. xs \in Seq(T) /\ \A u \in U : \A i \in 1 .. Len(xs) : RemoveCmodelFromBackend(u, xs[i][1], xs[i][2], FALSE) \in U
    BY <1>1
  <1> HIDE DEF U, T
  <1>4. RemoveEach(st, xs, FALSE) \in U
    BY <1>0, <1>2, RemoveEachIn
  <1> QED
    BY <1>4 DEF U

(* The models and backends _remove_session collects are those of the       *)
(* session's plans.                                                        *)
LEMMA PairsOfObjs ==
    ASSUME NEW B, NEW objs \in Seq(Plan(B))
    PROVE  /\ PairsOf(objs) \in Seq(Models \X B)
           /\ \A x \in ToSet(PairsOf(objs)) :
                 \E j \in DOMAIN objs : x[1] = objs[j].model /\ x[2] \in ToSet(objs[j].backs) /\ x = <<x[1], x[2]>>
           /\ \A j \in DOMAIN objs : \A b \in ToSet(objs[j].backs) : <<objs[j].model, b>> \in ToSet(PairsOf(objs))
  <1> DEFINE Row(j) == [i \in DOMAIN objs[j].backs |-> <<objs[j].model, objs[j].backs[i]>>]
             ss == [j \in DOMAIN objs |-> Row(j)]
  <1>1. PairsOf(objs) = Concat(ss)
    BY DEF PairsOf
  <1>2. ASSUME NEW j \in DOMAIN objs
        PROVE  /\ Row(j) \in Seq(Models \X B) /\ DOMAIN Row(j) = DOMAIN objs[j].backs
               /\ \A i \in DOMAIN objs[j].backs : Row(j)[i] = <<objs[j].model, objs[j].backs[i]>>
    <2>1. objs[j] \in Plan(B)
      OBVIOUS
    <2>2. objs[j].model \in Models /\ objs[j].backs \in Seq(B)
      BY <2>1 DEF Plan
    <2>3. DOMAIN objs[j].backs = 1 .. Len(objs[j].backs) /\ Len(objs[j].backs) \in Nat
      BY <2>2
    <2>4. \A i \in 1 .. Len(objs[j].backs) : <<objs[j].model, objs[j].backs[i]>> \in Models \X B
      BY <2>2
    <2>5. Row(j) \in Seq(Models \X B)
      BY <2>3, <2>4
    <2> QED
      BY <2>5
  <1> HIDE DEF Row
  <1>3. ss \in Seq(Seq(Models \X B)) /\ DOMAIN ss = DOMAIN objs /\ \A j \in DOMAIN objs : ss[j] = Row(j)
    BY <1>2
  <1> HIDE DEF ss
  <1>4. Concat(ss) \in Seq(Models \X B) /\ ToSet(Concat(ss)) = UNION {ToSet(ss[j]) : j \in DOMAIN ss}
    BY <1>3, ConcatElements
  <1>5. ASSUME NEW x \in ToSet(PairsOf(objs))
        PROVE  \E j \in DOMAIN objs : x[1] = objs[j].model /\ x[2] \in ToSet(objs[j].backs) /\ x = <<x[1], x[2]>>
    <2>1. PICK j \in DOMAIN objs : x \in ToSet(Row(j))
      BY <1>1, <1>3, <1>4
    <2>2. PICK i \in DOMAIN objs[j].backs : x = <<objs[j].model, objs[j].backs[i]>>
      BY <1>2, <2>1 DEF ToSet
    <2> QED
      BY <2>2 DEF ToSet
  <1>6. ASSUME NEW j \in DOMAIN objs, NEW b \in ToSet(objs[j].backs)
        PROVE  <<objs[j].model, b>> \in ToSet(PairsOf(objs))
    <2>1. PICK i \in DOMAIN objs[j].backs : b = objs[j].backs[i]
      BY DEF ToSet
    <2>2. <<objs[j].model, b>> \in ToSet(Row(j))
      BY <1>2, <2>1 DEF ToSet
    <2> QED
      BY <1>1, <1>3, <1>4, <2>2
  <1> QED
    BY <1>1, <1>4, <1>5, <1>6

(* Raise changes nothing but the exceptions.                               *)
LEMMA RaiseState ==
    ASSUME NEW D, NEW R, NEW st \in State(D, R), NEW exception, NEW when \in BOOLEAN,
           when => exception \in R
    PROVE  /\ Raise(st, exception, when) \in State(D, R)
           /\ Raise(st, exception, when).plans = st.plans /\ Raise(st, exception, when).mem = st.mem
           /\ Raise(st, exception, when).unsched = st.unsched
           /\ ~ when => Raise(st, exception, when) = st
  BY DEF Raise, State

(* A state over fewer keys, backends and exceptions is one over more.      *)
LEMMA StateMonotone ==
    ASSUME NEW K, NEW B, NEW K2, NEW B2, K \subseteq K2, B \subseteq B2, NEW R, NEW R2, R \subseteq R2
    PROVE  State(SolidDict(K, B), R) \subseteq State(SolidDict(K2, B2), R2)
  <1>1. SolidDict(K, B) \subseteq SolidDict(K2, B2)
    BY DictMonotone
  <1> QED
    BY <1>1 DEF State

(* Dropping keys leaves a solid dictionary.                                *)
LEMMA DropSolid ==
    ASSUME NEW K, NEW B, NEW d \in SolidDict(K, B), NEW ks
    PROVE  /\ DropKeys(d, ks) \in SolidDict(K \ ks, B)
           /\ ToSet(DropKeys(d, ks)) = {e \in ToSet(d) : e.key \notin ks}
           /\ Keys(DropKeys(d, ks)) = Keys(d) \ ks
  <1> DEFINE d2 == DropKeys(d, ks)
  <1>1. d \in Dict(K, B) /\ \A i \in DOMAIN d : d[i].objs # <<>> /\ Solid(d[i].objs)
    BY DEF SolidDict
  <1>2. /\ d2 \in Dict(K \ ks, B) /\ ToSet(d2) = {e \in ToSet(d) : e.key \notin ks}
        /\ Keys(d2) = Keys(d) \ ks
    BY <1>1, DropKeysEntries
  <1> HIDE DEF d2
  <1>3. \A e \in ToSet(d) : e.objs # <<>> /\ Solid(e.objs)
    BY <1>1 DEF ToSet
  <1>4. \A i \in DOMAIN d2 : d2[i] \in ToSet(d2)
    BY DEF ToSet
  <1>5. \A i \in DOMAIN d2 : d2[i].objs # <<>> /\ Solid(d2[i].objs)
    BY <1>2, <1>3, <1>4
  <1> QED
    BY <1>2, <1>5 DEF SolidDict, d2

(* A key is in a dictionary when an entry has it.                          *)
LEMMA KeysOfEntries ==
    ASSUME NEW d
    PROVE  \A k : k \in Keys(d) <=> \E e \in ToSet(d) : e.key = k
  BY DEF Keys, ToSet

(* Session k is gone, the others are as they were, and k is unscheduled    *)
(* from all its backends.                                                  *)
SessionGone(d, u, d2, u2, k) ==
    /\ Keys(d2) = Keys(d) \ {k} /\ Kept(d, d2, {k})
    /\ DOMAIN u2 = DOMAIN u \cup {k}
    /\ \A x \in DOMAIN u : x # k => u2[x] = u[x]
    /\ ToSet(PairsOf(ObjsOf(d, k))) \subseteq u2[k]

(* What _remove_session looks up is there.                                 *)
Present(k, d, B, known, cur) == k \in Keys(d) /\ B \subseteq cur /\ ToSet(ModelsOf(k)) \subseteq known

(* _remove_session takes its session, unschedules it from every backend,   *)
(* and leaves the others as they are.                                      *)
LEMMA RemoveSessionResult ==
    ASSUME NEW K \in SUBSET Key, NEW B \in SUBSET Backends, NEW R, Exceptions \subseteq R,
           NEW st \in State(SolidDict(K, B), R), NEW k \in Key, NEW known, NEW cur,
           "KeyError" \in R \/ Present(k, st.plans, B, known, cur),
           NEW res, res = RemoveSession(st, k, known, cur), NEW K2, K2 = K \ {k}
    PROVE  /\ res \in State(SolidDict(K2, B), R)
           /\ SessionGone(st.plans, st.unsched, res.plans, res.unsched, k)
  <1> DEFINE d == st.plans
             u == st.unsched
             objs == ObjsOf(d, k)
             pairs == PairsOf(objs)
             Shared(b) == \E e \in ToSet(d) : e.key # k /\ \E o \in ToSet(e.objs) : b \in ToSet(o.backs)
             I == {i \in DOMAIN pairs : ~ Shared(pairs[i][2])}
             freed == At(pairs, I)
             old == IF k \in DOMAIN u THEN u[k] ELSE {}
             S == old \cup ToSet(pairs)
             u2 == Put(u, k, S)
             when == k \notin Keys(d) \/ ~ (ToSet(freed) \subseteq known \X cur)
             st1 == [st EXCEPT !.unsched = u2]
             st2 == Raise(st1, "KeyError", when)
             st3 == RemoveEach(st2, freed, FALSE)
  <1>1. /\ d \in SolidDict(K, B) /\ d \in Dict(K, B) /\ u \in Unsched /\ st.mem \in [Backends -> Int]
        /\ st.raised \in SUBSET R
        /\ st = [plans |-> d, unsched |-> u, mem |-> st.mem, raised |-> st.raised]
    BY StateFields DEF SolidDict
  <1>2. res = [st3 EXCEPT !.plans = DropKeys(st3.plans, {k})]
    BY DEF RemoveSession
  <1>3. objs \in Seq(Plan(B)) /\ \A j \in DOMAIN objs : objs[j].model \in ToSet(ModelsOf(k))
    BY <1>1, DictObjs DEF ToSet
  <1> HIDE DEF objs
  <1>4. /\ pairs \in Seq(Models \X B) /\ DOMAIN pairs = 1 .. Len(pairs)
        /\ \A x \in ToSet(pairs) :
              \E j \in DOMAIN objs : x[1] = objs[j].model /\ x[2] \in ToSet(objs[j].backs) /\ x = <<x[1], x[2]>>
    <2>1. /\ PairsOf(objs) \in Seq(Models \X B)
          /\ \A x \in ToSet(PairsOf(objs)) :
              \E j \in DOMAIN objs : x[1] = objs[j].model /\ x[2] \in ToSet(objs[j].backs) /\ x = <<x[1], x[2]>>
      BY <1>3, PairsOfObjs
    <2> HIDE DEF pairs
    <2>2. pairs = PairsOf(objs)
      BY DEF pairs
    <2>3. DOMAIN pairs = 1 .. Len(pairs)
      BY <2>1, <2>2
    <2> QED
      BY <2>1, <2>2, <2>3
  <1> HIDE DEF pairs
  <1>5. freed \in Seq(Models \X B) /\ ToSet(freed) = {pairs[i] : i \in I}
    <2>1. I \in SUBSET DOMAIN pairs
      OBVIOUS
    <2> HIDE DEF I
    <2> QED
      BY <1>4, <2>1, AtElements
  <1>6. ToSet(pairs) \subseteq Models \X B
    <2> DEFINE T == Models \X B
    <2> HIDE DEF T
    <2>1. pairs \in Seq(T)
      BY <1>4 DEF T
    <2>2. ToSet(pairs) \subseteq T
      BY <2>1 DEF ToSet
    <2> QED
      BY <2>2 DEF T
  <1>7. ASSUME k \in Keys(d), B \subseteq cur, ToSet(ModelsOf(k)) \subseteq known
        PROVE  ToSet(freed) \subseteq known \X cur
    <2> SUFFICES ASSUME NEW i \in I PROVE pairs[i] \in known \X cur
      BY <1>5
    <2>1. pairs[i] \in ToSet(pairs)
      BY DEF ToSet
    <2>2. pairs[i] \in Models \X B
      BY <1>6, <2>1
    <2>3. PICK j \in DOMAIN objs : pairs[i][1] = objs[j].model
      BY <1>4, <2>1
    <2>4. pairs[i][1] \in known /\ pairs[i][2] \in cur
      BY <1>3, <1>7, <2>2, <2>3
    <2> QED
      BY <2>2, <2>4
  <1>8. when \in BOOLEAN /\ (when => "KeyError" \in R)
    BY <1>7 DEF Present
  <1>9. S \in SUBSET (Models \X Backends) /\ \A x \in S : x[1] \in ToSet(ModelsOf(k))
    <2>1. ToSet(pairs) \in SUBSET (Models \X Backends)
      BY <1>6
    <2>3. \A x \in ToSet(pairs) : x[1] \in ToSet(ModelsOf(k))
      BY <1>3, <1>4
    <2>2. k \in DOMAIN u => u[k] \in SUBSET (Models \X Backends) /\ \A x \in u[k] : x[1] \in ToSet(ModelsOf(k))
      <3> DEFINE S0 == {}
      <3>1. S0 \in SUBSET (Models \X Backends) /\ \A x \in S0 : x[1] \in ToSet(ModelsOf(k))
        OBVIOUS
      <3> HIDE DEF S0
      <3> HIDE DEF u
      <3> QED
        BY <1>1, <3>1, UnschedPut
    <2> HIDE DEF u
    <2> QED
      BY <2>1, <2>2, <2>3
  <1> HIDE DEF S, u, d, when
  <1>10. /\ u2 \in Unsched /\ DOMAIN u2 = DOMAIN u \cup {k} /\ u2[k] = S
         /\ \A x \in DOMAIN u : x # k => u2[x] = u[x]
    BY <1>1, <1>9, UnschedPut
  <1> HIDE DEF u2
  <1>11. st2 \in State(SolidDict(K, B), R) /\ st2.plans = d /\ st2.unsched = u2
    <2>1. st1 \in State(SolidDict(K, B), R) /\ st1.plans = d /\ st1.unsched = u2
      BY <1>10 DEF State, d
    <2> HIDE DEF st1
    <2> QED
      BY <1>8, <2>1, RaiseState
  <1>12. freed \in Seq(Models \X Backends)
    <2>1. Models \X B \subseteq Models \X Backends
      OBVIOUS
    <2> DEFINE T == Models \X B
               T2 == Models \X Backends
    <2> HIDE DEF T, T2
    <2>2. freed \in Seq(T) /\ T \subseteq T2
      BY <1>5, <2>1 DEF T, T2
    <2>3. freed \in Seq(T2)
      BY <2>2, SeqMonotonic
    <2> QED
      BY <2>3 DEF T2
  <1>13. Free(freed, d, k)
    <2> SUFFICES ASSUME NEW i \in DOMAIN freed, NEW e \in ToSet(d), e.key # k, NEW j \in DOMAIN e.objs
                 PROVE  freed[i][2] \notin ToSet(e.objs[j].backs)
      <3> HIDE DEF freed
      <3> QED
        BY DEF Free
    <2>1. freed[i] \in ToSet(freed)
      BY DEF ToSet
    <2> HIDE DEF freed
    <2>2. PICK h \in I : freed[i] = pairs[h]
      BY <1>5, <2>1
    <2>3. ~ Shared(freed[i][2])
      BY <2>2
    <2>4. e.objs[j] \in ToSet(e.objs)
      BY DEF ToSet
    <2> QED
      BY <2>3, <2>4
  <1> HIDE DEF freed, st2
  <1>14. /\ st3 \in State(SolidDict(K, B), R) /\ Keys(st3.plans) \subseteq Keys(d) /\ st3.unsched = u2
         /\ Kept(d, st3.plans, {k})
    <2> HIDE DEF st3
    <2>1. /\ st3 \in State(SolidDict(K, B), R) /\ Keys(st3.plans) \subseteq Keys(st2.plans)
          /\ st3.unsched = st2.unsched /\ Kept(st2.plans, st3.plans, {k})
      BY <1>11, <1>12, <1>13, RemoveFreed DEF st3
    <2> QED
      BY <1>11, <2>1
  <1> HIDE DEF st3
  <1> DEFINE d3 == DropKeys(st3.plans, {k})
  <1>15. /\ d3 \in SolidDict(K \ {k}, B) /\ ToSet(d3) = {e \in ToSet(st3.plans) : e.key \notin {k}}
         /\ Keys(d3) = Keys(st3.plans) \ {k}
    <2>1. st3.plans \in SolidDict(K, B)
      BY <1>14, StateFields
    <2> DEFINE V == {k}
    <2> HIDE DEF V
    <2>2. /\ DropKeys(st3.plans, V) \in SolidDict(K \ V, B)
          /\ ToSet(DropKeys(st3.plans, V)) = {e \in ToSet(st3.plans) : e.key \notin V}
          /\ Keys(DropKeys(st3.plans, V)) = Keys(st3.plans) \ V
      BY <2>1, DropSolid
    <2> QED
      BY <2>2 DEF V
  <1> HIDE DEF d3
  <1>16. Kept(d, d3, {k})
    <2> SUFFICES ASSUME NEW e \in ToSet(d), e.key \notin {k} PROVE \E e2 \in ToSet(d3) : SameEntry(e, e2)
      BY DEF Kept
    <2>1. PICK e2 \in ToSet(st3.plans) : SameEntry(e, e2)
      BY <1>14 DEF Kept
    <2>2. e2.key = e.key
      BY <2>1 DEF SameEntry
    <2> QED
      BY <1>15, <2>1, <2>2
  <1>17. Keys(d3) = Keys(d) \ {k}
    <2>1. \A e \in ToSet(d) : e.key # k => e.key \in Keys(d3)
      BY <1>16, KeysOfEntries DEF Kept, SameEntry
    <2> QED
      BY <1>14, <1>15, <2>1, KeysOfEntries
  <1>18. /\ res \in State(SolidDict(K \ {k}, B), R) /\ res.plans = d3 /\ res.unsched = u2
    <2>1. res = [st3 EXCEPT !.plans = d3]
      BY <1>2 DEF d3
    <2> QED
      BY <1>14, <1>15, <2>1 DEF State
  <1> QED
    BY <1>10, <1>16, <1>17, <1>18 DEF SessionGone, S, d, u, pairs, objs

(* The sessions in V are unscheduled from all their backends, and no other *)
(* session is unscheduled from any.                                        *)
Unplanned(d, u, u2, V) ==
    /\ DOMAIN u2 = DOMAIN u \cup V
    /\ \A k \in DOMAIN u \ V : u2[k] = u[k]
    /\ \A e \in ToSet(d) : e.key \in V =>
          \A j \in DOMAIN e.objs : \A b \in ToSet(e.objs[j].backs) : <<e.objs[j].model, b>> \in u2[e.key]

(* What the removal of the sessions in w makes of d and u.                 *)
Pruned(x, d, u, w, K, B, R) ==
    /\ x \in State(SolidDict(K \ w, B), R) /\ Keys(x.plans) = Keys(d) \ w
    /\ Kept(d, x.plans, w) /\ Unplanned(d, u, x.unsched, w)

(* The same after several calls of _remove_session.                        *)
LEMMA RemoveOneMore ==
    ASSUME NEW K \in SUBSET Key, NEW B \in SUBSET Backends, NEW R, Exceptions \subseteq R,
           NEW d \in SolidDict(K, B), NEW u, NEW V, NEW k \in Keys(d), k \notin V, NEW known, NEW cur,
           B \subseteq cur, ToSet(ModelsOf(k)) \subseteq known,
           NEW x, Pruned(x, d, u, V, K, B, R), NEW y, y = RemoveSession(x, k, known, cur),
           NEW V2, V2 = V \cup {k}
    PROVE  Pruned(y, d, u, V2, K, B, R)
  <1>0. /\ x \in State(SolidDict(K \ V, B), R) /\ Keys(x.plans) = Keys(d) \ V
        /\ Kept(d, x.plans, V) /\ Unplanned(d, u, x.unsched, V)
    BY DEF Pruned
  <1>1. /\ k \in Keys(x.plans) /\ k \in Key /\ K \ V \in SUBSET Key /\ d \in Dict(K, B)
        /\ (K \ V) \ {k} = K \ (V \cup {k})
    BY <1>0, DictKeys DEF SolidDict
  <1>2. /\ y \in State(SolidDict(K \ (V \cup {k}), B), R)
        /\ Keys(y.plans) = Keys(x.plans) \ {k} /\ Kept(x.plans, y.plans, {k})
        /\ DOMAIN y.unsched = DOMAIN x.unsched \cup {k}
        /\ \A q \in DOMAIN x.unsched : q # k => y.unsched[q] = x.unsched[q]
        /\ ToSet(PairsOf(ObjsOf(x.plans, k))) \subseteq y.unsched[k]
    <2> DEFINE K1 == K \ V
               K2 == K \ (V \cup {k})
    <2>1. K1 \in SUBSET Key /\ x \in State(SolidDict(K1, B), R) /\ K2 = K1 \ {k}
      BY <1>0, <1>1
    <2>3. Present(k, x.plans, B, known, cur)
      BY <1>1 DEF Present
    <2>4. k \in Key
      BY <1>1
    <2> HIDE DEF K1, K2
    <2>2. /\ y \in State(SolidDict(K2, B), R)
          /\ SessionGone(x.plans, x.unsched, y.plans, y.unsched, k)
      BY <2>1, <2>3, <2>4, RemoveSessionResult
    <2> QED
      BY <2>2 DEF K2, SessionGone
  <1>3. Kept(d, y.plans, V \cup {k})
    <2> SUFFICES ASSUME NEW e \in ToSet(d), e.key \notin V \cup {k}
                 PROVE  \E e3 \in ToSet(y.plans) : SameEntry(e, e3)
      BY DEF Kept
    <2>1. PICK e2 \in ToSet(x.plans) : SameEntry(e, e2)
      BY <1>0 DEF Kept
    <2>2. e2.key \notin {k}
      BY <2>1 DEF SameEntry
    <2>3. PICK e3 \in ToSet(y.plans) : SameEntry(e2, e3)
      BY <1>2, <2>2 DEF Kept
    <2> QED
      BY <2>1, <2>3, SameTrans
  <1>4. ASSUME NEW e \in ToSet(d), e.key \in V \cup {k},
               NEW j \in DOMAIN e.objs, NEW b \in ToSet(e.objs[j].backs)
        PROVE  <<e.objs[j].model, b>> \in y.unsched[e.key]
    <2>1. CASE e.key \in V
      <3>1. e.key # k /\ e.key \in DOMAIN x.unsched /\ <<e.objs[j].model, b>> \in x.unsched[e.key]
        BY <1>0, <2>1 DEF Unplanned
      <3> QED
        BY <1>2, <3>1
    <2>2. CASE e.key = k
      <3>1. PICK e2 \in ToSet(x.plans) : SameEntry(e, e2)
        BY <1>0, <2>2 DEF Kept
      <3>2. PICK i \in DOMAIN x.plans : e2 = x.plans[i]
        BY DEF ToSet
      <3>3. x.plans \in Dict(K \ V, B)
        <4> DEFINE D == SolidDict(K \ V, B)
        <4>1. x \in State(D, R)
          BY <1>0
        <4> HIDE DEF D
        <4>2. x.plans \in D
          BY <4>1, StateFields
        <4> QED
          BY <4>2 DEF D, SolidDict
      <3>4. x.plans[i].key = k
        BY <2>2, <3>1, <3>2 DEF SameEntry
      <3>5. ObjsOf(x.plans, k) = e2.objs /\ e2.objs \in Seq(Plan(B))
        BY <3>2, <3>3, <3>4, DictKeys, DictEntries
      <3>6. j \in DOMAIN e2.objs /\ e2.objs[j].model = e.objs[j].model /\ b \in ToSet(e2.objs[j].backs)
        BY <3>1 DEF SameEntry
      <3>7. <<e2.objs[j].model, b>> \in ToSet(PairsOf(e2.objs))
        BY <3>5, <3>6, PairsOfObjs
      <3> QED
        BY <1>2, <2>2, <3>5, <3>6, <3>7
    <2> QED
      BY <1>4, <2>1, <2>2
  <1>5. Unplanned(d, u, y.unsched, V \cup {k})
    <2>1. DOMAIN y.unsched = DOMAIN u \cup (V \cup {k})
      BY <1>0, <1>2 DEF Unplanned
    <2>2. \A q \in DOMAIN u \ (V \cup {k}) : y.unsched[q] = u[q]
      BY <1>0, <1>2 DEF Unplanned
    <2> QED
      BY <1>4, <2>1, <2>2 DEF Unplanned
  <1>6. Keys(y.plans) = Keys(d) \ (V \cup {k})
    BY <1>0, <1>2
  <1> QED
    BY <1>2, <1>3, <1>5, <1>6 DEF Pruned

(* _remove_unused_sessions takes exactly the sessions that are not         *)
(* requested, and unschedules them from every backend.                     *)
LEMMA RemoveUnusedResult ==
    ASSUME NEW K \in SUBSET Key, NEW B \in SUBSET Backends, NEW R, Exceptions \subseteq R,
           NEW st \in State(SolidDict(K, B), R), NEW reqs, NEW known, NEW cur, B \subseteq cur,
           \A k \in Keys(st.plans) : ToSet(ModelsOf(k)) \subseteq known,
           NEW res, res = RemoveUnusedSessions(st, reqs, known, cur),
           NEW V, V = Keys(st.plans) \ Keys(reqs)
    PROVE  Pruned(res, st.plans, st.unsched, V, K, B, R)
  <1> DEFINE d == st.plans
             u == st.unsched
             ks == UnusedSessions(d, reqs)
             n == Len(ks)
             R2 == R \cup {"KeyError"}
             U == State(SolidDict(K, B), R2)
             W(i) == {ks[j] : j \in 1 .. i}
  <1>1. d \in SolidDict(K, B) /\ d \in Dict(K, B)
    BY StateFields DEF SolidDict
  <1>2. ks \in Seq(K) /\ IsInjective(ks) /\ ToSet(ks) = V
    <2>1. KeySeq(d) \in Seq(K) /\ IsInjective(KeySeq(d)) /\ ToSet(KeySeq(d)) = Keys(d)
      BY <1>1, DictKeys DEF Dict
    <2>2. ToSet(KeySeq(d)) \cap (Keys(d) \ Keys(reqs)) = V
      BY <2>1
    <2> QED
      BY <2>1, <2>2, OnlyElements DEF UnusedSessions
  <1> HIDE DEF ks
  <1>3. n \in Nat /\ DOMAIN ks = 1 .. n /\ \A i \in 1 .. n : ks[i] \in V /\ ks[i] \in K /\ ks[i] \in Keys(d)
    <2>1. \A i \in 1 .. n : ks[i] \in ToSet(ks)
      BY <1>2 DEF ToSet
    <2> QED
      BY <1>2, <2>1
  <1> HIDE DEF n
  <1>4. \A x \in U : \A i \in 1 .. Len(ks) : RemoveSession(x, ks[i], known, cur) \in U
    <2> SUFFICES ASSUME NEW x \in U, NEW i \in 1 .. n PROVE RemoveSession(x, ks[i], known, cur) \in U
      BY DEF n
    <2> DEFINE y == RemoveSession(x, ks[i], known, cur)
               k == ks[i]
    <2>1. k \in Key /\ Exceptions \subseteq R2 /\ "KeyError" \in R2 /\ x \in State(SolidDict(K, B), R2)
      BY <1>3
    <2>2. y = RemoveSession(x, k, known, cur)
      OBVIOUS
    <2> HIDE DEF y, k, R2, U
    <2> DEFINE K2 == K \ {k}
    <2>5. K2 \subseteq K /\ K2 = K \ {k}
      OBVIOUS
    <2> HIDE DEF K2
    <2>3. y \in State(SolidDict(K2, B), R2)
      BY <2>1, <2>2, <2>5, RemoveSessionResult
    <2>4. y \in State(SolidDict(K, B), R2)
      BY <2>3, <2>5, StateMonotone
    <2> QED
      BY <2>4 DEF U, y
  <1>5. PICK a \in [0 .. n -> U] :
           /\ a[0] = st
           /\ \A i \in 1 .. n : a[i] = RemoveSession(a[i - 1], ks[i], known, cur)
           /\ res = a[n]
    <2>1. st \in U
      BY StateMonotone
    <2>2. res = RemoveSessions(st, ks, known, cur)
      BY DEF RemoveUnusedSessions, ks
    <2> HIDE DEF U
    <2> QED
      BY <1>2, <1>4, <2>1, <2>2, RemoveSessionsSteps DEF n
  <1> DEFINE Good(x, w) == Pruned(x, d, u, w, K, B, R)
             P == {i \in 0 .. n : Good(a[i], W(i))}
  <1>6. 0 \in P
    <2>1. W(0) = {} /\ K \ {} = K /\ 0 \in 0 .. n
      BY <1>3
    <2>2. Good(st, {})
      <3>1. Kept(d, d, {})
        BY DEF Kept, SameEntry
      <3>2. Unplanned(d, u, u, {})
        BY DEF Unplanned
      <3> QED
        BY <2>1, <3>1, <3>2 DEF Pruned
    <2> HIDE DEF Good, W
    <2> QED
      BY <1>5, <2>1, <2>2
  <1>7. ASSUME NEW i \in 1 .. n, i - 1 \in P PROVE i \in P
    <2> DEFINE k == ks[i]
               w == W(i - 1)
    <2>1. Good(a[i - 1], w) /\ a[i] = RemoveSession(a[i - 1], k, known, cur)
      BY <1>5, <1>7
    <2>2. k \in Keys(d) /\ ToSet(ModelsOf(k)) \subseteq known
      BY <1>3
    <2>3. k \notin w
      <3> SUFFICES ASSUME NEW j \in 1 .. (i - 1), ks[j] = ks[i] PROVE FALSE
        OBVIOUS
      <3>1. j \in DOMAIN ks /\ i \in DOMAIN ks /\ j # i
        BY <1>3
      <3> QED
        BY <1>2, <3>1 DEF IsInjective
    <2>4. W(i) = w \cup {k}
      <3>1. 1 .. i = (1 .. (i - 1)) \cup {i}
        BY <1>3
      <3> QED
        BY <3>1
    <2>5. i \in 0 .. n
      BY <1>3
    <2> HIDE DEF k, w, d, u, W
    <2> DEFINE x == a[i - 1]
               y == a[i]
               w2 == w \cup {k}
    <2>7. Pruned(x, d, u, w, K, B, R) /\ y = RemoveSession(x, k, known, cur) /\ w2 = w \cup {k}
      BY <2>1
    <2> HIDE DEF x, y, Good, w2
    <2>6. Pruned(y, d, u, w2, K, B, R)
      BY <1>1, <2>2, <2>3, <2>7, RemoveOneMore
    <2>9. Good(a[i], w \cup {k})
      BY <2>6 DEF Good, y, w2
    <2> HIDE DEF Good
    <2> QED
      BY <2>4, <2>5, <2>9
  <1>8. n \in P
    <2>1. \A i \in 1 .. n : i - 1 \in P => i \in P
      BY <1>7
    <2>2. n \in 0 .. n
      BY <1>3
    <2> HIDE DEF P
    <2> QED
      BY <1>3, <1>6, <2>1, <2>2, UpTo
  <1>9. W(n) = V
    BY <1>2, <1>3 DEF ToSet
  <1> HIDE DEF W
  <1> QED
    BY <1>5, <1>8, <1>9

(* The models of a session are those of its pipeline.                      *)
LEMMA ModelsOfKey ==
    ASSUME NEW k \in Key
    PROVE  /\ ModelsOf(k) \in Seq(Models) /\ ToSet(ModelsOf(k)) \subseteq Models
           /\ k[1] \in Pipelines /\ k[2] \in Sessions /\ ModelsOf(k) = PipelineModels[k[1]]
           /\ IsInjective(ModelsOf(k))
  <1>1. k[1] \in Pipelines /\ k[2] \in Sessions
    BY DEF Key
  <1>2. ModelsOf(k) \in Seq(Models) /\ IsInjective(ModelsOf(k)) /\ ModelsOf(k) = PipelineModels[k[1]]
    BY <1>1, PolicyAssumption DEF ModelsOf
  <1> QED
    BY <1>1, <1>2 DEF ToSet

-----------------------------------------------------------------------------
(* _remove_expired_backends.                                               *)

(* A plan without the backends outside C.                                  *)
Cut(o, C) == [o EXCEPT !.backs = Only(@, C)]

(* What Cut does to a plan.                                                *)
LEMMA CutPlan ==
    ASSUME NEW B, NEW o \in Plan(B), NEW C, NEW B2, B \cap C \subseteq B2
    PROVE  /\ Cut(o, C) \in Plan(B2) /\ Cut(o, C).model = o.model /\ Cut(o, C).id = o.id
           /\ Cut(o, C).owner = o.owner /\ ToSet(Cut(o, C).backs) = ToSet(o.backs) \cap C
  <1>1. o.backs \in Seq(B)
    BY DEF Plan
  <1> DEFINE left == Only(o.backs, C)
  <1>2. left \in Seq(B) /\ ToSet(left) = ToSet(o.backs) \cap C
    BY <1>1, OnlyElements
  <1> HIDE DEF left
  <1>3. \A i \in DOMAIN left : left[i] \in B2
    <2> SUFFICES ASSUME NEW i \in DOMAIN left PROVE left[i] \in B2
      OBVIOUS
    <2>1. left[i] \in ToSet(left) /\ left[i] \in B
      BY <1>2 DEF ToSet
    <2> QED
      BY <1>2, <2>1
  <1>4. left \in Seq(B2)
    BY <1>2, <1>3, SeqIn
  <1>5. Cut(o, C) = [o EXCEPT !.backs = left]
    BY DEF Cut, left
  <1>6. o = [id |-> o.id, model |-> o.model, owner |-> o.owner, backs |-> o.backs] /\ o.id \in Nat /\ o.model \in Models /\ o.owner \in Key
    BY DEF Plan
  <1>7. Cut(o, C) = [id |-> o.id, model |-> o.model, owner |-> o.owner, backs |-> left]
    BY <1>5, <1>6
  <1> QED
    BY <1>2, <1>4, <1>6, <1>7 DEF Plan

(* LeftOn keeps the plans with a backend left, cut.                        *)
LEMMA LeftOnObjs ==
    ASSUME NEW B, NEW objs \in Seq(Plan(B)), NEW C, NEW B2, B \cap C \subseteq B2
    PROVE  /\ LeftOn(objs, C) \in Seq(Plan(B2)) /\ Len(LeftOn(objs, C)) <= Len(objs)
           /\ \A o \in ToSet(LeftOn(objs, C)) : o.backs # <<>> /\ \E x \in ToSet(objs) : o = Cut(x, C)
           /\ \A x \in ToSet(objs) : ToSet(x.backs) \cap C # {} => Cut(x, C) \in ToSet(LeftOn(objs, C))
  <1> DEFINE left == [j \in DOMAIN objs |-> Cut(objs[j], C)]
             I == {j \in DOMAIN left : left[j].backs # <<>>}
             res == LeftOn(objs, C)
  <1>1. \A j \in DOMAIN objs : /\ Cut(objs[j], C) \in Plan(B2)
                               /\ ToSet(Cut(objs[j], C).backs) = ToSet(objs[j].backs) \cap C
    BY CutPlan
  <1>2. Len(objs) \in Nat /\ DOMAIN objs = 1 .. Len(objs)
    OBVIOUS
  <1>3. DOMAIN left = DOMAIN objs /\ \A j \in DOMAIN objs : left[j] = Cut(objs[j], C)
    OBVIOUS
  <1>4. left \in Seq(Plan(B2)) /\ Len(left) = Len(objs)
    BY <1>1, <1>2
  <1>5. res = At(left, I) /\ I \in SUBSET DOMAIN left
    BY DEF LeftOn, Cut
  <1> HIDE DEF left, I, res
  <1>6. res \in Seq(Plan(B2)) /\ Len(res) = Cardinality(I) /\ ToSet(res) = {left[i] : i \in I}
    BY <1>4, <1>5, AtElements
  <1>7. Cardinality(I) <= Len(objs)
    <2>1. IsFiniteSet(1 .. Len(objs)) /\ Cardinality(1 .. Len(objs)) = Len(objs)
      BY <1>2, FS_Interval
    <2>2. I \in SUBSET (1 .. Len(objs))
      BY <1>2, <1>3, <1>5
    <2> QED
      BY <2>1, <2>2, FS_Subset
  <1>8. ASSUME NEW o \in ToSet(res) PROVE o.backs # <<>> /\ \E x \in ToSet(objs) : o = Cut(x, C)
    <2>1. PICK i \in I : o = left[i]
      BY <1>6
    <2>2. i \in DOMAIN objs /\ left[i].backs # <<>>
      BY <1>3, <1>5 DEF I
    <2>3. objs[i] \in ToSet(objs)
      BY <2>2 DEF ToSet
    <2> QED
      BY <1>3, <2>1, <2>2, <2>3
  <1>9. ASSUME NEW x \in ToSet(objs), ToSet(x.backs) \cap C # {} PROVE Cut(x, C) \in ToSet(res)
    <2>1. PICK i \in DOMAIN objs : x = objs[i]
      BY DEF ToSet
    <2>2. left[i].backs # <<>>
      <3>1. ToSet(left[i].backs) # {}
        BY <1>1, <1>3, <1>9, <2>1
      <3>2. ToSet(<<>>) = {}
        BY DEF ToSet
      <3> QED
        BY <3>1, <3>2
    <2>3. i \in I
      BY <1>3, <2>2 DEF I
    <2> QED
      BY <1>3, <1>6, <2>1, <2>3
  <1> QED
    BY <1>6, <1>7, <1>8, <1>9 DEF res

(* Session k is served with model m on backend b.                          *)
Placed(d, k, m, b) ==
    \E e \in ToSet(d) : e.key = k /\ \E o \in ToSet(e.objs) : o.model = m /\ b \in ToSet(o.backs)

Clean(d, C) == [i \in DOMAIN d |-> [d[i] EXCEPT !.objs = LeftOn(@, C)]]
WithPlans(d) == At(d, {i \in DOMAIN d : d[i].objs # <<>>})

(* A dictionary without the expired backends is solid, and loses nothing   *)
(* else.                                                                   *)
LEMMA CleanedDict ==
    ASSUME NEW K, NEW B, NEW d \in Dict(K, B), NEW C, NEW B2, B \cap C \subseteq B2,
           NEW d2, d2 = WithPlans(Clean(d, C))
    PROVE  /\ d2 \in SolidDict(K, B2)
           /\ \A k, m, b : Placed(d, k, m, b) /\ b \in C => Placed(d2, k, m, b)
  <1> DEFINE E == [key : K, objs : Seq(Plan(B2))]
             O == {Cut(x, C) : x \in AllObjs(d)}
             clean == Clean(d, C)
             I == {i \in DOMAIN clean : clean[i].objs # <<>>}
  <1>1. Len(d) \in Nat /\ DOMAIN d = 1 .. Len(d) /\ DOMAIN clean = DOMAIN d
    BY DEF Dict, Clean
  <1>2. ASSUME NEW i \in DOMAIN d
        PROVE  /\ clean[i] \in E /\ clean[i].key = d[i].key /\ clean[i].objs = LeftOn(d[i].objs, C)
               /\ Own(clean[i].key, clean[i].objs) /\ ToSet(clean[i].objs) \subseteq O
               /\ \A o \in ToSet(clean[i].objs) : o.backs # <<>>
    <2>1. d[i] \in [key : K, objs : Seq(Plan(B))] /\ d[i].objs \in Seq(Plan(B)) /\ Own(d[i].key, d[i].objs)
          /\ ToSet(d[i].objs) \subseteq AllObjs(d)
      BY DictEntries
    <2> DEFINE L == LeftOn(d[i].objs, C)
    <2>2. /\ L \in Seq(Plan(B2)) /\ Len(L) <= Len(d[i].objs)
          /\ \A o \in ToSet(L) : o.backs # <<>> /\ \E x \in ToSet(d[i].objs) : o = Cut(x, C)
      BY <2>1, LeftOnObjs
    <2> HIDE DEF L
    <2>3. clean[i] = [d[i] EXCEPT !.objs = L]
      BY DEF L, Clean
    <2>4. clean[i] \in E /\ clean[i].key = d[i].key /\ clean[i].objs = L
      BY <2>1, <2>2, <2>3
    <2>5. ASSUME NEW o \in ToSet(L)
          PROVE  o \in O /\ o.model \in ToSet(ModelsOf(d[i].key)) /\ (Alone => o.owner = d[i].key)
      <3>1. PICK x \in ToSet(d[i].objs) : o = Cut(x, C)
        BY <2>2
      <3>2. x \in AllObjs(d) /\ x \in Plan(B)
        BY <2>1, <3>1 DEF ToSet
      <3>3. o.model = x.model /\ o.owner = x.owner
        BY <3>1, <3>2, CutPlan
      <3>4. x.model \in ToSet(ModelsOf(d[i].key)) /\ (Alone => x.owner = d[i].key)
        BY <2>1, <3>1 DEF Own
      <3> QED
        BY <3>1, <3>2, <3>3, <3>4
    <2>6. Own(d[i].key, L)
      <3>1. Alone => Len(L) <= 1
        <4>1. Len(L) \in Nat /\ Len(d[i].objs) \in Nat
          BY <2>1, <2>2
        <4> QED
          BY <2>1, <2>2, <4>1 DEF Own
      <3> QED
        BY <2>5, <3>1 DEF Own
    <2> QED
      BY <2>2, <2>4, <2>5, <2>6 DEF L
  <1>3. clean \in Seq(E)
    <2>1. clean = [i \in 1 .. Len(d) |-> clean[i]]
      BY <1>1 DEF Clean
    <2> HIDE DEF E, clean
    <2> QED
      BY <1>1, <1>2, <2>1
  <1> HIDE DEF clean
  <1>4. Consistent(O)
    <2>1. Consistent(AllObjs(d)) /\ AllObjs(d) \subseteq Plan(B)
      BY DictObjs DEF Dict
    <2> SUFFICES ASSUME NEW x \in AllObjs(d), NEW y \in AllObjs(d), Cut(x, C).id = Cut(y, C).id
                 PROVE  Cut(x, C) = Cut(y, C)
      BY DEF Consistent
    <2>2. x.id = y.id
      BY <2>1, CutPlan
    <2> QED
      BY <2>1, <2>2 DEF Consistent
  <1>5. \A i, j \in DOMAIN clean : clean[i].key = clean[j].key => i = j
    <2>1. \A i, j \in DOMAIN d : d[i].key = d[j].key => i = j
      BY DictKeys
    <2>2. \A i \in DOMAIN d : clean[i].key = d[i].key
      BY <1>2
    <2> QED
      BY <1>1, <2>1, <2>2
  <1>6. clean \in Dict(K, B2)
    <2> HIDE DEF O
    <2> QED
      BY <1>1, <1>2, <1>3, <1>4, <1>5, MakeDict
  <1>7. d2 \in Dict(K, B2) /\ ToSet(d2) = {clean[i] : i \in I}
    <2>1. I \in SUBSET DOMAIN clean /\ d2 = At(clean, I)
      BY DEF WithPlans, clean
    <2> HIDE DEF I
    <2> QED
      BY <1>6, <2>1, AtDict
  <1>8. ASSUME NEW i \in DOMAIN d2 PROVE d2[i].objs # <<>> /\ Solid(d2[i].objs)
    <2>1. d2[i] \in ToSet(d2)
      BY DEF ToSet
    <2>2. PICK h \in I : d2[i] = clean[h]
      BY <1>7, <2>1
    <2>3. h \in DOMAIN d /\ clean[h].objs # <<>>
      BY <1>1
    <2>4. \A o \in ToSet(clean[h].objs) : o.backs # <<>>
      BY <1>2, <2>3
    <2>5. Solid(clean[h].objs)
      BY <2>4 DEF Solid, ToSet
    <2> QED
      BY <2>2, <2>3, <2>5
  <1>9. ASSUME NEW k, NEW m, NEW b, Placed(d, k, m, b), b \in C PROVE Placed(d2, k, m, b)
    <2>1. PICK e \in ToSet(d) : e.key = k /\ \E o \in ToSet(e.objs) : o.model = m /\ b \in ToSet(o.backs)
      BY <1>9 DEF Placed
    <2>2. PICK i \in DOMAIN d : e = d[i]
      BY DEF ToSet
    <2>3. PICK o \in ToSet(d[i].objs) : o.model = m /\ b \in ToSet(o.backs)
      BY <2>1, <2>2
    <2>4. d[i].objs \in Seq(Plan(B)) /\ o \in Plan(B)
      BY <2>3, DictEntries DEF ToSet
    <2>5. ToSet(o.backs) \cap C # {}
      BY <1>9, <2>3
    <2>6. Cut(o, C) \in ToSet(clean[i].objs)
      BY <1>2, <2>3, <2>4, <2>5, LeftOnObjs
    <2>7. Cut(o, C).model = m /\ b \in ToSet(Cut(o, C).backs)
      BY <1>9, <2>3, <2>4, CutPlan
    <2>8. clean[i].objs # <<>>
      BY <2>6 DEF ToSet
    <2>9. clean[i] \in ToSet(d2) /\ clean[i].key = k
      BY <1>1, <1>2, <1>7, <2>1, <2>2, <2>8
    <2> QED
      BY <2>6, <2>7, <2>9 DEF Placed
  <1> QED
    BY <1>7, <1>8, <1>9 DEF SolidDict

(* What the expired backends leave of the plans; the rest loses nothing,   *)
(* and a session that loses a backend is unscheduled.                      *)
Surviving(d, res, last, cur) ==
    /\ last \subseteq cur => DOMAIN res.unsched = {}
    /\ \A k \in DOMAIN res.unsched : res.unsched[k] # {}
    /\ \A k, m, b : Placed(d, k, m, b) /\ b \in cur => Placed(res.plans, k, m, b)
    /\ Alone => \A k, m, b : Placed(d, k, m, b) /\ b \notin cur => k \in DOMAIN res.unsched

(* _remove_expired_backends leaves plans on registered backends only,      *)
(* loses nothing else, and unschedules only when a backend expired.  With  *)
(* plans that are not shared every session that lost one is unscheduled.   *)
LEMMA ExpiredResult ==
    ASSUME NEW K \in SUBSET Key, NEW R, NEW last \in Seq(Backends), NEW cur,
           NEW st \in State(SolidDict(K, ToSet(last)), R),
           NEW res, res = RemoveExpiredBackends(st, last, cur), NEW B, B = ToSet(last) \cap ToSet(cur)
    PROVE  res \in State(SolidDict(K, B), R) /\ Surviving(st.plans, res, ToSet(last), ToSet(cur))
  <1> DEFINE expired == ToSet(last) \ ToSet(cur)
             C == Backends \ expired
             d == st.plans
             Hit(i, o) == /\ ToSet(o.backs) \cap expired # {}
                          /\ \A h \in 1 .. (i - 1) : o \notin ToSet(d[h].objs)
             HitKeys == {d[i].key : i \in {h \in DOMAIN d : \E o \in ToSet(d[h].objs) : Hit(h, o)}}
             Outs(k) == {<<o.model, UnscheduledFrom(last)>> :
                            o \in {x \in ToSet(ObjsOf(d, k)) : Hit(IndexOf(d, k), x)}}
             u2 == [k \in HitKeys |-> Outs(k)]
             d2 == WithPlans(Clean(d, C))
  <1>1. /\ d \in SolidDict(K, ToSet(last)) /\ d \in Dict(K, ToSet(last)) /\ st.mem \in [Backends -> Int]
        /\ st.raised \in SUBSET R
        /\ st = [plans |-> d, unsched |-> st.unsched, mem |-> st.mem, raised |-> st.raised]
    BY StateFields DEF SolidDict
  <1>2. ToSet(last) \subseteq Backends
    BY DEF ToSet
  <1>3. ToSet(last) \cap C \subseteq B
    BY <1>2
  <1>4. d2 \in SolidDict(K, B) /\ \A k, m, b : Placed(d, k, m, b) /\ b \in C => Placed(d2, k, m, b)
    <2> HIDE DEF C, d2, d
    <2>1. d \in Dict(K, ToSet(last)) /\ d2 = WithPlans(Clean(d, C))
      BY <1>1 DEF d2
    <2> DEFINE B0 == ToSet(last)
    <2> HIDE DEF B0
    <2>2. d \in Dict(K, B0) /\ B0 \cap C \subseteq B
      BY <1>3, <2>1 DEF B0
    <2> QED
      BY <2>1, <2>2, CleanedDict
  <1>5. res = [st EXCEPT !.plans = d2, !.unsched = u2]
    <2>1. DOMAIN Clean(d, C) = DOMAIN d
      BY DEF Clean
    <2> QED
      BY <2>1 DEF RemoveExpiredBackends, WithPlans, Clean
  <1>6. HitKeys # {} => UnscheduledFrom(last) \in Backends
    <2> SUFFICES ASSUME HitKeys # {} PROVE UnscheduledFrom(last) \in Backends
      OBVIOUS
    <2>1. ToSet(last) # {}
      OBVIOUS
    <2>2. last # <<>>
      BY <2>1 DEF ToSet
    <2> QED
      BY <2>2 DEF UnscheduledFrom
  <1>7. HitKeys \in SUBSET Key
    <2>1. \A i \in DOMAIN d : d[i].key \in K
      BY <1>1, DictEntries
    <2> HIDE DEF Hit
    <2> QED
      BY <2>1
  <1>8. ASSUME NEW k \in HitKeys
        PROVE  Outs(k) \in SUBSET (Models \X Backends) /\ \A x \in Outs(k) : x[1] \in ToSet(ModelsOf(k))
    <2>1. /\ \A o \in ToSet(ObjsOf(d, k)) : o.model \in ToSet(ModelsOf(k))
      BY <1>1, DictObjs
    <2>2. ToSet(ModelsOf(k)) \subseteq Models
      BY <1>7, ModelsOfKey
    <2> HIDE DEF Hit, HitKeys
    <2> QED
      BY <1>6, <1>8, <2>1, <2>2
  <1>9. u2 \in Unsched
    <2> HIDE DEF HitKeys, Outs
    <2>1. u2 \in [HitKeys -> SUBSET (Models \X Backends)]
      BY <1>8
    <2>2. \A k \in DOMAIN u2 : \A x \in u2[k] : x[1] \in ToSet(ModelsOf(k))
      BY <1>8
    <2> HIDE DEF u2
    <2> QED
      BY <1>7, <2>1, <2>2 DEF Unsched
  <1>10. ToSet(last) \subseteq ToSet(cur) => DOMAIN u2 = {}
    <2>1. DOMAIN u2 = HitKeys
      OBVIOUS
    <2> HIDE DEF u2
    <2>2. ToSet(last) \subseteq ToSet(cur) => HitKeys = {}
      OBVIOUS
    <2> QED
      BY <2>1, <2>2
  <1>11. \A k, m, b : Placed(d, k, m, b) => b \in ToSet(last)
    <2> SUFFICES ASSUME NEW e \in ToSet(d), NEW o \in ToSet(e.objs) PROVE ToSet(o.backs) \subseteq ToSet(last)
      BY DEF Placed
    <2>1. PICK i \in DOMAIN d : e = d[i]
      BY DEF ToSet
    <2>2. PICK j \in DOMAIN d[i].objs : o = d[i].objs[j]
      BY <2>1 DEF ToSet
    <2>3. o \in Plan(ToSet(last))
      BY <1>1, <2>1, <2>2, DictEntries
    <2>4. o.backs \in Seq(ToSet(last))
      BY <2>3 DEF Plan
    <2> QED
      BY <2>4 DEF ToSet
  <1>12. \A k, m, b : Placed(d, k, m, b) /\ b \in ToSet(cur) => Placed(d2, k, m, b)
    <2> HIDE DEF d2, d
    <2> QED
      BY <1>2, <1>4, <1>11
  <1>12a. ASSUME NEW k \in DOMAIN u2 PROVE u2[k] # {}
    <2>1. k \in HitKeys /\ u2[k] = Outs(k)
      BY <1>12a
    <2>2. PICK i \in DOMAIN d : d[i].key = k /\ \E o \in ToSet(d[i].objs) : Hit(i, o)
      <3> HIDE DEF Hit
      <3> QED
        BY <2>1
    <2>3. IndexOf(d, k) = i /\ ObjsOf(d, k) = d[i].objs
      BY <1>1, <2>2, DictKeys
    <2>4. Outs(k) # {}
      <3> HIDE DEF Hit
      <3> QED
        BY <2>2, <2>3
    <2> QED
      BY <2>1, <2>4
  <1>12b. ASSUME Alone, NEW k, NEW m, NEW b, Placed(d, k, m, b), b \notin ToSet(cur)
          PROVE  k \in DOMAIN u2
    <2>1. PICK e \in ToSet(d) : e.key = k /\ \E o \in ToSet(e.objs) : o.model = m /\ b \in ToSet(o.backs)
      BY <1>12b DEF Placed
    <2>2. PICK o \in ToSet(e.objs) : o.model = m /\ b \in ToSet(o.backs)
      BY <2>1
    <2>3. PICK i \in DOMAIN d : e = d[i]
      BY DEF ToSet
    <2>4. b \in expired
      BY <1>11, <1>12b
    <2>5. o.owner = d[i].key /\ d[i].key = k /\ o \in ToSet(d[i].objs) /\ DOMAIN d = 1 .. Len(d) /\ Len(d) \in Nat
      BY <1>1, <1>12b, <2>1, <2>2, <2>3, DictEntries DEF Own
    <2>6. ASSUME NEW h \in 1 .. (i - 1), o \in ToSet(d[h].objs) PROVE FALSE
      <3>1. h \in DOMAIN d /\ h # i
        BY <2>3, <2>5
      <3>2. o.owner = d[h].key
        BY <1>1, <1>12b, <2>6, <3>1, DictEntries DEF Own
      <3> QED
        BY <1>1, <2>3, <2>5, <3>1, <3>2, DictKeys
    <2>7. Hit(i, o)
      BY <2>2, <2>4, <2>6
    <2>8. k \in HitKeys
      <3> HIDE DEF Hit
      <3> QED
        BY <2>3, <2>5, <2>7
    <2>9. DOMAIN u2 = HitKeys
      OBVIOUS
    <2> QED
      BY <2>8, <2>9
  <1> HIDE DEF d2, u2
  <1>13. res \in State(SolidDict(K, B), R) /\ res.plans = d2 /\ res.unsched = u2
    BY <1>1, <1>4, <1>5, <1>9 DEF State
  <1> QED
    BY <1>10, <1>12, <1>12a, <1>12b, <1>13 DEF Surviving

(* Every session of a solid dictionary is placed somewhere.                *)
LEMMA SolidPlaced ==
    ASSUME NEW K, NEW B, NEW d \in SolidDict(K, B), NEW k \in Keys(d)
    PROVE  \E m, b : Placed(d, k, m, b)
  <1>1. PICK i \in DOMAIN d : d[i].key = k
    BY DEF Keys
  <1>2. d \in Dict(K, B) /\ d[i].objs # <<>> /\ Solid(d[i].objs)
    BY DEF SolidDict
  <1>3. d[i].objs \in Seq(Plan(B))
    BY <1>2, DictEntries
  <1> DEFINE objs == d[i].objs
  <1>4. 1 \in DOMAIN objs /\ objs \in Seq(Plan(B))
    BY <1>2, <1>3
  <1>5. IsFirst(objs, 1)
    BY DEF IsFirst
  <1>6. objs[1].backs # <<>>
    BY <1>2, <1>4, <1>5 DEF Solid
  <1>7. objs[1].backs \in Seq(B)
    <2>1. objs[1] \in Plan(B)
      <3> HIDE DEF objs
      <3> QED
        BY <1>4
    <2> QED
      BY <2>1 DEF Plan
  <1>8. objs[1].backs[1] \in ToSet(objs[1].backs)
    <2> DEFINE bs == objs[1].backs
    <2> HIDE DEF bs
    <2>1. bs \in Seq(B) /\ bs # <<>>
      BY <1>6, <1>7 DEF bs
    <2>2. bs[1] \in ToSet(bs)
      BY <2>1 DEF ToSet
    <2> QED
      BY <2>2 DEF bs
  <1>9. objs[1] \in ToSet(d[i].objs) /\ d[i] \in ToSet(d)
    BY <1>4 DEF ToSet
  <1> QED
    BY <1>1, <1>8, <1>9 DEF Placed

(* _remove_unused_pipelines finds nothing left to do: the sessions that    *)
(* are not requested lost their plans in the pass before it.               *)
LEMMA PipelinesIdle ==
    ASSUME NEW K, NEW B, NEW R, NEW st \in State(SolidDict(K, B), R), NEW last, NEW reqs, NEW cur,
           Keys(st.plans) \subseteq Keys(reqs)
    PROVE  RemoveUnusedPipelines(st, last, reqs, cur) = st
  <1> DEFINE d == st.plans
             used == Concat([i \in DOMAIN d |-> [j \in DOMAIN d[i].objs |-> d[i].objs[j].model]])
             ms == Only(Distinct(used), ModelsToRemove(d, last, reqs))
  <1>1. d \in Dict(K, B)
    BY StateFields DEF SolidDict
  <1>2. ModelsToRemove(d, last, reqs) = {}
    <2>1. \A r : r.key \in Keys(d) => r.key[1] \notin PipelinesToRemove(last, reqs)
      BY DEF PipelinesToRemove
    <2> QED
      BY <2>1 DEF ModelsToRemove
  <1>3. used \in Seq(Models)
    <2> DEFINE Row(i) == [j \in DOMAIN d[i].objs |-> d[i].objs[j].model]
               ss == [i \in DOMAIN d |-> Row(i)]
    <2>1. ASSUME NEW i \in DOMAIN d PROVE Row(i) \in Seq(Models)
      <3>1. d[i].objs \in Seq(Plan(B))
        BY <1>1, DictEntries
      <3>2. \A j \in DOMAIN d[i].objs : d[i].objs[j].model \in Models
        <4>1. \A j \in DOMAIN d[i].objs : d[i].objs[j] \in Plan(B)
          BY <3>1
        <4> QED
          BY <4>1 DEF Plan
      <3> QED
        BY <3>1, <3>2
    <2>2. DOMAIN d = 1 .. Len(d) /\ Len(d) \in Nat
      BY <1>1 DEF Dict
    <2>3. ss \in Seq(Seq(Models))
      <3> HIDE DEF Row, d
      <3> QED
        BY <2>1, <2>2
    <2>4. used = Concat(ss)
      OBVIOUS
    <2> HIDE DEF ss, used
    <2> QED
      BY <2>3, <2>4, ConcatElements
  <1> HIDE DEF used
  <1>4. ms = <<>>
    <2>1. Distinct(used) \in Seq(Models)
      BY <1>3, DistinctElements
    <2>2. ToSet(Distinct(used)) \cap {} = {}
      OBVIOUS
    <2> QED
      BY <1>2, <2>1, OnlyElements
  <1>5. RemoveUnusedPipelines(st, last, reqs, cur) = UndeployEach(st, ms, d, cur)
    BY DEF RemoveUnusedPipelines, used
  <1> HIDE DEF ms
  <1> DEFINE U == {st}
  <1>6. st \in U /\ ms \in Seq(Models) /\ \A u \in U : \A i \in 1 .. Len(ms) : Undeploy(u, ms[i], d, cur) \in U
    BY <1>4
  <1>7. UndeployEach(st, ms, d, cur) \in U
    <2> HIDE DEF U, d
    <2> QED
      BY <1>6, UndeployEachIn
  <1> QED
    BY <1>5, <1>7

-----------------------------------------------------------------------------
(* _find_best_backend.                                                     *)

(* A backend hosts a model when a session is placed there with it.         *)
LEMMA HostsPlaced ==
    ASSUME NEW d, NEW m, NEW b
    PROVE  b \in Hosts(d, m) <=> \E k : Placed(d, k, m, b)
  <1>1. \A o : o \in AllObjs(d) <=> \E e \in ToSet(d) : o \in ToSet(e.objs)
    BY DEF AllObjs, ToSet
  <1>2. b \in Hosts(d, m) <=> \E o \in AllObjs(d) : o.model = m /\ b \in ToSet(o.backs)
    BY DEF Hosts
  <1> QED
    BY <1>1, <1>2 DEF Placed

(* The backend _find_best_backend returns is registered and does not run   *)
(* the model yet.                                                          *)
LEMMA ChosenIn ==
    ASSUME NEW st, NEW m, NEW cur \in Seq(Backends),
           NEW b, b = ChosenBackend(st, m, cur), b # NoBackend
    PROVE  b \in ToSet(cur) /\ b \in Backends /\ b \notin Hosts(st.plans, m)
  <1> DEFINE I == {i \in DOMAIN cur : /\ cur[i] \notin Hosts(st.plans, m)
                                      /\ (BackendMem[cur[i]] > 0) = (ModelMem[m] > 0)
                                      /\ ModelMem[m] > 0 => st.mem[cur[i]] > ModelMem[m]}
             potential == PotentialBackends(st, m, cur)
  <1>1. I \in SUBSET DOMAIN cur /\ potential = At(cur, I) /\ \A i \in I : cur[i] \notin Hosts(st.plans, m)
    BY DEF PotentialBackends
  <1> HIDE DEF I
  <1>2. potential \in Seq(Backends) /\ ToSet(potential) = {cur[i] : i \in I}
    BY <1>1, AtElements
  <1> HIDE DEF potential
  <1>3. \E i \in DOMAIN potential : b = potential[i]
    <2> DEFINE Load(x) == IF ModelMem[m] > 0 THEN - st.mem[x] ELSE Cardinality(RunningModels(st.plans, x))
               load == [i \in DOMAIN potential |-> Load(potential[i])]
               fit == {i \in DOMAIN load : ModelMem[m] > 0 \/ load[i] < MaxModelsPerBackend}
               best == {i \in fit : \A j \in fit : load[i] < load[j] \/ (load[i] = load[j] /\ i <= j)}
    <2>1. b = IF best = {} THEN NoBackend ELSE potential[CHOOSE i \in best : TRUE]
      BY DEF ChosenBackend, BestBackend, potential
    <2>2. best \subseteq DOMAIN potential
      OBVIOUS
    <2> HIDE DEF best
    <2>3. best # {} /\ b = potential[CHOOSE i \in best : TRUE]
      BY <2>1
    <2> QED
      BY <2>2, <2>3
  <1>4. b \in ToSet(potential)
    BY <1>3 DEF ToSet
  <1>5. PICK i \in I : b = cur[i]
    BY <1>2, <1>4
  <1> QED
    BY <1>1, <1>5 DEF ToSet

-----------------------------------------------------------------------------
(* _add_scheduling_plan.                                                   *)

(* Only backend b is added, for model m.                                   *)
Added(d, d2, m, b) ==
    \A k, x, y : /\ Placed(d, k, x, y) => Placed(d2, k, x, y)
                 /\ Placed(d2, k, x, y) => Placed(d, k, x, y) \/ (x = m /\ y = b)

(* Added is transitive.                                                    *)
LEMMA AddedTrans ==
    ASSUME NEW d, NEW d2, NEW d3, NEW m, NEW b, Added(d, d2, m, b), Added(d2, d3, m, b)
    PROVE  Added(d, d3, m, b)
  BY DEF Added

(* SetObjs with plans that fit.                                            *)
LEMMA SetObjsFit ==
    ASSUME NEW K, NEW B, NEW d \in Dict(K, B), NEW k \in K, NEW objs, Fits(d, k, objs, B),
           NEW d2, d2 = SetObjs(d, k, objs)
    PROVE  d2 \in Dict(K, B) /\ Replaced(d, d2, k, objs)
  BY SetObjsEntries

WithNew(d, k, m, backs) == SetObjs(d, k, Append(ObjsOf(d, k), NewObj(d, m, k, backs)))

NewlyPlaced(d, d2, k, m, backs) ==
    \A q, x, y : Placed(d2, q, x, y) <=> Placed(d, q, x, y) \/ (q = k /\ x = m /\ y \in ToSet(backs))

(* A new plan object for a session adds its backends and nothing else.     *)
LEMMA AppendNew ==
    ASSUME NEW K \in SUBSET Key, NEW B, NEW d \in SolidDict(K, B), NEW k \in K, NEW m \in ToSet(ModelsOf(k)),
           NEW backs \in Seq(B), backs # <<>>, Alone => ObjsOf(d, k) = <<>>,
           NEW d2, d2 = WithNew(d, k, m, backs)
    PROVE  /\ d2 \in SolidDict(K, B) /\ Keys(d2) = Keys(d) \cup {k}
           /\ NewlyPlaced(d, d2, k, m, backs)
  <1> DEFINE o == NewObj(d, m, k, backs)
             old == ObjsOf(d, k)
             objs == Append(old, o)
  <1>1. d \in Dict(K, B) /\ k \in Key /\ m \in Models
    BY ModelsOfKey DEF SolidDict
  <1>2. o \in Plan(B) /\ o.model = m /\ o.owner = k /\ o.backs = backs /\ \A x \in AllObjs(d) : x.id # o.id
    BY <1>1, NewIdFresh DEF NewObj, Plan
  <1>3. old \in Seq(Plan(B)) /\ ToSet(old) \subseteq AllObjs(d) /\ Own(k, old)
    BY <1>1, DictObjs
  <1> HIDE DEF o, old
  <1>4. /\ objs \in Seq(Plan(B)) /\ Len(objs) = Len(old) + 1 /\ Len(old) \in Nat
        /\ \A i \in 1 .. Len(old) : objs[i] = old[i] /\ objs[Len(old) + 1] = o
        /\ DOMAIN objs = 1 .. (Len(old) + 1) /\ DOMAIN old = 1 .. Len(old) /\ objs[Len(old) + 1] = o
    BY <1>2, <1>3
  <1> HIDE DEF objs
  <1>5. ToSet(objs) = ToSet(old) \cup {o}
    <2>1. \A i \in DOMAIN objs : i \in DOMAIN old \/ i = Len(old) + 1
      BY <1>4
    <2>2. ToSet(objs) \subseteq ToSet(old) \cup {o}
      BY <1>4, <2>1 DEF ToSet
    <2>3. ToSet(old) \subseteq ToSet(objs)
      BY <1>4 DEF ToSet
    <2>4. o \in ToSet(objs)
      BY <1>4 DEF ToSet
    <2> QED
      BY <2>2, <2>3, <2>4
  <1>6. Own(k, objs)
    <2>1. \A x \in ToSet(objs) : x.model \in ToSet(ModelsOf(k)) /\ (Alone => x.owner = k)
      BY <1>2, <1>3, <1>5 DEF Own
    <2>2. Alone => Len(objs) <= 1
      BY <1>4 DEF old
    <2> QED
      BY <2>1, <2>2 DEF Own
  <1>7. Consistent(AllObjs(d) \cup ToSet(objs))
    <2>1. Consistent(AllObjs(d))
      BY <1>1 DEF Dict
    <2>2. AllObjs(d) \cup ToSet(objs) = AllObjs(d) \cup {o}
      BY <1>3, <1>5
    <2> QED
      BY <1>2, <2>1, <2>2 DEF Consistent
  <1>8. d2 = SetObjs(d, k, objs)
    BY DEF objs, old, o, WithNew
  <1> DEFINE new == [key |-> k, objs |-> objs]
  <1>9. /\ d2 \in Dict(K, B) /\ ToSet(d2) = {e \in ToSet(d) : e.key # k} \cup {new}
        /\ Keys(d2) = Keys(d) \cup {k}
    <2>1. Fits(d, k, objs, B)
      BY <1>4, <1>6, <1>7 DEF Fits
    <2>2. d2 \in Dict(K, B) /\ Replaced(d, d2, k, objs)
      BY <1>1, <1>8, <2>1, SetObjsFit
    <2> QED
      BY <2>2 DEF Replaced
  <1>10. new.key = k /\ new.objs = objs
    OBVIOUS
  <1> HIDE DEF new
  <1>11. Solid(objs)
    <2> SUFFICES ASSUME NEW j \in DOMAIN objs, IsFirst(objs, j) PROVE objs[j].backs # <<>>
      BY DEF Solid
    <2>1. CASE j = Len(old) + 1
      BY <1>2, <1>4, <2>1
    <2>2. CASE j \in DOMAIN old
      <3>1. PICK i \in DOMAIN d : d[i].key = k
        <4>1. old # <<>>
          BY <2>2
        <4>2. k \in Keys(d)
          BY <1>1, <4>1, DictKeys DEF old
        <4> QED
          BY <1>1, <4>2, DictKeys
      <3>2. old = d[i].objs
        BY <1>1, <3>1, DictKeys DEF old
      <3>3. Solid(old)
        BY <3>2 DEF SolidDict
      <3>4. IsFirst(old, j)
        <4>1. \A h \in 1 .. (j - 1) : h \in DOMAIN old
          BY <1>4, <2>2
        <4> QED
          BY <1>4, <2>2, <4>1 DEF IsFirst
      <3> QED
        BY <1>4, <2>2, <3>3, <3>4 DEF Solid
    <2> QED
      BY <1>4, <2>1, <2>2
  <1>12. \A e \in ToSet(d2) : e.objs # <<>> /\ Solid(e.objs)
    <2>1. \A e \in ToSet(d) : e.objs # <<>> /\ Solid(e.objs)
      BY DEF SolidDict, ToSet
    <2>2. objs # <<>>
      BY <1>4
    <2> QED
      BY <1>9, <1>10, <1>11, <2>1, <2>2
  <1>13. d2 \in SolidDict(K, B)
    BY <1>9, <1>12 DEF SolidDict, ToSet
  <1>14. ASSUME NEW q, NEW x, NEW y
         PROVE  Placed(d2, q, x, y) <=> Placed(d, q, x, y) \/ (q = k /\ x = m /\ y \in ToSet(backs))
    <2>1. ASSUME NEW e \in ToSet(d2), e.key = q, NEW p \in ToSet(e.objs), p.model = x, y \in ToSet(p.backs)
          PROVE  Placed(d, q, x, y) \/ (q = k /\ x = m /\ y \in ToSet(backs))
      <3>1. CASE e \in ToSet(d)
        BY <2>1, <3>1 DEF Placed
      <3>2. CASE e = new /\ p \in ToSet(old)
        <4>1. q = k /\ k \in Keys(d)
          <5>1. old # <<>>
            BY <3>2 DEF ToSet
          <5> QED
            BY <1>1, <1>10, <2>1, <3>2, <5>1, DictKeys DEF old
        <4>2. PICK i \in DOMAIN d : d[i].key = k
          BY <1>1, <4>1, DictKeys
        <4>3. old = d[i].objs /\ d[i] \in ToSet(d)
          BY <1>1, <4>2, DictKeys, DictEntries DEF old
        <4> QED
          BY <2>1, <3>2, <4>1, <4>2, <4>3 DEF Placed
      <3>3. CASE e = new /\ p = o
        BY <1>2, <1>10, <2>1, <3>3
      <3> QED
        BY <1>5, <1>9, <1>10, <2>1, <3>1, <3>2, <3>3
    <2>2. ASSUME NEW e \in ToSet(d), e.key = q, NEW p \in ToSet(e.objs), p.model = x, y \in ToSet(p.backs)
          PROVE  Placed(d2, q, x, y)
      <3>1. CASE e.key # k
        <4>1. e \in ToSet(d2)
          BY <1>9, <3>1
        <4> QED
          BY <2>2, <4>1 DEF Placed
      <3>2. CASE e.key = k
        <4>1. PICK i \in DOMAIN d : e = d[i]
          BY DEF ToSet
        <4>2. old = e.objs
          BY <1>1, <3>2, <4>1, DictKeys DEF old
        <4>3. new \in ToSet(d2) /\ p \in ToSet(new.objs) /\ new.key = q
          BY <1>5, <1>9, <1>10, <2>2, <3>2, <4>2
        <4> QED
          BY <2>2, <4>3 DEF Placed
      <3> QED
        BY <3>1, <3>2
    <2>3. ASSUME q = k, x = m, y \in ToSet(backs) PROVE Placed(d2, q, x, y)
      <3>1. new \in ToSet(d2) /\ o \in ToSet(new.objs) /\ new.key = q
        BY <1>5, <1>9, <1>10, <2>3
      <3> QED
        BY <1>2, <2>3, <3>1 DEF Placed
    <2>4. Placed(d2, q, x, y) => Placed(d, q, x, y) \/ (q = k /\ x = m /\ y \in ToSet(backs))
      BY <2>1 DEF Placed
    <2>5. Placed(d, q, x, y) => Placed(d2, q, x, y)
      BY <2>2 DEF Placed
    <2> QED
      BY <2>3, <2>4, <2>5
  <1> QED
    BY <1>9, <1>13, <1>14 DEF NewlyPlaced

(* The elements of a sequence after Append.                                *)
LEMMA AppendSet ==
    ASSUME NEW T, NEW s \in Seq(T), NEW x \in T
    PROVE  Append(s, x) \in Seq(T) /\ Append(s, x) # <<>> /\ ToSet(Append(s, x)) = ToSet(s) \cup {x}
  <1> DEFINE t == Append(s, x)
  <1>1. /\ t \in Seq(T) /\ Len(s) \in Nat /\ DOMAIN s = 1 .. Len(s) /\ DOMAIN t = 1 .. (Len(s) + 1)
        /\ t[Len(s) + 1] = x /\ \A i \in 1 .. Len(s) : t[i] = s[i]
    OBVIOUS
  <1> HIDE DEF t
  <1>2. t # <<>>
    BY <1>1
  <1>3. \A i \in DOMAIN t : i \in DOMAIN s \/ i = Len(s) + 1
    BY <1>1
  <1>4. ToSet(t) \subseteq ToSet(s) \cup {x}
    BY <1>1, <1>3 DEF ToSet
  <1>5. ToSet(s) \subseteq ToSet(t)
    BY <1>1 DEF ToSet
  <1>6. x \in ToSet(t)
    BY <1>1 DEF ToSet
  <1> QED
    BY <1>1, <1>2, <1>4, <1>5, <1>6 DEF t

(* One more backend in a plan object adds it for every session that holds  *)
(* the object.                                                             *)
LEMMA AppendBack ==
    ASSUME NEW K, NEW B, NEW d \in SolidDict(K, B), NEW o \in AllObjs(d), NEW b \in B,
           NEW d2, d2 = SetBacks(d, o.id, Append(o.backs, b))
    PROVE  /\ d2 \in SolidDict(K, B) /\ Keys(d2) = Keys(d) /\ Added(d, d2, o.model, b)
           /\ \A e \in ToSet(d) : o \in ToSet(e.objs) => Placed(d2, e.key, o.model, b)
  <1> DEFINE backs == Append(o.backs, b)
             New(x) == Rebacked(x, o.id, backs)
  <1>1. d \in Dict(K, B) /\ o \in Plan(B) /\ Consistent(AllObjs(d)) /\ AllObjs(d) \subseteq Plan(B)
    BY DictObjs DEF SolidDict, Dict
  <1>2. o.backs \in Seq(B)
    BY <1>1 DEF Plan
  <1>3. backs \in Seq(B) /\ backs # <<>> /\ ToSet(backs) = ToSet(o.backs) \cup {b}
    BY <1>2, AppendSet
  <1>4. d2 = SetBacks(d, o.id, backs)
    OBVIOUS
  <1> HIDE DEF backs
  <1>5. /\ d2 \in Dict(K, B) /\ DOMAIN d2 = DOMAIN d /\ KeySeq(d2) = KeySeq(d)
        /\ \A i \in DOMAIN d :
              /\ d2[i].key = d[i].key /\ d2[i].objs \in Seq(Plan(B)) /\ DOMAIN d2[i].objs = DOMAIN d[i].objs
              /\ \A j \in DOMAIN d[i].objs : d2[i].objs[j] = New(d[i].objs[j])
    BY <1>1, <1>3, <1>4, SetBacksEntries
  <1>6. ASSUME NEW x \in AllObjs(d)
        PROVE  /\ New(x).model = x.model
               /\ \/ x.id # o.id /\ New(x) = x
                  \/ x = o /\ New(x).backs = backs
    <2>1. x \in Plan(B) /\ (x.id = o.id => x = o)
      BY <1>1 DEF Consistent
    <2> QED
      BY <2>1 DEF Rebacked, Plan
  <1> HIDE DEF New
  <1>7. ASSUME NEW i \in DOMAIN d2 PROVE d2[i].objs # <<>> /\ Solid(d2[i].objs)
    <2>1. i \in DOMAIN d /\ d[i].objs # <<>> /\ Solid(d[i].objs)
      BY <1>5 DEF SolidDict
    <2>2. /\ d[i].objs \in Seq(Plan(B)) /\ \A j \in DOMAIN d[i].objs : d[i].objs[j] \in AllObjs(d)
      BY <1>1, <2>1, DictEntries
    <2>3. d2[i].objs # <<>>
      <3>1. DOMAIN d[i].objs # {}
        BY <2>1, <2>2
      <3> QED
        BY <1>5, <2>1, <3>1
    <2>4. ASSUME NEW j \in DOMAIN d2[i].objs, IsFirst(d2[i].objs, j) PROVE d2[i].objs[j].backs # <<>>
      <3>1. j \in DOMAIN d[i].objs
        BY <1>5, <2>1
      <3>2. IsFirst(d[i].objs, j)
        <4>1. \A h \in 1 .. (j - 1) : h \in DOMAIN d[i].objs
          BY <2>2, <3>1
        <4>2. \A h \in DOMAIN d[i].objs : d2[i].objs[h].model = d[i].objs[h].model
          BY <1>5, <1>6, <2>1, <2>2
        <4> QED
          BY <2>4, <3>1, <4>1, <4>2 DEF IsFirst
      <3>3. d[i].objs[j].backs # <<>>
        BY <2>1, <3>1, <3>2 DEF Solid
      <3> QED
        BY <1>3, <1>5, <1>6, <2>1, <2>2, <3>1, <3>3
    <2> QED
      BY <2>3, <2>4 DEF Solid
  <1>8. Keys(d2) = Keys(d)
    BY <1>1, <1>5, DictKeys
  <1>9. ASSUME NEW k, NEW m, NEW y, Placed(d, k, m, y) PROVE Placed(d2, k, m, y)
    <2>1. PICK e \in ToSet(d) : e.key = k /\ \E x \in ToSet(e.objs) : x.model = m /\ y \in ToSet(x.backs)
      BY <1>9 DEF Placed
    <2>2. PICK i \in DOMAIN d : e = d[i]
      BY DEF ToSet
    <2>3. PICK j \in DOMAIN d[i].objs : d[i].objs[j].model = m /\ y \in ToSet(d[i].objs[j].backs)
      BY <2>1, <2>2 DEF ToSet
    <2>4. d[i].objs[j] \in AllObjs(d)
      BY <1>1, DictEntries
    <2>5. d2[i].objs[j].model = m /\ y \in ToSet(d2[i].objs[j].backs)
      BY <1>3, <1>5, <1>6, <2>3, <2>4
    <2>6. d2[i] \in ToSet(d2) /\ d2[i].key = k /\ d2[i].objs[j] \in ToSet(d2[i].objs)
      BY <1>5, <2>1, <2>2 DEF ToSet
    <2> QED
      BY <2>5, <2>6 DEF Placed
  <1>10. ASSUME NEW k, NEW m, NEW y, Placed(d2, k, m, y) PROVE Placed(d, k, m, y) \/ (m = o.model /\ y = b)
    <2>1. PICK e \in ToSet(d2) : e.key = k /\ \E x \in ToSet(e.objs) : x.model = m /\ y \in ToSet(x.backs)
      BY <1>10 DEF Placed
    <2>2. PICK i \in DOMAIN d : e = d2[i]
      BY <1>5 DEF ToSet
    <2>3. PICK j \in DOMAIN d[i].objs : d2[i].objs[j].model = m /\ y \in ToSet(d2[i].objs[j].backs)
      BY <1>5, <2>1, <2>2 DEF ToSet
    <2>4. d[i].objs[j] \in AllObjs(d)
      BY <1>1, DictEntries
    <2>5. d[i].objs[j].model = m /\ (y \in ToSet(d[i].objs[j].backs) \/ (m = o.model /\ y = b))
      BY <1>3, <1>5, <1>6, <2>3, <2>4
    <2>6. d[i] \in ToSet(d) /\ d[i].key = k /\ d[i].objs[j] \in ToSet(d[i].objs)
      BY <1>5, <2>1, <2>2 DEF ToSet
    <2> QED
      BY <2>5, <2>6 DEF Placed
  <1>11. ASSUME NEW e \in ToSet(d), o \in ToSet(e.objs) PROVE Placed(d2, e.key, o.model, b)
    <2>1. PICK i \in DOMAIN d : e = d[i]
      BY DEF ToSet
    <2>2. PICK j \in DOMAIN d[i].objs : d[i].objs[j] = o
      BY <1>11, <2>1 DEF ToSet
    <2>3. d2[i].objs[j].model = o.model /\ b \in ToSet(d2[i].objs[j].backs)
      BY <1>3, <1>5, <1>6, <2>2
    <2>4. d2[i] \in ToSet(d2) /\ d2[i].key = e.key /\ d2[i].objs[j] \in ToSet(d2[i].objs)
      BY <1>5, <2>1 DEF ToSet
    <2> QED
      BY <2>3, <2>4 DEF Placed
  <1>12. d2 \in SolidDict(K, B)
    BY <1>5, <1>7 DEF SolidDict
  <1>13. Added(d, d2, o.model, b)
    BY <1>9, <1>10 DEF Added
  <1> QED
    BY <1>8, <1>11, <1>12, <1>13

(* With pipelines of one model, two models of a session are the same.      *)
LEMMA OneModel ==
    ASSUME Alone, NEW k \in Key, NEW x \in ToSet(ModelsOf(k)), NEW y \in ToSet(ModelsOf(k))
    PROVE  x = y
  <1>1. Exceptions = {}
    BY DEF Alone, Exceptions
  <1> QED
    BY <1>1, SeveralModels

(* _add_scheduling_plan puts the session on the backend and adds nothing   *)
(* else.                                                                   *)
LEMMA AddPlan ==
    ASSUME NEW K \in SUBSET Key, NEW B, NEW d \in SolidDict(K, B), NEW k \in K, NEW m \in ToSet(ModelsOf(k)),
           NEW b \in B, NEW d2, d2 = AddSchedulingPlan(d, k, m, b)
    PROVE  /\ d2 \in SolidDict(K, B) /\ Added(d, d2, m, b)
           /\ Placed(d2, k, m, b)
  <1>1. d \in Dict(K, B) /\ k \in Key
    BY DEF SolidDict
  <1>2. CASE HasPlan(d, k, m)
    <2> DEFINE o == FirstPlan(d, k, m)
    <2>0. k \in Keys(d)
      <3>1. ObjsOf(d, k) \in Seq(Plan(B))
        BY <1>1, DictObjs
      <3>2. PlansFor(<<>>, m) = <<>>
        <4> DEFINE none == <<>>
        <4>1. none \in Seq(Plan(B)) /\ none = <<>> /\ DOMAIN none = {}
          OBVIOUS
        <4> HIDE DEF none
        <4>2. PlansFor(none, m) # <<>> => \E j \in DOMAIN none : none[j].model = m
          BY <4>1, PlansForModel
        <4> QED
          BY <4>1, <4>2
      <3> QED
        BY <1>1, <1>2, <3>2, DictKeys DEF HasPlan
    <2>1. PICK i \in DOMAIN d : d[i].key = k
      BY <1>1, <2>0, DictKeys
    <2>2. PICK j \in DOMAIN d[i].objs : o = d[i].objs[j] /\ d[i].objs[j].model = m
      BY <1>1, <1>2, <2>1, FirstPlanOf
    <2>3. o \in AllObjs(d) /\ o.model = m /\ o \in ToSet(d[i].objs) /\ d[i] \in ToSet(d)
      BY <1>1, <2>2, DictEntries DEF ToSet
    <2>4. d2 = SetBacks(d, o.id, Append(o.backs, b))
      BY <1>2 DEF AddSchedulingPlan
    <2> HIDE DEF o
    <2>5. /\ d2 \in SolidDict(K, B) /\ Keys(d2) = Keys(d) /\ Added(d, d2, o.model, b)
          /\ \A e \in ToSet(d) : o \in ToSet(e.objs) => Placed(d2, e.key, o.model, b)
      BY <2>3, <2>4, AppendBack
    <2> QED
      BY <2>0, <2>1, <2>3, <2>5
  <1>3. CASE ~ HasPlan(d, k, m)
    <2> DEFINE backs == <<b>>
    <2>1. backs \in Seq(B) /\ backs # <<>> /\ ToSet(backs) = {b}
      BY DEF ToSet
    <2>2. d2 = WithNew(d, k, m, backs)
      BY <1>3 DEF AddSchedulingPlan, WithNew
    <2> HIDE DEF backs
    <2>3. ASSUME Alone PROVE ObjsOf(d, k) = <<>>
      <3>1. ObjsOf(d, k) \in Seq(Plan(B)) /\ \A o \in ToSet(ObjsOf(d, k)) : o.model \in ToSet(ModelsOf(k))
        BY <1>1, DictObjs
      <3>2. \A o \in ToSet(ObjsOf(d, k)) : o.model # m
        BY <1>3, <3>1, PlansForModel DEF HasPlan
      <3>3. ToSet(ObjsOf(d, k)) = {}
        BY <1>1, <2>3, <3>1, <3>2, OneModel
      <3> QED
        BY <3>1, <3>3, EmptySet
    <2>4. /\ d2 \in SolidDict(K, B) /\ Keys(d2) = Keys(d) \cup {k}
          /\ NewlyPlaced(d, d2, k, m, backs)
      BY <2>1, <2>2, <2>3, AppendNew
    <2> QED
      BY <2>1, <2>4 DEF Added, NewlyPlaced
  <1> QED
    BY <1>2, <1>3

(* All of the sessions use model m.                                        *)
AllUse(ks, m) == \A i \in DOMAIN ks : m \in ToSet(ModelsOf(ks[i]))

(* The same for several sessions.                                          *)
LEMMA AddPlans ==
    ASSUME NEW K \in SUBSET Key, NEW B, NEW d \in SolidDict(K, B), NEW ks \in Seq(K), NEW m, AllUse(ks, m),
           NEW b \in B, NEW d2, d2 = AddSchedulingPlans(d, ks, m, b)
    PROVE  /\ d2 \in SolidDict(K, B) /\ Added(d, d2, m, b)
           /\ ks # <<>> => Placed(d2, ks[1], m, b)
  <1> DEFINE U == {x \in SolidDict(K, B) : Added(d, x, m, b)}
             n == Len(ks)
  <1>1. n \in Nat /\ DOMAIN ks = 1 .. n
    OBVIOUS
  <1>2. ASSUME NEW x \in U, NEW i \in 1 .. n
        PROVE  /\ AddSchedulingPlan(x, ks[i], m, b) \in U
               /\ Added(x, AddSchedulingPlan(x, ks[i], m, b), m, b)
               /\ Placed(AddSchedulingPlan(x, ks[i], m, b), ks[i], m, b)
    <2> DEFINE k == ks[i]
               y == AddSchedulingPlan(x, k, m, b)
    <2>1. k \in K /\ m \in ToSet(ModelsOf(k)) /\ x \in SolidDict(K, B) /\ Added(d, x, m, b)
      BY <1>1 DEF AllUse
    <2>4. y = AddSchedulingPlan(x, k, m, b)
      OBVIOUS
    <2> HIDE DEF k, y, U, n
    <2>2. y \in SolidDict(K, B) /\ Added(x, y, m, b) /\ Placed(y, k, m, b)
      BY <2>1, <2>4, AddPlan
    <2>3. Added(d, y, m, b)
      BY <2>1, <2>2, AddedTrans
    <2> QED
      BY <2>2, <2>3 DEF U, y, k
  <1>3. d \in U
    BY DEF Added
  <1> HIDE DEF U
  <1>4. PICK a \in [0 .. n -> U] :
           /\ a[0] = d
           /\ \A i \in 1 .. n : a[i] = AddSchedulingPlan(a[i - 1], ks[i], m, b)
           /\ d2 = a[n]
    BY <1>2, <1>3, AddSchedulingPlansSteps
  <1>5. d2 \in U
    BY <1>1, <1>4
  <1>6. ASSUME ks # <<>> PROVE Placed(d2, ks[1], m, b)
    <2> DEFINE k == ks[1]
               P == {i \in 0 .. n : i # 0 => Placed(a[i], k, m, b)}
    <2>1. 1 \in 1 .. n
      BY <1>1, <1>6
    <2>2. 0 \in P
      BY <1>1
    <2>3. ASSUME NEW i \in 1 .. n, i - 1 \in P PROVE i \in P
      <3>1. i - 1 \in 0 .. n /\ i \in 0 .. n
        BY <1>1
      <3>2. a[i - 1] \in U /\ a[i] = AddSchedulingPlan(a[i - 1], ks[i], m, b)
        BY <1>4, <3>1
      <3>3. Added(a[i - 1], a[i], m, b) /\ Placed(a[i], ks[i], m, b)
        BY <1>2, <3>2
      <3>4. CASE i = 1
        BY <3>1, <3>3, <3>4
      <3>5. CASE i # 1
        <4>1. i - 1 # 0
          BY <3>5
        <4>2. Placed(a[i - 1], k, m, b)
          BY <2>3, <4>1
        <4>3. Placed(a[i], k, m, b)
          BY <3>3, <4>2 DEF Added
        <4> QED
          BY <3>1, <4>3
      <3> QED
        BY <3>4, <3>5
    <2>4. \A i \in 1 .. n : i - 1 \in P => i \in P
      BY <2>3
    <2>5. n \in 0 .. n
      BY <1>1
    <2>6. n \in P
      <3> HIDE DEF P
      <3> QED
        BY <1>1, <2>2, <2>4, <2>5, UpTo
    <2> QED
      BY <1>1, <1>4, <2>1, <2>6
  <1> QED
    BY <1>5, <1>6 DEF U

(* _deploy_cmodel adds one backend for one model.                          *)
LEMMA DeployResult ==
    ASSUME NEW K \in SUBSET Key, NEW B \in SUBSET Backends, NEW R, NEW st \in State(SolidDict(K, B), R),
           NEW ks \in Seq(K), NEW m \in Models, AllUse(ks, m), NEW b \in B,
           NEW res, res = DeployCmodel(st, m, b, ks)
    PROVE  /\ res \in State(SolidDict(K, B), R) /\ res.unsched = st.unsched /\ res.raised = st.raised
           /\ Added(st.plans, res.plans, m, b)
           /\ ks # <<>> => Placed(res.plans, ks[1], m, b)
  <1> DEFINE d2 == AddSchedulingPlans(st.plans, ks, m, b)
             mem2 == TakeResource(st.mem, m, b)
  <1>1. /\ st.plans \in SolidDict(K, B) /\ st.unsched \in Unsched /\ st.mem \in [Backends -> Int]
        /\ st.raised \in SUBSET R
        /\ st = [plans |-> st.plans, unsched |-> st.unsched, mem |-> st.mem, raised |-> st.raised]
    BY StateFields
  <1>2. res = [st EXCEPT !.mem = mem2, !.plans = d2]
    BY DEF DeployCmodel
  <1>3. mem2 \in [Backends -> Int]
    <2>1. ModelMem[m] \in Nat /\ b \in Backends /\ st.mem[b] \in Int
      BY <1>1, PolicyAssumption
    <2> QED
      BY <1>1, <2>1 DEF TakeResource
  <1> HIDE DEF d2, mem2
  <1>4. d2 \in SolidDict(K, B) /\ Added(st.plans, d2, m, b) /\ (ks # <<>> => Placed(d2, ks[1], m, b))
    BY <1>1, AddPlans DEF d2
  <1>5. res = [plans |-> d2, unsched |-> st.unsched, mem |-> mem2, raised |-> st.raised]
    BY <1>1, <1>2
  <1> QED
    BY <1>1, <1>3, <1>4, <1>5 DEF State

-----------------------------------------------------------------------------
(* _deploy_new_pipelines.                                                  *)

(* Nothing is taken away, and only models in M are added.                  *)
More(d, d2, M) ==
    \A k, x, y : /\ Placed(d, k, x, y) => Placed(d2, k, x, y)
                 /\ Placed(d2, k, x, y) => Placed(d, k, x, y) \/ x \in M

(* More is transitive.                                                     *)
LEMMA MoreTrans ==
    ASSUME NEW d, NEW d2, NEW d3, NEW M, More(d, d2, M), More(d2, d3, M)
    PROVE  More(d, d3, M)
  BY DEF More

(* Adding a backend takes nothing away.                                    *)
LEMMA AddedMore ==
    ASSUME NEW d, NEW d2, NEW m, NEW b, NEW M, Added(d, d2, m, b), m \in M
    PROVE  More(d, d2, M)
  BY DEF Added, More

Placing(D, R) == [st : State(D, R), ok : BOOLEAN, new : Seq(Models \X Backends)]

(* The fields of the record _deploy_new_pipelines works on.                *)
LEMMA PlacingFields ==
    ASSUME NEW D, NEW R, NEW x \in Placing(D, R)
    PROVE  /\ x.st \in State(D, R) /\ x.ok \in BOOLEAN /\ x.new \in Seq(Models \X Backends)
           /\ x = [st |-> x.st, ok |-> x.ok, new |-> x.new]
  BY DEF Placing

(* A model that no plan names is placed, or the pipeline fails.            *)
LEMMA PlaceModelResult ==
    ASSUME NEW K \in SUBSET Key, NEW cur \in Seq(Backends), NEW B, B = ToSet(cur),
           NEW R, NEW x \in Placing(SolidDict(K, B), R),
           NEW ks \in Seq(K), NEW m \in Models, AllUse(ks, m),
           NEW y, y = PlaceModel(x, m, ks, cur)
    PROVE  /\ y \in Placing(SolidDict(K, B), R)
           /\ y.st.unsched = x.st.unsched /\ y.st.raised = x.st.raised
           /\ \A M : m \in M => More(x.st.plans, y.st.plans, M)
           /\ y.ok \/ y = [x EXCEPT !.ok = FALSE]
  <1> DEFINE b == ChosenBackend(x.st, m, cur)
  <1>1. /\ x.st \in State(SolidDict(K, B), R) /\ x.ok \in BOOLEAN /\ x.new \in Seq(Models \X Backends)
        /\ x = [st |-> x.st, ok |-> x.ok, new |-> x.new]
    BY PlacingFields
  <1>2. B \in SUBSET Backends
    BY DEF ToSet
  <1>3. \A M : More(x.st.plans, x.st.plans, M)
    BY DEF More
  <1>4. CASE ~ x.ok
    <2>1. y = x
      BY <1>4 DEF PlaceModel
    <2>2. x = [x EXCEPT !.ok = FALSE]
      BY <1>1, <1>4
    <2> QED
      BY <1>3, <2>1, <2>2
  <1>5. CASE x.ok /\ b = NoBackend
    <2>1. y = [x EXCEPT !.ok = FALSE]
      BY <1>5 DEF PlaceModel
    <2>2. y = [st |-> x.st, ok |-> FALSE, new |-> x.new]
      BY <1>1, <2>1
    <2> QED
      BY <1>1, <1>3, <2>1, <2>2 DEF Placing
  <1>6. CASE x.ok /\ b # NoBackend
    <2> DEFINE st2 == DeployCmodel(x.st, m, b, ks)
               new2 == Append(x.new, <<m, b>>)
    <2>1. y = [x EXCEPT !.st = st2, !.new = new2]
      BY <1>6 DEF PlaceModel
    <2> HIDE DEF b
    <2>2. b \in B /\ b \in Backends
      BY <1>6, ChosenIn DEF b
    <2>6. new2 \in Seq(Models \X Backends)
      <3> DEFINE pair == <<m, b>>
                 S == Models \X Backends
      <3>1. pair \in S /\ x.new \in Seq(S)
        BY <1>1, <2>2
      <3> HIDE DEF pair, S
      <3>2. Append(x.new, pair) \in Seq(S)
        BY <3>1
      <3> QED
        BY <3>2 DEF pair, S
    <2>7. st2 = DeployCmodel(x.st, m, b, ks)
      OBVIOUS
    <2> HIDE DEF st2, new2
    <2>3. /\ st2 \in State(SolidDict(K, B), R) /\ st2.unsched = x.st.unsched /\ st2.raised = x.st.raised
          /\ Added(x.st.plans, st2.plans, m, b)
      BY <1>1, <1>2, <2>2, <2>7, DeployResult
    <2>4. y = [st |-> st2, ok |-> x.ok, new |-> new2]
      BY <1>1, <2>1
    <2>5. \A M : m \in M => More(x.st.plans, st2.plans, M)
      BY <2>3, AddedMore
    <2> QED
      BY <1>1, <1>6, <2>3, <2>4, <2>5, <2>6 DEF Placing
  <1> QED
    BY <1>1, <1>4, <1>5, <1>6

(* The models of a pipeline are placed one after the other; a single one   *)
(* that fails leaves nothing to undo.                                      *)
LEMMA PlaceModelsResult ==
    ASSUME NEW K \in SUBSET Key, NEW cur \in Seq(Backends), NEW B, B = ToSet(cur),
           NEW R, NEW st \in State(SolidDict(K, B), R),
           NEW ks \in Seq(K), NEW ms \in Seq(Models), \A i \in DOMAIN ms : AllUse(ks, ms[i]),
           NEW res, res = PlaceModels(st, ms, ks, cur)
    PROVE  /\ res \in Placing(SolidDict(K, B), R)
           /\ res.st.unsched = st.unsched /\ res.st.raised = st.raised
           /\ More(st.plans, res.st.plans, ToSet(ms))
           /\ Len(ms) <= 1 /\ ~ res.ok => res.new = <<>> /\ res.st = st
  <1> DEFINE x0 == Start(st)
             M == ToSet(ms)
             U == {x \in Placing(SolidDict(K, B), R) :
                      /\ x.st.unsched = st.unsched /\ x.st.raised = st.raised
                      /\ More(st.plans, x.st.plans, M)}
             n == Len(ms)
  <1>1. n \in Nat /\ DOMAIN ms = 1 .. n
    OBVIOUS
  <1>2. x0 \in Placing(SolidDict(K, B), R) /\ x0.st = st /\ x0.new = <<>> /\ x0.ok
    BY DEF Placing, Start
  <1>2a. x0 = [st |-> st, ok |-> TRUE, new |-> <<>>]
    BY DEF Start
  <1>2b. x0 = Start(st)
    OBVIOUS
  <1>3. x0 \in U
    <2>1. More(st.plans, st.plans, M)
      BY DEF More
    <2> HIDE DEF x0
    <2> QED
      BY <1>2, <2>1
  <1>4. ASSUME NEW x \in U, NEW i \in 1 .. n
        PROVE  /\ PlaceModel(x, ms[i], ks, cur) \in U
               /\ PlaceModel(x, ms[i], ks, cur).ok \/ PlaceModel(x, ms[i], ks, cur) = [x EXCEPT !.ok = FALSE]
    <2> DEFINE m == ms[i]
               y == PlaceModel(x, m, ks, cur)
    <2>1. m \in Models /\ AllUse(ks, m) /\ m \in M
      BY <1>1 DEF ToSet
    <2>2. /\ x \in Placing(SolidDict(K, B), R) /\ x.st.unsched = st.unsched /\ x.st.raised = st.raised
          /\ More(st.plans, x.st.plans, M)
      OBVIOUS
    <2>3. y = PlaceModel(x, m, ks, cur)
      OBVIOUS
    <2> HIDE DEF m, y, U, M, n
    <2>4. /\ y \in Placing(SolidDict(K, B), R)
          /\ y.st.unsched = x.st.unsched /\ y.st.raised = x.st.raised
          /\ \A M2 : m \in M2 => More(x.st.plans, y.st.plans, M2)
          /\ y.ok \/ y = [x EXCEPT !.ok = FALSE]
      BY <2>1, <2>2, <2>3, PlaceModelResult
    <2>5. More(st.plans, y.st.plans, M)
      BY <2>1, <2>2, <2>4, MoreTrans
    <2> QED
      BY <2>2, <2>4, <2>5 DEF U, y, m
  <1> HIDE DEF U, M
  <1>4a. \A x \in U : \A i \in 1 .. Len(ms) : PlaceModel(x, ms[i], ks, cur) \in U
    BY <1>4
  <1>4b. ms \in Seq(Models)
    OBVIOUS
  <1>4d. Start(st) \in U
    BY <1>2b, <1>3
  <1> HIDE DEF x0
  <1>4c. PICK a \in [0 .. Len(ms) -> U] :
           /\ a[0] = Start(st)
           /\ \A i \in 1 .. Len(ms) : a[i] = PlaceModel(a[i - 1], ms[i], ks, cur)
           /\ PlaceModels(st, ms, ks, cur) = a[Len(ms)]
    BY <1>4a, <1>4b, <1>4d, PlaceModelsSteps
  <1>5. /\ a \in [0 .. n -> U] /\ a[0] = x0 /\ res = a[n]
        /\ \A i \in 1 .. n : a[i] = PlaceModel(a[i - 1], ms[i], ks, cur)
    BY <1>2b, <1>4c DEF n
  <1> HIDE DEF x0, n
  <1>6. res \in U
    BY <1>1, <1>5
  <1>7. ASSUME n <= 1, ~ res.ok PROVE res.new = <<>> /\ res.st = st
    <2>1. n = 1
      <3> SUFFICES ASSUME n = 0 PROVE FALSE
        BY <1>1, <1>7
      <3> QED
        BY <1>2, <1>5, <1>7
    <2>2. res = PlaceModel(a[0], ms[1], ks, cur)
      <3>1. 1 \in 1 .. n
        BY <2>1
      <3>2. a[1] = PlaceModel(a[1 - 1], ms[1], ks, cur) /\ 1 - 1 = 0
        BY <1>5, <3>1
      <3>3. res = a[1]
        BY <1>5, <2>1
      <3> QED
        BY <3>2, <3>3
    <2>3. res.ok \/ res = [x0 EXCEPT !.ok = FALSE]
      <3>1. x0 \in U /\ 1 \in 1 .. n /\ a[0] = x0
        BY <1>3, <1>5, <2>1
      <3> QED
        BY <1>4, <2>2, <3>1
    <2>4. res = [x0 EXCEPT !.ok = FALSE]
      BY <1>7, <2>3
    <2>5. res.new = x0.new /\ res.st = x0.st
      BY <2>4, <1>2a
    <2> QED
      BY <1>2, <2>5
  <1> QED
    BY <1>6, <1>7 DEF U, M

-----------------------------------------------------------------------------
(* Shared plans.                                                           *)

(* Two solid sequences of plans make a solid one.                          *)
LEMMA SolidConcat ==
    ASSUME NEW B, NEW s \in Seq(Plan(B)), NEW t \in Seq(Plan(B)), Solid(s), Solid(t)
    PROVE  Solid(s \o t)
  <1> DEFINE r == s \o t
  <1>1. /\ DOMAIN s = 1 .. Len(s) /\ DOMAIN t = 1 .. Len(t)
        /\ DOMAIN r = 1 .. (Len(s) + Len(t)) /\ Len(s) \in Nat /\ Len(t) \in Nat
        /\ \A i \in 1 .. (Len(s) + Len(t)) : r[i] = IF i <= Len(s) THEN s[i] ELSE t[i - Len(s)]
    BY ConcatProperties
  <1> HIDE DEF r
  <1> SUFFICES ASSUME NEW j \in DOMAIN r, IsFirst(r, j) PROVE r[j].backs # <<>>
    BY DEF Solid, r
  <1>2. CASE j <= Len(s)
    <2>1. j \in DOMAIN s /\ \A h \in 1 .. (j - 1) : h \in DOMAIN r /\ r[h] = s[h]
      BY <1>1, <1>2
    <2>2. r[j] = s[j]
      BY <1>1, <1>2
    <2>3. IsFirst(s, j)
      BY <2>1, <2>2 DEF IsFirst
    <2> QED
      BY <2>1, <2>2, <2>3 DEF Solid
  <1>3. CASE ~ (j <= Len(s))
    <2> DEFINE i == j - Len(s)
    <2>1. i \in DOMAIN t /\ r[j] = t[i]
      BY <1>1, <1>3
    <2>2. \A h \in 1 .. (i - 1) : h + Len(s) \in 1 .. (j - 1) /\ r[h + Len(s)] = t[h]
      BY <1>1, <1>3, SMTT(30)
    <2> HIDE DEF i
    <2>3. IsFirst(t, i)
      BY <2>1, <2>2 DEF IsFirst
    <2> QED
      BY <2>1, <2>3 DEF Solid
  <1> QED
    BY <1>2, <1>3

(* The plans for one model of a solid sequence are solid.                  *)
LEMMA SolidPlansFor ==
    ASSUME NEW B, NEW objs \in Seq(Plan(B)), Solid(objs), NEW m
    PROVE  Solid(PlansFor(objs, m))
  <1> DEFINE s == PlansFor(objs, m)
  <1>1. s \in Seq(Plan(B)) /\ ToSet(s) = {o \in ToSet(objs) : o.model = m}
    BY PlansForModel
  <1>2. s # <<>> => \E j \in DOMAIN objs : /\ s[1] = objs[j]
                                           /\ objs[j].model = m /\ IsFirst(objs, j)
    BY PlansForModel
  <1> HIDE DEF s
  <1>3. DOMAIN s = 1 .. Len(s) /\ Len(s) \in Nat /\ \A i \in DOMAIN s : s[i].model = m
    BY <1>1 DEF ToSet
  <1> SUFFICES ASSUME NEW j \in DOMAIN s, IsFirst(s, j) PROVE s[j].backs # <<>>
    BY DEF Solid, s
  <1>4. j = 1
    <2> SUFFICES ASSUME j # 1 PROVE FALSE
      OBVIOUS
    <2>1. 1 \in 1 .. (j - 1) /\ 1 \in DOMAIN s
      BY <1>3
    <2> QED
      BY <1>3, <2>1 DEF IsFirst
  <1>5. s # <<>>
    BY <1>3
  <1> QED
    BY <1>2, <1>4, <1>5 DEF Solid

(* Sequences of plans of d for the models in M, to be given to a session.  *)
Shareable(d, M, B) ==
    {s \in Seq(Plan(B)) : Solid(s) /\ \A o \in ToSet(s) : o \in AllObjs(d) /\ o.model \in M}

(* Concatenation keeps plans shareable.                                    *)
LEMMA ShareableConcat ==
    ASSUME NEW d, NEW M, NEW B, NEW ss \in Seq(Shareable(d, M, B))
    PROVE  Concat(ss) \in Shareable(d, M, B)
  <1> DEFINE U == Shareable(d, M, B)
  <1>1. <<>> \in U
    BY DEF Shareable, Solid, ToSet
  <1>2. ASSUME NEW u \in U, NEW v \in U PROVE u \o v \in U
    <2>1. u \in Seq(Plan(B)) /\ v \in Seq(Plan(B)) /\ Solid(u) /\ Solid(v)
      BY DEF Shareable
    <2>2. u \o v \in Seq(Plan(B)) /\ ToSet(u \o v) = ToSet(u) \cup ToSet(v)
      BY <2>1, ToSetOfConcat
    <2>3. Solid(u \o v)
      BY <2>1, SolidConcat
    <2>4. \A o \in ToSet(u) \cup ToSet(v) : o \in AllObjs(d) /\ o.model \in M
      BY DEF Shareable
    <2> QED
      BY <2>2, <2>3, <2>4 DEF Shareable
  <1> HIDE DEF U
  <1>3. ss \in Seq(U)
    BY DEF U
  <1>4. Concat(ss) \in U
    BY <1>1, <1>2, <1>3, ConcatClosed
  <1> QED
    BY <1>4 DEF U

(* The plans for a model of all sessions can be shared.                    *)
LEMMA AllPlansShareable ==
    ASSUME NEW K, NEW B, NEW d \in SolidDict(K, B), NEW M, NEW m \in M
    PROVE  AllPlansFor(d, m) \in Shareable(d, M, B)
  <1> DEFINE ss == [i \in DOMAIN d |-> PlansFor(d[i].objs, m)]
  <1>1. d \in Dict(K, B)
    BY DEF SolidDict
  <1>2. DOMAIN d = 1 .. Len(d) /\ Len(d) \in Nat
    BY <1>1 DEF Dict
  <1>3. ASSUME NEW i \in DOMAIN d PROVE PlansFor(d[i].objs, m) \in Shareable(d, M, B)
    <2>1. d[i].objs \in Seq(Plan(B)) /\ ToSet(d[i].objs) \subseteq AllObjs(d)
      BY <1>1, DictEntries
    <2>2. Solid(d[i].objs)
      BY DEF SolidDict
    <2>3. Solid(PlansFor(d[i].objs, m))
      BY <2>1, <2>2, SolidPlansFor
    <2>4. /\ PlansFor(d[i].objs, m) \in Seq(Plan(B))
          /\ ToSet(PlansFor(d[i].objs, m)) = {o \in ToSet(d[i].objs) : o.model = m}
      BY <2>1, PlansForModel
    <2>5. \A o \in ToSet(PlansFor(d[i].objs, m)) : o \in AllObjs(d) /\ o.model \in M
      BY <2>1, <2>4
    <2> QED
      BY <2>3, <2>4, <2>5 DEF Shareable
  <1>4. ss \in Seq(Shareable(d, M, B))
    BY <1>2, <1>3
  <1>5. AllPlansFor(d, m) = Concat(ss)
    BY DEF AllPlansFor
  <1> HIDE DEF ss
  <1> QED
    BY <1>4, <1>5, ShareableConcat

(* A session that gets shared plans keeps a solid entry.                   *)
LEMMA ShareWithResult ==
    ASSUME NEW K \in SUBSET Key, NEW B, NEW d \in SolidDict(K, B), NEW k \in K,
           NEW objs \in Shareable(d, ToSet(ModelsOf(k)), B), objs # <<>>, ~ Alone,
           NEW d2, d2 = ShareWith(d, k, objs)
    PROVE  d2 \in SolidDict(K, B) /\ ToSet(objs) \subseteq AllObjs(d2)
  <1> DEFINE old == ObjsOf(d, k)
             new == old \o objs
  <1>1. d \in Dict(K, B) /\ objs \in Seq(Plan(B)) /\ Solid(objs)
    BY DEF SolidDict, Shareable
  <1>2. \A o \in ToSet(objs) : o \in AllObjs(d) /\ o.model \in ToSet(ModelsOf(k))
    BY DEF Shareable
  <1>3. old \in Seq(Plan(B)) /\ ToSet(old) \subseteq AllObjs(d) /\ Own(k, old)
    BY <1>1, DictObjs
  <1>4. Solid(old)
    <2>1. CASE k \in Keys(d)
      <3>1. PICK i \in DOMAIN d : d[i].key = k
        BY <1>1, <2>1, DictKeys
      <3>2. old = d[i].objs
        BY <1>1, <3>1, DictKeys
      <3> QED
        BY <3>2 DEF SolidDict
    <2>2. CASE k \notin Keys(d)
      <3>1. old = <<>>
        BY <1>1, <2>2, DictKeys
      <3> QED
        BY <3>1 DEF Solid
    <2> QED
      BY <2>1, <2>2
  <1>5. d2 = SetObjs(d, k, new)
    BY DEF ShareWith
  <1> HIDE DEF old
  <1>6. new \in Seq(Plan(B)) /\ ToSet(new) = ToSet(old) \cup ToSet(objs)
    BY <1>1, <1>3, ToSetOfConcat
  <1>7. Solid(new)
    BY <1>1, <1>3, <1>4, SolidConcat
  <1>8. new # <<>>
    <2>1. ToSet(objs) # {}
      BY <1>1, EmptySet
    <2> QED
      BY <1>6, <2>1, EmptySet
  <1> HIDE DEF new
  <1>9. Fits(d, k, new, B)
    <2>1. Own(k, new)
      BY <1>2, <1>3, <1>6 DEF Own
    <2>2. AllObjs(d) \cup ToSet(new) = AllObjs(d)
      BY <1>2, <1>3, <1>6
    <2>3. Consistent(AllObjs(d))
      BY <1>1 DEF Dict
    <2> QED
      BY <1>6, <2>1, <2>2, <2>3 DEF Fits
  <1>10. d2 \in Dict(K, B) /\ Replaced(d, d2, k, new)
    BY <1>1, <1>5, <1>9, SetObjsFit
  <1> DEFINE e0 == [key |-> k, objs |-> new]
  <1>11. e0.objs = new
    OBVIOUS
  <1>12. ToSet(d2) = {e \in ToSet(d) : e.key # k} \cup {e0}
    BY <1>10 DEF Replaced
  <1> HIDE DEF e0
  <1>13. \A e \in ToSet(d2) : e.objs # <<>> /\ Solid(e.objs)
    <2>1. \A e \in ToSet(d) : e.objs # <<>> /\ Solid(e.objs)
      BY DEF SolidDict, ToSet
    <2> QED
      BY <1>7, <1>8, <1>11, <1>12, <2>1
  <1>14. d2 \in SolidDict(K, B)
    BY <1>10, <1>13 DEF SolidDict, ToSet
  <1>15. ToSet(objs) \subseteq AllObjs(d2)
    <2>1. PICK i \in DOMAIN d2 : d2[i] = e0
      BY <1>12 DEF ToSet
    <2>2. ToSet(d2[i].objs) \subseteq AllObjs(d2)
      BY <1>10, DictEntries
    <2> QED
      BY <1>6, <1>11, <2>1, <2>2
  <1> QED
    BY <1>14, <1>15

(* Every session of ks is one of a pipeline with the models M.             *)
SamePipeline(ks, M) == \A i \in DOMAIN ks : ToSet(ModelsOf(ks[i])) = M

(* The same for several sessions.                                          *)
LEMMA SharePlansResult ==
    ASSUME NEW K \in SUBSET Key, NEW B, NEW d \in SolidDict(K, B), NEW ks \in Seq(K), NEW M,
           SamePipeline(ks, M), NEW objs \in Shareable(d, M, B), objs = <<>> \/ ~ Alone,
           NEW d2, d2 = SharePlans(d, ks, objs)
    PROVE  /\ d2 \in SolidDict(K, B)
           /\ objs = <<>> => d2 = d
  <1> DEFINE U == IF objs = <<>> THEN {d} ELSE {x \in SolidDict(K, B) : ToSet(objs) \subseteq AllObjs(x)}
  <1>1. d \in U
    BY DEF Shareable
  <1>2. ASSUME NEW x \in U, NEW i \in 1 .. Len(ks) PROVE ShareWith(x, ks[i], objs) \in U
    <2>1. CASE objs = <<>>
      BY <2>1 DEF ShareWith
    <2>2. CASE objs # <<>>
      <3> DEFINE k == ks[i]
                 y == ShareWith(x, k, objs)
      <3>1. x \in SolidDict(K, B) /\ ToSet(objs) \subseteq AllObjs(x) /\ k \in K /\ ToSet(ModelsOf(k)) = M
        BY <2>2 DEF SamePipeline
      <3>2. objs \in Shareable(x, ToSet(ModelsOf(k)), B)
        BY <3>1 DEF Shareable
      <3>3. y = ShareWith(x, k, objs) /\ ~ Alone
        BY <2>2
      <3> HIDE DEF k, y, U
      <3>4. y \in SolidDict(K, B) /\ ToSet(objs) \subseteq AllObjs(y)
        BY <2>2, <3>1, <3>2, <3>3, ShareWithResult
      <3> QED
        BY <2>2, <3>4 DEF U, y, k
    <2> QED
      BY <2>1, <2>2
  <1> HIDE DEF U
  <1>3. d2 \in U
    BY <1>1, <1>2, SharePlansIn
  <1> QED
    BY <1>3 DEF U

(* The keys of a list of requests.                                         *)
LEMMA RequestKeys ==
    ASSUME NEW reqs \in Seq(Request)
    PROVE  /\ Keys(reqs) \subseteq Key /\ KeySeq(reqs) \in Seq(Keys(reqs))
           /\ ToSet(KeySeq(reqs)) = Keys(reqs) /\ DOMAIN KeySeq(reqs) = DOMAIN reqs
           /\ DOMAIN reqs = 1 .. Len(reqs) /\ Len(reqs) \in Nat
           /\ \A i \in DOMAIN reqs : KeySeq(reqs)[i] = reqs[i].key /\ reqs[i].key \in Keys(reqs)
                                     /\ reqs[i].fps \in Nat
  <1>1. DOMAIN reqs = 1 .. Len(reqs) /\ Len(reqs) \in Nat /\ \A i \in DOMAIN reqs : reqs[i] \in Request
    OBVIOUS
  <1>2. \A i \in DOMAIN reqs : reqs[i].key \in Key /\ reqs[i].fps \in Nat
    BY <1>1 DEF Request
  <1>3. \A i \in DOMAIN reqs : reqs[i].key \in Keys(reqs)
    BY DEF Keys
  <1>4. KeySeq(reqs) \in Seq(Keys(reqs)) /\ DOMAIN KeySeq(reqs) = DOMAIN reqs
    BY <1>1, <1>3 DEF KeySeq
  <1>5. \A i \in DOMAIN reqs : KeySeq(reqs)[i] = reqs[i].key
    BY DEF KeySeq
  <1>6. ToSet(KeySeq(reqs)) = Keys(reqs)
    BY <1>4, <1>5 DEF ToSet, Keys
  <1>7. Keys(reqs) \subseteq Key
    BY <1>2 DEF Keys
  <1> QED
    BY <1>1, <1>2, <1>3, <1>4, <1>5, <1>6, <1>7

(* Only never makes a sequence longer.                                     *)
LEMMA OnlyShorter ==
    ASSUME NEW T, NEW s \in Seq(T), NEW S
    PROVE  Len(Only(s, S)) <= Len(s) /\ Len(Only(s, S)) \in Nat
  <1> DEFINE I == {i \in DOMAIN s : s[i] \in S}
             n == Len(s)
  <1>1. n \in Nat /\ DOMAIN s = 1 .. n /\ I \in SUBSET DOMAIN s
    OBVIOUS
  <1> HIDE DEF I, n
  <1>2. IsFiniteSet(1 .. n) /\ Cardinality(1 .. n) = n
    BY <1>1, FS_Interval
  <1>3. IsFiniteSet(I) /\ Cardinality(I) <= Cardinality(1 .. n) /\ Cardinality(I) \in Nat
    BY <1>1, <1>2, FS_Subset, FS_CardinalityType
  <1>4. Len(At(s, I)) = Cardinality(I)
    BY <1>1, AtElements
  <1> QED
    BY <1>2, <1>3, <1>4 DEF Only, I, n

(* Nothing to remove: nothing changes.                                     *)
LEMMA RemoveNone ==
    ASSUME NEW st, NEW g
    PROVE  RemoveEach(st, <<>>, g) = st
  <1> DEFINE U == {st}
             xs == <<>>
  <1>1. st \in U /\ xs \in Seq(Models) /\ \A u \in U : \A i \in 1 .. Len(xs) : RemoveCmodelFromBackend(u, xs[i][1], xs[i][2], g) \in U
    OBVIOUS
  <1> HIDE DEF U, xs
  <1>2. RemoveEach(st, xs, g) \in U
    BY <1>1, RemoveEachIn
  <1> QED
    BY <1>2 DEF U, xs

(* The model m is named by a plan.                                         *)
Named(d, m) == \E o \in AllObjs(d) : o.model = m

(* In a solid dictionary a model is named when a session is placed with    *)
(* it.                                                                     *)
LEMMA NamedPlaced ==
    ASSUME NEW K, NEW B, NEW d \in SolidDict(K, B), NEW m
    PROVE  Named(d, m) <=> \E k, b : Placed(d, k, m, b)
  <1>1. d \in Dict(K, B)
    BY DEF SolidDict
  <1>2. ASSUME NEW o \in AllObjs(d), o.model = m PROVE \E k, b : Placed(d, k, m, b)
    <2>1. PICK i \in DOMAIN d : o \in ToSet(d[i].objs)
      BY <1>1, DictObjs
    <2>2. d[i].objs \in Seq(Plan(B)) /\ d[i] \in ToSet(d) /\ Solid(d[i].objs)
      BY <1>1, DictEntries DEF SolidDict
    <2> DEFINE objs == d[i].objs
               I == {h \in DOMAIN objs : objs[h].model = m}
    <2>3. DOMAIN objs = 1 .. Len(objs) /\ Len(objs) \in Nat
      BY <2>2
    <2>4. I # {} /\ I \in SUBSET Nat
      BY <1>2, <2>1, <2>3 DEF ToSet
    <2>5. PICK j \in I : \A h \in I : j <= h
      BY <2>4, LeastElement
    <2>6. IsFirst(objs, j)
      <3> SUFFICES ASSUME NEW h \in 1 .. (j - 1), objs[h].model = objs[j].model PROVE FALSE
        BY DEF IsFirst
      <3>1. j \in 1 .. Len(objs) /\ objs[j].model = m
        BY <2>3, <2>5
      <3>2. h \in DOMAIN objs /\ h < j
        BY <2>3, <3>1
      <3>3. h \in I
        BY <3>1, <3>2
      <3> QED
        BY <2>3, <2>5, <3>1, <3>2, <3>3
    <2>7. objs[j].backs # <<>> /\ objs[j] \in Plan(B) /\ objs[j].model = m /\ objs[j] \in ToSet(objs)
      BY <2>2, <2>5, <2>6 DEF Solid, ToSet
    <2>8. objs[j].backs \in Seq(B)
      BY <2>7 DEF Plan
    <2>9. PICK b : b \in ToSet(objs[j].backs)
      BY <2>7, <2>8, EmptySet
    <2> QED
      BY <2>2, <2>7, <2>9 DEF Placed
  <1>3. ASSUME NEW k, NEW b, Placed(d, k, m, b) PROVE Named(d, m)
    <2>1. PICK e \in ToSet(d) : \E o \in ToSet(e.objs) : o.model = m
      BY <1>3 DEF Placed
    <2>2. PICK i \in DOMAIN d : e = d[i]
      BY DEF ToSet
    <2>3. ToSet(d[i].objs) \subseteq AllObjs(d)
      BY <1>1, DictEntries
    <2> QED
      BY <2>1, <2>2, <2>3 DEF Named
  <1> QED
    BY <1>2, <1>3 DEF Named

SessionsOf(p, reqs) == At(KeySeq(reqs), {i \in DOMAIN reqs : reqs[i].key[1] = p})

(* The sessions of a pipeline have its models.                             *)
LEMMA SessionsOfPipeline ==
    ASSUME NEW reqs \in Seq(Request), NEW p
    PROVE  /\ SessionsOf(p, reqs) \in Seq(Keys(reqs))
           /\ SamePipeline(SessionsOf(p, reqs), ToSet(PipelineModels[p]))
           /\ \A m \in ToSet(PipelineModels[p]) : AllUse(SessionsOf(p, reqs), m)
  <1> DEFINE s == KeySeq(reqs)
             I == {i \in DOMAIN reqs : reqs[i].key[1] = p}
             ks == At(s, I)
  <1>1. s \in Seq(Keys(reqs)) /\ DOMAIN s = DOMAIN reqs /\ \A i \in DOMAIN reqs : s[i] = reqs[i].key
    BY RequestKeys
  <1>2. I \in SUBSET DOMAIN s /\ \A i \in I : s[i][1] = p
    BY <1>1
  <1> HIDE DEF s, I
  <1>3. ks \in Seq(Keys(reqs)) /\ ToSet(ks) = {s[i] : i \in I}
    BY <1>1, <1>2, AtElements
  <1>4. ks = SessionsOf(p, reqs)
    BY DEF SessionsOf, s, I
  <1> HIDE DEF ks
  <1>5. \A i \in DOMAIN ks : ks[i][1] = p
    <2>1. \A i \in DOMAIN ks : ks[i] \in ToSet(ks)
      BY DEF ToSet
    <2> QED
      BY <1>2, <1>3, <2>1
  <1>6. \A i \in DOMAIN ks : ModelsOf(ks[i]) = PipelineModels[p]
    BY <1>5 DEF ModelsOf
  <1>7. SamePipeline(ks, ToSet(PipelineModels[p])) /\ \A m \in ToSet(PipelineModels[p]) : AllUse(ks, m)
    BY <1>6 DEF SamePipeline, AllUse
  <1> QED
    BY <1>3, <1>4, <1>7

(* The plans _deploy_new_pipelines shares are shareable.                   *)
LEMMA SharedPlans ==
    ASSUME NEW K, NEW B, NEW d \in SolidDict(K, B), NEW M, NEW ms \in Seq(M),
           NEW objs, objs = Concat([i \in DOMAIN ms |-> AllPlansFor(d, ms[i])])
    PROVE  /\ objs \in Shareable(d, M, B)
           /\ ms = <<>> => objs = <<>>
  <1> DEFINE ss == [i \in DOMAIN ms |-> AllPlansFor(d, ms[i])]
  <1>1. \A i \in DOMAIN ms : AllPlansFor(d, ms[i]) \in Shareable(d, M, B)
    BY AllPlansShareable
  <1>2. ss \in Seq(Shareable(d, M, B)) /\ (ms = <<>> => ss = <<>>)
    BY <1>1
  <1>3. objs = Concat(ss)
    OBVIOUS
  <1> HIDE DEF ss
  <1>4. objs \in Shareable(d, M, B)
    BY <1>2, <1>3, ShareableConcat
  <1>5. ASSUME ss = <<>> PROVE objs = <<>>
    <2>1. <<>> \in Seq(Seq(Plan(B))) /\ DOMAIN <<>> = {}
      OBVIOUS
    <2>2. Concat(<<>>) \in Seq(Plan(B)) /\ ToSet(Concat(<<>>)) = {}
      BY <2>1, ConcatElements
    <2> QED
      BY <1>3, <1>5, <2>2, EmptySet
  <1> QED
    BY <1>2, <1>4, <1>5

(* The session dictionary has no plan for a model of pipeline p.           *)
NewPipeline(d, p) == \A m \in ToSet(PipelineModels[p]) : ~ Named(d, m)

(* A new pipeline has no model to share.                                   *)
LEMMA ExistingNone ==
    ASSUME NEW d, NEW p \in Pipelines, NewPipeline(d, p)
    PROVE  Only(PipelineModels[p], {o.model : o \in AllObjs(d)}) = <<>>
  <1>1. PipelineModels[p] \in Seq(Models)
    BY PolicyAssumption
  <1>2. ToSet(PipelineModels[p]) \cap {o.model : o \in AllObjs(d)} = {}
    BY DEF NewPipeline, Named
  <1> QED
    BY <1>1, <1>2, OnlyElements

(* One pipeline of _deploy_new_pipelines: the dictionary stays solid, and  *)
(* a pipeline with a model of its own takes nothing away.                  *)
LEMMA DeployPipelineResult ==
    ASSUME NEW K \in SUBSET Key, NEW cur \in Seq(Backends), NEW B, B = ToSet(cur),
           NEW R, Exceptions \subseteq R, NEW st \in State(SolidDict(K, B), R), NEW p \in Pipelines,
           NEW reqs \in Seq(Request), Keys(reqs) \subseteq K, Alone => NewPipeline(st.plans, p),
           NEW res, res = DeployPipeline(st, p, reqs, cur)
    PROVE  /\ res \in State(SolidDict(K, B), R)
           /\ Alone => res.unsched = st.unsched /\ More(st.plans, res.plans, ToSet(PipelineModels[p]))
  <1> DEFINE ks == SessionsOf(p, reqs)
             M == ToSet(PipelineModels[p])
             named == {o.model : o \in AllObjs(st.plans)}
             existing == Only(PipelineModels[p], named)
             ms == Only(PipelineModels[p], Models \ named)
             mid == PlaceModels(st, ms, ks, cur)
             shared == Concat([i \in DOMAIN existing |-> AllPlansFor(mid.st.plans, existing[i])])
             after == SharePlans(mid.st.plans, ks, shared)
  <1>1. res = IF mid.ok THEN [mid.st EXCEPT !.plans = after] ELSE RemoveEach(mid.st, mid.new, FALSE)
    BY DEF DeployPipeline, SessionsOf
  <1>2. PipelineModels[p] \in Seq(Models)
    BY PolicyAssumption
  <1>3. ks \in Seq(K) /\ SamePipeline(ks, M) /\ \A m \in M : AllUse(ks, m)
    <2>1. ks \in Seq(Keys(reqs)) /\ SamePipeline(ks, M) /\ \A m \in M : AllUse(ks, m)
      BY SessionsOfPipeline
    <2> QED
      BY <2>1
  <1>4. /\ ms \in Seq(Models) /\ ToSet(ms) \subseteq M /\ (Alone => Len(ms) <= 1)
        /\ existing \in Seq(Models) /\ ToSet(existing) \subseteq M /\ (Alone => existing = <<>>)
    <2>1. /\ ms \in Seq(Models) /\ ToSet(ms) = M \cap (Models \ named)
          /\ existing \in Seq(Models) /\ ToSet(existing) = M \cap named
      BY <1>2, OnlyElements
    <2>2. Alone => Len(ms) <= 1
      <3>1. Len(ms) <= Len(PipelineModels[p]) /\ Len(ms) \in Nat /\ Len(PipelineModels[p]) \in Nat
        BY <1>2, OnlyShorter
      <3>2. Alone => Len(PipelineModels[p]) <= 1
        BY DEF Alone
      <3> QED
        BY <3>1, <3>2
    <2>3. Alone => existing = <<>>
      BY ExistingNone
    <2> QED
      BY <2>1, <2>2, <2>3
  <1>5. \A i \in DOMAIN ms : AllUse(ks, ms[i])
    <2>1. \A i \in DOMAIN ms : ms[i] \in ToSet(ms)
      BY DEF ToSet
    <2> QED
      BY <1>3, <1>4, <2>1
  <1>6. mid = PlaceModels(st, ms, ks, cur) /\ after = SharePlans(mid.st.plans, ks, shared)
    OBVIOUS
  <1>7. shared = Concat([i \in DOMAIN existing |-> AllPlansFor(mid.st.plans, existing[i])])
    OBVIOUS
  <1>8. B \in SUBSET Backends
    BY DEF ToSet
  <1> HIDE DEF ks, M, ms, existing, mid, shared, after
  <1>9. /\ mid \in Placing(SolidDict(K, B), R)
        /\ mid.st.unsched = st.unsched /\ mid.st.raised = st.raised
        /\ More(st.plans, mid.st.plans, ToSet(ms))
        /\ Len(ms) <= 1 /\ ~ mid.ok => mid.new = <<>> /\ mid.st = st
    BY <1>3, <1>4, <1>5, <1>6, PlaceModelsResult
  <1>10. mid.st \in State(SolidDict(K, B), R) /\ mid.ok \in BOOLEAN /\ mid.new \in Seq(Models \X Backends)
    BY <1>9, PlacingFields
  <1>11. mid.st.plans \in SolidDict(K, B)
    BY <1>10, StateFields
  <1>12. More(st.plans, mid.st.plans, M)
    BY <1>4, <1>9 DEF More
  <1>13. CASE mid.ok
    <2>1. existing \in Seq(M)
      BY <1>4, SeqIn DEF ToSet
    <2>2. shared \in Shareable(mid.st.plans, M, B) /\ (existing = <<>> => shared = <<>>)
      BY <1>7, <1>11, <2>1, SharedPlans
    <2>3. shared = <<>> \/ ~ Alone
      BY <1>4, <2>2
    <2>4. after \in SolidDict(K, B) /\ (shared = <<>> => after = mid.st.plans)
      BY <1>3, <1>6, <1>11, <2>2, <2>3, SharePlansResult
    <2>5. res = [mid.st EXCEPT !.plans = after]
      BY <1>1, <1>13
    <2>6. res \in State(SolidDict(K, B), R) /\ res.unsched = mid.st.unsched /\ res.plans = after
      BY <1>10, <2>4, <2>5 DEF State
    <2> QED
      BY <1>9, <1>12, <2>3, <2>4, <2>6 DEF M
  <1>14. CASE ~ mid.ok
    <2>1. res = RemoveEach(mid.st, mid.new, FALSE)
      BY <1>1, <1>14
    <2>2. res \in State(SolidDict(K, B), R)
      <3> DEFINE x == mid.st
                 xs == mid.new
                 g == FALSE
      <3>1. x \in State(SolidDict(K, B), R) /\ xs \in Seq(Models \X Backends) /\ g \in BOOLEAN
        BY <1>10
      <3> HIDE DEF x, xs, g
      <3>2. RemoveEach(x, xs, g) \in State(SolidDict(K, B), R)
        BY <1>8, <3>1, RemoveEachKeeps
      <3> QED
        BY <2>1, <3>2 DEF x, xs, g
    <2>3. ASSUME Alone PROVE res = st
      <3>1. mid.new = <<>> /\ mid.st = st
        BY <1>4, <1>9, <1>14, <2>3
      <3> QED
        BY <2>1, <3>1, RemoveNone
    <2>4. More(st.plans, st.plans, M)
      BY DEF More
    <2> QED
      BY <2>2, <2>3, <2>4 DEF M
  <1> QED
    BY <1>10, <1>13, <1>14

(* The pipelines to add are distinct, and with models of their own they    *)
(* are new.                                                                *)
LEMMA PipelinesToAddNew ==
    ASSUME NEW K \in SUBSET Key, NEW B, NEW d \in SolidDict(K, B), NEW reqs \in Seq(Request),
           NEW ps, ps = PipelinesToAdd(d, reqs)
    PROVE  /\ ps \in Seq(Pipelines) /\ IsInjective(ps)
           /\ Alone => \A p \in ToSet(ps) : NewPipeline(d, p)
  <1> DEFINE deployed == {o.model : o \in {x \in AllObjs(d) : x.backs # <<>>}}
             s == KeySeq(reqs)
             I == {i \in DOMAIN reqs : ~ (ToSet(ModelsOf(reqs[i].key)) \subseteq deployed)}
             missing == At(s, I)
             f == [i \in DOMAIN missing |-> missing[i][1]]
  <1>1. /\ s \in Seq(Keys(reqs)) /\ DOMAIN s = DOMAIN reqs /\ \A i \in DOMAIN reqs : s[i] = reqs[i].key
        /\ Keys(reqs) \subseteq Key
    BY RequestKeys
  <1>2. I \in SUBSET DOMAIN s /\ \A i \in I : ~ (ToSet(ModelsOf(s[i])) \subseteq deployed)
    <2> HIDE DEF deployed, s
    <2> QED
      BY <1>1
  <1>3. ps = Distinct(f)
    BY DEF PipelinesToAdd
  <1> HIDE DEF s, I, deployed
  <1>4. missing \in Seq(Keys(reqs)) /\ ToSet(missing) = {s[i] : i \in I}
    BY <1>1, <1>2, AtElements
  <1>5. \A i \in DOMAIN missing : missing[i] \in Key /\ ~ (ToSet(ModelsOf(missing[i])) \subseteq deployed)
    <2>1. \A i \in DOMAIN missing : missing[i] \in ToSet(missing)
      BY DEF ToSet
    <2>2. \A i \in DOMAIN missing : missing[i] \in Key
      BY <1>1, <1>4
    <2> HIDE DEF missing
    <2> QED
      BY <1>2, <1>4, <2>1, <2>2
  <1> HIDE DEF missing
  <1>6. f \in Seq(Pipelines)
    <2>1. \A i \in DOMAIN missing : missing[i][1] \in Pipelines
      BY <1>5, ModelsOfKey
    <2>2. DOMAIN missing = 1 .. Len(missing) /\ Len(missing) \in Nat
      BY <1>4
    <2> QED
      BY <2>1, <2>2
  <1>7. \A p \in ToSet(f) : \E k \in Key : k[1] = p /\ ~ (ToSet(ModelsOf(k)) \subseteq deployed)
    BY <1>5 DEF ToSet
  <1> HIDE DEF f
  <1>8. ps \in Seq(Pipelines) /\ ToSet(ps) = ToSet(f) /\ IsInjective(ps)
    BY <1>3, <1>6, DistinctElements
  <1>9. ASSUME Alone, NEW p \in ToSet(ps) PROVE NewPipeline(d, p)
    <2>1. PICK k \in Key : k[1] = p /\ ~ (ToSet(ModelsOf(k)) \subseteq deployed)
      BY <1>7, <1>8
    <2>2. ToSet(ModelsOf(k)) = ToSet(PipelineModels[p])
      BY <2>1 DEF ModelsOf
    <2>3. PICK m \in ToSet(ModelsOf(k)) : m \notin deployed
      BY <2>1
    <2>4. ~ Named(d, m)
      <3> SUFFICES ASSUME Named(d, m) PROVE FALSE
        OBVIOUS
      <3>1. PICK q, b : Placed(d, q, m, b)
        BY NamedPlaced
      <3>2. PICK e \in ToSet(d) : \E o \in ToSet(e.objs) : o.model = m /\ b \in ToSet(o.backs)
        BY <3>1 DEF Placed
      <3>3. PICK o \in ToSet(e.objs) : o.model = m /\ b \in ToSet(o.backs)
        BY <3>2
      <3>4. o \in AllObjs(d)
        BY DEF AllObjs, ToSet
      <3>5. o.backs # <<>>
        BY <3>3 DEF ToSet
      <3> QED
        BY <2>3, <3>3, <3>4, <3>5 DEF deployed
    <2>5. ASSUME NEW x \in ToSet(PipelineModels[p]) PROVE x = m
      BY <1>9, <2>2, <2>3, OneModel
    <2> QED
      BY <2>4, <2>5 DEF NewPipeline
  <1> QED
    BY <1>8, <1>9

(* Before step i + 1, the pipelines left to add are still new.             *)
StillNew(d, ps, i) == \A j \in (i + 1) .. Len(ps) : NewPipeline(d, ps[j])

(* Deploying one pipeline leaves the other ones new.                       *)
LEMMA StillNewStep ==
    ASSUME Alone, NEW ps \in Seq(Pipelines), IsInjective(ps), NEW i \in 1 .. Len(ps),
           NEW K, NEW B, NEW d \in SolidDict(K, B), NEW d2 \in SolidDict(K, B),
           StillNew(d, ps, i - 1), More(d, d2, ToSet(PipelineModels[ps[i]]))
    PROVE  StillNew(d2, ps, i)
  <1> SUFFICES ASSUME NEW j \in (i + 1) .. Len(ps), NEW m \in ToSet(PipelineModels[ps[j]]), Named(d2, m)
               PROVE  FALSE
    BY DEF StillNew, NewPipeline
  <1>1. PICK k, b : Placed(d2, k, m, b)
    BY NamedPlaced
  <1>2. Placed(d, k, m, b) \/ m \in ToSet(PipelineModels[ps[i]])
    BY <1>1 DEF More
  <1>3. i \in DOMAIN ps /\ j \in DOMAIN ps /\ i # j /\ j \in (i - 1 + 1) .. Len(ps)
    OBVIOUS
  <1>4. ~ Named(d, m)
    BY <1>3 DEF StillNew, NewPipeline
  <1>5. ~ Placed(d, k, m, b)
    BY <1>4, NamedPlaced
  <1>6. ps[i] = ps[j]
    <2>1. ps[i] \in Pipelines /\ ps[j] \in Pipelines
      BY <1>3
    <2>2. m \in ToSet(PipelineModels[ps[i]]) \cap ToSet(PipelineModels[ps[j]])
      BY <1>2, <1>5
    <2> QED
      BY <2>1, <2>2 DEF Alone
  <1> QED
    BY <1>3, <1>6 DEF IsInjective

(* _deploy_new_pipelines keeps the dictionary solid, and with pipelines    *)
(* that share no model it takes nothing away.                              *)
LEMMA DeployNewResult ==
    ASSUME NEW K \in SUBSET Key, NEW cur \in Seq(Backends), NEW B, B = ToSet(cur),
           NEW R, Exceptions \subseteq R, NEW st \in State(SolidDict(K, B), R),
           NEW reqs \in Seq(Request), Keys(reqs) \subseteq K,
           NEW res, res = DeployNewPipelines(st, reqs, cur)
    PROVE  /\ res \in State(SolidDict(K, B), R)
           /\ Alone => res.unsched = st.unsched /\ More(st.plans, res.plans, Models)
  <1> DEFINE ps == PipelinesToAdd(st.plans, reqs)
             n == Len(ps)
             D == SolidDict(K, B)
  <1>1. st.plans \in D
    BY StateFields
  <1>2. ps = PipelinesToAdd(st.plans, reqs) /\ res = DeployPipelines(st, ps, reqs, cur)
    BY DEF DeployNewPipelines
  <1> HIDE DEF ps
  <1>3. ps \in Seq(Pipelines) /\ IsInjective(ps) /\ (Alone => \A p \in ToSet(ps) : NewPipeline(st.plans, p))
    BY <1>1, <1>2, PipelinesToAddNew
  <1>4. n \in Nat /\ DOMAIN ps = 1 .. n
    BY <1>3
  <1>4a. PICK a : DeployRun(a, st, ps, reqs, cur)
    BY <1>3, DeployPipelinesRun
  <1>5. /\ a[0] = st /\ DeployPipelines(st, ps, reqs, cur) = a[Len(ps)]
        /\ \A i \in 1 .. Len(ps) : a[i] = DeployPipeline(a[i - 1], ps[i], reqs, cur)
    BY <1>4a DEF DeployRun
  <1> DEFINE P == {i \in 0 .. n : /\ a[i] \in State(D, R)
                                  /\ Alone => /\ a[i].unsched = st.unsched /\ More(st.plans, a[i].plans, Models)
                                              /\ StillNew(a[i].plans, ps, i)}
  <1>6. 0 \in P
    <2>1. More(st.plans, st.plans, Models)
      BY DEF More
    <2>2. ASSUME Alone PROVE StillNew(st.plans, ps, 0)
      <3>1. \A j \in (0 + 1) .. Len(ps) : ps[j] \in ToSet(ps)
        BY <1>4 DEF ToSet
      <3> QED
        BY <1>3, <2>2, <3>1 DEF StillNew
    <2>3. 0 \in 0 .. n
      BY <1>4
    <2> HIDE DEF D, n
    <2> QED
      BY <1>5, <2>1, <2>2, <2>3 DEF D
  <1>7. ASSUME NEW i \in 1 .. n, i - 1 \in P PROVE i \in P
    <2> DEFINE x == a[i - 1]
               y == a[i]
               p == ps[i]
               M == ToSet(PipelineModels[p])
    <2>1. /\ x \in State(D, R)
          /\ Alone => x.unsched = st.unsched /\ More(st.plans, x.plans, Models) /\ StillNew(x.plans, ps, i - 1)
      BY <1>7
    <2>2. y = DeployPipeline(x, p, reqs, cur) /\ p \in Pipelines /\ i \in 0 .. n
      BY <1>3, <1>4, <1>5
    <2>3. Alone => NewPipeline(x.plans, p)
      <3>1. i \in (i - 1 + 1) .. Len(ps)
        BY <1>4
      <3> QED
        BY <2>1, <3>1 DEF StillNew
    <2> HIDE DEF x, y, p, n, P
    <2>4. y \in State(D, R) /\ (Alone => y.unsched = x.unsched /\ More(x.plans, y.plans, M))
      BY <2>1, <2>2, <2>3, DeployPipelineResult
    <2>5. x.plans \in D /\ y.plans \in D
      BY <2>1, <2>4, StateFields
    <2>6. ASSUME Alone PROVE More(st.plans, y.plans, Models) /\ StillNew(y.plans, ps, i)
      <3>1. M \subseteq Models
        BY <2>2, PolicyAssumption DEF ToSet
      <3>2. More(x.plans, y.plans, Models)
        BY <2>4, <2>6, <3>1 DEF More
      <3>3. More(st.plans, y.plans, Models)
        BY <2>1, <2>6, <3>2, MoreTrans
      <3>4. StillNew(y.plans, ps, i)
        BY <1>3, <2>1, <2>4, <2>5, <2>6, StillNewStep DEF p, n
      <3> QED
        BY <3>3, <3>4
    <2> QED
      BY <2>1, <2>2, <2>4, <2>6 DEF P, x, y
  <1>8. n \in P
    <2> HIDE DEF P
    <2>1. \A i \in 0 .. n : i \in P
      BY <1>4, <1>6, <1>7, UpTo
    <2> QED
      BY <1>4, <2>1
  <1> QED
    BY <1>2, <1>5, <1>8

-----------------------------------------------------------------------------
(* _assign_backends_to_unscheduled_sessions.                               *)

(* HostSeq lists the hosts of a model, each once.                          *)
LEMMA HostSeqElements ==
    ASSUME NEW K, NEW B, NEW d \in Dict(K, B), NEW m
    PROVE  /\ HostSeq(d, m) \in Seq(B) /\ ToSet(HostSeq(d, m)) = Hosts(d, m)
           /\ IsInjective(HostSeq(d, m))
  <1> DEFINE ss == [i \in DOMAIN d |-> PlansFor(d[i].objs, m)]
             found == AllPlansFor(d, m)
             F == {o \in AllObjs(d) : o.model = m}
             bs == [i \in DOMAIN found |-> found[i].backs]
  <1>1. DOMAIN d = 1 .. Len(d) /\ Len(d) \in Nat
    BY DEF Dict
  <1>2. \A i \in DOMAIN d : /\ PlansFor(d[i].objs, m) \in Seq(Plan(B))
                            /\ ToSet(PlansFor(d[i].objs, m)) = {o \in ToSet(d[i].objs) : o.model = m}
    BY DictEntries, PlansForModel
  <1>3. ss \in Seq(Seq(Plan(B))) /\ DOMAIN ss = DOMAIN d
    BY <1>1, <1>2
  <1>4. \A i \in DOMAIN d : ToSet(ss[i]) = {o \in ToSet(d[i].objs) : o.model = m}
    BY <1>2
  <1>5. found = Concat(ss)
    BY DEF AllPlansFor
  <1> HIDE DEF ss
  <1>6. found \in Seq(Plan(B)) /\ ToSet(found) = UNION {ToSet(ss[i]) : i \in DOMAIN ss}
    BY <1>3, <1>5, ConcatElements
  <1>7. ToSet(found) = F
    BY <1>3, <1>4, <1>6, SMTT(30) DEF AllObjs
  <1> HIDE DEF found
  <1>8. \A i \in DOMAIN found : found[i].backs \in Seq(B)
    <2>1. \A i \in DOMAIN found : found[i] \in Plan(B)
      BY <1>6
    <2> QED
      BY <2>1 DEF Plan
  <1>9. bs \in Seq(Seq(B)) /\ DOMAIN bs = DOMAIN found /\ \A i \in DOMAIN found : bs[i] = found[i].backs
    BY <1>6, <1>8
  <1>10. HostSeq(d, m) = Distinct(Concat(bs))
    BY DEF HostSeq, found
  <1> HIDE DEF bs
  <1>11. Concat(bs) \in Seq(B) /\ ToSet(Concat(bs)) = UNION {ToSet(bs[i]) : i \in DOMAIN bs}
    BY <1>9, ConcatElements
  <1>12. ToSet(Concat(bs)) = Hosts(d, m)
    <2>1. UNION {ToSet(bs[i]) : i \in DOMAIN bs} = UNION {ToSet(o.backs) : o \in ToSet(found)}
      BY <1>9 DEF ToSet
    <2> QED
      BY <1>7, <1>11, <2>1 DEF Hosts
  <1> QED
    BY <1>10, <1>11, <1>12, DistinctElements

(* A newly placed session takes nothing away.                              *)
LEMMA NewlyPlacedMore ==
    ASSUME NEW d, NEW d2, NEW k, NEW m \in Models, NEW backs, NewlyPlaced(d, d2, k, m, backs)
    PROVE  More(d, d2, Models)
  BY DEF NewlyPlaced, More

(* A session without plans gets plans of its own, and nothing is taken     *)
(* away.                                                                   *)
LEMMA AssignModelsResult ==
    ASSUME NEW K \in SUBSET Key, NEW B, NEW d \in SolidDict(K, B), NEW k \in K, k \notin Keys(d),
           NEW ms, ms = ModelsOf(k), \A m \in ToSet(ms) : Named(d, m),
           NEW d2, d2 = AssignModels(d, k, ms, d)
    PROVE  d2 \in SolidDict(K, B) /\ More(d, d2, Models)
  <1> DEFINE n == Len(ms)
  <1>1. ms \in Seq(Models) /\ k \in Key /\ d \in Dict(K, B)
    BY ModelsOfKey DEF SolidDict
  <1>2. n \in Nat /\ DOMAIN ms = 1 .. n /\ (Alone => n <= 1)
    BY <1>1, ModelsOfKey DEF Alone
  <1>3. PICK a : AssignRun(a, d, k, ms, d)
    BY <1>1, AssignModelsRun
  <1>4. /\ a[0] = d /\ d2 = a[n]
        /\ \A i \in 1 .. n : a[i] = AssignModel(a[i - 1], k, ms[i], HostSeq(d, ms[i]))
    BY <1>3 DEF AssignRun
  <1> HIDE DEF n
  <1> DEFINE P == {i \in 0 .. n : a[i] \in SolidDict(K, B) /\ More(d, a[i], Models)}
  <1>5. 0 \in P
    <2>1. More(d, d, Models) /\ 0 \in 0 .. n
      BY <1>2 DEF More
    <2> QED
      BY <1>4, <2>1
  <1>6. ASSUME NEW i \in 1 .. n, i - 1 \in P PROVE i \in P
    <2> DEFINE x == a[i - 1]
               y == a[i]
               m == ms[i]
               hosts == HostSeq(d, m)
    <2>1. x \in SolidDict(K, B) /\ More(d, x, Models) /\ i \in 0 .. n
      BY <1>2, <1>6
    <2>2. m \in Models /\ m \in ToSet(ModelsOf(k)) /\ Named(d, m)
      BY <1>1, <1>2 DEF ToSet
    <2>3. hosts \in Seq(B) /\ ToSet(hosts) = Hosts(d, m)
      BY <1>1, HostSeqElements
    <2>4. hosts # <<>>
      <3>1. PICK q, b : Placed(d, q, m, b)
        BY <2>2, NamedPlaced
      <3>2. b \in Hosts(d, m)
        BY <3>1, HostsPlaced
      <3> QED
        BY <2>3, <3>2, EmptySet
    <2>5. y = WithNew(x, k, m, hosts)
      BY <1>4 DEF AssignModel, WithNew
    <2>6. Alone => ObjsOf(x, k) = <<>>
      <3> SUFFICES ASSUME Alone PROVE ObjsOf(x, k) = <<>>
        OBVIOUS
      <3>1. i - 1 = 0
        BY <1>2
      <3>2. x = d
        BY <1>4, <3>1
      <3> QED
        BY <1>1, <3>2, DictKeys
    <2> HIDE DEF x, y, m, hosts, P
    <2>7. y \in SolidDict(K, B) /\ NewlyPlaced(x, y, k, m, hosts)
      BY <2>1, <2>2, <2>3, <2>4, <2>5, <2>6, AppendNew
    <2>8. More(d, y, Models)
      BY <2>1, <2>2, <2>7, NewlyPlacedMore, MoreTrans
    <2> QED
      BY <2>1, <2>7, <2>8 DEF P, y
  <1>7. n \in P
    <2>1. n \in 0 .. n /\ \A i \in 1 .. n : i - 1 \in P => i \in P
      BY <1>2, <1>6
    <2> HIDE DEF P
    <2> QED
      BY <1>2, <1>5, <2>1, UpTo
  <1> QED
    BY <1>4, <1>7

(* The same for a session that may have plans.                             *)
LEMMA AssignSessionResult ==
    ASSUME NEW K \in SUBSET Key, NEW B, NEW R, NEW st \in State(SolidDict(K, B), R), NEW k \in K,
           NEW res, res = AssignSession(st, k)
    PROVE  /\ res \in State(SolidDict(K, B), R)
           /\ res.unsched = st.unsched /\ More(st.plans, res.plans, Models)
  <1> DEFINE d == st.plans
             ms == ModelsOf(k)
             d2 == AssignModels(d, k, ms, d)
             idle == k \in Keys(d) \/ ~ (ToSet(ModelsOf(k)) \subseteq {o.model : o \in AllObjs(d)})
  <1>1. CASE idle
    <2>1. res = st
      BY <1>1 DEF AssignSession
    <2> QED
      BY <2>1 DEF More
  <1>2. CASE ~ idle
    <2>1. k \notin Keys(d) /\ \A m \in ToSet(ms) : Named(d, m)
      BY <1>2 DEF Named
    <2>2. d \in SolidDict(K, B) /\ ms = ModelsOf(k) /\ d2 = AssignModels(d, k, ms, d)
      BY StateFields
    <2>3. res = [st EXCEPT !.plans = d2]
      BY <1>2 DEF AssignSession
    <2> HIDE DEF d, d2, ms, idle
    <2>4. d2 \in SolidDict(K, B) /\ More(d, d2, Models)
      BY <2>1, <2>2, AssignModelsResult
    <2>5. res \in State(SolidDict(K, B), R) /\ res.unsched = st.unsched /\ res.plans = d2
      BY <2>3, <2>4 DEF State
    <2> QED
      BY <2>4, <2>5 DEF d
  <1> QED
    BY <1>1, <1>2

(* _assign_backends_to_unscheduled_sessions takes nothing away and         *)
(* unschedules nothing.                                                    *)
LEMMA AssignBackendsResult ==
    ASSUME NEW K \in SUBSET Key, NEW B, NEW R, NEW st \in State(SolidDict(K, B), R),
           NEW reqs \in Seq(Request), Keys(reqs) \subseteq K,
           NEW res, res = AssignBackends(st, reqs)
    PROVE  /\ res \in State(SolidDict(K, B), R)
           /\ res.unsched = st.unsched /\ More(st.plans, res.plans, Models)
  <1> DEFINE U == {x \in State(SolidDict(K, B), R) : x.unsched = st.unsched /\ More(st.plans, x.plans, Models)}
  <1>1. st \in U
    BY DEF More
  <1>2. ASSUME NEW x \in U, NEW i \in 1 .. Len(reqs) PROVE AssignSession(x, reqs[i].key) \in U
    <2> DEFINE k == reqs[i].key
               y == AssignSession(x, k)
    <2>1. k \in K
      BY RequestKeys
    <2>2. x \in State(SolidDict(K, B), R) /\ x.unsched = st.unsched /\ More(st.plans, x.plans, Models)
      OBVIOUS
    <2>3. y = AssignSession(x, k)
      OBVIOUS
    <2> HIDE DEF k, y, U
    <2>4. /\ y \in State(SolidDict(K, B), R)
          /\ y.unsched = x.unsched /\ More(x.plans, y.plans, Models)
      BY <2>1, <2>2, <2>3, AssignSessionResult
    <2>5. More(st.plans, y.plans, Models)
      BY <2>2, <2>4, MoreTrans
    <2> QED
      BY <2>2, <2>4, <2>5 DEF U, y, k
  <1> HIDE DEF U
  <1>3. res \in U
    BY <1>1, <1>2, AssignBackendsIn
  <1> QED
    BY <1>3 DEF U

-----------------------------------------------------------------------------
(* Pipelines of one model each, which share none: the plans of a session   *)
(* are its own.                                                            *)

(* With pipelines that share no model, a plan object is in one entry.      *)
LEMMA ElsewhereAlone ==
    ASSUME Alone, NEW K, NEW B, NEW d \in Dict(K, B), NEW i \in DOMAIN d, NEW h \in DOMAIN d, i # h,
           NEW o \in ToSet(d[i].objs), NEW backs
    PROVE  SetBacks(d, o.id, backs)[h] = d[h]
  <1> DEFINE e == d[h]
             objs == [j \in DOMAIN e.objs |-> IF e.objs[j].id = o.id THEN [e.objs[j] EXCEPT !.backs = backs] ELSE e.objs[j]]
  <1>1. SetBacks(d, o.id, backs)[h] = [e EXCEPT !.objs = objs]
    BY DEF SetBacks
  <1>2. /\ e \in [key : K, objs : Seq(Plan(B))] /\ e.objs \in Seq(Plan(B)) /\ Own(e.key, e.objs)
        /\ ToSet(e.objs) \subseteq AllObjs(d)
    BY DictEntries
  <1>3. Own(d[i].key, d[i].objs) /\ ToSet(d[i].objs) \subseteq AllObjs(d) /\ d[i].key # e.key
    BY DictEntries, DictKeys
  <1>4. Consistent(AllObjs(d))
    BY DEF Dict
  <1> HIDE DEF e
  <1>5. ASSUME NEW j \in DOMAIN e.objs PROVE e.objs[j].id # o.id
    <2>1. e.objs[j] \in ToSet(e.objs)
      BY DEF ToSet
    <2> SUFFICES ASSUME e.objs[j] = o PROVE FALSE
      BY <1>2, <1>3, <1>4, <2>1 DEF Consistent
    <2> QED
      BY <1>2, <1>3, <2>1 DEF Own
  <1>6. objs = e.objs
    BY <1>2, <1>5
  <1> HIDE DEF objs
  <1>7. [e EXCEPT !.objs = e.objs] = e
    BY <1>2
  <1> QED
    BY <1>1, <1>6, <1>7 DEF e

(* The visit of the session at i leaves the others as they are, and its    *)
(* stop is recorded.                                                       *)
Visited(x, y, i, k, m, b, g) ==
    /\ \A h \in DOMAIN x.plans : h # i => y.plans[h] = x.plans[h]
    /\ g /\ Serves(x.plans, k, m, b) => k \in DOMAIN y.unsched
    /\ DOMAIN x.unsched \subseteq DOMAIN y.unsched

(* A visit of _remove_cmodel_from_backend changes the session visited      *)
(* only, and records its stop.                                             *)
LEMMA VisitOne ==
    ASSUME Alone, NEW K \in SUBSET Key, NEW B \in SUBSET Backends, NEW R, NEW x \in State(Dict(K, B), R),
           NEW i \in DOMAIN x.plans, NEW k, k = x.plans[i].key, NEW m \in Models, NEW b \in Backends, NEW g \in BOOLEAN,
           NEW y, y = RemoveFromSession(x, k, m, b, g)
    PROVE  Visited(x, y, i, k, m, b, g)
  <1> DEFINE d == x.plans
             u == x.unsched
             o == FirstPlan(d, k, m)
             left == Only(o.backs, Backends \ {b})
             d2 == SetBacks(d, o.id, left)
             d3 == IF left = <<>> THEN SetObjs(d2, k, <<>>) ELSE d2
             others == {q \in ToSet(ObjsOf(d, k)) : q.model # m}
             shared == \E e \in ToSet(d) : e.key # k /\ o \in ToSet(e.objs)
             u2 == IF g /\ Serves(d, k, m, b) /\ k \notin DOMAIN u THEN Put(u, k, {<<m, b>>}) ELSE u
             when == left = <<>> /\ others # {} /\ shared
  <1>1. d \in Dict(K, B) /\ x = [plans |-> x.plans, unsched |-> x.unsched, mem |-> x.mem, raised |-> x.raised]
    BY StateFields
  <1>2. CASE ~ HasPlan(d, k, m)
    <2>1. y = x
      BY <1>2 DEF RemoveFromSession
    <2> QED
      BY <1>2, <2>1 DEF Serves, Visited
  <1>3. CASE HasPlan(d, k, m)
    <2>1. y = Raise([x EXCEPT !.plans = d3, !.unsched = u2], "AttributeError", when)
      BY <1>3 DEF RemoveFromSession
    <2>2. PICK j \in DOMAIN d[i].objs : o = d[i].objs[j]
      <3>1. d \in Dict(K, B) /\ i \in DOMAIN d /\ d[i].key = k /\ HasPlan(d, k, m)
        BY <1>1, <1>3
      <3> HIDE DEF d
      <3>2. PICK j \in DOMAIN d[i].objs : FirstPlan(d, k, m) = d[i].objs[j]
        BY <3>1, FirstPlanOf
      <3> QED
        BY <3>2
    <2>3. o \in ToSet(d[i].objs) /\ d[i].key = k
      BY <2>2 DEF ToSet
    <2>4. DOMAIN u \subseteq DOMAIN u2 /\ (g /\ Serves(d, k, m, b) => k \in DOMAIN u2)
      BY DEF Put
    <2>5. ASSUME NEW h \in DOMAIN d, h # i PROVE d3[h] = d[h]
      <3> HIDE DEF left, o
      <3>1. d2[h] = d[h]
        BY <1>1, <2>3, <2>5, ElsewhereAlone
      <3>2. d[h].key # k
        BY <1>1, <2>3, <2>5, DictKeys
      <3>3. DOMAIN d2 = DOMAIN d /\ d2[i].key = k
        BY <1>1, <2>3, DictEntries DEF SetBacks
      <3> HIDE DEF d2
      <3>4. SetObjs(d2, k, <<>>)[h] = d2[h]
        <4>1. d2[h].key # k /\ h \in DOMAIN d2
          BY <3>1, <3>2, <3>3
        <4>2. k \in Keys(d2)
          BY <3>3 DEF Keys
        <4> QED
          BY <4>1, <4>2 DEF SetObjs
      <3> QED
        BY <3>1, <3>4
    <2> HIDE DEF d3, u2, when
    <2>6. y.plans = d3 /\ y.unsched = u2
      BY <1>1, <2>1 DEF Raise
    <2> QED
      BY <2>4, <2>5, <2>6 DEF Visited
  <1> QED
    BY <1>2, <1>3

(* A visit keeps the keys in their order.                                  *)
LEMMA VisitKeepsKeys ==
    ASSUME NEW K \in SUBSET Key, NEW B \in SUBSET Backends, NEW R, Exceptions \subseteq R,
           NEW x \in State(Dict(K, B), R), NEW k \in Keys(x.plans),
           NEW m \in Models, NEW b \in Backends, NEW g \in BOOLEAN,
           NEW y, y = RemoveFromSession(x, k, m, b, g)
    PROVE  y \in State(Dict(K, B), R) /\ DOMAIN y.plans = DOMAIN x.plans /\ KeySeq(y.plans) = KeySeq(x.plans)
  <1> DEFINE d == x.plans
             u == x.unsched
             none == {}
  <1>1. d \in Dict(K, B)
    BY StateFields
  <1>2. Loose(d, u, x, K, B, R, m, b, none, g)
    <2>1. Grown(u, u, Keys(d), m, b, g)
      BY DEF Grown
    <2>2. \A i \in DOMAIN d : Trimming(d[i], d[i], m, b, FALSE)
      BY DEF Trimming, Trimmed
    <2>3. \A i \in DOMAIN d : Trimming(d[i], d[i], m, b, d[i].key \in {})
      BY <2>2 DEF Trimming
    <2> QED
      BY <2>1, <2>3 DEF Loose
  <1>3. k \in Keys(d) /\ d = x.plans
    OBVIOUS
  <1> HIDE DEF none, d, u
  <1>4. Loose(d, u, RemoveFromSession(x, k, m, b, g), K, B, R, m, b, none \cup {k}, g)
    BY <1>1, <1>2, <1>3, RemoveFromSessionKeeps
  <1> QED
    BY <1>3, <1>4 DEF Loose

(* Every session the backend served has its stop recorded.                 *)
LEMMA StopsRecorded ==
    ASSUME Alone, NEW K \in SUBSET Key, NEW B \in SUBSET Backends, NEW R, Exceptions \subseteq R,
           NEW st \in State(Dict(K, B), R),
           NEW m \in Models, NEW b \in Backends, NEW g \in BOOLEAN,
           NEW acc, acc = RemoveFromSessions(st, KeySeq(st.plans), m, b, g)
    PROVE  \A k \in Keys(st.plans) : g /\ Serves(st.plans, k, m, b) => k \in DOMAIN acc.unsched
  <1> DEFINE d0 == st.plans
             ks == KeySeq(d0)
             n == Len(ks)
             U == {x \in State(Dict(K, B), R) : DOMAIN x.plans = DOMAIN d0 /\ KeySeq(x.plans) = ks}
  <1>1. /\ d0 \in Dict(K, B) /\ ks \in Seq(K) /\ n \in Nat /\ DOMAIN ks = 1 .. n /\ DOMAIN d0 = 1 .. n
        /\ \A i \in DOMAIN d0 : ks[i] = d0[i].key
    BY StateFields, DictKeys
  <1>2. acc = RemoveFromSessions(st, ks, m, b, g) /\ st \in U /\ g \in BOOLEAN /\ d0 = st.plans
    OBVIOUS
  <1>2a. g \in BOOLEAN
    OBVIOUS
  <1> HIDE DEF ks, n, d0
  <1>3. ASSUME NEW x \in U, NEW i \in 1 .. n PROVE RemoveFromSession(x, ks[i], m, b, g) \in U
    <2> DEFINE k == ks[i]
               y == RemoveFromSession(x, k, m, b, g)
    <2>1. x \in State(Dict(K, B), R) /\ DOMAIN x.plans = DOMAIN d0 /\ KeySeq(x.plans) = ks
      OBVIOUS
    <2>2. k \in Keys(x.plans)
      <3>1. x.plans \in Dict(K, B)
        BY <2>1, StateFields
      <3>2. k \in ToSet(ks)
        BY <1>1 DEF ToSet
      <3> QED
        BY <2>1, <3>1, <3>2, DictKeys
    <2>3. y = RemoveFromSession(x, k, m, b, g)
      OBVIOUS
    <2> HIDE DEF k, y, U
    <2>4. y \in State(Dict(K, B), R) /\ DOMAIN y.plans = DOMAIN x.plans /\ KeySeq(y.plans) = KeySeq(x.plans)
      BY <1>2, <2>1, <2>2, <2>3, VisitKeepsKeys
    <2> QED
      BY <2>1, <2>4 DEF U, y, k
  <1>4. PICK a \in [0 .. n -> U] :
           /\ a[0] = st
           /\ \A i \in 1 .. n : a[i] = RemoveFromSession(a[i - 1], ks[i], m, b, g)
           /\ acc = a[n]
    <2>1. \A x \in U : \A i \in 1 .. Len(ks) : RemoveFromSession(x, ks[i], m, b, g) \in U
      BY <1>3 DEF n
    <2>2. st \in U /\ ks \in Seq(K)
      BY <1>1, <1>2
    <2> HIDE DEF U
    <2>3. PICK a : RemoveRun(a, U, st, ks, m, b, g)
      BY <2>1, <2>2, RemoveFromSessionsSteps
    <2> QED
      BY <1>2, <2>3 DEF n, RemoveRun
  <1> DEFINE P == {i \in 0 .. n : /\ \A h \in (i + 1) .. n : a[i].plans[h] = d0[h]
                                  /\ \A h \in 1 .. i : g /\ Serves(d0, ks[h], m, b) => ks[h] \in DOMAIN a[i].unsched}
  <1>5. 0 \in P
    <2>1. 0 \in 0 .. n /\ 1 .. 0 = {}
      BY <1>1
    <2> QED
      BY <1>2, <1>4, <2>1
  <1>6. ASSUME NEW i \in 1 .. n, i - 1 \in P PROVE i \in P
    <2> DEFINE x == a[i - 1]
               y == a[i]
               k == ks[i]
    <2>1. /\ \A h \in i .. n : x.plans[h] = d0[h]
          /\ \A h \in 1 .. (i - 1) : g /\ Serves(d0, ks[h], m, b) => ks[h] \in DOMAIN x.unsched
      <3>1. i - 1 + 1 = i
        BY <1>1
      <3> QED
        BY <1>6, <3>1
    <2>2. x \in U /\ y = RemoveFromSession(x, k, m, b, g) /\ i \in 0 .. n
      <3>1. i - 1 \in 0 .. n /\ i \in 0 .. n
        BY <1>1
      <3> QED
        BY <1>4, <3>1
    <2>2a. y = RemoveFromSession(x, k, m, b, g)
      BY <2>2
    <2>3. x \in State(Dict(K, B), R) /\ DOMAIN x.plans = 1 .. n
      <3> HIDE DEF x
      <3> QED
        BY <1>1, <2>2
    <2>4. x.plans[i] = d0[i] /\ i \in DOMAIN x.plans /\ k = x.plans[i].key
      <3> HIDE DEF x
      <3>1. i \in i .. n /\ i \in DOMAIN d0
        BY <1>1
      <3> QED
        BY <1>1, <2>1, <2>3, <3>1
    <2>5. Serves(x.plans, k, m, b) <=> Serves(d0, k, m, b)
      <3>1. x.plans \in Dict(K, B)
        BY <2>3, StateFields
      <3>2. ObjsOf(x.plans, k) = x.plans[i].objs
        BY <2>4, <3>1, DictKeys
      <3>3. ObjsOf(d0, k) = d0[i].objs
        BY <1>1, <2>4, DictKeys
      <3> QED
        BY <2>4, <3>2, <3>3 DEF Serves, HasPlan, FirstPlan
    <2> HIDE DEF x, y, k, P, U
    <2>6. /\ \A h \in DOMAIN x.plans : h # i => y.plans[h] = x.plans[h]
          /\ g /\ Serves(x.plans, k, m, b) => k \in DOMAIN y.unsched
          /\ DOMAIN x.unsched \subseteq DOMAIN y.unsched
      <3>1. Visited(x, y, i, k, m, b, g)
        BY <1>2a, <2>2a, <2>3, <2>4, VisitOne
      <3> QED
        BY <3>1 DEF Visited
    <2>7. \A h \in (i + 1) .. n : y.plans[h] = d0[h]
      <3>1. \A h \in (i + 1) .. n : h \in i .. n /\ h \in 1 .. n /\ h # i
        BY <1>1
      <3> QED
        BY <2>1, <2>3, <2>6, <3>1
    <2>8. ASSUME NEW h \in 1 .. i, g, Serves(d0, ks[h], m, b) PROVE ks[h] \in DOMAIN y.unsched
      <3>1. CASE h = i
        BY <2>5, <2>6, <2>8, <3>1 DEF k
      <3>2. CASE h # i
        <4>1. h \in 1 .. (i - 1)
          BY <1>1, <3>2
        <4> QED
          BY <2>1, <2>6, <2>8, <4>1
      <3> QED
        BY <3>1, <3>2
    <2> QED
      BY <2>2, <2>7, <2>8 DEF P, y
  <1>7. n \in P
    <2>1. n \in 0 .. n /\ \A i \in 1 .. n : i - 1 \in P => i \in P
      BY <1>1, <1>6
    <2> HIDE DEF P
    <2> QED
      BY <1>1, <1>5, <2>1, UpTo
  <1>8. ASSUME NEW k \in Keys(d0), g, Serves(d0, k, m, b) PROVE k \in DOMAIN acc.unsched
    <2>1. PICK i \in DOMAIN d0 : d0[i].key = k
      BY <1>1, DictKeys
    <2> QED
      BY <1>1, <1>4, <1>7, <1>8, <2>1
  <1> QED
    BY <1>8 DEF d0

(* Exactly model m on backend b is gone.                                   *)
Lost(d, d2, m, b) ==
    \A k, x, y : Placed(d2, k, x, y) <=> Placed(d, k, x, y) /\ ~ (x = m /\ y = b)

(* Every object of a session is its first one.                             *)
LEMMA OnePlan ==
    ASSUME Alone, NEW B, NEW k, NEW objs \in Seq(Plan(B)), Own(k, objs)
    PROVE  \A i, j \in DOMAIN objs : i = j /\ IsFirst(objs, i)
  <1>1. DOMAIN objs = 1 .. Len(objs) /\ Len(objs) \in Nat /\ Len(objs) <= 1
    BY DEF Own
  <1>2. \A i \in DOMAIN objs : i = 1
    BY <1>1
  <1>3. 1 .. (1 - 1) = {}
    OBVIOUS
  <1> QED
    BY <1>2, <1>3 DEF IsFirst

(* Exactly the model on that backend is lost.                              *)
LEMMA LostAlone ==
    ASSUME Alone, NEW K, NEW B, NEW d \in Dict(K, B), NEW d2 \in Dict(K, B), NEW m, NEW b, Removed(d, d2, m, b)
    PROVE  Lost(d, d2, m, b)
  <1> SUFFICES ASSUME NEW k, NEW x, NEW y
               PROVE  Placed(d2, k, x, y) <=> Placed(d, k, x, y) /\ ~ (x = m /\ y = b)
    BY DEF Lost
  <1>1. \A e \in ToSet(d) : \A i, j \in DOMAIN e.objs : i = j /\ IsFirst(e.objs, i)
    <2> SUFFICES ASSUME NEW h \in DOMAIN d PROVE \A i, j \in DOMAIN d[h].objs : i = j /\ IsFirst(d[h].objs, i)
      BY DEF ToSet
    <2>1. d[h].objs \in Seq(Plan(B)) /\ Own(d[h].key, d[h].objs)
      BY DictEntries
    <2> QED
      BY <2>1, OnePlan
  <1>2. \A e \in ToSet(d2) : \A i, j \in DOMAIN e.objs : i = j /\ IsFirst(e.objs, i)
    <2> SUFFICES ASSUME NEW h \in DOMAIN d2 PROVE \A i, j \in DOMAIN d2[h].objs : i = j /\ IsFirst(d2[h].objs, i)
      BY DEF ToSet
    <2>1. d2[h].objs \in Seq(Plan(B)) /\ Own(d2[h].key, d2[h].objs)
      BY DictEntries
    <2> QED
      BY <2>1, OnePlan
  <1>3. ASSUME Placed(d2, k, x, y) PROVE Placed(d, k, x, y) /\ ~ (x = m /\ y = b)
    <2>1. PICK e2 \in ToSet(d2) : e2.key = k /\ \E o \in ToSet(e2.objs) : o.model = x /\ y \in ToSet(o.backs)
      BY <1>3 DEF Placed
    <2>2. PICK j \in DOMAIN e2.objs : e2.objs[j].model = x /\ y \in ToSet(e2.objs[j].backs)
      BY <2>1 DEF ToSet
    <2>3. PICK e \in ToSet(d) : Trimmed(e, e2, m, b) /\ Cleaned(e2.objs, m, b)
      BY DEF Removed
    <2>4. j \in DOMAIN e.objs /\ e.objs[j].model = x /\ y \in ToSet(e.objs[j].backs) /\ e.key = k
      BY <2>1, <2>2, <2>3 DEF Trimmed
    <2>5. e.objs[j] \in ToSet(e.objs)
      BY <2>4 DEF ToSet
    <2>6. ~ (x = m /\ y = b)
      BY <1>2, <2>2, <2>3 DEF Cleaned
    <2> QED
      BY <2>4, <2>5, <2>6 DEF Placed
  <1>4. ASSUME Placed(d, k, x, y), ~ (x = m /\ y = b) PROVE Placed(d2, k, x, y)
    <2>1. PICK e \in ToSet(d) : e.key = k /\ \E o \in ToSet(e.objs) : o.model = x /\ y \in ToSet(o.backs)
      BY <1>4 DEF Placed
    <2>2. PICK j \in DOMAIN e.objs : e.objs[j].model = x /\ y \in ToSet(e.objs[j].backs)
      BY <2>1 DEF ToSet
    <2>3. ~ Emptied(e, m, b)
      BY <1>1, <1>4, <2>2 DEF Emptied
    <2>4. PICK e2 \in ToSet(d2) : Trimmed(e, e2, m, b)
      BY <2>3 DEF Removed
    <2>5. j \in DOMAIN e2.objs /\ e2.objs[j].model = x /\ y \in ToSet(e2.objs[j].backs) /\ e2.key = k
      BY <1>4, <2>1, <2>2, <2>4 DEF Trimmed
    <2>6. e2.objs[j] \in ToSet(e2.objs)
      BY <2>5 DEF ToSet
    <2> QED
      BY <2>5, <2>6 DEF Placed
  <1> QED
    BY <1>3, <1>4

(* A stop of model m on backend b is recorded for every session it serves. *)
Recorded(d, u, m, b, g) == \A k : g /\ Placed(d, k, m, b) => k \in DOMAIN u

(* With one plan per session, a session that is placed is served by its    *)
(* first plan.                                                             *)
LEMMA PlacedServes ==
    ASSUME Alone, NEW K, NEW B, NEW d \in Dict(K, B), NEW k, NEW m, NEW b, Placed(d, k, m, b)
    PROVE  k \in Keys(d) /\ Serves(d, k, m, b)
  <1>1. PICK e \in ToSet(d) : e.key = k /\ \E o \in ToSet(e.objs) : o.model = m /\ b \in ToSet(o.backs)
    BY DEF Placed
  <1>2. PICK i \in DOMAIN d : e = d[i]
    BY DEF ToSet
  <1>3. PICK j \in DOMAIN d[i].objs : d[i].objs[j].model = m /\ b \in ToSet(d[i].objs[j].backs)
    BY <1>1, <1>2 DEF ToSet
  <1>4. d[i].objs \in Seq(Plan(B)) /\ Own(d[i].key, d[i].objs) /\ d[i].key = k
    BY <1>1, <1>2, DictEntries
  <1>5. \A x, y \in DOMAIN d[i].objs : x = y
    BY <1>4, OnePlan
  <1>6. HasPlan(d, k, m)
    <2> SUFFICES ASSUME ~ HasPlan(d, k, m) PROVE FALSE
      OBVIOUS
    <2>1. \A o \in ToSet(d[i].objs) : o.model # m
      BY <1>4, FirstPlanOf
    <2> QED
      BY <1>3, <2>1 DEF ToSet
  <1>7. PICK h \in DOMAIN d[i].objs : FirstPlan(d, k, m) = d[i].objs[h]
    <2>1. d \in Dict(K, B) /\ i \in DOMAIN d /\ d[i].key = k /\ HasPlan(d, k, m)
      BY <1>4, <1>6
    <2> QED
      BY <2>1, FirstPlanOf
  <1>8. h = j
    BY <1>5
  <1>9. k \in Keys(d)
    BY <1>4 DEF Keys
  <1> QED
    BY <1>3, <1>6, <1>7, <1>8, <1>9 DEF Serves

(* With pipelines that share no model, _remove_cmodel_from_backend takes   *)
(* exactly the model on that backend and records the stops.                *)
LEMMA RemoveCmodelAlone ==
    ASSUME Alone, NEW K \in SUBSET Key, NEW B \in SUBSET Backends, NEW R, Exceptions \subseteq R,
           NEW st \in State(SolidDict(K, B), R),
           NEW m \in Models, NEW b \in Backends, NEW g \in BOOLEAN,
           NEW res, res = RemoveCmodelFromBackend(st, m, b, g)
    PROVE  Lost(st.plans, res.plans, m, b) /\ Recorded(st.plans, res.unsched, m, b, g)
  <1> DEFINE acc == RemoveFromSessions(st, KeySeq(st.plans), m, b, g)
  <1>1. res \in State(SolidDict(K, B), R) /\ Removed(st.plans, res.plans, m, b)
    BY RemoveCmodelResult
  <1>2. st.plans \in Dict(K, B) /\ res.plans \in Dict(K, B)
    BY <1>1, StateFields DEF SolidDict
  <1>3. Lost(st.plans, res.plans, m, b)
    BY <1>1, <1>2, LostAlone
  <1>4. st \in State(Dict(K, B), R)
    BY <1>2 DEF State
  <1>5. acc = RemoveFromSessions(st, KeySeq(st.plans), m, b, g)
    OBVIOUS
  <1>6. res.unsched = acc.unsched
    <2>1. acc \in State(Dict(K, B), R)
      <3> HIDE DEF acc
      <3>1. Loose(st.plans, st.unsched, acc, K, B, R, m, b, Keys(st.plans), g)
        BY <1>4, <1>5, RemoveFromSessionsKeeps
      <3> QED
        BY <3>1 DEF Loose
    <2>2. acc = [plans |-> acc.plans, unsched |-> acc.unsched, mem |-> acc.mem, raised |-> acc.raised]
      <3> HIDE DEF acc
      <3> QED
        BY <2>1, StateFields
    <2> DEFINE empty == {e.key : e \in {x \in ToSet(acc.plans) : x.objs = <<>>}}
               p2 == DropKeys(acc.plans, empty)
               found == \E k \in Keys(st.plans) : Serves(st.plans, k, m, b)
               m2 == IF found THEN ReturnResource(acc.mem, m, b) ELSE acc.mem
    <2>3. res = [acc EXCEPT !.plans = p2, !.mem = m2]
      BY DEF RemoveCmodelFromBackend
    <2> HIDE DEF acc, p2, m2
    <2> QED
      BY <2>2, <2>3
  <1> HIDE DEF acc
  <1>7. \A k \in Keys(st.plans) : g /\ Serves(st.plans, k, m, b) => k \in DOMAIN acc.unsched
    BY <1>4, <1>5, StopsRecorded
  <1>8. Recorded(st.plans, res.unsched, m, b, g)
    <2> SUFFICES ASSUME NEW k, g, Placed(st.plans, k, m, b) PROVE k \in DOMAIN res.unsched
      BY DEF Recorded
    <2>1. k \in Keys(st.plans) /\ Serves(st.plans, k, m, b)
      BY <1>2, PlacedServes
    <2> QED
      BY <1>6, <1>7, <2>1
  <1> QED
    BY <1>3, <1>8

-----------------------------------------------------------------------------
(* _scale_sessions.                                                        *)

(* Model m is taken from one of its backends.                              *)
TakenFrom(st, res, m, b) ==
    /\ b \in Hosts(st.plans, m) /\ Lost(st.plans, res.plans, m, b)
    /\ Grown(st.unsched, res.unsched, Keys(st.plans), m, b, TRUE)
    /\ Recorded(st.plans, res.unsched, m, b, TRUE)

(* One step down of _scale_sessions takes one backend from the model, if   *)
(* it has any, and raises no KeyError.                                     *)
LEMMA ScaleDownResult ==
    ASSUME NEW K \in SUBSET Key, NEW B \in SUBSET Backends, NEW R, Exceptions \subseteq R,
           NEW st \in State(SolidDict(K, B), R), NEW m \in Models, NEW cur, B \subseteq cur,
           NEW res, res = ScaleDown(st, m, cur)
    PROVE  /\ res \in State(SolidDict(K, B), R)
           /\ Hosts(st.plans, m) = {} => res = st
           /\ Alone /\ Hosts(st.plans, m) # {} => \E b \in B : TakenFrom(st, res, m, b)
  <1> DEFINE hosts == HostSeq(st.plans, m)
  <1>1. st.plans \in Dict(K, B)
    BY StateFields DEF SolidDict
  <1>2. hosts \in Seq(B) /\ ToSet(hosts) = Hosts(st.plans, m)
    BY <1>1, HostSeqElements
  <1>3. Raise(st, "KeyError", ~ (ToSet(hosts) \subseteq cur)) = st
    <2>1. ToSet(hosts) \subseteq B
      BY <1>2 DEF ToSet
    <2> DEFINE when == ~ (ToSet(hosts) \subseteq cur)
    <2>2. when = FALSE
      BY <2>1
    <2> HIDE DEF when
    <2>3. Raise(st, "KeyError", when) = st
      BY <2>2, RaiseState
    <2> QED
      BY <2>3 DEF when
  <1>4. hosts = <<>> <=> Hosts(st.plans, m) = {}
    BY <1>2, EmptySet
  <1>5. CASE hosts = <<>>
    BY <1>4, <1>5 DEF ScaleDown
  <1>6. CASE hosts # <<>>
    <2> DEFINE b == hosts[1]
    <2>1. b \in B /\ b \in Hosts(st.plans, m) /\ b \in Backends
      BY <1>2, <1>6 DEF ToSet
    <2>2. res = RemoveCmodelFromBackend(st, m, b, TRUE)
      BY <1>3, <1>6 DEF ScaleDown
    <2> HIDE DEF b
    <2>3. /\ res \in State(SolidDict(K, B), R)
          /\ Grown(st.unsched, res.unsched, Keys(st.plans), m, b, TRUE)
      <3>1. b \in Backends
        BY <2>1
      <3> HIDE DEF hosts
      <3> QED
        BY <2>2, <3>1, RemoveCmodelResult
    <2>4. Alone => Lost(st.plans, res.plans, m, b) /\ Recorded(st.plans, res.unsched, m, b, TRUE)
      BY <2>1, <2>2, RemoveCmodelAlone
    <2>5. Alone => TakenFrom(st, res, m, b)
      BY <2>1, <2>3, <2>4 DEF TakenFrom
    <2> QED
      BY <1>4, <1>6, <2>1, <2>3, <2>5
  <1> QED
    BY <1>5, <1>6

(* Model m is put on one more backend.                                     *)
PutOn(st, res, m, b) ==
    b \notin Hosts(st.plans, m) /\ b \in Hosts(res.plans, m) /\ Added(st.plans, res.plans, m, b)

(* One step up adds one backend, if there is one to choose.                *)
LEMMA ScaleUpResult ==
    ASSUME NEW K \in SUBSET Key, NEW cur \in Seq(Backends), NEW B, B = ToSet(cur), NEW R,
           NEW st \in State(SolidDict(K, B), R), NEW m \in Models, NEW ks \in Seq(K), AllUse(ks, m), ks # <<>>,
           NEW res, res = ScaleUp(st, m, ks, cur)
    PROVE  /\ res \in State(SolidDict(K, B), R) /\ res.unsched = st.unsched
           /\ ChosenBackend(st, m, cur) = NoBackend => res = st
           /\ ChosenBackend(st, m, cur) # NoBackend => \E b \in B : PutOn(st, res, m, b)
  <1> DEFINE b == ChosenBackend(st, m, cur)
  <1>0. B \in SUBSET Backends /\ b = ChosenBackend(st, m, cur)
    BY DEF ToSet
  <1>1. CASE b = NoBackend
    BY <1>1 DEF ScaleUp
  <1>2. CASE b # NoBackend
    <2>1. res = DeployCmodel(st, m, b, ks)
      BY <1>2 DEF ScaleUp
    <2> HIDE DEF b
    <2>2. b \in B /\ b \in Backends /\ b \notin Hosts(st.plans, m)
      BY <1>0, <1>2, ChosenIn
    <2>3. /\ res \in State(SolidDict(K, B), R) /\ res.unsched = st.unsched
          /\ Added(st.plans, res.plans, m, b) /\ (ks # <<>> => Placed(res.plans, ks[1], m, b))
      BY <1>0, <2>1, <2>2, DeployResult
    <2>4. b \in Hosts(res.plans, m)
      BY <2>3, HostsPlaced
    <2> QED
      BY <1>0, <1>2, <2>2, <2>3, <2>4 DEF PutOn
  <1> QED
    BY <1>1, <1>2

(* The other models stay where they are.                                   *)
Others(d, d2, m) == \A k, x, y : x # m => (Placed(d, k, x, y) <=> Placed(d2, k, x, y))

(* Stops of model m, recorded for the sessions that lost it: of a backend  *)
(* it does not run on any more.                                            *)
Stopped(d, u, d2, u2, m) ==
    /\ DOMAIN u \subseteq DOMAIN u2 /\ \A k \in DOMAIN u : u2[k] = u[k]
    /\ \A k \in DOMAIN u2 \ DOMAIN u : \E b : u2[k] = {<<m, b>>} /\ b \notin Hosts(d2, m)
    /\ \A k, x, y : Placed(d, k, x, y) /\ ~ Placed(d2, k, x, y) => k \in DOMAIN u2

(* What Lost means for the hosts.                                          *)
LEMMA LostHosts ==
    ASSUME NEW d, NEW d2, NEW m, NEW b, Lost(d, d2, m, b)
    PROVE  Hosts(d2, m) = Hosts(d, m) \ {b} /\ Others(d, d2, m)
  <1>1. \A y : y \in Hosts(d2, m) <=> y \in Hosts(d, m) /\ y # b
    BY HostsPlaced DEF Lost
  <1> QED
    BY <1>1 DEF Lost, Others

(* Others is transitive.                                                   *)
LEMMA OthersTrans ==
    ASSUME NEW d, NEW d2, NEW d3, NEW m, Others(d, d2, m), Others(d2, d3, m)
    PROVE  Others(d, d3, m)
  BY DEF Others

(* Stopped is kept by one more step down.                                  *)
LEMMA StoppedStep ==
    ASSUME NEW d, NEW u, NEW x, NEW y, NEW m, NEW b,
           Stopped(d, u, x.plans, x.unsched, m), TakenFrom(x, y, m, b)
    PROVE  Stopped(d, u, y.plans, y.unsched, m)
  <1> DEFINE u1 == x.unsched
             u2 == y.unsched
  <1>1. /\ DOMAIN u1 \subseteq DOMAIN u2 /\ \A k \in DOMAIN u1 : u2[k] = u1[k]
        /\ \A k \in DOMAIN u2 \ DOMAIN u1 : u2[k] = {<<m, b>>}
    BY DEF TakenFrom, Grown
  <1>2. Lost(x.plans, y.plans, m, b) /\ \A k : Placed(x.plans, k, m, b) => k \in DOMAIN u2
    BY DEF TakenFrom, Recorded
  <1>3. Hosts(y.plans, m) = Hosts(x.plans, m) \ {b}
    BY <1>2, LostHosts
  <1> HIDE DEF u1, u2
  <1>4. DOMAIN u \subseteq DOMAIN u2 /\ \A k \in DOMAIN u : u2[k] = u[k]
    BY <1>1 DEF Stopped, u1
  <1>5. ASSUME NEW k \in DOMAIN u2 \ DOMAIN u PROVE \E c : u2[k] = {<<m, c>>} /\ c \notin Hosts(y.plans, m)
    <2>1. CASE k \in DOMAIN u1
      <3>1. PICK c : u1[k] = {<<m, c>>} /\ c \notin Hosts(x.plans, m)
        BY <2>1 DEF Stopped, u1
      <3> QED
        BY <1>1, <1>3, <2>1, <3>1
    <2>2. CASE k \notin DOMAIN u1
      BY <1>1, <1>3, <2>2
    <2> QED
      BY <2>1, <2>2
  <1>6. ASSUME NEW k, NEW q, NEW z, Placed(d, k, q, z), ~ Placed(y.plans, k, q, z) PROVE k \in DOMAIN u2
    <2>1. CASE Placed(x.plans, k, q, z)
      BY <1>2, <1>6, <2>1 DEF Lost
    <2>2. CASE ~ Placed(x.plans, k, q, z)
      BY <1>1, <1>6, <2>2 DEF Stopped, u1
    <2> QED
      BY <2>1, <2>2
  <1> QED
    BY <1>4, <1>5, <1>6 DEF Stopped, u2

(* The hosts of a model are finitely many.                                 *)
LEMMA HostsFinite ==
    ASSUME NEW K, NEW B, IsFiniteSet(B), NEW d \in Dict(K, B), NEW m
    PROVE  Hosts(d, m) \subseteq B /\ IsFiniteSet(Hosts(d, m)) /\ Cardinality(Hosts(d, m)) \in Nat
  <1>1. HostSeq(d, m) \in Seq(B) /\ ToSet(HostSeq(d, m)) = Hosts(d, m)
    BY HostSeqElements
  <1>2. Hosts(d, m) \subseteq B
    BY <1>1 DEF ToSet
  <1> QED
    BY <1>2, FS_Subset, FS_CardinalityType

(* The number of hosts of a model.                                         *)
LEMMA StateCard ==
    ASSUME NEW K, NEW B, IsFiniteSet(B), NEW R, NEW x \in State(SolidDict(K, B), R), NEW m
    PROVE  /\ Hosts(x.plans, m) \subseteq B /\ IsFiniteSet(Hosts(x.plans, m))
           /\ Cardinality(Hosts(x.plans, m)) \in Nat
           /\ Cardinality(Hosts(x.plans, m)) = 0 <=> Hosts(x.plans, m) = {}
  <1>1. x.plans \in Dict(K, B)
    BY StateFields DEF SolidDict
  <1> QED
    BY <1>1, HostsFinite, FS_EmptySet

(* The result of taking model m from num of its backends.                  *)
Down(st, res, m, num) ==
    /\ Others(st.plans, res.plans, m)
    /\ Stopped(st.plans, st.unsched, res.plans, res.unsched, m)
    /\ num <= Cardinality(Hosts(st.plans, m)) =>
          Cardinality(Hosts(res.plans, m)) = Cardinality(Hosts(st.plans, m)) - num

(* Several steps down take as many backends, and record the stops.         *)
LEMMA ScaleDownByResult ==
    ASSUME NEW K \in SUBSET Key, NEW B \in SUBSET Backends, IsFiniteSet(B), NEW R, Exceptions \subseteq R,
           NEW st \in State(SolidDict(K, B), R), NEW m \in Models, NEW num \in Nat, NEW cur, B \subseteq cur,
           NEW res, res = ScaleDownBy(st, m, num, cur)
    PROVE  res \in State(SolidDict(K, B), R) /\ (Alone => Down(st, res, m, num))
  <1> DEFINE U == State(SolidDict(K, B), R)
             Have(x) == Cardinality(Hosts(x.plans, m))
  <1>1. ASSUME NEW x \in U PROVE ScaleDown(x, m, cur) \in U
    BY ScaleDownResult
  <1>2. st \in U
    OBVIOUS
  <1> HIDE DEF U
  <1>3. PICK a : DownRun(a, U, st, m, num, cur)
    BY <1>1, <1>2, ScaleDownBySteps
  <1>4. /\ a \in [0 .. num -> U] /\ a[0] = st /\ res = a[num]
        /\ \A i \in 1 .. num : a[i] = ScaleDown(a[i - 1], m, cur)
    BY <1>3 DEF DownRun
  <1>5. num \in 0 .. num /\ res \in U
    BY <1>4
  <1>6. ASSUME Alone PROVE Down(st, res, m, num)
    <2> DEFINE P == {i \in 0 .. num : Down(st, a[i], m, i)}
    <2>1. 0 \in P
      <3>1. Others(st.plans, st.plans, m) /\ Stopped(st.plans, st.unsched, st.plans, st.unsched, m)
        BY DEF Others, Stopped
      <3>2. Have(st) \in Nat
        BY StateCard
      <3>3. Down(st, st, m, 0)
        <4> HIDE DEF Have
        <4>1. Have(st) = Have(st) - 0
          BY <3>2
        <4> QED
          BY <3>1, <4>1 DEF Down, Have
      <3> QED
        BY <1>4, <3>3
    <2>2. ASSUME NEW i \in 1 .. num, i - 1 \in P PROVE i \in P
      <3> DEFINE x == a[i - 1]
                 y == a[i]
      <3>1. x \in U /\ y = ScaleDown(x, m, cur) /\ Down(st, x, m, i - 1) /\ i \in 0 .. num
        BY <1>4, <2>2
      <3> HIDE DEF x, y, P
      <3>2. x \in State(SolidDict(K, B), R)
        BY <3>1 DEF U
      <3>3. /\ Hosts(x.plans, m) = {} => y = x
            /\ Hosts(x.plans, m) # {} => \E b \in B : TakenFrom(x, y, m, b)
        BY <1>6, <3>1, <3>2, ScaleDownResult
      <3>4. Have(x) \in Nat /\ Have(st) \in Nat /\ (Have(x) = 0 <=> Hosts(x.plans, m) = {}) /\ IsFiniteSet(Hosts(x.plans, m))
        BY <3>2, StateCard
      <3>5. CASE Hosts(x.plans, m) = {}
        <4>1. y = x /\ Have(x) = 0
          BY <3>3, <3>4, <3>5
        <4>2. ~ (i <= Have(st))
          <5> HIDE DEF Have
          <5>1. i - 1 <= Have(st) => Have(x) = Have(st) - (i - 1)
            BY <3>1 DEF Down, Have
          <5> QED
            BY <3>4, <4>1, <5>1
        <4>3. Down(st, y, m, i)
          BY <3>1, <4>1, <4>2 DEF Down
        <4> QED
          BY <3>1, <4>3 DEF P, y
      <3>6. CASE Hosts(x.plans, m) # {}
        <4>1. PICK b \in B : TakenFrom(x, y, m, b)
          BY <3>3, <3>6
        <4>2. Stopped(st.plans, st.unsched, y.plans, y.unsched, m)
          <5>1. Stopped(st.plans, st.unsched, x.plans, x.unsched, m)
            BY <3>1 DEF Down
          <5> QED
            BY <4>1, <5>1, StoppedStep
        <4>3. Hosts(y.plans, m) = Hosts(x.plans, m) \ {b} /\ Others(x.plans, y.plans, m) /\ b \in Hosts(x.plans, m)
          BY <4>1, LostHosts DEF TakenFrom
        <4>4. Others(st.plans, y.plans, m)
          BY <3>1, <4>3, OthersTrans DEF Down
        <4>5. Have(y) = Have(x) - 1
          <5> DEFINE S == Hosts(x.plans, m)
          <5>1. IsFiniteSet(S) /\ b \in S /\ Hosts(y.plans, m) = S \ {b} /\ Have(x) = Cardinality(S)
            BY <3>4, <4>3
          <5> HIDE DEF S
          <5>2. Cardinality(S \ {b}) = Cardinality(S) - 1
            BY <5>1, FS_RemoveElement
          <5> QED
            BY <5>1, <5>2
        <4>6. i <= Have(st) => Have(y) = Have(st) - i
          <5> HIDE DEF Have
          <5>1. i - 1 <= Have(st) => Have(x) = Have(st) - (i - 1)
            BY <3>1 DEF Down, Have
          <5> QED
            BY <3>4, <4>5, <5>1
        <4>7. Down(st, y, m, i)
          BY <4>2, <4>4, <4>6 DEF Down
        <4> QED
          BY <3>1, <4>7 DEF P, y
      <3> QED
        BY <3>5, <3>6
    <2>3. num \in P
      <3>1. \A i \in 1 .. num : i - 1 \in P => i \in P
        BY <2>2
      <3> HIDE DEF P
      <3> QED
        BY <1>5, <2>1, <3>1, UpTo
    <2> QED
      BY <1>4, <2>3
  <1> QED
    BY <1>5, <1>6 DEF U

(* What PutOn means for the hosts.                                         *)
LEMMA AddedHosts ==
    ASSUME NEW x, NEW y, NEW m, NEW b, PutOn(x, y, m, b)
    PROVE  Hosts(y.plans, m) = Hosts(x.plans, m) \cup {b}
  <1>1. \A z : z \in Hosts(y.plans, m) <=> z \in Hosts(x.plans, m) \/ z = b
    BY HostsPlaced DEF PutOn, Added
  <1> QED
    BY <1>1

(* The result of asking for num more backends of model m.                  *)
Up(st, res, m, num, cur) ==
    /\ res.unsched = st.unsched
    /\ More(st.plans, res.plans, {m})
    /\ Cardinality(Hosts(res.plans, m)) <= Cardinality(Hosts(st.plans, m)) + num
    /\ Cardinality(Hosts(res.plans, m)) < Cardinality(Hosts(st.plans, m)) + num =>
          ChosenBackend(res, m, cur) = NoBackend

(* Several steps up add as many backends, or all there are to choose.      *)
LEMMA ScaleUpByResult ==
    ASSUME NEW K \in SUBSET Key, NEW cur \in Seq(Backends), NEW B, B = ToSet(cur), IsFiniteSet(B), NEW R,
           NEW st \in State(SolidDict(K, B), R), NEW m \in Models, NEW num \in Nat,
           NEW ks \in Seq(K), AllUse(ks, m), ks # <<>>,
           NEW res, res = ScaleUpBy(st, m, num, ks, cur)
    PROVE  res \in State(SolidDict(K, B), R) /\ Up(st, res, m, num, cur)
  <1> DEFINE U == State(SolidDict(K, B), R)
             Have(x) == Cardinality(Hosts(x.plans, m))
  <1>1. ASSUME NEW x \in U PROVE ScaleUp(x, m, ks, cur) \in U
    BY ScaleUpResult
  <1>2. st \in U
    OBVIOUS
  <1> HIDE DEF U
  <1>3. PICK a : UpRun(a, U, st, m, num, ks, cur)
    BY <1>1, <1>2, ScaleUpBySteps
  <1>4. /\ a \in [0 .. num -> U] /\ a[0] = st /\ res = a[num]
        /\ \A i \in 1 .. num : a[i] = ScaleUp(a[i - 1], m, ks, cur)
    BY <1>3 DEF UpRun
  <1>5. num \in 0 .. num /\ res \in U
    BY <1>4
  <1> DEFINE P == {i \in 0 .. num : Up(st, a[i], m, i, cur)}
  <1>6. 0 \in P
    <2>1. More(st.plans, st.plans, {m})
      BY DEF More
    <2>2. Have(st) \in Nat
      BY StateCard
    <2>3. Have(st) <= Have(st) + 0 /\ ~ (Have(st) < Have(st) + 0)
      <3> HIDE DEF Have
      <3> QED
        BY <2>2
    <2>4. Up(st, st, m, 0, cur)
      BY <2>1, <2>3 DEF Up
    <2> QED
      BY <1>4, <2>4
  <1>7. ASSUME NEW i \in 1 .. num, i - 1 \in P PROVE i \in P
    <2> DEFINE x == a[i - 1]
               y == a[i]
    <2>1. x \in U /\ y = ScaleUp(x, m, ks, cur) /\ Up(st, x, m, i - 1, cur) /\ i \in 0 .. num
      BY <1>4, <1>7
    <2> HIDE DEF x, y, P
    <2>2. x \in State(SolidDict(K, B), R)
      BY <2>1 DEF U
    <2>3. /\ y.unsched = x.unsched
          /\ ChosenBackend(x, m, cur) = NoBackend => y = x
          /\ ChosenBackend(x, m, cur) # NoBackend => \E b \in B : PutOn(x, y, m, b)
      BY <2>1, <2>2, ScaleUpResult
    <2>4. Have(x) \in Nat /\ Have(st) \in Nat /\ IsFiniteSet(Hosts(x.plans, m))
      BY <2>2, StateCard
    <2>5. CASE ChosenBackend(x, m, cur) = NoBackend
      <3>1. y = x
        BY <2>3, <2>5
      <3>2. Have(x) <= Have(st) + i
        <4>1. Have(x) <= Have(st) + (i - 1)
          BY <2>1 DEF Up
        <4> HIDE DEF Have
        <4> QED
          BY <2>4, <4>1
      <3>3. Up(st, y, m, i, cur)
        BY <2>1, <2>5, <3>1, <3>2 DEF Up
      <3> QED
        BY <2>1, <3>3 DEF P, y
    <2>6. CASE ChosenBackend(x, m, cur) # NoBackend
      <3>1. PICK b \in B : PutOn(x, y, m, b)
        BY <2>3, <2>6
      <3>2. Hosts(y.plans, m) = Hosts(x.plans, m) \cup {b} /\ b \notin Hosts(x.plans, m)
        <4>1. b \notin Hosts(x.plans, m)
          BY <3>1 DEF PutOn
        <4> QED
          BY <3>1, <4>1, AddedHosts
      <3>3. Have(y) = Have(x) + 1
        <4> DEFINE S == Hosts(x.plans, m)
        <4>1. IsFiniteSet(S) /\ b \notin S /\ Hosts(y.plans, m) = S \cup {b} /\ Have(x) = Cardinality(S)
          BY <2>4, <3>2
        <4> HIDE DEF S
        <4>2. Cardinality(S \cup {b}) = Cardinality(S) + 1
          BY <4>1, FS_AddElement
        <4> QED
          BY <4>1, <4>2
      <3>4. Have(x) = Have(st) + (i - 1)
        <4>1. Have(x) <= Have(st) + (i - 1) /\ ~ (Have(x) < Have(st) + (i - 1))
          BY <2>1, <2>6 DEF Up
        <4> HIDE DEF Have
        <4> QED
          BY <2>4, <4>1
      <3>5. Have(y) <= Have(st) + i /\ ~ (Have(y) < Have(st) + i)
        <4> HIDE DEF Have
        <4> QED
          BY <2>4, <3>3, <3>4
      <3>6. More(st.plans, y.plans, {m})
        <4>1. Added(x.plans, y.plans, m, b)
          BY <3>1 DEF PutOn
        <4>2. More(x.plans, y.plans, {m})
          BY <4>1 DEF Added, More
        <4>3. More(st.plans, x.plans, {m})
          BY <2>1 DEF Up
        <4> QED
          BY <4>2, <4>3, MoreTrans
      <3>7. Up(st, y, m, i, cur)
        BY <2>1, <2>3, <3>5, <3>6 DEF Up
      <3> QED
        BY <2>1, <3>7 DEF P, y
    <2> QED
      BY <2>5, <2>6
  <1>8. num \in P
    <2>1. \A i \in 1 .. num : i - 1 \in P => i \in P
      BY <1>7
    <2> HIDE DEF P
    <2> QED
      BY <1>5, <1>6, <2>1, UpTo
  <1> QED
    BY <1>4, <1>5, <1>8 DEF U

(* With few models, a backend that does not run a model has room for it.   *)
LEMMA RunningFew ==
    ASSUME IsFiniteSet(Models), Cardinality(Models) <= MaxModelsPerBackend,
           NEW K, NEW B, NEW d \in Dict(K, B), NEW m \in Models, NEW b, b \notin Hosts(d, m)
    PROVE  Cardinality(RunningModels(d, b)) \in Nat /\ Cardinality(RunningModels(d, b)) < MaxModelsPerBackend
  <1> DEFINE T == RunningModels(d, b)
             S == Models \ {m}
  <1>1. T \subseteq S
    <2> SUFFICES ASSUME NEW o \in AllObjs(d), b \in ToSet(o.backs) PROVE o.model \in S
      BY DEF RunningModels
    <2>1. o \in Plan(B)
      BY DictObjs
    <2>2. o.model # m
      BY DEF Hosts
    <2> QED
      BY <2>1, <2>2 DEF Plan
  <1>2. IsFiniteSet(S) /\ Cardinality(S) = Cardinality(Models) - 1
    BY FS_RemoveElement
  <1>3. Cardinality(Models) \in Nat
    BY FS_CardinalityType
  <1> HIDE DEF S, T
  <1>4. IsFiniteSet(T) /\ Cardinality(T) <= Cardinality(S)
    BY <1>1, <1>2, FS_Subset
  <1>5. Cardinality(T) \in Nat
    BY <1>4, FS_CardinalityType
  <1> QED
    BY <1>2, <1>3, <1>4, <1>5 DEF T, MaxModelsPerBackend

(* With few models, a CPU model for which no backend is found runs on      *)
(* every CPU backend.                                                      *)
LEMMA NoBackendLeft ==
    ASSUME IsFiniteSet(Models), Cardinality(Models) <= MaxModelsPerBackend,
           NEW K, NEW B, NEW R, NEW st \in State(SolidDict(K, B), R), NEW m \in Models, NEW cur \in Seq(Backends),
           ChosenBackend(st, m, cur) = NoBackend, ~ (ModelMem[m] > 0),
           NEW b \in ToSet(cur), b \notin Hosts(st.plans, m)
    PROVE  BackendMem[b] > 0
  <1> SUFFICES ASSUME ~ (BackendMem[b] > 0) PROVE FALSE
    OBVIOUS
  <1> DEFINE d == st.plans
             I == {i \in DOMAIN cur : /\ cur[i] \notin Hosts(st.plans, m)
                                      /\ (BackendMem[cur[i]] > 0) = (ModelMem[m] > 0)
                                      /\ ModelMem[m] > 0 => st.mem[cur[i]] > ModelMem[m]}
             pot == PotentialBackends(st, m, cur)
             Load(c) == IF ModelMem[m] > 0 THEN - st.mem[c] ELSE Cardinality(RunningModels(st.plans, c))
             load == [i \in DOMAIN pot |-> Load(pot[i])]
             fit == {i \in DOMAIN load : ModelMem[m] > 0 \/ load[i] < MaxModelsPerBackend}
             best == {i \in fit : \A j \in fit : load[i] < load[j] \/ (load[i] = load[j] /\ i <= j)}
  <1>1. d \in Dict(K, B)
    BY StateFields DEF SolidDict
  <1>2. pot = At(cur, I) /\ I \in SUBSET DOMAIN cur
    BY DEF PotentialBackends
  <1>3. PICK i0 \in DOMAIN cur : cur[i0] = b
    BY DEF ToSet
  <1>4. i0 \in I
    BY <1>3
  <1>5. \A i \in I : cur[i] \notin Hosts(d, m)
    OBVIOUS
  <1> HIDE DEF I, pot
  <1>6. pot \in Seq(Backends) /\ ToSet(pot) = {cur[i] : i \in I} /\ pot # <<>>
    BY <1>2, <1>4, AtElements
  <1>7. DOMAIN pot = 1 .. Len(pot) /\ Len(pot) \in Nat /\ 1 \in DOMAIN pot
    BY <1>6
  <1>8. ASSUME NEW i \in DOMAIN pot
        PROVE  load[i] \in Nat /\ load[i] < MaxModelsPerBackend /\ pot[i] \in Backends
    <2>1. pot[i] \in ToSet(pot)
      BY DEF ToSet
    <2>2. pot[i] \notin Hosts(d, m)
      BY <1>5, <1>6, <2>1
    <2>3. load[i] = Cardinality(RunningModels(d, pot[i]))
      OBVIOUS
    <2> QED
      BY <1>1, <1>6, <2>2, <2>3, RunningFew
  <1>9. fit = DOMAIN pot
    BY <1>8
  <1>10. best # {}
    <2> HIDE DEF load, Load
    <2> DEFINE L == {load[i] : i \in DOMAIN pot}
    <2>1. L \in SUBSET Nat /\ L # {}
      BY <1>7, <1>8
    <2>2. PICK l \in L : \A x \in L : l <= x
      BY <2>1, LeastElement
    <2> DEFINE J == {i \in DOMAIN pot : load[i] = l}
    <2>3. J \in SUBSET Nat /\ J # {}
      BY <1>7, <2>2
    <2>4. PICK j \in J : \A x \in J : j <= x
      BY <2>3, LeastElement
    <2>5. j \in DOMAIN pot /\ load[j] = l /\ l \in Nat
      BY <1>8, <2>4
    <2>6. ASSUME NEW x \in DOMAIN pot PROVE load[j] < load[x] \/ (load[j] = load[x] /\ j <= x)
      <3>1. l <= load[x] /\ load[x] \in Nat
        BY <1>8, <2>2
      <3>2. CASE load[x] = l
        BY <2>4, <2>5, <3>2
      <3>3. CASE load[x] # l
        BY <2>5, <3>1, <3>3
      <3> QED
        BY <3>2, <3>3
    <2> HIDE DEF fit
    <2>7. j \in best
      BY <1>9, <2>5, <2>6
    <2> QED
      BY <2>7
  <1>11. ChosenBackend(st, m, cur) = pot[CHOOSE i \in best : TRUE]
    <2>1. ChosenBackend(st, m, cur) = IF best = {} THEN NoBackend ELSE pot[CHOOSE i \in best : TRUE]
      BY DEF ChosenBackend, BestBackend, pot
    <2> HIDE DEF best
    <2> QED
      BY <1>10, <2>1
  <1>12. (CHOOSE i \in best : TRUE) \in DOMAIN pot
    <2>1. best \subseteq DOMAIN pot
      BY <1>9
    <2> HIDE DEF best
    <2> QED
      BY <1>10, <2>1
  <1> HIDE DEF best, load
  <1> QED
    BY <1>6, <1>11, <1>12, PolicyAssumption

(* The number of backends a model needs is a natural number.               *)
LEMMA NeedNat ==
    ASSUME NEW reqs \in Seq(Request), NEW m \in Models
    PROVE  Need(reqs, m) \in Nat
  <1>1. \A u \in Nat : \A i \in 1 .. Len(reqs) : AddFps(u, reqs[i], m) \in Nat
    <2> TAKE u \in Nat
    <2> TAKE i \in 1 .. Len(reqs)
    <2>1. reqs[i].fps \in Nat
      BY RequestKeys
    <2> QED
      BY <2>1 DEF AddFps
  <1>2. RequestedFps(reqs, m) \in Nat
    BY <1>1, RequestedFpsIn
  <1>3. ModelFps[m] \in Nat \ {0}
    BY PolicyAssumption
  <1> QED
    BY <1>2, <1>3 DEF Need, CeilDiv

(* The demand of a planned model is met, as DemandMet states it.           *)
FewModels == IsFiniteSet(Models) /\ Cardinality(Models) <= MaxModelsPerBackend
Met(d, m, reqs, B) ==
    Hosts(d, m) # {} =>
        /\ Cardinality(Hosts(d, m)) <= Need(reqs, m)
        /\ Cardinality(Hosts(d, m)) < Need(reqs, m) /\ FewModels =>
              \A b \in B \ Hosts(d, m) : ModelMem[m] > 0 \/ BackendMem[b] > 0

(* Model m was scaled: the others stay, and stops are recorded.            *)
Scaled(x, y, m, reqs, B) ==
    /\ Others(x.plans, y.plans, m)
    /\ Stopped(x.plans, x.unsched, y.plans, y.unsched, m)
    /\ Met(y.plans, m, reqs, B)

(* The sessions that use model m.                                          *)
UsingSessions(before, m) == {i \in DOMAIN before : \E o \in ToSet(before[i].objs) : o.model = m}

(* The sessions _scale_sessions adds plans for use the model.              *)
LEMMA UsersSeq ==
    ASSUME NEW K, NEW B, NEW d \in SolidDict(K, B), NEW m, NEW ks, ks = At(KeySeq(d), UsingSessions(d, m))
    PROVE  /\ ks \in Seq(K) /\ AllUse(ks, m)
           /\ UsingSessions(d, m) # {} => ks # <<>>
           /\ UsingSessions(d, m) = {} => Hosts(d, m) = {}
  <1> DEFINE I == UsingSessions(d, m)
  <1>1. d \in Dict(K, B)
    BY DEF SolidDict
  <1>2. KeySeq(d) \in Seq(K) /\ DOMAIN KeySeq(d) = DOMAIN d /\ \A i \in DOMAIN d : KeySeq(d)[i] = d[i].key
    BY <1>1, DictKeys
  <1>3. I \in SUBSET DOMAIN KeySeq(d)
    BY <1>2 DEF UsingSessions
  <1>4. \A i \in I : m \in ToSet(ModelsOf(KeySeq(d)[i]))
    <2> TAKE i \in I
    <2>1. i \in DOMAIN d
      BY DEF UsingSessions
    <2>2. PICK o \in ToSet(d[i].objs) : o.model = m
      BY DEF UsingSessions
    <2>3. Own(d[i].key, d[i].objs)
      BY <1>1, <2>1, DictEntries
    <2> QED
      BY <1>2, <2>1, <2>2, <2>3 DEF Own
  <1>5. I = {} => Hosts(d, m) = {}
    <2> SUFFICES ASSUME I = {}, NEW o \in AllObjs(d), o.model = m PROVE FALSE
      BY DEF Hosts
    <2>1. PICK i \in DOMAIN d : o \in ToSet(d[i].objs)
      BY <1>1, DictObjs
    <2> QED
      BY <2>1 DEF UsingSessions
  <1> HIDE DEF I
  <1>6. /\ At(KeySeq(d), I) \in Seq(K) /\ ToSet(At(KeySeq(d), I)) = {KeySeq(d)[i] : i \in I}
        /\ At(KeySeq(d), I) = <<>> <=> I = {}
    BY <1>2, <1>3, AtElements
  <1>7. ks = At(KeySeq(d), I)
    BY DEF I
  <1>8. AllUse(ks, m)
    <2> SUFFICES ASSUME NEW n \in DOMAIN ks PROVE m \in ToSet(ModelsOf(ks[n]))
      BY DEF AllUse
    <2>1. ks[n] \in ToSet(ks)
      BY DEF ToSet
    <2> QED
      BY <1>4, <1>6, <1>7, <2>1
  <1> QED
    BY <1>5, <1>6, <1>7, <1>8 DEF I

(* _scale_sessions for one model: the others stay where they are, the      *)
(* stops are recorded, and the demand is met.                              *)
LEMMA ScaleModelState ==
    ASSUME NEW K \in SUBSET Key, NEW cur \in Seq(Backends), NEW B, B = ToSet(cur), IsFiniteSet(B),
           NEW R, Exceptions \subseteq R, NEW x \in State(SolidDict(K, B), R), NEW m \in Models,
           NEW before \in SolidDict(K, B), NEW reqs \in Seq(Request),
           NEW y, y = ScaleModel(x, m, before, reqs, cur)
    PROVE  /\ y \in State(SolidDict(K, B), R)
           /\ Alone /\ Hosts(x.plans, m) = Hosts(before, m) => Scaled(x, y, m, reqs, B)
  <1> DEFINE users == UsingSessions(before, m)
             have == Cardinality(Hosts(before, m))
             need == Need(reqs, m)
             ks == At(KeySeq(before), users)
             up == Missing(need, have)
             down == have - need
  <1>1. y = IF users = {} THEN x
            ELSE IF have > need THEN ScaleDownBy(x, m, down, ToSet(cur))
            ELSE ScaleUpBy(x, m, up, ks, cur)
    BY DEF ScaleModel, UsingSessions
  <1>2. need \in Nat
    BY NeedNat
  <1>3. have \in Nat
    <2>1. before \in Dict(K, B)
      BY DEF SolidDict
    <2> QED
      BY <2>1, HostsFinite
  <1>4. /\ ks \in Seq(K) /\ AllUse(ks, m) /\ (users # {} => ks # <<>>)
        /\ (users = {} => Hosts(before, m) = {})
    BY UsersSeq
  <1>5. B \subseteq Backends
    BY DEF ToSet
  <1>6. /\ have > need => down \in Nat /\ down <= have /\ have - down = need
        /\ ~ (have > need) => up \in Nat /\ have + up = need
    <2> HIDE DEF have, need
    <2> QED
      BY <1>2, <1>3 DEF Missing
  <1>7. have = Cardinality(Hosts(before, m)) /\ need = Need(reqs, m)
    OBVIOUS
  <1> HIDE DEF users, have, need, ks, up, down
  <1>8. CASE users = {}
    <2>1. y = x
      BY <1>1, <1>8
    <2>2. Others(x.plans, x.plans, m) /\ Stopped(x.plans, x.unsched, x.plans, x.unsched, m)
      BY DEF Others, Stopped
    <2>3. Hosts(x.plans, m) = Hosts(before, m) => Met(x.plans, m, reqs, B)
      BY <1>4, <1>8 DEF Met
    <2> QED
      BY <2>1, <2>2, <2>3 DEF Scaled
  <1>9. CASE users # {} /\ have > need
    <2>1. y = ScaleDownBy(x, m, down, ToSet(cur)) /\ down \in Nat /\ B \subseteq ToSet(cur)
      BY <1>1, <1>6, <1>9
    <2>2. y \in State(SolidDict(K, B), R) /\ (Alone => Down(x, y, m, down))
      BY <1>5, <2>1, ScaleDownByResult
    <2>3. ASSUME Alone, Hosts(x.plans, m) = Hosts(before, m) PROVE Scaled(x, y, m, reqs, B)
      <3>1. Others(x.plans, y.plans, m) /\ Stopped(x.plans, x.unsched, y.plans, y.unsched, m)
        BY <2>2, <2>3 DEF Down
      <3>2. Cardinality(Hosts(y.plans, m)) = need
        BY <1>6, <1>7, <1>9, <2>2, <2>3 DEF Down
      <3>3. Met(y.plans, m, reqs, B)
        <4>1. need <= need /\ ~ (need < need)
          BY <1>2
        <4> QED
          BY <1>7, <3>2, <4>1 DEF Met
      <3> QED
        BY <3>1, <3>3 DEF Scaled
    <2> QED
      BY <2>2, <2>3
  <1>10. CASE users # {} /\ ~ (have > need)
    <2>1. y = ScaleUpBy(x, m, up, ks, cur) /\ up \in Nat /\ ks # <<>>
      BY <1>1, <1>4, <1>6, <1>10
    <2>2. y \in State(SolidDict(K, B), R) /\ Up(x, y, m, up, cur)
      BY <1>4, <2>1, ScaleUpByResult
    <2>3. ASSUME Hosts(x.plans, m) = Hosts(before, m) PROVE Scaled(x, y, m, reqs, B)
      <3>1. More(x.plans, y.plans, {m}) /\ y.unsched = x.unsched
        BY <2>2 DEF Up
      <3>2. Others(x.plans, y.plans, m)
        BY <3>1 DEF More, Others
      <3>3. Stopped(x.plans, x.unsched, y.plans, y.unsched, m)
        BY <3>1 DEF More, Stopped
      <3>4. /\ Cardinality(Hosts(y.plans, m)) <= need
            /\ Cardinality(Hosts(y.plans, m)) < need => ChosenBackend(y, m, cur) = NoBackend
        BY <1>6, <1>7, <1>10, <2>2, <2>3 DEF Up
      <3>5. ASSUME Cardinality(Hosts(y.plans, m)) < need, FewModels, NEW b \in B \ Hosts(y.plans, m)
            PROVE  ModelMem[m] > 0 \/ BackendMem[b] > 0
        <4>1. b \in ToSet(cur) /\ b \notin Hosts(y.plans, m) /\ ChosenBackend(y, m, cur) = NoBackend
          BY <3>4, <3>5
        <4>2. IsFiniteSet(Models) /\ Cardinality(Models) <= MaxModelsPerBackend
          BY <3>5 DEF FewModels
        <4> QED
          BY <2>2, <4>1, <4>2, NoBackendLeft
      <3>6. Met(y.plans, m, reqs, B)
        BY <1>7, <3>4, <3>5 DEF Met
      <3> QED
        BY <3>2, <3>3, <3>6 DEF Scaled
    <2> QED
      BY <2>2, <2>3
  <1> QED
    BY <1>8, <1>9, <1>10

(* The models in M were scaled, from st to x.                              *)
Scaling(st, x, M, reqs, B) ==
    /\ \A k, m, b : m \notin M => (Placed(st.plans, k, m, b) <=> Placed(x.plans, k, m, b))
    /\ DOMAIN st.unsched \subseteq DOMAIN x.unsched
    /\ \A k \in DOMAIN st.unsched : x.unsched[k] = st.unsched[k]
    /\ \A k \in DOMAIN x.unsched \ DOMAIN st.unsched :
          \E m \in M : \E b : x.unsched[k] = {<<m, b>>} /\ b \notin Hosts(x.plans, m)
    /\ \A k, m, b : Placed(st.plans, k, m, b) /\ ~ Placed(x.plans, k, m, b) => k \in DOMAIN x.unsched
    /\ \A m \in M : Met(x.plans, m, reqs, B)

(* The same placement, the same hosts.                                     *)
LEMMA SameHosts ==
    ASSUME NEW d, NEW d2, NEW m, \A k, b : Placed(d, k, m, b) <=> Placed(d2, k, m, b)
    PROVE  Hosts(d, m) = Hosts(d2, m)
  <1>1. \A b : b \in Hosts(d, m) <=> b \in Hosts(d2, m)
    BY HostsPlaced
  <1> QED
    BY <1>1

(* The other models keep their hosts.                                      *)
LEMMA OthersHosts ==
    ASSUME NEW d, NEW d2, NEW m, Others(d, d2, m), NEW q, q # m
    PROVE  Hosts(d, q) = Hosts(d2, q)
  <1>1. \A k, b : Placed(d, k, q, b) <=> Placed(d2, k, q, b)
    BY DEF Others
  <1> QED
    BY <1>1, SameHosts

(* Scaling is kept when one more model is scaled.                          *)
LEMMA ScalingStep ==
    ASSUME NEW st, NEW x, NEW y, NEW M, NEW m, m \notin M, NEW reqs, NEW B,
           Scaling(st, x, M, reqs, B), Scaled(x, y, m, reqs, B), NEW M2, M2 = M \cup {m}
    PROVE  Scaling(st, y, M2, reqs, B)
  <1>1. Others(x.plans, y.plans, m) /\ Stopped(x.plans, x.unsched, y.plans, y.unsched, m) /\ Met(y.plans, m, reqs, B)
    BY DEF Scaled
  <1>2. \A q \in M : Hosts(y.plans, q) = Hosts(x.plans, q)
    BY <1>1, OthersHosts
  <1>3. \A k, q, b : q \notin M2 => (Placed(st.plans, k, q, b) <=> Placed(y.plans, k, q, b))
    BY <1>1 DEF Scaling, Others
  <1>4. DOMAIN st.unsched \subseteq DOMAIN y.unsched /\ \A k \in DOMAIN st.unsched : y.unsched[k] = st.unsched[k]
    BY <1>1 DEF Scaling, Stopped
  <1>5. ASSUME NEW k \in DOMAIN y.unsched \ DOMAIN st.unsched
        PROVE  \E q \in M2 : \E b : y.unsched[k] = {<<q, b>>} /\ b \notin Hosts(y.plans, q)
    <2>1. CASE k \in DOMAIN x.unsched
      <3>1. PICK q \in M : \E b : x.unsched[k] = {<<q, b>>} /\ b \notin Hosts(x.plans, q)
        BY <1>5, <2>1 DEF Scaling
      <3>2. PICK b : x.unsched[k] = {<<q, b>>} /\ b \notin Hosts(x.plans, q)
        BY <3>1
      <3>3. y.unsched[k] = x.unsched[k]
        BY <1>1, <2>1 DEF Stopped
      <3> QED
        BY <1>2, <3>2, <3>3
    <2>2. CASE k \notin DOMAIN x.unsched
      <3>1. PICK b : y.unsched[k] = {<<m, b>>} /\ b \notin Hosts(y.plans, m)
        BY <1>1, <1>5, <2>2 DEF Stopped
      <3> QED
        BY <3>1
    <2> QED
      BY <2>1, <2>2
  <1>6. ASSUME NEW k, NEW q, NEW b, Placed(st.plans, k, q, b), ~ Placed(y.plans, k, q, b)
        PROVE  k \in DOMAIN y.unsched
    <2>1. CASE Placed(x.plans, k, q, b)
      BY <1>1, <1>6, <2>1 DEF Stopped
    <2>2. CASE ~ Placed(x.plans, k, q, b)
      <3>1. k \in DOMAIN x.unsched
        BY <1>6, <2>2 DEF Scaling
      <3> QED
        BY <1>1, <3>1 DEF Stopped
    <2> QED
      BY <2>1, <2>2
  <1>7. ASSUME NEW q \in M2 PROVE Met(y.plans, q, reqs, B)
    <2>1. CASE q = m
      BY <1>1, <2>1
    <2>2. CASE q \in M
      <3>1. Met(x.plans, q, reqs, B) /\ Hosts(y.plans, q) = Hosts(x.plans, q)
        BY <1>2, <2>2 DEF Scaling
      <3> QED
        BY <3>1 DEF Met
    <2> QED
      BY <1>7, <2>1, <2>2
  <1> QED
    BY <1>3, <1>4, <1>5, <1>6, <1>7 DEF Scaling

(* The models scaled one after the other.                                  *)
LEMMA ScaleModelsResult ==
    ASSUME NEW K \in SUBSET Key, NEW cur \in Seq(Backends), NEW B, B = ToSet(cur), IsFiniteSet(B),
           NEW R, Exceptions \subseteq R, NEW st \in State(SolidDict(K, B), R),
           NEW reqs \in Seq(Request), NEW ms \in Seq(Models), IsInjective(ms),
           NEW res, res = ScaleModels(st, ms, st.plans, reqs, cur)
    PROVE  /\ res \in State(SolidDict(K, B), R)
           /\ Alone => Scaling(st, res, ToSet(ms), reqs, B)
  <1> DEFINE U == State(SolidDict(K, B), R)
             n == Len(ms)
             d0 == st.plans
             M(i) == {ms[j] : j \in 1 .. i}
  <1>1. n \in Nat /\ DOMAIN ms = 1 .. n
    OBVIOUS
  <1>2. d0 \in SolidDict(K, B)
    BY StateFields
  <1> HIDE DEF n, d0
  <1>3. ASSUME NEW x \in U, NEW i \in 1 .. n
        PROVE  /\ ScaleModel(x, ms[i], d0, reqs, cur) \in U
               /\ Alone /\ Hosts(x.plans, ms[i]) = Hosts(d0, ms[i]) =>
                     Scaled(x, ScaleModel(x, ms[i], d0, reqs, cur), ms[i], reqs, B)
    <2>1. ms[i] \in Models
      BY <1>1
    <2> QED
      BY <1>2, <1>3, <2>1, ScaleModelState
  <1>4. st \in U
    OBVIOUS
  <1> HIDE DEF U
  <1>5. \E a : ScaleRun(a, U, st, ms, d0, reqs, cur)
    <2>1. \A x \in U : \A i \in 1 .. Len(ms) : ScaleModel(x, ms[i], d0, reqs, cur) \in U
      BY <1>3 DEF n
    <2> QED
      BY <1>4, <2>1, ScaleModelsSteps
  <1>6. PICK a : ScaleRun(a, U, st, ms, d0, reqs, cur)
    BY <1>5
  <1>7. /\ a \in [0 .. n -> U] /\ a[0] = st /\ res = a[n]
        /\ \A i \in 1 .. n : a[i] = ScaleModel(a[i - 1], ms[i], d0, reqs, cur)
    BY <1>6 DEF ScaleRun, n, d0
  <1>8. res \in U
    BY <1>1, <1>7
  <1>9. ASSUME Alone PROVE Scaling(st, res, ToSet(ms), reqs, B)
    <2> DEFINE P == {i \in 0 .. n : Scaling(st, a[i], M(i), reqs, B)}
    <2>1. 0 \in P
      <3>1. Scaling(st, st, {}, reqs, B)
        BY DEF Scaling
      <3>2. M(0) = {} /\ 0 \in 0 .. n
        BY <1>1
      <3> QED
        BY <1>7, <3>1, <3>2
    <2>2. ASSUME NEW i \in 1 .. n, i - 1 \in P PROVE i \in P
      <3> DEFINE x == a[i - 1]
                 y == a[i]
                 m == ms[i]
      <3>1. x \in U /\ y = ScaleModel(x, m, d0, reqs, cur) /\ i \in 0 .. n /\ Scaling(st, x, M(i - 1), reqs, B)
        BY <1>1, <1>7, <2>2
      <3>2. M(i) = M(i - 1) \cup {m}
        <4>1. 1 .. i = (1 .. (i - 1)) \cup {i}
          BY <1>1
        <4> QED
          BY <4>1
      <3>3. m \notin M(i - 1)
        <4>1. \A j \in 1 .. (i - 1) : j \in DOMAIN ms /\ i \in DOMAIN ms /\ j # i
          BY <1>1
        <4> QED
          BY <4>1 DEF IsInjective
      <3>4. \A k, b : Placed(d0, k, m, b) <=> Placed(x.plans, k, m, b)
        <4> HIDE DEF M, m, x
        <4> QED
          BY <3>1, <3>3 DEF Scaling, d0
      <3>5. Hosts(x.plans, m) = Hosts(d0, m)
        <4> HIDE DEF M, m, x
        <4> QED
          BY <3>4, SameHosts
      <3>6. Scaled(x, y, m, reqs, B)
        <4>1. Alone /\ Hosts(x.plans, m) = Hosts(d0, m) => Scaled(x, ScaleModel(x, m, d0, reqs, cur), m, reqs, B)
          <5>1. x \in U
            BY <3>1
          <5> HIDE DEF x
          <5> QED
            BY <1>3, <5>1
        <4>2. y = ScaleModel(x, m, d0, reqs, cur)
          BY <3>1
        <4> HIDE DEF x, y, m
        <4> QED
          BY <1>9, <3>5, <4>1, <4>2
      <3>7. Scaling(st, y, M(i), reqs, B)
        <4>1. Scaling(st, x, M(i - 1), reqs, B)
          BY <3>1
        <4> HIDE DEF M, m, x, y
        <4> QED
          BY <3>2, <3>3, <3>6, <4>1, ScalingStep
      <3> QED
        BY <3>1, <3>7
    <2>3. n \in P
      <3> HIDE DEF P
      <3>1. n \in 0 .. n
        BY <1>1
      <3> QED
        BY <1>1, <2>1, <2>2, <3>1, UpTo
    <2>4. M(n) = ToSet(ms)
      BY <1>1 DEF ToSet
    <2> QED
      BY <1>7, <2>3, <2>4
  <1> QED
    BY <1>8, <1>9 DEF U

(* _scale_sessions meets the demand of every requested model, records what *)
(* it stops, and raises no KeyError.                                       *)
LEMMA ScaleSessionsResult ==
    ASSUME NEW K \in SUBSET Key, NEW cur \in Seq(Backends), NEW B, B = ToSet(cur), IsFiniteSet(B),
           NEW R, Exceptions \subseteq R, NEW st \in State(SolidDict(K, B), R),
           NEW reqs \in Seq(Request), NEW known, \A k \in K : ToSet(ModelsOf(k)) \subseteq known,
           NEW res, res = ScaleSessions(st, reqs, known, cur)
    PROVE  /\ res \in State(SolidDict(K, B), R)
           /\ Alone => Scaling(st, res, UNION {ToSet(ModelsOf(k)) : k \in Keys(reqs)}, reqs, B)
  <1> DEFINE ss == [i \in DOMAIN reqs |-> ModelsOf(reqs[i].key)]
             ms == Distinct(Concat(ss))
             M == UNION {ToSet(ModelsOf(k)) : k \in Keys(reqs)}
  <1>1. DOMAIN reqs = 1 .. Len(reqs) /\ Len(reqs) \in Nat /\ Keys(reqs) \subseteq Key
        /\ \A i \in DOMAIN reqs : reqs[i].key \in Keys(reqs)
    BY RequestKeys
  <1>2. \A i \in DOMAIN reqs : ModelsOf(reqs[i].key) \in Seq(Models)
    <2> TAKE i \in DOMAIN reqs
    <2>1. reqs[i].key \in Key
      BY <1>1
    <2> QED
      BY <2>1, ModelsOfKey
  <1>3. ss \in Seq(Seq(Models)) /\ DOMAIN ss = DOMAIN reqs
    <2>1. ss \in [1 .. Len(reqs) -> Seq(Models)]
      BY <1>1, <1>2
    <2> QED
      BY <1>1, <2>1
  <1>4. \A i \in DOMAIN reqs : ss[i] = ModelsOf(reqs[i].key)
    OBVIOUS
  <1> HIDE DEF ss
  <1>5. Concat(ss) \in Seq(Models) /\ ToSet(Concat(ss)) = UNION {ToSet(ss[i]) : i \in DOMAIN ss}
    BY <1>3, ConcatElements
  <1>6. ms \in Seq(Models) /\ ToSet(ms) = ToSet(Concat(ss)) /\ IsInjective(ms)
    BY <1>5, DistinctElements
  <1>7. ToSet(ms) = M
    <2>1. \A k \in Keys(reqs) : \E i \in DOMAIN reqs : reqs[i].key = k
      BY DEF Keys
    <2>2. ToSet(ms) = UNION {ToSet(ModelsOf(reqs[i].key)) : i \in DOMAIN reqs}
      BY <1>3, <1>4, <1>5, <1>6
    <2>3. {ToSet(ModelsOf(reqs[i].key)) : i \in DOMAIN reqs} = {ToSet(ModelsOf(k)) : k \in Keys(reqs)}
      BY <1>1, <2>1
    <2> QED
      BY <2>2, <2>3
  <1>8. res = ScaleModels(st, ms, st.plans, reqs, cur)
    <2> DEFINE when == \E o \in AllObjs(st.plans) : o.model \notin known
    <2>1. when = FALSE
      <3> SUFFICES ASSUME NEW o \in AllObjs(st.plans) PROVE o.model \in known
        OBVIOUS
      <3>1. st.plans \in Dict(K, B)
        BY StateFields DEF SolidDict
      <3>2. PICK i \in DOMAIN st.plans : o \in ToSet(st.plans[i].objs)
        BY <3>1, DictObjs
      <3>3. Own(st.plans[i].key, st.plans[i].objs) /\ st.plans[i].key \in K
        BY <3>1, <3>2, DictEntries
      <3> QED
        BY <3>2, <3>3 DEF Own
    <2>2. res = ScaleModels(Raise(st, "KeyError", when), ms, st.plans, reqs, cur)
      BY DEF ScaleSessions, ss
    <2> HIDE DEF when
    <2>3. Raise(st, "KeyError", FALSE) = st
      BY RaiseState
    <2> QED
      BY <2>1, <2>2, <2>3
  <1> HIDE DEF ms, M
  <1>9. res \in State(SolidDict(K, B), R) /\ (Alone => Scaling(st, res, ToSet(ms), reqs, B))
    BY <1>6, <1>8, ScaleModelsResult
  <1> QED
    BY <1>7, <1>9 DEF M

(* schedule.                                                               *)

(* A dictionary is one over the keys it has.                               *)
LEMMA OwnKeys ==
    ASSUME NEW K, NEW B, NEW R, NEW st \in State(SolidDict(K, B), R), NEW K2, Keys(st.plans) \subseteq K2
    PROVE  st \in State(SolidDict(K2, B), R)
  <1> DEFINE d == st.plans
  <1>1. d \in SolidDict(K, B) /\ d \in Dict(K, B)
    BY StateFields DEF SolidDict
  <1>2. \A i \in DOMAIN d : d[i] \in Entry(K, B) /\ d[i].key \in K2
    <2> TAKE i \in DOMAIN d
    <2>1. d \in Seq(Entry(K, B))
      BY <1>1 DEF Dict
    <2>2. d[i].key \in Keys(d)
      BY DEF Keys
    <2> HIDE DEF d
    <2> QED
      BY <2>1, <2>2 DEF d
  <1>3. \A i \in DOMAIN d : d[i] \in Entry(K2, B)
    <2> HIDE DEF d
    <2> QED
      BY <1>2 DEF Entry
  <1>4. d \in Seq(Entry(K2, B))
    <2> HIDE DEF d
    <2>1. d \in Seq(Entry(K, B))
      BY <1>1 DEF Dict
    <2> QED
      BY <1>3, <2>1, SeqIn
  <1>5. d \in SolidDict(K2, B)
    BY <1>1, <1>4 DEF SolidDict, Dict
  <1> QED
    BY <1>5, StateFields DEF State

(* The elements of a sequence are finitely many.                           *)
LEMMA ListFinite ==
    ASSUME NEW T, NEW s \in Seq(T)
    PROVE  IsFiniteSet(ToSet(s)) /\ ToSet(s) \subseteq T
  <1>1. s \in [1 .. Len(s) -> T] /\ Len(s) \in Nat /\ DOMAIN s = 1 .. Len(s)
    OBVIOUS
  <1>2. IsFiniteSet(1 .. Len(s))
    BY <1>1, FS_Interval
  <1>3. IsFiniteSet({s[i] : i \in 1 .. Len(s)})
    BY <1>1, <1>2, ImageFinite
  <1> QED
    BY <1>1, <1>3 DEF ToSet

(* Kept keeps the placement of sessions not in V.                          *)
LEMMA KeptPlaced ==
    ASSUME NEW d, NEW d2, NEW V, Kept(d, d2, V), NEW k, k \notin V, NEW m, NEW b, Placed(d, k, m, b)
    PROVE  Placed(d2, k, m, b)
  <1>1. PICK e \in ToSet(d) : e.key = k /\ \E o \in ToSet(e.objs) : o.model = m /\ b \in ToSet(o.backs)
    BY DEF Placed
  <1>2. PICK e2 \in ToSet(d2) : SameEntry(e, e2)
    BY <1>1 DEF Kept
  <1>3. PICK j \in DOMAIN e.objs : e.objs[j].model = m /\ b \in ToSet(e.objs[j].backs)
    BY <1>1 DEF ToSet
  <1>4. j \in DOMAIN e2.objs /\ e2.key = k /\ e2.objs[j].model = m /\ b \in ToSet(e2.objs[j].backs)
    BY <1>1, <1>2, <1>3 DEF SameEntry
  <1>5. e2.objs[j] \in ToSet(e2.objs)
    BY <1>4 DEF ToSet
  <1> QED
    BY <1>4, <1>5 DEF Placed

(* Unplanned stops the sessions in V wherever they are placed.             *)
LEMMA UnplannedPlaced ==
    ASSUME NEW d, NEW u, NEW u2, NEW V, Unplanned(d, u, u2, V), NEW k \in V, NEW m, NEW b, Placed(d, k, m, b)
    PROVE  k \in DOMAIN u2 /\ <<m, b>> \in u2[k]
  <1>1. PICK e \in ToSet(d) : e.key = k /\ \E o \in ToSet(e.objs) : o.model = m /\ b \in ToSet(o.backs)
    BY DEF Placed
  <1>2. PICK j \in DOMAIN e.objs : e.objs[j].model = m /\ b \in ToSet(e.objs[j].backs)
    BY <1>1 DEF ToSet
  <1> QED
    BY <1>1, <1>2 DEF Unplanned

(* What schedule makes of the plans d: sessions that are not requested any *)
(* more are stopped wherever they ran; the others, if they lose a backend, *)
(* are stopped somewhere, and where they run no longer; all that lose an   *)
(* expired backend are stopped somewhere; demand is met.                   *)
UsedBy(ks) == UNION {ToSet(ModelsOf(k)) : k \in ks}
Outcome(d, res, lastB, reqs, B) ==
    /\ \A k, m, b : Placed(d, k, m, b) /\ b \in B =>
          \/ Placed(res.plans, k, m, b)
          \/ k \in DOMAIN res.unsched /\ k \notin Keys(reqs) /\ <<m, b>> \in res.unsched[k]
          \/ k \in DOMAIN res.unsched /\ k \in Keys(reqs) /\ res.unsched[k] # {}
    /\ \A k, m, b : Placed(d, k, m, b) /\ b \notin B => k \in DOMAIN res.unsched /\ res.unsched[k] # {}
    /\ lastB \subseteq B => \A k \in Keys(reqs) \cap DOMAIN res.unsched :
          \E m, b : res.unsched[k] = {<<m, b>>} /\ b \notin Hosts(res.plans, m)
    /\ \A m \in UsedBy(Keys(reqs)) : Met(res.plans, m, reqs, B)

(* The record schedule starts with.                                        *)
LEMMA FirstState ==
    ASSUME NEW D, NEW d \in D, NEW R, NEW st, st = [plans |-> d, unsched |-> <<>>, mem |-> BackendMem, raised |-> {}]
    PROVE  st \in State(D, R) /\ st.plans = d /\ st.unsched = <<>>
  <1>1. <<>> \in Unsched
    <2>1. <<>> \in [{} -> SUBSET (Models \X Backends)] /\ DOMAIN <<>> = {}
      OBVIOUS
    <2> QED
      BY <2>1 DEF Unsched
  <1>2. BackendMem \in [Backends -> Int]
    BY PolicyAssumption
  <1> QED
    BY <1>1, <1>2 DEF State

(* The outcome of the passes, put together.                                *)
LEMMA PassesAgree ==
    ASSUME NEW d, NEW st1, NEW st2, NEW st5, NEW res, NEW lastB, NEW reqs, NEW B, NEW V, NEW K, NEW C, NEW R,
           \A k, m, b : Placed(d, k, m, b) /\ b \in B => Placed(st1.plans, k, m, b),
           \A k, m, b : Placed(d, k, m, b) /\ b \notin B => k \in DOMAIN st1.unsched,
           \A k \in Keys(st1.plans) : \E m, b : Placed(st1.plans, k, m, b),
           \A k \in DOMAIN st1.unsched : st1.unsched[k] # {},
           lastB \subseteq B => DOMAIN st1.unsched = {},
           V = Keys(st1.plans) \ Keys(reqs),
           Pruned(st2, st1.plans, st1.unsched, V, K, C, R),
           st5.unsched = st2.unsched, More(st2.plans, st5.plans, Models),
           Scaling(st5, res, UsedBy(Keys(reqs)), reqs, B)
    PROVE  Outcome(d, res, lastB, reqs, B)
  <1> DEFINE u1 == st1.unsched
             u2 == st2.unsched
             u == res.unsched
  <1>1. Kept(st1.plans, st2.plans, V) /\ Unplanned(st1.plans, u1, u2, V)
    BY DEF Pruned
  <1>2. DOMAIN u2 = DOMAIN u1 \cup V /\ \A k \in DOMAIN u1 \ V : u2[k] = u1[k]
    BY <1>1 DEF Unplanned
  <1>3. DOMAIN u2 \subseteq DOMAIN u /\ \A k \in DOMAIN u2 : u[k] = u2[k]
    BY DEF Scaling
  <1>4. \A k \in DOMAIN u \ DOMAIN u2 : \E m, b : u[k] = {<<m, b>>} /\ b \notin Hosts(res.plans, m)
    BY DEF Scaling
  <1>5. ASSUME NEW k, NEW m, NEW b, Placed(d, k, m, b), b \in B, ~ Placed(res.plans, k, m, b)
        PROVE  \/ k \in DOMAIN u /\ k \notin Keys(reqs) /\ <<m, b>> \in u[k]
               \/ k \in DOMAIN u /\ k \in Keys(reqs) /\ u[k] # {}
    <2>1. Placed(st1.plans, k, m, b)
      BY <1>5
    <2>2. k \in Keys(st1.plans)
      <3>1. \E e \in ToSet(st1.plans) : e.key = k
        BY <2>1 DEF Placed
      <3> QED
        BY <3>1, KeysOfEntries
    <2>3. CASE k \in V
      <3>1. k \in DOMAIN u2 /\ <<m, b>> \in u2[k]
        BY <1>1, <2>1, <2>3, UnplannedPlaced
      <3> QED
        BY <1>3, <2>3, <3>1
    <2>4. CASE k \notin V
      <3>1. Placed(st2.plans, k, m, b)
        BY <1>1, <2>1, <2>4, KeptPlaced
      <3>2. Placed(st5.plans, k, m, b)
        BY <3>1 DEF More
      <3>3. k \in DOMAIN u
        BY <1>5, <3>2 DEF Scaling
      <3>4. u[k] # {}
        <4>1. CASE k \in DOMAIN u2
          BY <1>2, <1>3, <2>4, <4>1
        <4>2. CASE k \notin DOMAIN u2
          BY <1>4, <3>3, <4>2
        <4> QED
          BY <4>1, <4>2
      <3> QED
        BY <2>2, <2>4, <3>3, <3>4
    <2> QED
      BY <2>3, <2>4
  <1>6. ASSUME lastB \subseteq B, NEW k \in Keys(reqs) \cap DOMAIN u
        PROVE  \E m, b : u[k] = {<<m, b>>} /\ b \notin Hosts(res.plans, m)
    <2>1. k \notin DOMAIN u2
      BY <1>2, <1>6
    <2> QED
      BY <1>4, <1>6, <2>1
  <1>7. \A m \in UsedBy(Keys(reqs)) : Met(res.plans, m, reqs, B)
    BY DEF Scaling
  <1>8. ASSUME NEW k, NEW m, NEW b, Placed(d, k, m, b), b \notin B PROVE k \in DOMAIN u /\ u[k] # {}
    <2>1. k \in DOMAIN u1 /\ u1[k] # {}
      BY <1>8
    <2>2. k \in DOMAIN u2 /\ k \in DOMAIN u /\ u[k] = u2[k]
      BY <1>2, <1>3, <2>1
    <2>3. CASE k \in V
      <3>1. PICK n, c : Placed(st1.plans, k, n, c)
        BY <2>3
      <3>2. <<n, c>> \in u2[k]
        BY <1>1, <2>3, <3>1, UnplannedPlaced
      <3> QED
        BY <2>2, <3>2
    <2>4. CASE k \notin V
      BY <1>2, <2>1, <2>2, <2>4
    <2> QED
      BY <2>3, <2>4
  <1> QED
    BY <1>5, <1>6, <1>7, <1>8 DEF Outcome

(* schedule leaves plans of requested sessions on registered backends,     *)
(* raises no KeyError, and with pipelines of one model each it raises      *)
(* nothing.                                                                *)
LEMMA RunPassesResult ==
    ASSUME NEW last \in Seq(Request), NEW lastB \in Seq(Backends),
           NEW d \in SolidDict(Keys(last), ToSet(lastB)),
           NEW reqs \in Seq(Request), NEW cur \in Seq(Backends),
           NEW res, res = RunPasses(d, last, lastB, reqs, cur)
    PROVE  /\ res \in State(SolidDict(Keys(reqs), ToSet(cur)), Exceptions)
           /\ Alone => Outcome(d, res, ToSet(lastB), reqs, ToSet(cur))
  <1> DEFINE known == UNION {ToSet(ModelsOf(k)) : k \in Keys(last) \cup Keys(reqs)}
             st0 == [plans |-> d, unsched |-> <<>>, mem |-> BackendMem, raised |-> {}]
             st1 == RemoveExpiredBackends(st0, lastB, cur)
             st2 == RemoveUnusedSessions(st1, reqs, known, ToSet(cur))
             st3 == RemoveUnusedPipelines(st2, last, reqs, ToSet(cur))
             st4 == DeployNewPipelines(st3, reqs, cur)
             st5 == AssignBackends(st4, reqs)
             K0 == Keys(last)
             K == Keys(reqs)
             L == ToSet(lastB)
             B == ToSet(cur)
             C == L \cap B
             V == Keys(st1.plans) \ K
             R == Exceptions
  <1>1. res = ScaleSessions(st5, reqs, known, cur)
    BY DEF RunPasses
  <1>2. K0 \in SUBSET Key /\ K \in SUBSET Key
    BY RequestKeys
  <1>3. B \in SUBSET Backends /\ L \in SUBSET Backends /\ C \in SUBSET Backends /\ IsFiniteSet(B)
        /\ C \subseteq B
    BY ListFinite
  <1>4. \A k \in K0 \cup K : ToSet(ModelsOf(k)) \subseteq known
    OBVIOUS
  <1>5. d \in SolidDict(K0, L) /\ Exceptions \subseteq R /\ L = ToSet(lastB) /\ B = ToSet(cur)
        /\ C = ToSet(lastB) \cap ToSet(cur) /\ V = Keys(st1.plans) \ Keys(reqs) /\ K = Keys(reqs)
    OBVIOUS
  <1> HIDE DEF known, K0, K, L, B, C, V, R
  <1>6. st0 \in State(SolidDict(K0, L), R) /\ st0.plans = d
    BY <1>5, FirstState
  <1> HIDE DEF st0
  <1>7. /\ st1 \in State(SolidDict(K0, C), R)
        /\ L \subseteq B => DOMAIN st1.unsched = {}
        /\ \A k \in DOMAIN st1.unsched : st1.unsched[k] # {}
        /\ \A k, m, b : Placed(d, k, m, b) /\ b \in B => Placed(st1.plans, k, m, b)
        /\ Alone => \A k, m, b : Placed(d, k, m, b) /\ b \notin B => k \in DOMAIN st1.unsched
    <2>1. st0 \in State(SolidDict(K0, ToSet(lastB)), R)
      BY <1>5, <1>6
    <2>1a. st1 = RemoveExpiredBackends(st0, lastB, cur) /\ C = ToSet(lastB) \cap ToSet(cur)
      BY <1>5
    <2> HIDE DEF st1
    <2>2. /\ st1 \in State(SolidDict(K0, C), R)
          /\ Surviving(st0.plans, st1, ToSet(lastB), ToSet(cur))
      BY <1>2, <2>1, <2>1a, ExpiredResult
    <2> QED
      BY <1>5, <1>6, <2>2 DEF Surviving
  <1>8. Keys(st1.plans) \subseteq K0
    <2> HIDE DEF st1
    <2>1. st1.plans \in Dict(K0, C)
      BY <1>7, StateFields DEF SolidDict
    <2> QED
      BY <2>1, DictKeys
  <1> HIDE DEF st1
  <1>9. Pruned(st2, st1.plans, st1.unsched, V, K0, C, R)
    <2>1. \A k \in Keys(st1.plans) : ToSet(ModelsOf(k)) \subseteq known
      BY <1>4, <1>8
    <2>2. C \subseteq ToSet(cur)
      BY <1>3, <1>5
    <2> QED
      BY <1>2, <1>3, <1>5, <1>7, <2>1, <2>2, RemoveUnusedResult
  <1> HIDE DEF st2
  <1>10. st2 \in State(SolidDict(K0 \ V, C), R) /\ Keys(st2.plans) \subseteq K
    BY <1>5, <1>9 DEF Pruned
  <1>11. st2 \in State(SolidDict(K, C), R)
    BY <1>10, OwnKeys
  <1>12. st2 \in State(SolidDict(K, B), R)
    <2>1. State(SolidDict(K, C), R) \subseteq State(SolidDict(K, B), R)
      BY <1>3, StateMonotone
    <2> QED
      BY <1>11, <2>1
  <1>13. st3 = st2
    <2>1. Keys(st2.plans) \subseteq Keys(reqs)
      BY <1>5, <1>10
    <2> QED
      BY <1>12, <2>1, PipelinesIdle
  <1> HIDE DEF st3
  <1>14. /\ st4 \in State(SolidDict(K, B), R)
         /\ Alone => st4.unsched = st2.unsched /\ More(st2.plans, st4.plans, Models)
    <2>1. st4 = DeployNewPipelines(st2, reqs, cur)
      BY <1>13
    <2>2. Keys(reqs) \subseteq K
      BY <1>5
    <2> HIDE DEF st4
    <2> QED
      BY <1>2, <1>5, <1>12, <2>1, <2>2, DeployNewResult
  <1> HIDE DEF st4
  <1>15. /\ st5 \in State(SolidDict(K, B), R)
         /\ st5.unsched = st4.unsched /\ More(st4.plans, st5.plans, Models)
    <2>1. Keys(reqs) \subseteq K
      BY <1>5
    <2> QED
      BY <1>2, <1>14, <2>1, AssignBackendsResult
  <1> HIDE DEF st5
  <1>16. /\ res \in State(SolidDict(K, B), R)
         /\ Alone => Scaling(st5, res, UNION {ToSet(ModelsOf(k)) : k \in Keys(reqs)}, reqs, B)
    <2>1. \A k \in K : ToSet(ModelsOf(k)) \subseteq known
      BY <1>4
    <2> QED
      BY <1>1, <1>2, <1>3, <1>5, <1>15, <2>1, ScaleSessionsResult
  <1>17. ASSUME Alone PROVE Outcome(d, res, L, reqs, B)
    <2>1. More(st2.plans, st5.plans, Models) /\ st5.unsched = st2.unsched
      BY <1>14, <1>15, <1>17, MoreTrans
    <2>2. Scaling(st5, res, UsedBy(Keys(reqs)), reqs, B)
      BY <1>16, <1>17 DEF UsedBy
    <2>3. \A k \in Keys(st1.plans) : \E m, b : Placed(st1.plans, k, m, b)
      <3>1. st1.plans \in SolidDict(K0, C)
        BY <1>7, StateFields
      <3> QED
        BY <3>1, SolidPlaced
    <2> QED
      BY <1>5, <1>7, <1>9, <1>17, <2>1, <2>2, <2>3, PassesAgree
  <1> QED
    BY <1>5, <1>16, <1>17 DEF R

(* The plans a dictionary stands for are well-typed.                       *)
LEMMA SchedulingDataType ==
    ASSUME NEW K \in SUBSET Key, NEW B \in SUBSET Backends, NEW d \in Dict(K, B)
    PROVE  SchedulingData(d) \subseteq Backends \X Models \X Sessions
  <1> SUFFICES ASSUME NEW o \in AllObjs(d), NEW b \in ToSet(o.backs)
               PROVE  <<b, o.model, o.owner[2]>> \in Backends \X Models \X Sessions
    BY DEF SchedulingData
  <1>1. o \in Plan(B)
    BY DictObjs
  <1>2. o.model \in Models /\ o.owner \in Key /\ o.backs \in Seq(B)
    BY <1>1 DEF Plan
  <1>3. b \in B
    BY <1>2 DEF ToSet
  <1>4. o.owner[2] \in Sessions
    BY <1>2 DEF Key
  <1> QED
    BY <1>2, <1>3, <1>4

(* The same for the plans of unscheduling_plans_dict.                      *)
LEMMA UnschedulingDataType ==
    ASSUME NEW u \in Unsched
    PROVE  UnschedulingData(u) \subseteq Backends \X Models \X Sessions
  <1> SUFFICES ASSUME NEW k \in DOMAIN u, NEW x \in u[k]
               PROVE  <<x[2], x[1], k[2]>> \in Backends \X Models \X Sessions
    BY DEF UnschedulingData
  <1>1. PICK D \in SUBSET Key : u \in [D -> SUBSET (Models \X Backends)]
    BY DEF Unsched
  <1>2. k \in Key /\ x \in Models \X Backends
    BY <1>1
  <1> QED
    BY <1>2 DEF Key

(* Nothing is planned yet.                                                 *)
LEMMA NoPlans ==
    /\ <<>> \in SolidDict(Keys(<<>>), ToSet(<<>>))
    /\ Keys(<<>>) = {} /\ ToSet(<<>>) = {} /\ AllObjs(<<>>) = {}
  <1>1. AllObjs(<<>>) = {} /\ ToSet(<<>>) = {} /\ Keys(<<>>) = {}
    BY DEF AllObjs, ToSet, Keys
  <1>2. <<>> \in SolidDict({}, {})
    <2>1. <<>> \in Seq(Entry({}, {})) /\ IsInjective(KeySeq(<<>>)) /\ Consistent(AllObjs(<<>>))
      BY <1>1 DEF IsInjective, KeySeq, Consistent
    <2>2. DOMAIN <<>> = {}
      OBVIOUS
    <2> QED
      BY <2>1, <2>2 DEF SolidDict, Dict
  <1> QED
    BY <1>1, <1>2

-----------------------------------------------------------------------------
(* What the plans per backend announce.                                    *)

(* A session that is placed is announced under its own name, and only the  *)
(* sessions that are placed are.                                           *)
LEMMA Announced ==
    ASSUME Alone, NEW K \in SUBSET Key, NEW B, NEW d \in Dict(K, B), NEW m, NEW b, NEW s
    PROVE  <<b, m, s>> \in SchedulingData(d) <=> \E k \in K : k[2] = s /\ Placed(d, k, m, b)
  <1>1. ASSUME NEW k, k[2] = s, Placed(d, k, m, b) PROVE <<b, m, s>> \in SchedulingData(d)
    <2>1. PICK e \in ToSet(d) : e.key = k /\ \E o \in ToSet(e.objs) : o.model = m /\ b \in ToSet(o.backs)
      BY <1>1 DEF Placed
    <2>2. PICK o \in ToSet(e.objs) : o.model = m /\ b \in ToSet(o.backs)
      BY <2>1
    <2>3. PICK i \in DOMAIN d : e = d[i]
      BY DEF ToSet
    <2>4. Own(e.key, e.objs) /\ ToSet(e.objs) \subseteq AllObjs(d)
      BY <2>3, DictEntries
    <2>5. o.owner = k /\ o \in AllObjs(d)
      BY <2>1, <2>2, <2>4 DEF Own
    <2> QED
      BY <1>1, <2>2, <2>5 DEF SchedulingData
  <1>2. ASSUME <<b, m, s>> \in SchedulingData(d) PROVE \E k \in K : k[2] = s /\ Placed(d, k, m, b)
    <2>1. PICK o \in AllObjs(d) : \E c \in ToSet(o.backs) : <<b, m, s>> = <<c, o.model, o.owner[2]>>
      BY <1>2 DEF SchedulingData
    <2>2. b \in ToSet(o.backs) /\ o.model = m /\ o.owner[2] = s
      BY <2>1
    <2>3. PICK i \in DOMAIN d : o \in ToSet(d[i].objs)
      BY DictObjs
    <2>4. Own(d[i].key, d[i].objs) /\ d[i].key \in K /\ d[i] \in ToSet(d)
      BY DictEntries
    <2>5. o.owner = d[i].key
      BY <2>3, <2>4 DEF Own
    <2>6. Placed(d, d[i].key, m, b)
      BY <2>2, <2>3, <2>4 DEF Placed
    <2> QED
      BY <2>2, <2>4, <2>5, <2>6
  <1> QED
    BY <1>1, <1>2

(* A placed session uses the model it is placed with.                      *)
LEMMA PlacedModel ==
    ASSUME NEW K, NEW B, NEW d \in Dict(K, B), NEW k, NEW m, NEW b, Placed(d, k, m, b)
    PROVE  k \in K /\ m \in ToSet(ModelsOf(k)) /\ b \in Hosts(d, m)
  <1>1. PICK e \in ToSet(d) : e.key = k /\ \E o \in ToSet(e.objs) : o.model = m /\ b \in ToSet(o.backs)
    BY DEF Placed
  <1>2. PICK i \in DOMAIN d : e = d[i]
    BY DEF ToSet
  <1>3. Own(e.key, e.objs) /\ e.key \in K
    BY <1>2, DictEntries
  <1>4. b \in Hosts(d, m)
    BY HostsPlaced
  <1> QED
    BY <1>1, <1>3, <1>4 DEF Own

(* Sessions with the same name that use the same model are the same.       *)
LEMMA SameSession ==
    ASSUME Alone, NEW k \in Key, NEW q \in Key, k[2] = q[2], NEW m,
           m \in ToSet(ModelsOf(k)), m \in ToSet(ModelsOf(q))
    PROVE  k = q
  <1>1. k[1] \in Pipelines /\ q[1] \in Pipelines /\ ModelsOf(k) = PipelineModels[k[1]] /\ ModelsOf(q) = PipelineModels[q[1]]
    BY ModelsOfKey
  <1>2. k[1] = q[1]
    BY <1>1 DEF Alone
  <1> QED
    BY <1>2 DEF Key

(* What unscheduling_plans_dict announces.                                 *)
LEMMA StopAnnounced ==
    ASSUME NEW u \in Unsched, NEW b, NEW m, NEW s
    PROVE  /\ <<b, m, s>> \in UnschedulingData(u) <=> \E k \in DOMAIN u : k[2] = s /\ <<m, b>> \in u[k]
           /\ \A k \in DOMAIN u : k \in Key /\ \A x \in u[k] : x = <<x[1], x[2]>> /\ x[1] \in ToSet(ModelsOf(k))
  <1>1. PICK D \in SUBSET Key : u \in [D -> SUBSET (Models \X Backends)]
    BY DEF Unsched
  <1>2. \A k \in DOMAIN u : k \in Key /\ \A x \in u[k] : x = <<x[1], x[2]>>
    BY <1>1
  <1>3. \A k \in DOMAIN u : \A x \in u[k] : x[1] \in ToSet(ModelsOf(k))
    BY DEF Unsched
  <1>4. <<b, m, s>> \in UnschedulingData(u) => \E k \in DOMAIN u : k[2] = s /\ <<m, b>> \in u[k]
    <2> SUFFICES ASSUME <<b, m, s>> \in UnschedulingData(u) PROVE \E k \in DOMAIN u : k[2] = s /\ <<m, b>> \in u[k]
      OBVIOUS
    <2>1. PICK k \in DOMAIN u : \E x \in u[k] : <<b, m, s>> = <<x[2], x[1], k[2]>>
      BY DEF UnschedulingData
    <2> QED
      BY <1>2, <2>1
  <1>5. ASSUME NEW k \in DOMAIN u, k[2] = s, <<m, b>> \in u[k] PROVE <<b, m, s>> \in UnschedulingData(u)
    <2> DEFINE x == <<m, b>>
    <2>1. x[1] = m /\ x[2] = b /\ x \in u[k]
      BY <1>5
    <2> HIDE DEF x
    <2>2. <<x[2], x[1], k[2]>> \in UnschedulingData(u)
      BY <2>1 DEF UnschedulingData
    <2> QED
      BY <1>5, <2>1, <2>2
  <1> QED
    BY <1>2, <1>3, <1>4, <1>5
===============================================================================
