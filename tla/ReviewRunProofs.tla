--------------------------- MODULE ReviewRunProofs --------------------------
(***************************************************************************)
(* Theorems about ReviewRun, for any fleet, environment and number of lost *)
(* calls.  First what its functions of the configuration return: a choice  *)
(* of entries keeps their order, a cost is a sum, a round with promotions  *)
(* keeps the fleet, an order of trial has its fresh entries first, and no  *)
(* two branches share a seat.  Then the steps: each moves one branch, from *)
(* one of its records to the next; the inductive invariant says of each    *)
(* record what the stages it has passed have done, and each action is      *)
(* shown to lead from such a record to such a record.  The plan does not   *)
(* change once it is made, and the chains of the branches are its orders   *)
(* of trial.                                                               *)
(***************************************************************************)
EXTENDS ReviewRun, FiniteSetTheorems, SequenceTheorems, WellFoundedInduction, TLAPS

-----------------------------------------------------------------------------
(* Sequences of entries *)

Elements(s) == {s[i] : i \in DOMAIN s}

\* A set of numbers that is not empty has a least one.
LEMMA Least ==
    ASSUME NEW T \in SUBSET Nat, T # {}
    PROVE  \E m \in T : \A k \in T : m <= k
  <1>1. PICK m \in T : \A k \in T : <<k, m>> \notin OpToRel(<, Nat)
    BY WFMin, NatLessThanWellFounded
  <1>2. \A k \in T : ~(k < m)
    BY <1>1 DEF OpToRel
  <1> QED
    BY <1>2

\* The places of a finite set of places are counted through, each once.
LEMMA PlacesCounted ==
    ASSUME NEW S, S \subseteq Nat, IsFiniteSet(S)
    PROVE  /\ Cardinality(S) \in Nat
           /\ \A i \in S : UpTo(S, i) \in 1 .. Cardinality(S)
           /\ \A i, j \in S : UpTo(S, i) = UpTo(S, j) => i = j
           /\ \A n \in 1 .. Cardinality(S) : \E i \in S : UpTo(S, i) = n
  <1> DEFINE Before(i) == {j \in S : j <= i}
  <1>1. Cardinality(S) \in Nat
    BY FS_CardinalityType
  <1>2. ASSUME NEW i \in S
        PROVE  /\ Before(i) \subseteq S /\ i \in Before(i) /\ IsFiniteSet(Before(i))
               /\ Cardinality(Before(i)) \in 1 .. Cardinality(S)
    <2>1. Before(i) \subseteq S /\ i \in Before(i)
      OBVIOUS
    <2>2. IsFiniteSet(Before(i)) /\ Cardinality(Before(i)) <= Cardinality(S)
      BY <2>1, FS_Subset
    <2>3. Cardinality(Before(i)) \in Nat /\ Cardinality(Before(i)) # 0
      BY <2>1, <2>2, FS_CardinalityType, FS_EmptySet
    <2>4. QED
      BY <1>1, <2>1, <2>2, <2>3
  <1>3. ASSUME NEW i \in S, NEW j \in S, i < j
        PROVE  Cardinality(Before(i)) < Cardinality(Before(j))
    <2>1. Before(i) \in SUBSET Before(j) /\ j \notin Before(i) /\ j \in Before(j)
      <3>1. i \in Nat /\ j \in Nat
        OBVIOUS
      <3>2. \A l \in S : l \in Nat
        OBVIOUS
      <3>3. j \notin Before(i) /\ j \in Before(j)
        BY <1>3, <3>1
      <3>4. \A l \in S : l <= i => l <= j
        BY <1>3, <3>1, <3>2
      <3> QED
        BY <3>3, <3>4
    <2>2. IsFiniteSet(Before(j))
      BY <1>2
    <2>3. Cardinality(Before(i)) <= Cardinality(Before(j)) /\ Cardinality(Before(i)) # Cardinality(Before(j))
      BY <2>1, <2>2, FS_Subset
    <2>4. Cardinality(Before(i)) \in Nat /\ Cardinality(Before(j)) \in Nat
      BY <1>1, <1>2
    <2> QED
      BY <2>3, <2>4
  <1>4. \A i, j \in S : UpTo(S, i) = UpTo(S, j) => i = j
    <2> SUFFICES ASSUME NEW i \in S, NEW j \in S, UpTo(S, i) = UpTo(S, j) PROVE i = j
      OBVIOUS
    <2>1. Cardinality(Before(i)) = Cardinality(Before(j)) /\ Cardinality(Before(i)) \in Nat
      BY <1>1, <1>2 DEF UpTo
    <2>2. ~ (i < j) /\ ~ (j < i)
      BY <1>3, <2>1
    <2> QED
      BY <2>2
  <1>5. \A i \in S : UpTo(S, i) \in 1 .. Cardinality(S)
    BY <1>2 DEF UpTo
  <1> DEFINE T == 1 .. Cardinality(S)
             f == [i \in S |-> UpTo(S, i)]
  <1>6. f \in Injection(S, T)
    BY <1>4, <1>5 DEF Injection, IsInjective
  <1>7. IsFiniteSet(T) /\ Cardinality(T) = Cardinality(S)
    BY <1>1, FS_Interval
  <1>8. f \in Surjection(S, T)
    <2> HIDE DEF T, f
    <2> QED BY <1>6, <1>7, FS_Injection
  <1>9. \A n \in T : \E i \in S : f[i] = n
    BY <1>8 DEF Surjection
  <1>10. \A n \in 1 .. Cardinality(S) : \E i \in S : UpTo(S, i) = n
    BY <1>9
  <1> QED
    BY <1>1, <1>4, <1>5, <1>10

\* Picking takes the entries at the places, and nothing else.
LEMMA PickedIs ==
    ASSUME NEW E, NEW s \in Seq(E), NEW P \in SUBSET DOMAIN s
    PROVE  /\ Cardinality(P) \in Nat
           /\ Picked(s, P) \in Seq(E)
           /\ Len(Picked(s, P)) = Cardinality(P)
           /\ Elements(Picked(s, P)) = {s[i] : i \in P}
           /\ \A n \in 1 .. Cardinality(P) :
                \E i \in P : UpTo(P, i) = n /\ Picked(s, P)[n] = s[i]
           /\ \A i \in P : UpTo(P, i) \in 1 .. Cardinality(P) /\ Picked(s, P)[UpTo(P, i)] = s[i]
  <1>1. Len(s) \in Nat /\ DOMAIN s = 1 .. Len(s) /\ \A i \in 1 .. Len(s) : s[i] \in E
    BY LenProperties
  <1>2. P \subseteq Nat /\ IsFiniteSet(P)
    <2>1. IsFiniteSet(1 .. Len(s))
      BY <1>1, FS_Interval
    <2> QED
      BY <1>1, <2>1, FS_Subset
  <1>3. /\ Cardinality(P) \in Nat
        /\ \A i \in P : UpTo(P, i) \in 1 .. Cardinality(P)
        /\ \A i, j \in P : UpTo(P, i) = UpTo(P, j) => i = j
        /\ \A n \in 1 .. Cardinality(P) : \E i \in P : UpTo(P, i) = n
    BY <1>2, PlacesCounted
  <1> DEFINE at(n) == CHOOSE i \in P : UpTo(P, i) = n
  <1>4. \A n \in 1 .. Cardinality(P) : at(n) \in P /\ UpTo(P, at(n)) = n
    BY <1>3
  <1>5. \A i \in P : at(UpTo(P, i)) = i
    BY <1>3, <1>4
  <1>6. Picked(s, P) = [n \in 1 .. Cardinality(P) |-> s[at(n)]]
    BY DEF Picked
  <1> HIDE DEF at
  <1> DEFINE p == Picked(s, P)
  <1>7. p \in [1 .. Cardinality(P) -> E]
    BY <1>1, <1>4, <1>6
  <1>8. p \in Seq(E)
    BY <1>3, <1>7, SeqDef
  <1>9. Len(p) = Cardinality(P)
    BY <1>3, <1>7, <1>8, LenProperties
  <1>10. /\ \A n \in 1 .. Cardinality(P) : p[n] = s[at(n)]
         /\ DOMAIN p = 1 .. Cardinality(P)
    BY <1>6
  <1>11. \A i \in P : p[UpTo(P, i)] = s[i]
    BY <1>3, <1>5, <1>10
  <1> HIDE DEF p
  <1>12. Elements(p) \subseteq {s[i] : i \in P}
    BY <1>4, <1>10 DEF Elements
  <1>13. {s[i] : i \in P} \subseteq Elements(p)
    BY <1>3, <1>10, <1>11 DEF Elements
  <1> QED
    BY <1>3, <1>4, <1>8, <1>9, <1>10, <1>11, <1>12, <1>13 DEF p

LEMMA ElementsConcat ==
    ASSUME NEW E, NEW s \in Seq(E), NEW t \in Seq(E)
    PROVE  /\ s \o t \in Seq(E)
           /\ Len(s \o t) = Len(s) + Len(t)
           /\ Elements(s \o t) = Elements(s) \cup Elements(t)
  <1> DEFINE u == s \o t
  <1>1. /\ u \in Seq(E) /\ Len(u) = Len(s) + Len(t)
        /\ \A i \in 1 .. Len(s) + Len(t) : u[i] = IF i <= Len(s) THEN s[i] ELSE t[i - Len(s)]
    BY ConcatProperties
  <1>2. /\ Len(s) \in Nat /\ Len(t) \in Nat /\ Len(u) \in Nat
        /\ DOMAIN s = 1 .. Len(s) /\ DOMAIN t = 1 .. Len(t) /\ DOMAIN u = 1 .. Len(u)
    BY <1>1, LenProperties
  <1> HIDE DEF u
  <1>3. \A i \in 1 .. Len(s) : i \in 1 .. Len(u) /\ u[i] = s[i]
    BY <1>1, <1>2
  <1>4. ASSUME NEW i \in 1 .. Len(t) PROVE Len(s) + i \in 1 .. Len(u) /\ u[Len(s) + i] = t[i]
    <2>1. Len(s) + i \in 1 .. Len(s) + Len(t) /\ ~(Len(s) + i <= Len(s)) /\ (Len(s) + i) - Len(s) = i
      BY <1>2
    <2> QED
      BY <1>1, <2>1
  <1>5. ASSUME NEW i \in 1 .. Len(u)
        PROVE  \/ i \in 1 .. Len(s) /\ u[i] = s[i]
               \/ i - Len(s) \in 1 .. Len(t) /\ u[i] = t[i - Len(s)]
    BY <1>1, <1>2
  <1>6. Elements(u) \subseteq Elements(s) \cup Elements(t)
    BY <1>2, <1>5 DEF Elements
  <1>7. Elements(s) \cup Elements(t) \subseteq Elements(u)
    BY <1>2, <1>3, <1>4 DEF Elements
  <1> QED
    BY <1>1, <1>6, <1>7 DEF u

-----------------------------------------------------------------------------
(* The cost of a round *)

IsSums(s, f) ==
    f = [n \in 0 .. Len(s) |-> IF n = 0 THEN 0 ELSE f[n - 1] + s[n].minutes]

Sums(s) == CHOOSE f : IsSums(s, f)

LEMMA SumsExist ==
    ASSUME NEW s \in Seq(Entry)
    PROVE  IsSums(s, Sums(s)) /\ Minutes(s) = Sums(s)[Len(s)]
  <1>1. Len(s) \in Nat
    BY LenProperties
  <1> DEFINE Upto(n, f) == f = [k \in 0 .. n |-> IF k = 0 THEN 0 ELSE f[k - 1] + s[k].minutes]
             Bad == {n \in 0 .. Len(s) : ~ \E f : Upto(n, f)}
  <1>2. Bad = {}
    <2> SUFFICES ASSUME Bad # {} PROVE FALSE
      OBVIOUS
    <2>1. Bad \in SUBSET Nat
      BY <1>1
    <2>2. PICK m \in Bad : \A k \in Bad : m <= k
      <3> HIDE DEF Bad
      <3> QED
        BY <2>1, Least
    <2>3. m \in 0 .. Len(s) /\ ~ \E f : Upto(m, f)
      OBVIOUS
    <2>4. CASE m = 0
      <3> DEFINE f == [k \in 0 .. 0 |-> 0]
      <3>1. \A k \in 0 .. 0 : k = 0
        OBVIOUS
      <3>2. Upto(0, f)
        BY <3>1
      <3> QED
        BY <2>3, <2>4, <3>2
    <2>5. CASE m # 0
      <3>1. m - 1 \in 0 .. Len(s) /\ m - 1 < m
        BY <1>1, <2>3, <2>5
      <3>2. m - 1 \notin Bad
        <4> HIDE DEF Bad
        <4> QED
          BY <1>1, <2>2, <2>3, <3>1
      <3>3. PICK g : Upto(m - 1, g)
        BY <3>1, <3>2
      <3> DEFINE f == [k \in 0 .. m |-> IF k = m THEN g[m - 1] + s[m].minutes ELSE g[k]]
      <3>4. ASSUME NEW k \in 0 .. m
            PROVE  f[k] = IF k = 0 THEN 0 ELSE f[k - 1] + s[k].minutes
        <4>1. CASE k = m
          <5>1. f[k] = g[m - 1] + s[m].minutes /\ f[k - 1] = g[m - 1]
            BY <1>1, <2>3, <2>5, <4>1
          <5> QED
            BY <2>5, <4>1, <5>1
        <4>2. CASE k # m
          <5>1. k \in 0 .. (m - 1) /\ f[k] = g[k]
            BY <1>1, <2>3, <4>2
          <5>2. g[k] = IF k = 0 THEN 0 ELSE g[k - 1] + s[k].minutes
            BY <3>3, <5>1
          <5>3. k # 0 => f[k - 1] = g[k - 1]
            BY <1>1, <2>3, <5>1
          <5> QED
            BY <5>1, <5>2, <5>3
        <4> QED
          BY <4>1, <4>2
      <3>5. Upto(m, f)
        <4>1. f = [k \in 0 .. m |-> f[k]]
          OBVIOUS
        <4> HIDE DEF f
        <4> QED
          BY <3>4, <4>1
      <3> QED
        BY <2>3, <3>5
    <2> QED
      BY <2>4, <2>5
  <1>3. \E f : Upto(Len(s), f)
    BY <1>1, <1>2
  <1>4. IsSums(s, Sums(s))
    BY <1>3 DEF IsSums, Sums
  <1>5. Minutes(s) = Sums(s)[Len(s)]
    BY DEF Minutes, Sums, IsSums
  <1> QED
    BY <1>4, <1>5

\* The sums are determined, and are numbers.
LEMMA SumsDetermined ==
    ASSUME NEW s \in Seq(Entry), NEW f, IsSums(s, f)
    PROVE  \A n \in 0 .. Len(s) : f[n] \in Nat /\ f[n] = Sums(s)[n]
  <1>1. Len(s) \in Nat /\ \A n \in 1 .. Len(s) : s[n].minutes \in Nat
    <2>1. \A e \in Entry : e.minutes \in Nat
      BY DEF Entry
    <2> QED
      BY <2>1, LenProperties
  <1> DEFINE g == Sums(s)
             Bad == {n \in 0 .. Len(s) : ~(f[n] \in Nat /\ f[n] = g[n])}
  <1>2. IsSums(s, g)
    BY SumsExist
  <1> HIDE DEF g
  <1>3. ASSUME NEW n \in 0 .. Len(s)
        PROVE  /\ f[n] = IF n = 0 THEN 0 ELSE f[n - 1] + s[n].minutes
               /\ g[n] = IF n = 0 THEN 0 ELSE g[n - 1] + s[n].minutes
    BY <1>2 DEF IsSums
  <1>4. Bad = {}
    <2> SUFFICES ASSUME Bad # {} PROVE FALSE
      OBVIOUS
    <2>1. Bad \in SUBSET Nat
      BY <1>1
    <2>2. PICK m \in Bad : \A k \in Bad : m <= k
      <3> HIDE DEF Bad
      <3> QED
        BY <2>1, Least
    <2>3. m \in 0 .. Len(s) /\ ~(f[m] \in Nat /\ f[m] = g[m])
      OBVIOUS
    <2>4. m # 0
      BY <1>3, <2>3
    <2>5. m - 1 \in 0 .. Len(s) /\ ~(m <= m - 1) /\ m \in 1 .. Len(s)
      BY <1>1, <2>3, <2>4
    <2>6. m - 1 \notin Bad
      <3> HIDE DEF Bad
      <3> QED
        BY <2>2, <2>5
    <2>7. f[m - 1] \in Nat /\ f[m - 1] = g[m - 1]
      BY <2>5, <2>6
    <2>8. f[m] = f[m - 1] + s[m].minutes /\ g[m] = g[m - 1] + s[m].minutes
      BY <1>3, <2>3, <2>4
    <2> QED
      BY <1>1, <2>3, <2>5, <2>7, <2>8
  <1> QED
    BY <1>4 DEF g

LEMMA MinutesConcat ==
    ASSUME NEW s \in Seq(Entry), NEW t \in Seq(Entry)
    PROVE  /\ Minutes(s) \in Nat /\ Minutes(t) \in Nat
           /\ Minutes(s \o t) = Minutes(s) + Minutes(t)
  <1> DEFINE u == s \o t
             f == Sums(s)
             g == Sums(t)
             h == [n \in 0 .. Len(s) + Len(t) |->
                     IF n <= Len(s) THEN f[n] ELSE f[Len(s)] + g[n - Len(s)]]
  <1>1. /\ u \in Seq(Entry) /\ Len(u) = Len(s) + Len(t)
        /\ \A i \in 1 .. Len(s) + Len(t) : u[i] = IF i <= Len(s) THEN s[i] ELSE t[i - Len(s)]
    BY ConcatProperties
  <1>2. Len(s) \in Nat /\ Len(t) \in Nat
    BY LenProperties
  <1>3. /\ IsSums(s, f) /\ Minutes(s) = f[Len(s)]
        /\ IsSums(t, g) /\ Minutes(t) = g[Len(t)]
    BY SumsExist
  <1>4. /\ \A n \in 0 .. Len(s) : f[n] \in Nat
        /\ \A n \in 0 .. Len(t) : g[n] \in Nat
    BY <1>3, SumsDetermined
  <1> HIDE DEF f, g, u
  <1>5. /\ \A n \in 0 .. Len(s) : f[n] = IF n = 0 THEN 0 ELSE f[n - 1] + s[n].minutes
        /\ \A n \in 0 .. Len(t) : g[n] = IF n = 0 THEN 0 ELSE g[n - 1] + t[n].minutes
    BY <1>3 DEF IsSums
  <1>6. ASSUME NEW n \in 0 .. Len(s) + Len(t)
        PROVE  h[n] = IF n = 0 THEN 0 ELSE h[n - 1] + u[n].minutes
    <2>1. CASE n = 0
      BY <1>2, <1>5, <2>1
    <2>2. CASE n # 0 /\ n <= Len(s)
      <3>1. n \in 0 .. Len(s) /\ n \in 1 .. Len(s) + Len(t) /\ n - 1 <= Len(s) /\ n - 1 \in 0 .. Len(s) + Len(t)
        BY <1>2, <2>2
      <3>2. u[n] = s[n] /\ h[n] = f[n] /\ h[n - 1] = f[n - 1]
        BY <1>1, <2>2, <3>1
      <3> QED
        BY <1>5, <2>2, <3>1, <3>2
    <2>3. CASE n = Len(s) + 1
      <3>1. /\ n \in 1 .. Len(s) + Len(t) /\ ~(n <= Len(s)) /\ n - Len(s) = 1 /\ n - 1 = Len(s)
            /\ n - 1 \in 0 .. Len(s) + Len(t) /\ n - 1 <= Len(s) /\ 1 \in 0 .. Len(t) /\ 0 \in 0 .. Len(t)
        BY <1>2, <2>3
      <3>2. u[n] = t[1] /\ h[n] = f[Len(s)] + g[1] /\ h[n - 1] = f[Len(s)]
        BY <1>1, <3>1
      <3>3. g[1] = g[0] + t[1].minutes /\ g[0] = 0
        BY <1>5, <3>1
      <3>4. t[1].minutes \in Nat
        <4>1. t[1] \in Entry
          BY <1>2, <3>1, LenProperties
        <4> QED
          BY <4>1 DEF Entry
      <3> QED
        BY <1>2, <2>3, <3>2, <3>3, <3>4
    <2>4. CASE n > Len(s) + 1
      <3> DEFINE k == n - Len(s)
      <3>1. /\ n \in 1 .. Len(s) + Len(t) /\ ~(n <= Len(s)) /\ ~(n - 1 <= Len(s))
            /\ k \in 1 .. Len(t) /\ k \in 0 .. Len(t) /\ k - 1 \in 0 .. Len(t) /\ k # 0
            /\ (n - 1) - Len(s) = k - 1 /\ n - 1 \in 0 .. Len(s) + Len(t) /\ n # 0
        BY <1>2, <2>4
      <3>2. u[n] = t[k] /\ h[n] = f[Len(s)] + g[k] /\ h[n - 1] = f[Len(s)] + g[k - 1]
        BY <1>1, <3>1
      <3>3. g[k] = g[k - 1] + t[k].minutes
        BY <1>5, <3>1
      <3>4. t[k].minutes \in Nat /\ g[k - 1] \in Nat /\ f[Len(s)] \in Nat
        <4>1. t[k] \in Entry
          BY <1>2, <3>1, LenProperties
        <4>2. Len(s) \in 0 .. Len(s)
          BY <1>2
        <4>3. t[k].minutes \in Nat
          BY <4>1 DEF Entry
        <4> QED
          BY <1>4, <3>1, <4>2, <4>3
      <3> HIDE DEF k, h
      <3> QED
        BY <3>1, <3>2, <3>3, <3>4
    <2> QED
      BY <1>2, <2>1, <2>2, <2>3, <2>4
  <1>7. IsSums(u, h)
    <2>1. h = [n \in 0 .. Len(u) |-> h[n]]
      BY <1>1
    <2> HIDE DEF h
    <2> QED
      BY <1>1, <1>6, <2>1 DEF IsSums
  <1>8. Len(u) \in 0 .. Len(u) /\ Len(s) \in 0 .. Len(s) /\ Len(t) \in 0 .. Len(t)
    BY <1>1, <1>2
  <1>9. Minutes(u) = h[Len(u)]
    <2> HIDE DEF h
    <2> QED
      BY <1>1, <1>7, <1>8, SumsDetermined, SumsExist
  <1>10. h[Len(u)] = f[Len(s)] + g[Len(t)]
    <2>1. CASE Len(t) = 0
      <3>1. g[Len(t)] = 0
        BY <1>5, <1>8, <2>1
      <3> QED
        BY <1>1, <1>2, <1>4, <1>8, <2>1, <3>1
    <2>2. CASE Len(t) # 0
      <3>1. ~(Len(u) <= Len(s)) /\ Len(u) - Len(s) = Len(t)
        BY <1>1, <1>2, <2>2
      <3> QED
        BY <1>1, <1>8, <3>1
    <2> QED
      BY <2>1, <2>2
  <1> QED
    BY <1>3, <1>4, <1>8, <1>9, <1>10 DEF u

\* The cost asks the minutes of the entries only.
LEMMA MinutesSame ==
    ASSUME NEW s \in Seq(Entry), NEW t \in Seq(Entry), Len(s) = Len(t),
           \A i \in 1 .. Len(s) : s[i].minutes = t[i].minutes
    PROVE  Minutes(s) = Minutes(t)
  <1>1. Len(s) \in Nat
    BY LenProperties
  <1>2. IsSums(s, Sums(s))
    BY SumsExist
  <1>3. \A n \in 0 .. Len(s) : n # 0 => s[n].minutes = t[n].minutes
    BY <1>1
  <1>4. IsSums(t, Sums(s))
    BY <1>2, <1>3 DEF IsSums
  <1>5. Len(s) \in 0 .. Len(s)
    BY <1>1
  <1> QED
    BY <1>4, <1>5, SumsExist, SumsDetermined

-----------------------------------------------------------------------------
(* The plan *)

LEMMA Roles ==
    ASSUME NEW f \in Fleets, NEW r
    PROVE  LET P == {i \in DOMAIN f.models : f.models[i].role = r}
           IN  /\ OfRole(f.models, r) \in Seq(Entry)
               /\ Elements(OfRole(f.models, r)) = {f.models[i] : i \in P}
  <1> DEFINE P == {i \in DOMAIN f.models : f.models[i].role = r}
  <1>1. f.models \in Seq(Entry)
    BY RunConstants
  <1>2. P \in SUBSET DOMAIN f.models
    OBVIOUS
  <1>3. OfRole(f.models, r) = Picked(f.models, P)
    BY DEF OfRole
  <1> HIDE DEF P
  <1>4. /\ Picked(f.models, P) \in Seq(Entry)
        /\ Elements(Picked(f.models, P)) = {f.models[i] : i \in P}
    BY <1>1, <1>2, PickedIs
  <1>5. /\ OfRole(f.models, r) \in Seq(Entry)
        /\ Elements(OfRole(f.models, r)) = {f.models[i] : i \in P}
    BY <1>3, <1>4
  <1> QED
    BY <1>5 DEF P

\* The entries that run anyway: there are some.
LEMMA ExistingIs ==
    ASSUME fleet \in Fleets
    PROVE  /\ Actives \in Seq(Entry) /\ Trials \in Seq(Entry) /\ Backups \in Seq(Entry)
           /\ Actives \o Trials \in Seq(Entry)
           /\ Elements(Actives \o Trials) = Elements(Actives) \cup Elements(Trials)
           /\ Elements(Actives) # {}
  <1>1. /\ Actives \in Seq(Entry) /\ Trials \in Seq(Entry) /\ Backups \in Seq(Entry)
        /\ Elements(Actives)
             = {fleet.models[i] : i \in {j \in DOMAIN fleet.models : fleet.models[j].role = "active"}}
    BY Roles DEF Actives, Trials, Backups
  <1>2. \E i \in DOMAIN fleet.models : fleet.models[i].role = "active"
    BY RunConstants
  <1>3. Elements(Actives) # {}
    BY <1>1, <1>2
  <1>4. /\ Actives \o Trials \in Seq(Entry)
        /\ Elements(Actives \o Trials) = Elements(Actives) \cup Elements(Trials)
    BY <1>1, ElementsConcat
  <1> QED
    BY <1>1, <1>3, <1>4

AsActive(e) == [e EXCEPT !.role = "active"]

LEMMA AsActiveIs ==
    ASSUME NEW e \in Entry
    PROVE  /\ AsActive(e) \in Entry
           /\ AsActive(e).label = e.label /\ AsActive(e).driver = e.driver
           /\ AsActive(e).env = e.env /\ AsActive(e).minutes = e.minutes
  BY DEF Entry, AsActive

\* Promoting takes the backups at the places, as active entries.
LEMMA PromotedIs ==
    ASSUME NEW s \in Seq(Entry), NEW P \in SUBSET DOMAIN s
    PROVE  /\ Promoted(s, P) \in Seq(Entry)
           /\ Len(Promoted(s, P)) = Cardinality(P)
           /\ \A e \in Elements(Promoted(s, P)) : \E i \in P : e = AsActive(s[i])
           /\ \A i \in P : AsActive(s[i]) \in Elements(Promoted(s, P))
           /\ \A n \in 1 .. Cardinality(P) :
                Picked(s, P)[n] \in Entry /\ Promoted(s, P)[n] = AsActive(Picked(s, P)[n])
  <1> DEFINE k == Picked(s, P)
             p == Promoted(s, P)
  <1>1. /\ Cardinality(P) \in Nat
        /\ k \in Seq(Entry) /\ Len(k) = Cardinality(P)
        /\ \A n \in 1 .. Cardinality(P) : \E i \in P : k[n] = s[i]
        /\ \A i \in P : UpTo(P, i) \in 1 .. Cardinality(P) /\ k[UpTo(P, i)] = s[i]
    BY PickedIs
  <1>2. p = [n \in 1 .. Cardinality(P) |-> AsActive(k[n])]
    BY DEF Promoted, AsActive
  <1> HIDE DEF k, p
  <1>3. \A n \in 1 .. Cardinality(P) : k[n] \in Entry
    BY <1>1, ElementOfSeq
  <1>4. p \in [1 .. Cardinality(P) -> Entry]
    BY <1>2, <1>3, AsActiveIs
  <1>5. p \in Seq(Entry) /\ Len(p) = Cardinality(P) /\ DOMAIN p = 1 .. Cardinality(P)
    <2>1. p \in Seq(Entry)
      <3>1. Cardinality(P) \in Nat
        BY <1>1
      <3> QED
        BY <1>4, <3>1, SeqDef
    <2>2. DOMAIN p = 1 .. Len(p) /\ Len(p) \in Nat
      BY <2>1, LenProperties
    <2>3. DOMAIN p = 1 .. Cardinality(P)
      BY <1>4
    <2> QED
      BY <1>1, <2>1, <2>2, <2>3
  <1>6. \A n \in 1 .. Cardinality(P) : p[n] = AsActive(k[n])
    BY <1>2
  <1>7. \A e \in Elements(p) : \E i \in P : e = AsActive(s[i])
    BY <1>1, <1>5, <1>6 DEF Elements
  <1>8. \A i \in P : AsActive(s[i]) \in Elements(p)
    BY <1>1, <1>5, <1>6 DEF Elements
  <1> QED
    BY <1>3, <1>5, <1>6, <1>7, <1>8 DEF k, p

LEMMA DriversAre ==
    ASSUME NEW s \in Seq(Entry)
    PROVE  DriversOf(s) = {e.driver : e \in Elements(s)} /\ LabelsOf(s) = {e.label : e \in Elements(s)}
  BY DEF DriversOf, LabelsOf, Elements

\* The last backup promoted was promoted beside all the others.
LEMMA LastPromoted ==
    ASSUME NEW s \in Seq(Entry), NEW P \in SUBSET DOMAIN s, P # {}
    PROVE  \E i \in P :
             LET before == {j \in P : j < i}
             IN  /\ Len(Promoted(s, P)) = Len(Promoted(s, before) \o <<s[i]>>)
                 /\ Minutes(Promoted(s, P)) = Minutes(Promoted(s, before) \o <<s[i]>>)
  <1>1. Len(s) \in Nat /\ DOMAIN s = 1 .. Len(s) /\ \A i \in 1 .. Len(s) : s[i] \in Entry
    BY LenProperties
  <1>2. IsFiniteSet(P) /\ P \subseteq Nat
    <2>1. IsFiniteSet(1 .. Len(s))
      BY <1>1, FS_Interval
    <2> QED
      BY <1>1, <2>1, FS_Subset
  <1>3. PICK i \in P : \A j \in P : j <= i
    <2> DEFINE T == {Len(s) - j : j \in P}
    <2>1. T \in SUBSET Nat /\ T # {}
      BY <1>1
    <2>2. PICK m \in T : \A k \in T : m <= k
      BY <2>1, Least
    <2>3. PICK i \in P : m = Len(s) - i
      OBVIOUS
    <2>4. \A j \in P : Len(s) - i <= Len(s) - j
      BY <2>2, <2>3
    <2>5. \A j \in P : j <= i
      BY <1>1, <2>4
    <2> QED
      BY <2>5
  <1> DEFINE Q == {j \in P : j < i}
  <1>4. Q \in SUBSET DOMAIN s /\ Q \cup {i} = P /\ i \notin Q /\ IsFiniteSet(Q)
    <2>1. \A j \in P : j < i \/ j = i
      BY <1>2, <1>3
    <2>2. Q \subseteq P /\ Q \cup {i} = P /\ i \notin Q
      BY <1>2, <2>1
    <2> QED
      BY <1>2, <2>2, FS_Subset
  <1>5. Cardinality(P) = Cardinality(Q) + 1 /\ Cardinality(Q) \in Nat
    BY <1>4, FS_AddElement, FS_CardinalityType
  <1>6. \A j \in Q : UpTo(P, j) = UpTo(Q, j)
    <2> SUFFICES ASSUME NEW j \in Q PROVE {l \in P : l <= j} = {l \in Q : l <= j}
      BY DEF UpTo
    <2>1. \A l \in P : l <= j => l < i
      BY <1>2
    <2> QED
      BY <2>1
  <1>7. UpTo(P, i) = Cardinality(P)
    <2>1. {l \in P : l <= i} = P
      BY <1>3
    <2> QED
      BY <2>1 DEF UpTo
  <1> DEFINE p == Promoted(s, P)
             q == Promoted(s, Q)
             u == q \o <<s[i]>>
             n == Cardinality(Q)
  <1> HIDE DEF Q
  <1>8. s[i] \in Entry /\ <<s[i]>> \in Seq(Entry) /\ Len(<<s[i]>>) = 1 /\ <<s[i]>>[1] = s[i]
    BY <1>1
  <1>9. /\ p \in Seq(Entry) /\ Len(p) = n + 1
        /\ q \in Seq(Entry) /\ Len(q) = n
        /\ u \in Seq(Entry) /\ Len(u) = n + 1
    BY <1>4, <1>5, <1>8, PromotedIs, ElementsConcat
  <1>10. ASSUME NEW k \in 1 .. n + 1 PROVE p[k].minutes = u[k].minutes
    <2>1. CASE k = n + 1
      <3>1. Picked(s, P)[n + 1] = s[i]
        BY <1>5, <1>7, PickedIs
      <3>2. p[n + 1] = AsActive(s[i])
        BY <1>5, <3>1, PromotedIs
      <3>3. u[n + 1] = s[i]
        <4>1. n + 1 \in 1 .. Len(q) + Len(<<s[i]>>) /\ ~(n + 1 <= Len(q)) /\ (n + 1) - Len(q) = 1
          BY <1>5, <1>8, <1>9
        <4> QED
          BY <1>8, <1>9, <4>1, ConcatProperties
      <3>4. AsActive(s[i]).minutes = s[i].minutes
        BY <1>8, AsActiveIs
      <3> HIDE DEF p, q, u, n
      <3> QED
        BY <2>1, <3>2, <3>3, <3>4
    <2>2. CASE k # n + 1
      <3>1. k \in 1 .. n /\ k \in 1 .. Len(q) + Len(<<s[i]>>) /\ k <= Len(q) /\ k \in 1 .. Cardinality(P)
        BY <1>5, <1>8, <1>9, <2>2
      <3>2. u[k] = q[k]
        BY <1>8, <1>9, <3>1, ConcatProperties
      <3>3. PICK j \in Q : UpTo(Q, j) = k /\ Picked(s, Q)[k] = s[j]
        BY <1>4, <3>1, PickedIs
      <3>4. j \in P /\ UpTo(P, j) = k
        BY <1>4, <1>6, <3>3
      <3>5. Picked(s, P)[k] = s[j]
        BY <3>4, PickedIs
      <3>6. p[k] = AsActive(s[j]) /\ q[k] = AsActive(s[j])
        BY <1>4, <3>1, <3>3, <3>5, PromotedIs
      <3> QED
        BY <3>2, <3>6
    <2> QED
      BY <2>1, <2>2
  <1>11. Minutes(p) = Minutes(u)
    <2> HIDE DEF p, u, q, n
    <2> QED
      BY <1>9, <1>10, MinutesSame
  <1>12. Len(p) = Len(u)
    BY <1>9
  <1> QED
    BY <1>11, <1>12 DEF Q

LEMMA MiddleCost ==
    ASSUME NEW a \in Seq(Entry), NEW t \in Seq(Entry), NEW c \in Seq(Entry), NEW d \in Seq(Entry),
           Minutes(c) = Minutes(d), NEW tools
    PROVE  Cost(a \o c \o t, tools) = Cost(a \o t \o d, tools)
  <1>1. a \o c \in Seq(Entry) /\ a \o t \in Seq(Entry)
    BY ElementsConcat
  <1>2. /\ Minutes(a) \in Nat /\ Minutes(t) \in Nat /\ Minutes(c) \in Nat
        /\ Minutes(a \o c) = Minutes(a) + Minutes(c)
        /\ Minutes(a \o t) = Minutes(a) + Minutes(t)
    BY MinutesConcat
  <1>3. /\ Minutes(a \o c \o t) = Minutes(a \o c) + Minutes(t)
        /\ Minutes(a \o t \o d) = Minutes(a \o t) + Minutes(d)
    BY <1>1, MinutesConcat
  <1>4. Minutes(a \o c \o t) = Minutes(a \o t \o d)
    BY <1>2, <1>3
  <1> QED
    BY <1>4 DEF Cost

\* A round with promotions runs the configured fleet, one driver, within the
\* budget, and keeps no promoted entry as a spare.
LEMMA EscalationIs ==
    ASSUME fleet \in Fleets, Escalate
    PROVE  /\ {reviewers', spares', promoted'} \subseteq Seq(Entry)
           /\ concurrent' \in BOOLEAN
           /\ EscalationKeepsTheFleet'
  <1> DEFINE a == Actives
             t == Trials
             k == Backups
             ex == a \o t
  <1>1. /\ a \in Seq(Entry) /\ t \in Seq(Entry) /\ k \in Seq(Entry) /\ ex \in Seq(Entry)
        /\ Elements(ex) = Elements(a) \cup Elements(t) /\ Elements(a) # {}
    BY ExistingIs
  <1>2. fleet' = fleet /\ Actives' = a /\ Trials' = t
    BY DEF Escalate, inputs, Actives, Trials
  <1>3. PICK down \in SUBSET Tokens, P \in SUBSET DOMAIN k :
          LET conc == Len(ex) > 1 /\ Resolves(ex, down)
              chosen == Promoted(k, P)
          IN  /\ PlanEscalation(ex, k, conc, P)
              /\ concurrent' = conc
              /\ promoted' = chosen
              /\ reviewers' = a \o chosen \o t
              /\ spares' = Picked(k, {i \in DOMAIN k : k[i].label \notin LabelsOf(chosen)})
    BY DEF Escalate
  <1> DEFINE conc == Len(ex) > 1 /\ Resolves(ex, down)
             c == Promoted(k, P)
             R == {i \in DOMAIN k : k[i].label \notin LabelsOf(c)}
  <1>4. /\ PlanEscalation(ex, k, conc, P)
        /\ concurrent' = conc /\ promoted' = c /\ reviewers' = a \o c \o t
        /\ spares' = Picked(k, R)
    BY <1>3
  <1> HIDE DEF a, t, k, ex
  <1>5. /\ c \in Seq(Entry)
        /\ \A e \in Elements(c) : \E i \in P : e = AsActive(k[i])
    BY <1>1, PromotedIs
  <1>6. \A i \in DOMAIN k : k[i] \in Entry
    BY <1>1, LenProperties
  <1>7. Picked(k, R) \in Seq(Entry) /\ Elements(Picked(k, R)) = {k[i] : i \in R}
    <2>1. R \in SUBSET DOMAIN k
      OBVIOUS
    <2> HIDE DEF R
    <2> QED
      BY <1>1, <2>1, PickedIs
  <1>8. /\ a \o c \in Seq(Entry) /\ a \o c \o t \in Seq(Entry)
        /\ Elements(a \o c \o t) = Elements(a) \cup Elements(c) \cup Elements(t)
    <2> HIDE DEF c
    <2>1. c \in Seq(Entry)
      BY <1>5
    <2>2. a \o c \in Seq(Entry) /\ Elements(a \o c) = Elements(a) \cup Elements(c)
      BY <1>1, <2>1, ElementsConcat
    <2>3. /\ a \o c \o t \in Seq(Entry)
          /\ Elements(a \o c \o t) = Elements(a \o c) \cup Elements(t)
      <3>1. PICK b : b = a \o c
        OBVIOUS
      <3>2. b \in Seq(Entry) /\ t \in Seq(Entry)
        BY <1>1, <2>2, <3>1
      <3>3. b \o t \in Seq(Entry) /\ Elements(b \o t) = Elements(b) \cup Elements(t)
        BY <3>2, ElementsConcat
      <3> QED
        BY <3>1, <3>3
    <2> QED
      BY <2>2, <2>3
  <1>9. ASSUME NEW i \in P
        PROVE  Promotable(ex, Promoted(k, {j \in P : j < i}), k[i], conc)
    BY <1>4 DEF PlanEscalation
  <1> HIDE DEF conc, R
  <1>10. PICK x : x \in Elements(a)
    BY <1>1
  <1>11. ex # <<>> /\ DriversOf(ex) = {e.driver : e \in Elements(ex)} /\ DriversOf(ex) # {}
    <2>1. DriversOf(ex) = {e.driver : e \in Elements(ex)}
      BY <1>1, DriversAre
    <2>2. x \in Elements(ex)
      BY <1>1, <1>10
    <2>3. ex # <<>>
      BY <2>2 DEF Elements
    <2> QED
      BY <2>1, <2>2, <2>3
  <1>12. ASSUME NEW i \in P
         PROVE  /\ conc => HasIdentity(k[i])
                /\ DriversOf(ex) = {k[i].driver}
                /\ fleet.budget # NoBudget =>
                     Cost(ex \o Promoted(k, {j \in P : j < i}) \o <<k[i]>>, fleet.tools) <= fleet.budget
    BY <1>9, <1>11 DEF Promotable
  <1>13. ASSUME c # <<>> PROVE P # {}
    <2>1. P = {} => Len(c) = 0
      BY <1>1, PromotedIs, FS_EmptySet
    <2> QED
      BY <1>5, <1>13, <2>1, EmptySeq
  <1>14. ASSUME c # <<>>
         PROVE  /\ Elements(a) \cup Elements(t) \subseteq Elements(a \o c \o t)
                /\ Cardinality(DriversOf(a \o c \o t)) = 1
                /\ fleet.budget # NoBudget => Cost(a \o c \o t, fleet.tools) <= fleet.budget
                /\ LabelsOf(c) \cap LabelsOf(Picked(k, R)) = {}
                /\ conc => \A e \in Elements(c) : HasIdentity(e)
    <2>1. PICK i \in P : LET before == {j \in P : j < i}
                         IN  Minutes(c) = Minutes(Promoted(k, before) \o <<k[i]>>)
      BY <1>1, <1>13, <1>14, LastPromoted
    <2>2. Cardinality(DriversOf(a \o c \o t)) = 1
      <3>1. DriversOf(ex) = {k[i].driver}
        BY <1>12
      <3>2. \A e \in Elements(c) : e.driver \in DriversOf(ex)
        <4> SUFFICES ASSUME NEW e \in Elements(c) PROVE e.driver \in DriversOf(ex)
          OBVIOUS
        <4>1. PICK j \in P : e = AsActive(k[j])
          BY <1>5
        <4>2. e.driver = k[j].driver
          BY <1>6, <4>1, AsActiveIs
        <4> QED
          BY <1>12, <4>2
      <3>3. DriversOf(a \o c \o t) = {e.driver : e \in Elements(a \o c \o t)}
        BY <1>8, DriversAre
      <3>4. DriversOf(a \o c \o t) = DriversOf(ex)
        BY <1>1, <1>8, <1>11, <3>2, <3>3
      <3> QED
        BY <3>1, <3>4, FS_Singleton
    <2>3. ASSUME fleet.budget # NoBudget PROVE Cost(a \o c \o t, fleet.tools) <= fleet.budget
      <3> DEFINE before == {j \in P : j < i}
                 q == Promoted(k, before)
                 one == <<k[i]>>
      <3>1. q \in Seq(Entry) /\ one \in Seq(Entry) /\ q \o one \in Seq(Entry)
        <4>1. before \in SUBSET DOMAIN k
          OBVIOUS
        <4>2. q \in Seq(Entry)
          <5> HIDE DEF before
          <5> QED
            BY <1>1, <4>1, PromotedIs
        <4>3. one \in Seq(Entry)
          BY <1>6
        <4> QED
          BY <4>2, <4>3, ElementsConcat
      <3>2. Cost(ex \o q \o one, fleet.tools) <= fleet.budget
        BY <1>12, <2>3
      <3>3. Minutes(c) = Minutes(q \o one)
        BY <2>1
      <3> HIDE DEF q, one, c
      <3>4. Cost(a \o c \o t, fleet.tools) = Cost(a \o t \o (q \o one), fleet.tools)
        <4>1. PICK d : d = q \o one
          OBVIOUS
        <4>2. d \in Seq(Entry) /\ c \in Seq(Entry) /\ Minutes(c) = Minutes(d)
          BY <1>5, <3>1, <3>3, <4>1
        <4>3. Cost(a \o c \o t, fleet.tools) = Cost(a \o t \o d, fleet.tools)
          BY <1>1, <4>2, MiddleCost
        <4> QED
          BY <4>1, <4>3
      <3>5. ex \o q \o one = ex \o (q \o one)
        <4>1. ex \in Seq(Entry) /\ q \in Seq(Entry) /\ one \in Seq(Entry)
          BY <1>1, <3>1
        <4> QED
          BY <4>1, ConcatAssociative
      <3> QED
        BY <3>2, <3>4, <3>5 DEF ex
    <2>4. LabelsOf(c) \cap LabelsOf(Picked(k, R)) = {}
      <3>1. LabelsOf(Picked(k, R)) = {e.label : e \in Elements(Picked(k, R))}
        BY <1>7, DriversAre
      <3> QED
        BY <1>7, <3>1 DEF R
    <2>5. ASSUME conc, NEW e \in Elements(c) PROVE HasIdentity(e)
      <3>1. PICK j \in P : e = AsActive(k[j])
        BY <1>5
      <3>2. e.env = k[j].env
        BY <1>6, <3>1, AsActiveIs
      <3> QED
        BY <1>12, <2>5, <3>2 DEF HasIdentity
    <2> QED
      BY <1>8, <2>2, <2>3, <2>4, <2>5
  <1>15. EscalationKeepsTheFleet'
    <2> HIDE DEF c
    <2>1. CASE c = <<>>
      BY <1>4, <2>1 DEF EscalationKeepsTheFleet
    <2>2. CASE c # <<>>
      <3>1. /\ Elements(Actives') \cup Elements(Trials') \subseteq Elements(reviewers')
            /\ Cardinality(DriversOf(reviewers')) = 1
            /\ fleet'.budget # NoBudget => Cost(reviewers', fleet'.tools) <= fleet'.budget
            /\ LabelsOf(promoted') \cap LabelsOf(spares') = {}
            /\ concurrent' => \A e \in Elements(promoted') : HasIdentity(e)
        BY <1>2, <1>4, <1>14, <2>2
      <3> QED
        BY <3>1 DEF EscalationKeepsTheFleet, Elements
    <2> QED
      BY <2>1, <2>2
  <1>16. conc \in BOOLEAN
    BY DEF conc, Resolves
  <1> QED
    BY <1>4, <1>5, <1>7, <1>8, <1>15, <1>16

-----------------------------------------------------------------------------
(* The order of trial *)

LEMMA PoolIs ==
    ASSUME NEW e \in Entry, spares \in Seq(Entry)
    PROVE  /\ Pool(e) \in Seq(Entry)
           /\ e \in Elements(Pool(e))
           /\ \A x \in Elements(Pool(e)) : x.driver = e.driver
  <1> DEFINE P == {i \in DOMAIN spares : spares[i].driver = e.driver}
             others == Picked(spares, P)
             one == <<e>>
  <1>1. others \in Seq(Entry) /\ Elements(others) = {spares[i] : i \in P}
    <2>1. P \in SUBSET DOMAIN spares
      OBVIOUS
    <2> HIDE DEF P
    <2> QED
      BY <2>1, PickedIs
  <1>2. one \in Seq(Entry) /\ Elements(one) = {e}
    <2>1. one \in Seq(Entry) /\ DOMAIN one = {1} /\ one[1] = e
      OBVIOUS
    <2> QED
      BY <2>1 DEF Elements
  <1>3. Pool(e) = one \o others
    BY DEF Pool
  <1>4. \A x \in Elements(others) : x.driver = e.driver
    BY <1>1
  <1> HIDE DEF one, others
  <1>5. one \o others \in Seq(Entry) /\ Elements(one \o others) = Elements(one) \cup Elements(others)
    BY <1>1, <1>2, ElementsConcat
  <1> QED
    BY <1>2, <1>3, <1>4, <1>5

\* Neither cooling nor too small.
Fresh(e) == e.fits /\ ~Cooling(e)

RankOf(pool, fit, cool) ==
    Picked(pool, {i \in DOMAIN pool : pool[i].fits = fit /\ Cooling(pool[i]) = cool})

LEMMA RankIs ==
    ASSUME NEW pool \in Seq(Entry), NEW fit, NEW cool
    PROVE  /\ RankOf(pool, fit, cool) \in Seq(Entry)
           /\ Elements(RankOf(pool, fit, cool))
                = {e \in Elements(pool) : e.fits = fit /\ Cooling(e) = cool}
  <1> DEFINE P == {i \in DOMAIN pool : pool[i].fits = fit /\ Cooling(pool[i]) = cool}
  <1>1. P \in SUBSET DOMAIN pool
    OBVIOUS
  <1>2. {pool[i] : i \in P} = {e \in Elements(pool) : e.fits = fit /\ Cooling(e) = cool}
    BY DEF Elements
  <1>3. RankOf(pool, fit, cool) = Picked(pool, P)
    BY DEF RankOf
  <1> HIDE DEF P
  <1> QED
    BY <1>1, <1>2, <1>3, PickedIs

\* Every entry of the pool is tried, the fresh ones before the others.
LEMMA OrderIs ==
    ASSUME NEW pool \in Seq(Entry)
    PROVE  /\ Order(pool) \in Seq(Entry)
           /\ Elements(Order(pool)) = Elements(pool)
           /\ \E k \in 0 .. Len(Order(pool)) :
                /\ \A i \in 1 .. k : Fresh(Order(pool)[i])
                /\ \A i \in (k + 1) .. Len(Order(pool)) : ~Fresh(Order(pool)[i])
  <1>0. PICK yes, no : yes = TRUE /\ no = FALSE
    OBVIOUS
  <1> DEFINE A == RankOf(pool, yes, no)
             B == RankOf(pool, yes, yes)
             C == RankOf(pool, no, no)
             D == RankOf(pool, no, yes)
             rest == B \o (C \o D)
             o == Order(pool)
  <1>1. /\ A \in Seq(Entry)
        /\ Elements(A) = {e \in Elements(pool) : e.fits = yes /\ Cooling(e) = no}
    BY RankIs
  <1>2a. /\ B \in Seq(Entry)
         /\ Elements(B) = {e \in Elements(pool) : e.fits = yes /\ Cooling(e) = yes}
    BY RankIs
  <1>2b. /\ C \in Seq(Entry)
         /\ Elements(C) = {e \in Elements(pool) : e.fits = no /\ Cooling(e) = no}
    BY RankIs
  <1>2c. /\ D \in Seq(Entry)
         /\ Elements(D) = {e \in Elements(pool) : e.fits = no /\ Cooling(e) = yes}
    BY RankIs
  <1>2. /\ B \in Seq(Entry) /\ C \in Seq(Entry) /\ D \in Seq(Entry)
    BY <1>2a, <1>2b, <1>2c
  <1>3. o = A \o B \o C \o D
    BY <1>0 DEF Order, RankOf
  <1> HIDE DEF A, B, C, D, o
  <1>4. C \o D \in Seq(Entry) /\ Elements(C \o D) = Elements(C) \cup Elements(D)
    BY <1>2, ElementsConcat
  <1>5. rest \in Seq(Entry) /\ Elements(rest) = Elements(B) \cup (Elements(C) \cup Elements(D))
    <2>1. PICK cd : cd = C \o D
      OBVIOUS
    <2>2. B \o cd \in Seq(Entry) /\ Elements(B \o cd) = Elements(B) \cup Elements(cd)
      <3>1. cd \in Seq(Entry)
        BY <1>4, <2>1
      <3> QED
        BY <1>2, <3>1, ElementsConcat
    <2>3. rest = B \o cd
      BY <2>1
    <2> HIDE DEF rest
    <2> QED
      BY <1>4, <2>1, <2>2, <2>3
  <1>6. o = A \o rest
    <2>1. PICK ab : ab = A \o B
      OBVIOUS
    <2>2. PICK cd : cd = C \o D
      OBVIOUS
    <2>3. ab \in Seq(Entry)
      <3>1. A \o B \in Seq(Entry)
        BY <1>1, <1>2, ElementsConcat
      <3> QED
        BY <2>1, <3>1
    <2>4. cd \in Seq(Entry)
      BY <1>4, <2>2
    <2>5. (ab \o C) \o D = ab \o (C \o D)
      <3>1. ab \in Seq(Entry) /\ C \in Seq(Entry) /\ D \in Seq(Entry)
        BY <1>2, <2>3
      <3> QED
        BY <3>1, ConcatAssociative
    <2>6. (A \o B) \o cd = A \o (B \o cd)
      <3>1. A \in Seq(Entry) /\ B \in Seq(Entry) /\ cd \in Seq(Entry)
        BY <1>1, <1>2, <2>4
      <3> QED
        BY <3>1, ConcatAssociative
    <2>7. o = (ab \o C) \o D
      BY <1>3, <2>1
    <2>8. rest = B \o cd
      BY <2>2
    <2> HIDE DEF rest
    <2> QED
      BY <2>1, <2>2, <2>5, <2>6, <2>7, <2>8
  <1>7. \A e \in Elements(pool) : e.fits \in BOOLEAN /\ Cooling(e) \in BOOLEAN
    <2>1. \A e \in Elements(pool) : e \in Entry
      BY LenProperties DEF Elements
    <2> QED
      BY <2>1 DEF Entry, Cooling
  <1> HIDE DEF rest
  <1>8. /\ o \in Seq(Entry) /\ Len(o) = Len(A) + Len(rest)
        /\ Elements(o) = Elements(A) \cup Elements(rest)
    BY <1>1, <1>5, <1>6, ElementsConcat
  <1>9. Elements(o) = Elements(pool)
    <2>1. ASSUME NEW e \in Elements(pool)
          PROVE  e \in Elements(A) \cup Elements(B) \cup Elements(C) \cup Elements(D)
      <3>1. (e.fits = TRUE \/ e.fits = FALSE) /\ (Cooling(e) = TRUE \/ Cooling(e) = FALSE)
        BY <1>7
      <3> QED
        BY <1>0, <1>1, <1>2a, <1>2b, <1>2c, <3>1
    <2>2. Elements(A) \cup Elements(B) \cup Elements(C) \cup Elements(D) \subseteq Elements(pool)
      BY <1>0, <1>1, <1>2a, <1>2b, <1>2c
    <2> QED
      BY <1>5, <1>8, <2>1, <2>2
  <1>10. \A e \in Elements(A) : Fresh(e)
    BY <1>0, <1>1 DEF Fresh
  <1>11. \A e \in Elements(rest) : ~Fresh(e)
    <2>1. \A e \in Elements(B) \cup Elements(D) : Cooling(e)
      BY <1>0, <1>2a, <1>2c
    <2>2. \A e \in Elements(C) : ~e.fits
      BY <1>0, <1>2b
    <2> QED
      BY <1>5, <2>1, <2>2 DEF Fresh
  <1>12. /\ Len(A) \in Nat /\ DOMAIN A = 1 .. Len(A)
         /\ Len(rest) \in Nat /\ DOMAIN rest = 1 .. Len(rest)
    BY <1>1, <1>5, LenProperties
  <1>13. \A i \in 1 .. Len(A) + Len(rest) : o[i] = IF i <= Len(A) THEN A[i] ELSE rest[i - Len(A)]
    BY <1>1, <1>5, <1>6, ConcatProperties
  <1>14. ASSUME NEW i \in 1 .. Len(A) PROVE Fresh(o[i])
    <2>1. o[i] = A[i]
      BY <1>12, <1>13
    <2> QED
      BY <1>10, <1>12, <2>1 DEF Elements
  <1>15. ASSUME NEW i \in (Len(A) + 1) .. Len(o) PROVE ~Fresh(o[i])
    <2>1. o[i] = rest[i - Len(A)] /\ i - Len(A) \in 1 .. Len(rest)
      BY <1>8, <1>12, <1>13
    <2> QED
      BY <1>11, <1>12, <2>1 DEF Elements
  <1>16. Len(A) \in 0 .. Len(o)
    BY <1>8, <1>12
  <1> QED
    BY <1>8, <1>9, <1>14, <1>15, <1>16 DEF o

-----------------------------------------------------------------------------
(* The seats of the branches *)

SlotAt(s, i) == IF s[i].env = NoEnv THEN <<>> ELSE SlotOf[s[i].env]

AloneAt(s, i) == SlotAt(s, i) # <<>> /\ \A j \in DOMAIN s \ {i} : SlotAt(s, j) # SlotAt(s, i)

NameAt(s, i, k) ==
    (IF AloneAt(s, i) THEN SlotAt(s, i) ELSE <<s[i].label>>) \o [n \in 1 .. k |-> i - 1]

FreeName(s, i, taken) ==
    NameAt(s, i, CHOOSE k \in 0 .. (i - 1) :
                    /\ NameAt(s, i, k) \notin taken
                    /\ \A m \in 0 .. (k - 1) : NameAt(s, i, m) \in taken)

AreSeats(s, f) == f = [i \in DOMAIN s |-> FreeName(s, i, {f[j] : j \in 1 .. (i - 1)})]

\* A branch's names, of different lengths, are different.
LEMMA NamesDiffer ==
    ASSUME NEW s \in Seq(Entry), NEW i \in DOMAIN s, NEW k \in Nat, NEW l \in Nat,
           NameAt(s, i, k) = NameAt(s, i, l)
    PROVE  k = l
  <1>1. i \in Nat /\ i >= 1 /\ s[i] \in Entry
    BY LenProperties
  <1> DEFINE base == IF AloneAt(s, i) THEN SlotAt(s, i) ELSE <<s[i].label>>
  <1>2. \E x : base = <<x>>
    <2>1. CASE AloneAt(s, i)
      <3>1. SlotAt(s, i) # <<>>
        BY <2>1 DEF AloneAt
      <3>2. s[i].env \in Envs /\ SlotAt(s, i) = SlotOf[s[i].env]
        BY <1>1, <3>1 DEF SlotAt, Entry
      <3>3. SlotAt(s, i) = <<SlotOf[s[i].env][1]>>
        BY <3>1, <3>2, RunConstants
      <3> QED
        BY <2>1, <3>3
    <2>2. CASE ~AloneAt(s, i)
      BY <2>2
    <2> QED
      BY <2>1, <2>2
  <1>3. PICK x : base = <<x>>
    BY <1>2
  <1> DEFINE S == {x} \cup Nat
             one == <<x>>
             tail(n) == [m \in 1 .. n |-> i - 1]
  <1>4. one \in Seq(S) /\ Len(one) = 1
    OBVIOUS
  <1>5. ASSUME NEW n \in Nat PROVE tail(n) \in Seq(S) /\ Len(tail(n)) = n
    <2>1. i - 1 \in S
      BY <1>1
    <2>2. tail(n) \in [1 .. n -> S]
      BY <2>1
    <2>3. tail(n) \in Seq(S)
      BY <2>2, SeqDef
    <2>4. DOMAIN tail(n) = 1 .. n
      OBVIOUS
    <2> QED
      BY <2>3, <2>4, LenProperties
  <1>6. NameAt(s, i, k) = one \o tail(k) /\ NameAt(s, i, l) = one \o tail(l)
    BY <1>3 DEF NameAt
  <1> HIDE DEF one, tail, S
  <1>7. Len(one \o tail(k)) = 1 + k /\ Len(one \o tail(l)) = 1 + l
    <2>1. Len(one \o tail(k)) = Len(one) + Len(tail(k))
      BY <1>4, <1>5, ConcatProperties
    <2>2. Len(one \o tail(l)) = Len(one) + Len(tail(l))
      BY <1>4, <1>5, ConcatProperties
    <2>3. Len(tail(k)) = k /\ Len(tail(l)) = l
      BY <1>5
    <2> QED
      BY <1>4, <2>1, <2>2, <2>3
  <1>8. one \o tail(k) = one \o tail(l)
    BY <1>6
  <1>9. 1 + k = 1 + l
    BY <1>7, <1>8
  <1> QED
    BY <1>9

\* There is a free name: fewer are taken than a branch has.
LEMMA FreeNameIsFree ==
    ASSUME NEW s \in Seq(Entry), NEW i \in DOMAIN s, NEW f
    PROVE  FreeName(s, i, {f[j] : j \in 1 .. (i - 1)}) \notin {f[j] : j \in 1 .. (i - 1)}
  <1> DEFINE taken == {f[j] : j \in 1 .. (i - 1)}
             K == {k \in 0 .. (i - 1) : NameAt(s, i, k) \notin taken}
  <1>1. i \in Nat /\ i >= 1
    BY LenProperties
  <1>2. K # {}
    <2> SUFFICES ASSUME K = {} PROVE FALSE
      OBVIOUS
    <2>1. \A k \in 0 .. (i - 1) : \E j \in 1 .. (i - 1) : f[j] = NameAt(s, i, k)
      OBVIOUS
    <2> DEFINE S == 0 .. (i - 1)
               T == 1 .. (i - 1)
               g == [k \in S |-> CHOOSE j \in T : f[j] = NameAt(s, i, k)]
    <2>2. g \in [S -> T] /\ \A k \in S : f[g[k]] = NameAt(s, i, k)
      BY <2>1
    <2>3. IsFiniteSet(S) /\ IsFiniteSet(T) /\ Cardinality(S) = i /\ Cardinality(T) = i - 1
      <3>1. 0 \in Int /\ 1 \in Int /\ i - 1 \in Int
        BY <1>1
      <3>2. /\ IsFiniteSet(0 .. (i - 1))
            /\ Cardinality(0 .. (i - 1)) = IF 0 > i - 1 THEN 0 ELSE (i - 1) - 0 + 1
        BY <3>1, FS_Interval
      <3>3. /\ IsFiniteSet(1 .. (i - 1))
            /\ Cardinality(1 .. (i - 1)) = IF 1 > i - 1 THEN 0 ELSE (i - 1) - 1 + 1
        BY <3>1, FS_Interval
      <3>4. (IF 0 > i - 1 THEN 0 ELSE (i - 1) - 0 + 1) = i
        BY <1>1
      <3>5. (IF 1 > i - 1 THEN 0 ELSE (i - 1) - 1 + 1) = i - 1
        BY <1>1
      <3> QED
        BY <3>2, <3>3, <3>4, <3>5
    <2>4. \A k \in S : k \in Nat
      BY <1>1
    <2> HIDE DEF g, S, T
    <2>5. Cardinality(T) < Cardinality(S)
      BY <1>1, <2>3
    <2>6. PICK x \in S, y \in S : x # y /\ g[x] = g[y]
      BY <2>2, <2>3, <2>5, FS_PigeonHole
    <2>7. NameAt(s, i, x) = NameAt(s, i, y)
      BY <2>2, <2>6
    <2> QED
      BY <2>4, <2>6, <2>7, NamesDiffer
  <1>3. K \in SUBSET Nat
    BY <1>1
  <1>4. PICK k \in K : \A m \in K : k <= m
    <2> HIDE DEF K
    <2> QED
      BY <1>2, <1>3, Least
  <1>5. k \in 0 .. (i - 1) /\ NameAt(s, i, k) \notin taken
    OBVIOUS
  <1>6. \A m \in 0 .. (k - 1) : NameAt(s, i, m) \in taken
    <2> SUFFICES ASSUME NEW m \in 0 .. (k - 1) PROVE NameAt(s, i, m) \in taken
      OBVIOUS
    <2>1. m \in 0 .. (i - 1) /\ ~(k <= m)
      BY <1>1, <1>5
    <2>2. m \notin K
      BY <1>4, <2>1
    <2> QED
      BY <2>1, <2>2
  <1> HIDE DEF taken, K
  <1>7. FreeName(s, i, taken) \notin taken
    BY <1>5, <1>6 DEF FreeName
  <1> QED
    BY <1>7 DEF taken

LEMMA SeatsExist ==
    ASSUME NEW s \in Seq(Entry)
    PROVE  AreSeats(s, BranchSeats(s))
  <1>1. Len(s) \in Nat /\ DOMAIN s = 1 .. Len(s)
    BY LenProperties
  <1> DEFINE Upto(n, f) == f = [i \in 1 .. n |-> FreeName(s, i, {f[j] : j \in 1 .. (i - 1)})]
             Bad == {n \in 0 .. Len(s) : ~ \E f : Upto(n, f)}
  <1>2. Bad = {}
    <2> SUFFICES ASSUME Bad # {} PROVE FALSE
      OBVIOUS
    <2>1. Bad \in SUBSET Nat
      BY <1>1
    <2>2. PICK m \in Bad : \A k \in Bad : m <= k
      <3> HIDE DEF Bad
      <3> QED
        BY <2>1, Least
    <2>3. m \in 0 .. Len(s) /\ ~ \E f : Upto(m, f)
      OBVIOUS
    <2>4. CASE m = 0
      <3> DEFINE f == [i \in 1 .. 0 |-> 0]
      <3>1. 1 .. 0 = {}
        OBVIOUS
      <3>2. Upto(0, f)
        BY <3>1
      <3> QED
        BY <2>3, <2>4, <3>2
    <2>5. CASE m # 0
      <3>1. m - 1 \in 0 .. Len(s) /\ ~(m <= m - 1)
        BY <1>1, <2>3, <2>5
      <3>2. m - 1 \notin Bad
        <4> HIDE DEF Bad
        <4> QED
          BY <2>2, <3>1
      <3>3. PICK g : Upto(m - 1, g)
        BY <3>1, <3>2
      <3> DEFINE new == FreeName(s, m, {g[j] : j \in 1 .. (m - 1)})
                 f == [i \in 1 .. m |-> IF i = m THEN new ELSE g[i]]
      <3>4. ASSUME NEW i \in 1 .. m
            PROVE  f[i] = FreeName(s, i, {f[j] : j \in 1 .. (i - 1)})
        <4>1. \A j \in 1 .. (i - 1) : j \in 1 .. m /\ j # m
          BY <1>1, <2>3
        <4>2. \A j \in 1 .. (i - 1) : f[j] = g[j]
          BY <4>1
        <4>3. {f[j] : j \in 1 .. (i - 1)} = {g[j] : j \in 1 .. (i - 1)}
          <5> HIDE DEF f
          <5> QED
            BY <4>2
        <4>4. CASE i = m
          <5>1. f[i] = new
            BY <4>4
          <5> QED
            BY <4>3, <4>4, <5>1
        <4>5. CASE i # m
          <5>1. i \in 1 .. (m - 1) /\ f[i] = g[i]
            BY <1>1, <2>3, <4>5
          <5>2. g[i] = FreeName(s, i, {g[j] : j \in 1 .. (i - 1)})
            BY <3>3, <5>1
          <5> QED
            BY <4>3, <5>1, <5>2
        <4> QED
          BY <4>4, <4>5
      <3>5. Upto(m, f)
        <4>1. f = [i \in 1 .. m |-> f[i]]
          OBVIOUS
        <4> HIDE DEF f
        <4> QED
          BY <3>4, <4>1
      <3> QED
        BY <2>3, <3>5
    <2> QED
      BY <2>4, <2>5
  <1>3. \E f : AreSeats(s, f)
    <2>1. Len(s) \in 0 .. Len(s) /\ Len(s) \notin Bad
      <3> HIDE DEF Bad
      <3> QED
        BY <1>1, <1>2
    <2>2. PICK f : Upto(Len(s), f)
      BY <2>1
    <2>3. AreSeats(s, f)
      BY <1>1, <2>2 DEF AreSeats
    <2> QED
      BY <2>3
  <1>4. BranchSeats(s) = CHOOSE f : AreSeats(s, f)
    BY DEF BranchSeats, AreSeats, FreeName, NameAt, AloneAt, SlotAt
  <1> QED
    BY <1>3, <1>4

\* No two branches share a seat.
LEMMA SeatsDiffer ==
    ASSUME NEW s \in Seq(Entry), NEW b \in DOMAIN s, NEW c \in DOMAIN s,
           BranchSeats(s)[b] = BranchSeats(s)[c]
    PROVE  b = c
  <1>1. b \in Nat /\ c \in Nat /\ b >= 1 /\ c >= 1
    BY LenProperties
  <1> DEFINE f == BranchSeats(s)
  <1>2. AreSeats(s, f)
    BY SeatsExist
  <1> HIDE DEF f
  <1>3. \A i \in DOMAIN s : f[i] \notin {f[j] : j \in 1 .. (i - 1)}
    <2> SUFFICES ASSUME NEW i \in DOMAIN s PROVE f[i] \notin {f[j] : j \in 1 .. (i - 1)}
      OBVIOUS
    <2>1. f[i] = FreeName(s, i, {f[j] : j \in 1 .. (i - 1)})
      BY <1>2 DEF AreSeats
    <2> QED
      BY <2>1, FreeNameIsFree
  <1>4. b < c => b \in 1 .. (c - 1)
    BY <1>1
  <1>5. c < b => c \in 1 .. (b - 1)
    BY <1>1
  <1> QED
    BY <1>1, <1>3, <1>4, <1>5 DEF f

-----------------------------------------------------------------------------
(* The records of a branch *)

Final == {"done", "failed"}

\* x has the fields of a branch.
IsBranch(x) ==
    x = [pc |-> x.pc, legs |-> x.legs, at |-> x.at, rc |-> x.rc,
         header |-> x.header, receipt |-> x.receipt, row |-> x.row,
         shipped |-> x.shipped, indexed |-> x.indexed, lost |-> x.lost,
         raised |-> x.raised, stranded |-> x.stranded]

\* The records of a branch whose fields are all in S.
Carrier(S) ==
    [pc : S, legs : S, at : S, rc : S, header : S, receipt : S, row : S,
     shipped : S, indexed : S, lost : S, raised : S, stranded : S]

\* The answer is there once the legs are over, and not before.
AnswerInv(x) ==
    /\ x.at \in Nat
    /\ x.rc \in {"none", "ok", "failed", "throttled"}
    /\ x.pc \in {"header", "attempt", "abandon"} => x.rc \in {"none", "throttled"}
    /\ x.pc \in {"header", "attempt", "abandon", "record", "finalize", "over"}

\* A receipt is final only when the branch is over, and the row it has been
\* given, if any, is that of its last leg.
ReceiptInv(x, m) ==
    /\ x.pc # "over" => x.receipt.state \notin Final
    /\ x.receipt.state = "done" => x.rc = "ok"
    /\ x.pc \in {"header", "attempt", "abandon", "record"} =>
        x.row = NoRow /\ x.raised = FALSE
    /\ x.raised => x.row = NoRow
    /\ x.row # NoRow =>
        /\ x.row.of = x.legs[x.at].label
        /\ (x.row.outcome = "ok") = (x.rc = "ok")
    /\ x.receipt.state \in Final /\ ~x.raised =>
        /\ x.receipt.by = x.legs[x.at].label
        /\ (x.receipt.state = "done") = (x.rc = "ok")
    /\ m = "solo" => x.header = "none" /\ x.pc # "header"
    /\ x.pc = "over" /\ x.header = "known" /\ ~x.stranded =>
        x.receipt.state \in Final

\* What a chain has recorded of the legs behind it, unless a call was lost.
AccountInv(x) ==
    ~x.lost =>
        /\ x.indexed \subseteq x.shipped
        /\ x.pc \in {"header", "attempt"} => x.shipped = x.indexed
        /\ x.pc \in {"abandon", "record"} => x.shipped \ x.indexed \subseteq {x.at}
        /\ x.pc \in {"finalize", "over"} /\ ~x.raised =>
            x.row # NoRow /\ x.shipped = x.indexed

TrippedInv(x, t) ==
    ~x.lost => \A i \in 1..(x.at - 1) : x.legs[i].provider \in t

Good(x, m, t) ==
    IsBranch(x) /\ AnswerInv(x) /\ ReceiptInv(x, m) /\ AccountInv(x) /\ TrippedInv(x, t)

RunInv ==
    /\ phase \in {"read", "plan", "start"} => br = <<>>
    /\ br = [b \in DOMAIN br |-> br[b]]
    /\ \A b \in Branches : Good(br[b], mode, tripped)

-----------------------------------------------------------------------------

\* A step that moves branch b to a good record keeps the invariant.
LEMMA MoveKeeps ==
    ASSUME RunInv, NEW b \in Branches, NEW x,
           br' = [br EXCEPT ![b] = x], mode' = mode, phase' = phase,
           phase = "branches",
           tripped \subseteq tripped',
           Good(x, mode, tripped')
    PROVE  RunInv'
<1>1. DOMAIN br' = DOMAIN br
    BY DEF RunInv
<1>2. br' = [c \in DOMAIN br' |-> br'[c]]
    BY DEF RunInv
<1>3. ASSUME NEW c \in DOMAIN br
      PROVE  Good(br'[c], mode, tripped')
    <2>1. CASE c = b
        BY <2>1 DEF RunInv, Branches
    <2>2. CASE c # b
        <3>1. br'[c] = br[c] /\ Good(br[c], mode, tripped)
            BY <2>2, <1>3 DEF RunInv, Branches
        <3>2. TrippedInv(br[c], tripped')
            BY <3>1 DEF Good, TrippedInv
        <3> QED BY <3>1, <3>2 DEF Good
    <2> QED BY <2>1, <2>2
<1> QED BY <1>1, <1>2, <1>3 DEF RunInv, Branches

\* A branch has its fields, and any new values, in some set.
LEMMA Carried ==
    ASSUME NEW y, IsBranch(y), NEW V
    PROVE  \E S : V \subseteq S /\ y \in Carrier(S)
<1> DEFINE S == V \cup {y.pc, y.legs, y.at, y.rc, y.header, y.receipt, y.row,
                       y.shipped, y.indexed, y.lost, y.raised, y.stranded}
<1>1. y \in Carrier(S)
    BY DEF IsBranch, Carrier
<1> QED BY <1>1

\* What the invariant says of one branch.
LEMMA GoodAt ==
    ASSUME RunInv, NEW b \in Branches, NEW y, y = br[b]
    PROVE  IsBranch(y) /\ AnswerInv(y) /\ ReceiptInv(y, mode) /\ AccountInv(y)
            /\ TrippedInv(y, tripped)
BY DEF RunInv, Good

\* Such a record is a branch.
LEMMA CarriedIsBranch ==
    ASSUME NEW S, NEW x \in Carrier(S)
    PROVE  IsBranch(x)
BY DEF IsBranch, Carrier

\* The header is posted, or not.
LEMMA HeaderMoves ==
    ASSUME RunInv, NEW b \in Branches, NEW y, y = br[b],
           NEW h, NEW r \in {NoReceipt, [state |-> "in_progress"]},
           y.pc = "header",
           br' = [br EXCEPT ![b] =
                    [y EXCEPT !.pc = "attempt",
                              !.header = h,
                              !.receipt = r]],
           phase = "branches", phase' = phase, mode' = mode,
           tripped' = tripped
    PROVE  RunInv'
<1> DEFINE x == [y EXCEPT !.pc = "attempt",
                          !.header = h,
                          !.receipt = r]
<1>1. IsBranch(y) /\ AnswerInv(y) /\ ReceiptInv(y, mode) /\ AccountInv(y)
        /\ TrippedInv(y, tripped)
    BY GoodAt
<1> DEFINE V == {"attempt", h, r}
<1> HIDE DEF V
<1>2. PICK S : V \subseteq S /\ y \in Carrier(S)
    BY <1>1, Carried
<1>3. x \in Carrier(S)
    BY <1>2 DEF Carrier, V
<1>4. /\ x.pc = "attempt"
      /\ x.legs = y.legs
      /\ x.at = y.at
      /\ x.rc = y.rc
      /\ x.header = h
      /\ x.receipt = r
      /\ x.row = y.row
      /\ x.shipped = y.shipped
      /\ x.indexed = y.indexed
      /\ x.lost = y.lost
      /\ x.raised = y.raised
      /\ x.stranded = y.stranded
    BY <1>2 DEF Carrier, V
<1> HIDE DEF x
<1>5. IsBranch(x)
    BY <1>3, CarriedIsBranch
<1>6. AnswerInv(x)
    BY <1>1, <1>4 DEF AnswerInv
<1>7. ReceiptInv(x, mode)
    BY <1>1, <1>4 DEF AnswerInv, ReceiptInv, NoReceipt, NoRow, Final
<1>8. AccountInv(x)
    BY <1>1, <1>4 DEF AnswerInv, AccountInv
<1>9. TrippedInv(x, tripped)
    BY <1>1, <1>4 DEF AnswerInv, TrippedInv
<1> QED BY <1>5, <1>6, <1>7, <1>8, <1>9, MoveKeeps DEF Good, x

\* A leg answers.
LEMMA AnswerMoves ==
    ASSUME RunInv, NEW b \in Branches, NEW y, y = br[b],
           NEW rc \in {"ok", "failed"}, NEW new,
           y.pc = "attempt",
           new \subseteq {y.at},
           br' = [br EXCEPT ![b] =
                    [y EXCEPT !.pc = "record",
                              !.rc = rc,
                              !.shipped = y.shipped \cup new]],
           phase = "branches", phase' = phase, mode' = mode,
           tripped' = tripped
    PROVE  RunInv'
<1> DEFINE x == [y EXCEPT !.pc = "record",
                          !.rc = rc,
                          !.shipped = y.shipped \cup new]
<1>1. IsBranch(y) /\ AnswerInv(y) /\ ReceiptInv(y, mode) /\ AccountInv(y)
        /\ TrippedInv(y, tripped)
    BY GoodAt
<1> DEFINE V == {"record", rc, y.shipped \cup new}
<1> HIDE DEF V
<1>2. PICK S : V \subseteq S /\ y \in Carrier(S)
    BY <1>1, Carried
<1>3. x \in Carrier(S)
    BY <1>2 DEF Carrier, V
<1>4. /\ x.pc = "record"
      /\ x.legs = y.legs
      /\ x.at = y.at
      /\ x.rc = rc
      /\ x.header = y.header
      /\ x.receipt = y.receipt
      /\ x.row = y.row
      /\ x.shipped = y.shipped \cup new
      /\ x.indexed = y.indexed
      /\ x.lost = y.lost
      /\ x.raised = y.raised
      /\ x.stranded = y.stranded
    BY <1>2 DEF Carrier, V
<1> HIDE DEF x
<1>5. IsBranch(x)
    BY <1>3, CarriedIsBranch
<1>6. AnswerInv(x)
    BY <1>1, <1>4 DEF AnswerInv
<1>7. ReceiptInv(x, mode)
    BY <1>1, <1>4 DEF AnswerInv, ReceiptInv, NoReceipt, NoRow, Final
<1>8. AccountInv(x)
    BY <1>1, <1>4 DEF AnswerInv, AccountInv
<1>9. TrippedInv(x, tripped)
    BY <1>1, <1>4 DEF AnswerInv, TrippedInv
<1> QED BY <1>5, <1>6, <1>7, <1>8, <1>9, MoveKeeps DEF Good, x

\* A leg throttles.
LEMMA ThrottleMoves ==
    ASSUME RunInv, NEW b \in Branches, NEW y, y = br[b],
           NEW new,
           y.pc = "attempt",
           new \subseteq {y.at},
           br' = [br EXCEPT ![b] =
                    [y EXCEPT !.pc = "abandon",
                              !.rc = "throttled",
                              !.shipped = y.shipped \cup new]],
           phase = "branches", phase' = phase, mode' = mode,
           tripped' = tripped
    PROVE  RunInv'
<1> DEFINE x == [y EXCEPT !.pc = "abandon",
                          !.rc = "throttled",
                          !.shipped = y.shipped \cup new]
<1>1. IsBranch(y) /\ AnswerInv(y) /\ ReceiptInv(y, mode) /\ AccountInv(y)
        /\ TrippedInv(y, tripped)
    BY GoodAt
<1> DEFINE V == {"abandon", "throttled", y.shipped \cup new}
<1> HIDE DEF V
<1>2. PICK S : V \subseteq S /\ y \in Carrier(S)
    BY <1>1, Carried
<1>3. x \in Carrier(S)
    BY <1>2 DEF Carrier, V
<1>4. /\ x.pc = "abandon"
      /\ x.legs = y.legs
      /\ x.at = y.at
      /\ x.rc = "throttled"
      /\ x.header = y.header
      /\ x.receipt = y.receipt
      /\ x.row = y.row
      /\ x.shipped = y.shipped \cup new
      /\ x.indexed = y.indexed
      /\ x.lost = y.lost
      /\ x.raised = y.raised
      /\ x.stranded = y.stranded
    BY <1>2 DEF Carrier, V
<1> HIDE DEF x
<1>5. IsBranch(x)
    BY <1>3, CarriedIsBranch
<1>6. AnswerInv(x)
    BY <1>1, <1>4 DEF AnswerInv
<1>7. ReceiptInv(x, mode)
    BY <1>1, <1>4 DEF AnswerInv, ReceiptInv, NoReceipt, NoRow, Final
<1>8. AccountInv(x)
    BY <1>1, <1>4 DEF AnswerInv, AccountInv
<1>9. TrippedInv(x, tripped)
    BY <1>1, <1>4 DEF AnswerInv, TrippedInv
<1> QED BY <1>5, <1>6, <1>7, <1>8, <1>9, MoveKeeps DEF Good, x

\* The header post raises.
LEMMA HeaderRaiseMoves ==
    ASSUME RunInv, NEW b \in Branches, NEW y, y = br[b],
           NEW r \in {NoReceipt, [state |-> "in_progress"]},
           y.pc = "header",
           mode # "solo",
           br' = [br EXCEPT ![b] =
                    [y EXCEPT !.pc = "finalize",
                              !.rc = "failed",
                              !.raised = TRUE,
                              !.receipt = r]],
           phase = "branches", phase' = phase, mode' = mode,
           tripped' = tripped
    PROVE  RunInv'
<1> DEFINE x == [y EXCEPT !.pc = "finalize",
                          !.rc = "failed",
                          !.raised = TRUE,
                          !.receipt = r]
<1>1. IsBranch(y) /\ AnswerInv(y) /\ ReceiptInv(y, mode) /\ AccountInv(y)
        /\ TrippedInv(y, tripped)
    BY GoodAt
<1> DEFINE V == {"finalize", "failed", TRUE, r}
<1> HIDE DEF V
<1>2. PICK S : V \subseteq S /\ y \in Carrier(S)
    BY <1>1, Carried
<1>3. x \in Carrier(S)
    BY <1>2 DEF Carrier, V
<1>4. /\ x.pc = "finalize"
      /\ x.legs = y.legs
      /\ x.at = y.at
      /\ x.rc = "failed"
      /\ x.header = y.header
      /\ x.receipt = r
      /\ x.row = y.row
      /\ x.shipped = y.shipped
      /\ x.indexed = y.indexed
      /\ x.lost = y.lost
      /\ x.raised = TRUE
      /\ x.stranded = y.stranded
    BY <1>2 DEF Carrier, V
<1> HIDE DEF x
<1>5. IsBranch(x)
    BY <1>3, CarriedIsBranch
<1>6. AnswerInv(x)
    BY <1>1, <1>4 DEF AnswerInv
<1>7. ReceiptInv(x, mode)
    BY <1>1, <1>4 DEF AnswerInv, ReceiptInv, NoReceipt, NoRow, Final
<1>8. AccountInv(x)
    BY <1>1, <1>4 DEF AnswerInv, AccountInv
<1>9. TrippedInv(x, tripped)
    BY <1>1, <1>4 DEF AnswerInv, TrippedInv
<1> QED BY <1>5, <1>6, <1>7, <1>8, <1>9, MoveKeeps DEF Good, x

\* A leg raises.
LEMMA LegRaiseMoves ==
    ASSUME RunInv, NEW b \in Branches, NEW y, y = br[b],
           NEW new,
           y.pc = "attempt",
           br' = [br EXCEPT ![b] =
                    [y EXCEPT !.pc = "finalize",
                              !.rc = "failed",
                              !.raised = TRUE,
                              !.shipped = y.shipped \cup new]],
           phase = "branches", phase' = phase, mode' = mode,
           tripped' = tripped
    PROVE  RunInv'
<1> DEFINE x == [y EXCEPT !.pc = "finalize",
                          !.rc = "failed",
                          !.raised = TRUE,
                          !.shipped = y.shipped \cup new]
<1>1. IsBranch(y) /\ AnswerInv(y) /\ ReceiptInv(y, mode) /\ AccountInv(y)
        /\ TrippedInv(y, tripped)
    BY GoodAt
<1> DEFINE V == {"finalize", "failed", TRUE, y.shipped \cup new}
<1> HIDE DEF V
<1>2. PICK S : V \subseteq S /\ y \in Carrier(S)
    BY <1>1, Carried
<1>3. x \in Carrier(S)
    BY <1>2 DEF Carrier, V
<1>4. /\ x.pc = "finalize"
      /\ x.legs = y.legs
      /\ x.at = y.at
      /\ x.rc = "failed"
      /\ x.header = y.header
      /\ x.receipt = y.receipt
      /\ x.row = y.row
      /\ x.shipped = y.shipped \cup new
      /\ x.indexed = y.indexed
      /\ x.lost = y.lost
      /\ x.raised = TRUE
      /\ x.stranded = y.stranded
    BY <1>2 DEF Carrier, V
<1> HIDE DEF x
<1>5. IsBranch(x)
    BY <1>3, CarriedIsBranch
<1>6. AnswerInv(x)
    BY <1>1, <1>4 DEF AnswerInv
<1>7. ReceiptInv(x, mode)
    BY <1>1, <1>4 DEF AnswerInv, ReceiptInv, NoReceipt, NoRow, Final
<1>8. AccountInv(x)
    BY <1>1, <1>4 DEF AnswerInv, AccountInv
<1>9. TrippedInv(x, tripped)
    BY <1>1, <1>4 DEF AnswerInv, TrippedInv
<1> QED BY <1>5, <1>6, <1>7, <1>8, <1>9, MoveKeeps DEF Good, x

\* The chain is billed.
LEMMA RecordMoves ==
    ASSUME RunInv, NEW b \in Branches, NEW y, y = br[b],
           NEW over \in {"finalize", "over"}, NEW row, NEW indexed,
           y.pc = "record",
           over = "over" => mode = "solo",
           row.of = y.legs[y.at].label,
           (row.outcome = "ok") = (y.rc = "ok"),
           row # NoRow,
           indexed = y.indexed \cup (y.shipped \cap {y.at}),
           br' = [br EXCEPT ![b] =
                    [y EXCEPT !.pc = over,
                              !.row = row,
                              !.indexed = indexed]],
           phase = "branches", phase' = phase, mode' = mode,
           tripped' = tripped
    PROVE  RunInv'
<1> DEFINE x == [y EXCEPT !.pc = over,
                          !.row = row,
                          !.indexed = indexed]
<1>1. IsBranch(y) /\ AnswerInv(y) /\ ReceiptInv(y, mode) /\ AccountInv(y)
        /\ TrippedInv(y, tripped)
    BY GoodAt
<1> DEFINE V == {over, row, indexed}
<1> HIDE DEF V
<1>2. PICK S : V \subseteq S /\ y \in Carrier(S)
    BY <1>1, Carried
<1>3. x \in Carrier(S)
    BY <1>2 DEF Carrier, V
<1>4. /\ x.pc = over
      /\ x.legs = y.legs
      /\ x.at = y.at
      /\ x.rc = y.rc
      /\ x.header = y.header
      /\ x.receipt = y.receipt
      /\ x.row = row
      /\ x.shipped = y.shipped
      /\ x.indexed = indexed
      /\ x.lost = y.lost
      /\ x.raised = y.raised
      /\ x.stranded = y.stranded
    BY <1>2 DEF Carrier, V
<1> HIDE DEF x
<1>5. IsBranch(x)
    BY <1>3, CarriedIsBranch
<1>6. AnswerInv(x)
    BY <1>1, <1>4 DEF AnswerInv
<1>7. ReceiptInv(x, mode)
    BY <1>1, <1>4 DEF AnswerInv, ReceiptInv, NoReceipt, NoRow, Final
<1>8. AccountInv(x)
    BY <1>1, <1>4 DEF AnswerInv, AccountInv
<1>9. TrippedInv(x, tripped)
    BY <1>1, <1>4 DEF AnswerInv, TrippedInv
<1> QED BY <1>5, <1>6, <1>7, <1>8, <1>9, MoveKeeps DEF Good, x

\* The call that bills it is lost.
LEMMA RecordLostMoves ==
    ASSUME RunInv, NEW b \in Branches, NEW y, y = br[b],
           NEW over \in {"finalize", "over"},
           y.pc = "record",
           over = "over" => mode = "solo",
           br' = [br EXCEPT ![b] =
                    [y EXCEPT !.pc = over,
                              !.lost = TRUE]],
           phase = "branches", phase' = phase, mode' = mode,
           tripped' = tripped
    PROVE  RunInv'
<1> DEFINE x == [y EXCEPT !.pc = over,
                          !.lost = TRUE]
<1>1. IsBranch(y) /\ AnswerInv(y) /\ ReceiptInv(y, mode) /\ AccountInv(y)
        /\ TrippedInv(y, tripped)
    BY GoodAt
<1> DEFINE V == {over, TRUE}
<1> HIDE DEF V
<1>2. PICK S : V \subseteq S /\ y \in Carrier(S)
    BY <1>1, Carried
<1>3. x \in Carrier(S)
    BY <1>2 DEF Carrier, V
<1>4. /\ x.pc = over
      /\ x.legs = y.legs
      /\ x.at = y.at
      /\ x.rc = y.rc
      /\ x.header = y.header
      /\ x.receipt = y.receipt
      /\ x.row = y.row
      /\ x.shipped = y.shipped
      /\ x.indexed = y.indexed
      /\ x.lost = TRUE
      /\ x.raised = y.raised
      /\ x.stranded = y.stranded
    BY <1>2 DEF Carrier, V
<1> HIDE DEF x
<1>5. IsBranch(x)
    BY <1>3, CarriedIsBranch
<1>6. AnswerInv(x)
    BY <1>1, <1>4 DEF AnswerInv
<1>7. ReceiptInv(x, mode)
    BY <1>1, <1>4 DEF AnswerInv, ReceiptInv, NoReceipt, NoRow, Final
<1>8. AccountInv(x)
    BY <1>1, <1>4 DEF AnswerInv, AccountInv
<1>9. TrippedInv(x, tripped)
    BY <1>1, <1>4 DEF AnswerInv, TrippedInv
<1> QED BY <1>5, <1>6, <1>7, <1>8, <1>9, MoveKeeps DEF Good, x

\* The receipt is rewritten.
LEMMA FinalizeMoves ==
    ASSUME RunInv, NEW b \in Branches, NEW y, y = br[b],
           NEW r,
           y.pc = "finalize",
           r.state = IF y.rc = "ok" THEN "done" ELSE "failed",
           ~y.raised => r.by = y.legs[y.at].label,
           br' = [br EXCEPT ![b] =
                    [y EXCEPT !.pc = "over",
                              !.receipt = r]],
           phase = "branches", phase' = phase, mode' = mode,
           tripped' = tripped
    PROVE  RunInv'
<1> DEFINE x == [y EXCEPT !.pc = "over",
                          !.receipt = r]
<1>1. IsBranch(y) /\ AnswerInv(y) /\ ReceiptInv(y, mode) /\ AccountInv(y)
        /\ TrippedInv(y, tripped)
    BY GoodAt
<1> DEFINE V == {"over", r}
<1> HIDE DEF V
<1>2. PICK S : V \subseteq S /\ y \in Carrier(S)
    BY <1>1, Carried
<1>3. x \in Carrier(S)
    BY <1>2 DEF Carrier, V
<1>4. /\ x.pc = "over"
      /\ x.legs = y.legs
      /\ x.at = y.at
      /\ x.rc = y.rc
      /\ x.header = y.header
      /\ x.receipt = r
      /\ x.row = y.row
      /\ x.shipped = y.shipped
      /\ x.indexed = y.indexed
      /\ x.lost = y.lost
      /\ x.raised = y.raised
      /\ x.stranded = y.stranded
    BY <1>2 DEF Carrier, V
<1> HIDE DEF x
<1>5. IsBranch(x)
    BY <1>3, CarriedIsBranch
<1>6. AnswerInv(x)
    BY <1>1, <1>4 DEF AnswerInv
<1>7. ReceiptInv(x, mode)
    BY <1>1, <1>4 DEF AnswerInv, ReceiptInv, NoReceipt, NoRow, Final
<1>8. AccountInv(x)
    BY <1>1, <1>4 DEF AnswerInv, AccountInv
<1>9. TrippedInv(x, tripped)
    BY <1>1, <1>4 DEF AnswerInv, TrippedInv
<1> QED BY <1>5, <1>6, <1>7, <1>8, <1>9, MoveKeeps DEF Good, x

\* Its rewrite is lost.
LEMMA FinalizeLostMoves ==
    ASSUME RunInv, NEW b \in Branches, NEW y, y = br[b],
           y.pc = "finalize",
           br' = [br EXCEPT ![b] =
                    [y EXCEPT !.pc = "over",
                              !.stranded = TRUE]],
           phase = "branches", phase' = phase, mode' = mode,
           tripped' = tripped
    PROVE  RunInv'
<1> DEFINE x == [y EXCEPT !.pc = "over",
                          !.stranded = TRUE]
<1>1. IsBranch(y) /\ AnswerInv(y) /\ ReceiptInv(y, mode) /\ AccountInv(y)
        /\ TrippedInv(y, tripped)
    BY GoodAt
<1> DEFINE V == {"over", TRUE}
<1> HIDE DEF V
<1>2. PICK S : V \subseteq S /\ y \in Carrier(S)
    BY <1>1, Carried
<1>3. x \in Carrier(S)
    BY <1>2 DEF Carrier, V
<1>4. /\ x.pc = "over"
      /\ x.legs = y.legs
      /\ x.at = y.at
      /\ x.rc = y.rc
      /\ x.header = y.header
      /\ x.receipt = y.receipt
      /\ x.row = y.row
      /\ x.shipped = y.shipped
      /\ x.indexed = y.indexed
      /\ x.lost = y.lost
      /\ x.raised = y.raised
      /\ x.stranded = TRUE
    BY <1>2 DEF Carrier, V
<1> HIDE DEF x
<1>5. IsBranch(x)
    BY <1>3, CarriedIsBranch
<1>6. AnswerInv(x)
    BY <1>1, <1>4 DEF AnswerInv
<1>7. ReceiptInv(x, mode)
    BY <1>1, <1>4 DEF AnswerInv, ReceiptInv, NoReceipt, NoRow, Final
<1>8. AccountInv(x)
    BY <1>1, <1>4 DEF AnswerInv, AccountInv
<1>9. TrippedInv(x, tripped)
    BY <1>1, <1>4 DEF AnswerInv, TrippedInv
<1> QED BY <1>5, <1>6, <1>7, <1>8, <1>9, MoveKeeps DEF Good, x

\* There is none to rewrite.
LEMMA NoHeaderMoves ==
    ASSUME RunInv, NEW b \in Branches, NEW y, y = br[b],
           y.pc = "finalize",
           y.header # "known",
           br' = [br EXCEPT ![b] =
                    [y EXCEPT !.pc = "over"]],
           phase = "branches", phase' = phase, mode' = mode,
           tripped' = tripped
    PROVE  RunInv'
<1> DEFINE x == [y EXCEPT !.pc = "over"]
<1>1. IsBranch(y) /\ AnswerInv(y) /\ ReceiptInv(y, mode) /\ AccountInv(y)
        /\ TrippedInv(y, tripped)
    BY GoodAt
<1> DEFINE V == {"over"}
<1> HIDE DEF V
<1>2. PICK S : V \subseteq S /\ y \in Carrier(S)
    BY <1>1, Carried
<1>3. x \in Carrier(S)
    BY <1>2 DEF Carrier, V
<1>4. /\ x.pc = "over"
      /\ x.legs = y.legs
      /\ x.at = y.at
      /\ x.rc = y.rc
      /\ x.header = y.header
      /\ x.receipt = y.receipt
      /\ x.row = y.row
      /\ x.shipped = y.shipped
      /\ x.indexed = y.indexed
      /\ x.lost = y.lost
      /\ x.raised = y.raised
      /\ x.stranded = y.stranded
    BY <1>2 DEF Carrier, V
<1> HIDE DEF x
<1>5. IsBranch(x)
    BY <1>3, CarriedIsBranch
<1>6. AnswerInv(x)
    BY <1>1, <1>4 DEF AnswerInv
<1>7. ReceiptInv(x, mode)
    BY <1>1, <1>4 DEF AnswerInv, ReceiptInv, NoReceipt, NoRow, Final
<1>8. AccountInv(x)
    BY <1>1, <1>4 DEF AnswerInv, AccountInv
<1>9. TrippedInv(x, tripped)
    BY <1>1, <1>4 DEF AnswerInv, TrippedInv
<1> QED BY <1>5, <1>6, <1>7, <1>8, <1>9, MoveKeeps DEF Good, x

\* A throttled leg is recorded and there is another.
LEMMA NextMoves ==
    ASSUME RunInv, NEW b \in Branches, NEW y, y = br[b],
           NEW lost \in BOOLEAN, NEW indexed,
           y.pc = "abandon",
           lost = FALSE => /\ ~y.lost
                            /\ indexed = y.indexed \cup (y.shipped \cap {y.at})
                            /\ y.legs[y.at].provider \in tripped',
           indexed \subseteq y.indexed \cup (y.shipped \cap {y.at}),
           br' = [br EXCEPT ![b] =
                    [y EXCEPT !.pc = "attempt",
                              !.at = y.at + 1,
                              !.indexed = indexed,
                              !.lost = lost]],
           phase = "branches", phase' = phase, mode' = mode,
           tripped \subseteq tripped'
    PROVE  RunInv'
<1> DEFINE x == [y EXCEPT !.pc = "attempt",
                          !.at = y.at + 1,
                          !.indexed = indexed,
                          !.lost = lost]
<1>1. IsBranch(y) /\ AnswerInv(y) /\ ReceiptInv(y, mode) /\ AccountInv(y)
        /\ TrippedInv(y, tripped)
    BY GoodAt
<1> DEFINE V == {"attempt", y.at + 1, indexed, lost}
<1> HIDE DEF V
<1>2. PICK S : V \subseteq S /\ y \in Carrier(S)
    BY <1>1, Carried
<1>3. x \in Carrier(S)
    BY <1>2 DEF Carrier, V
<1>4. /\ x.pc = "attempt"
      /\ x.legs = y.legs
      /\ x.at = y.at + 1
      /\ x.rc = y.rc
      /\ x.header = y.header
      /\ x.receipt = y.receipt
      /\ x.row = y.row
      /\ x.shipped = y.shipped
      /\ x.indexed = indexed
      /\ x.lost = lost
      /\ x.raised = y.raised
      /\ x.stranded = y.stranded
    BY <1>2 DEF Carrier, V
<1> HIDE DEF x
<1>5. IsBranch(x)
    BY <1>3, CarriedIsBranch
<1>6. AnswerInv(x)
    BY <1>1, <1>4 DEF AnswerInv
<1>7. ReceiptInv(x, mode)
    BY <1>1, <1>4 DEF AnswerInv, ReceiptInv, NoReceipt, NoRow, Final
<1>8. AccountInv(x)
    BY <1>1, <1>4 DEF AnswerInv, AccountInv
<1>9. TrippedInv(x, tripped')
    BY <1>1, <1>4 DEF AnswerInv, TrippedInv
<1> QED BY <1>5, <1>6, <1>7, <1>8, <1>9, MoveKeeps DEF Good, x

\* A throttled leg is recorded and it was the last.
LEMMA LastMoves ==
    ASSUME RunInv, NEW b \in Branches, NEW y, y = br[b],
           NEW lost \in BOOLEAN, NEW indexed,
           y.pc = "abandon",
           lost = FALSE => /\ ~y.lost
                            /\ indexed = y.indexed \cup (y.shipped \cap {y.at})
                            /\ y.legs[y.at].provider \in tripped',
           indexed \subseteq y.indexed \cup (y.shipped \cap {y.at}),
           br' = [br EXCEPT ![b] =
                    [y EXCEPT !.pc = "record",
                              !.indexed = indexed,
                              !.lost = lost]],
           phase = "branches", phase' = phase, mode' = mode,
           tripped \subseteq tripped'
    PROVE  RunInv'
<1> DEFINE x == [y EXCEPT !.pc = "record",
                          !.indexed = indexed,
                          !.lost = lost]
<1>1. IsBranch(y) /\ AnswerInv(y) /\ ReceiptInv(y, mode) /\ AccountInv(y)
        /\ TrippedInv(y, tripped)
    BY GoodAt
<1> DEFINE V == {"record", indexed, lost}
<1> HIDE DEF V
<1>2. PICK S : V \subseteq S /\ y \in Carrier(S)
    BY <1>1, Carried
<1>3. x \in Carrier(S)
    BY <1>2 DEF Carrier, V
<1>4. /\ x.pc = "record"
      /\ x.legs = y.legs
      /\ x.at = y.at
      /\ x.rc = y.rc
      /\ x.header = y.header
      /\ x.receipt = y.receipt
      /\ x.row = y.row
      /\ x.shipped = y.shipped
      /\ x.indexed = indexed
      /\ x.lost = lost
      /\ x.raised = y.raised
      /\ x.stranded = y.stranded
    BY <1>2 DEF Carrier, V
<1> HIDE DEF x
<1>5. IsBranch(x)
    BY <1>3, CarriedIsBranch
<1>6. AnswerInv(x)
    BY <1>1, <1>4 DEF AnswerInv
<1>7. ReceiptInv(x, mode)
    BY <1>1, <1>4 DEF AnswerInv, ReceiptInv, NoReceipt, NoRow, Final
<1>8. AccountInv(x)
    BY <1>1, <1>4 DEF AnswerInv, AccountInv
<1>9. TrippedInv(x, tripped')
    BY <1>1, <1>4 DEF AnswerInv, TrippedInv
<1> QED BY <1>5, <1>6, <1>7, <1>8, <1>9, MoveKeeps DEF Good, x

-----------------------------------------------------------------------------

\* Each action of a branch is one of these moves.
LEMMA BranchKeeps ==
    ASSUME RunInv, NEW b \in Branches, BranchStep(b)
    PROVE  RunInv'
<1> DEFINE y == br[b]
<1>1. IsBranch(y) /\ AnswerInv(y) /\ ReceiptInv(y, mode) /\ AccountInv(y)
        /\ TrippedInv(y, tripped)
    BY GoodAt
<1>2. CASE PostHeader(b)
    <2>1. PICK h \in {"none", "unknown", "known"} :
            br' = [br EXCEPT ![b] =
                    [br[b] EXCEPT !.pc = "attempt", !.header = h,
                                  !.receipt = IF h = "none" THEN NoReceipt
                                              ELSE [state |-> "in_progress"]]]
        BY <1>2 DEF PostHeader, Move
    <2> DEFINE r == IF h = "none" THEN NoReceipt ELSE [state |-> "in_progress"]
    <2>2. r \in {NoReceipt, [state |-> "in_progress"]}
        OBVIOUS
    <2>3. /\ phase = "branches" /\ y.pc = "header"
          /\ phase' = phase /\ mode' = mode /\ tripped' = tripped
        BY <1>2 DEF PostHeader, Turn, Move
    <2> QED BY <2>1, <2>2, <2>3, HeaderMoves
<1>3. CASE Answered(b)
    <2>1. PICK rc \in {"ok", "failed"}, new \in Ships(b) :
            br' = [br EXCEPT ![b] =
                    [br[b] EXCEPT !.pc = "record", !.rc = rc,
                                  !.shipped = br[b].shipped \cup new]]
        BY <1>3 DEF Answered, Move
    <2>2. new \subseteq {y.at}
        BY DEF Ships
    <2>3. /\ phase = "branches" /\ y.pc = "attempt"
          /\ phase' = phase /\ mode' = mode /\ tripped' = tripped
        BY <1>3 DEF Answered, Turn, Move
    <2> QED BY <2>1, <2>2, <2>3, AnswerMoves
<1>4. CASE Throttled(b)
    <2>1. PICK new \in Ships(b) :
            br' = [br EXCEPT ![b] =
                    [br[b] EXCEPT !.pc = "abandon", !.rc = "throttled",
                                  !.shipped = br[b].shipped \cup new]]
        BY <1>4 DEF Throttled, Move
    <2>2. new \subseteq {y.at}
        BY DEF Ships
    <2>3. /\ phase = "branches" /\ y.pc = "attempt"
          /\ phase' = phase /\ mode' = mode /\ tripped' = tripped
        BY <1>4 DEF Throttled, Turn, Move
    <2> QED BY <2>1, <2>2, <2>3, ThrottleMoves
<1>5. CASE Raises(b)
    <2>1. /\ phase = "branches" /\ mode # "solo"
          /\ phase' = phase /\ mode' = mode /\ tripped' = tripped
        BY <1>5 DEF Raises, Turn, Move
    <2>2. CASE y.pc = "header"
        <3>1. PICK r \in {NoReceipt, [state |-> "in_progress"]} :
                br' = [br EXCEPT ![b] =
                        [br[b] EXCEPT !.pc = "finalize", !.rc = "failed",
                                      !.raised = TRUE, !.receipt = r]]
            BY <1>5, <2>2 DEF Raises, Move
        <3> QED BY <2>1, <2>2, <3>1, HeaderRaiseMoves
    <2>3. CASE y.pc = "attempt"
        <3>1. PICK new \in Ships(b) :
                br' = [br EXCEPT ![b] =
                        [br[b] EXCEPT !.pc = "finalize", !.rc = "failed",
                                      !.raised = TRUE,
                                      !.shipped = br[b].shipped \cup new]]
            BY <1>5, <2>3 DEF Raises, Move
        <3> QED BY <2>1, <2>3, <3>1, LegRaiseMoves
    <2> QED BY <1>5, <2>2, <2>3 DEF Raises
<1>6. CASE Abandon(b)
    <2>1. /\ phase = "branches" /\ y.pc = "abandon"
          /\ phase' = phase /\ mode' = mode
        BY <1>6 DEF Abandon, Turn
    <2>2. PICK index \in BOOLEAN, trip \in BOOLEAN :
            /\ br' = [br EXCEPT ![b] =
                        [NextLeg(b) EXCEPT
                            !.indexed = IF index THEN Indexing(b) ELSE br[b].indexed,
                            !.lost = br[b].lost \/ ~index \/ ~trip]]
            /\ tripped' = IF trip THEN tripped \cup {Leg(b).provider} ELSE tripped
        BY <1>6 DEF Abandon
    <2> DEFINE indexed == IF index THEN Indexing(b) ELSE br[b].indexed
               lost == br[b].lost \/ ~index \/ ~trip
    <2>3. lost \in BOOLEAN
        OBVIOUS
    <2>4. lost = FALSE => ~y.lost /\ index /\ trip
        OBVIOUS
    <2>5. indexed \subseteq y.indexed \cup (y.shipped \cap {y.at})
        BY DEF Indexing
    <2>6. lost = FALSE => /\ ~y.lost
                          /\ indexed = y.indexed \cup (y.shipped \cap {y.at})
                          /\ y.legs[y.at].provider \in tripped'
        BY <2>2, <2>4 DEF Indexing, Leg
    <2>7. tripped \subseteq tripped'
        BY <2>2
    <2>8. CASE br[b].at < Len(br[b].legs)
        <3>1. br' = [br EXCEPT ![b] =
                        [br[b] EXCEPT !.pc = "attempt", !.at = br[b].at + 1,
                                      !.indexed = indexed, !.lost = lost]]
            BY <2>2, <2>8 DEF NextLeg
        <3> HIDE DEF indexed, lost
        <3> QED BY <2>1, <2>3, <2>5, <2>6, <2>7, <3>1, NextMoves
    <2>9. CASE ~ (br[b].at < Len(br[b].legs))
        <3>1. br' = [br EXCEPT ![b] =
                        [br[b] EXCEPT !.pc = "record",
                                      !.indexed = indexed, !.lost = lost]]
            BY <2>2, <2>9 DEF NextLeg
        <3> HIDE DEF indexed, lost
        <3> QED BY <2>1, <2>3, <2>5, <2>6, <2>7, <3>1, LastMoves
    <2> QED BY <2>8, <2>9
<1>7. CASE Record(b)
    <2>1. /\ phase = "branches" /\ y.pc = "record"
          /\ phase' = phase /\ mode' = mode /\ tripped' = tripped
        BY <1>7 DEF Record, Turn, Move
    <2>2. AfterPool \in {"finalize", "over"} /\ (AfterPool = "over" => mode = "solo")
        BY DEF AfterPool
    <2>3. CASE br' = [br EXCEPT ![b] =
                        [br[b] EXCEPT !.pc = AfterPool, !.row = RowOf(b),
                                      !.indexed = Indexing(b)]]
        <3>1. RowOf(b) # NoRow
            BY DEF RowOf, NoRow
        <3>2. RowOf(b).of = y.legs[y.at].label
            BY DEF RowOf, Leg
        <3>3. (RowOf(b).outcome = "ok") = (y.rc = "ok")
            BY <1>1 DEF RowOf, AnswerInv
        <3>4. Indexing(b) = y.indexed \cup (y.shipped \cap {y.at})
            BY DEF Indexing
        <3> QED BY <2>1, <2>2, <2>3, <3>1, <3>2, <3>3, <3>4, RecordMoves
    <2>4. CASE br' = [br EXCEPT ![b] =
                        [br[b] EXCEPT !.pc = AfterPool, !.lost = TRUE]]
        BY <2>1, <2>2, <2>4, RecordLostMoves
    <2> QED BY <1>7, <2>3, <2>4 DEF Record, Move
<1>8. CASE Finalize(b)
    <2>1. /\ phase = "branches" /\ y.pc = "finalize"
          /\ phase' = phase /\ mode' = mode /\ tripped' = tripped
        BY <1>8 DEF Finalize, Turn, Move
    <2>2. CASE br' = [br EXCEPT ![b] =
                        [br[b] EXCEPT !.pc = "over", !.receipt = FinalReceipt(b)]]
        <3>1. FinalReceipt(b).state = IF y.rc = "ok" THEN "done" ELSE "failed"
            BY DEF FinalReceipt
        <3>2. ~y.raised => FinalReceipt(b).by = y.legs[y.at].label
            BY DEF FinalReceipt, Leg
        <3> QED BY <2>1, <2>2, <3>1, <3>2, FinalizeMoves
    <2>3. CASE br' = [br EXCEPT ![b] =
                        [br[b] EXCEPT !.pc = "over", !.stranded = TRUE]]
        BY <2>1, <2>3, FinalizeLostMoves
    <2>4. CASE y.header # "known" /\ br' = [br EXCEPT ![b] =
                                                [br[b] EXCEPT !.pc = "over"]]
        BY <2>1, <2>4, NoHeaderMoves
    <2> QED BY <1>8, <2>2, <2>3, <2>4 DEF Finalize, Move
<1> QED BY <1>2, <1>3, <1>4, <1>5, <1>6, <1>7, <1>8 DEF BranchStep

\* A new branch is good, wherever it starts.
LEMMA NewKeeps ==
    ASSUME NEW m, NEW start \in {"header", "attempt"},
           m = "solo" => start = "attempt",
           Begin(m, start), RunInv
    PROVE  RunInv'
<1> DEFINE new(b) == NewBranch(start, Order(Pool(reviewers[b])))
<1>1. /\ br' = [b \in DOMAIN reviewers |-> new(b)]
      /\ mode' = m /\ tripped' = tripped /\ phase' = "branches"
    BY DEF Begin
<1>2. ASSUME NEW legs
      PROVE  Good(NewBranch(start, legs), m, tripped)
    <2>1. IsBranch(NewBranch(start, legs))
        BY DEF IsBranch, NewBranch
    <2>2. AnswerInv(NewBranch(start, legs))
        BY DEF AnswerInv, NewBranch
    <2>3. ReceiptInv(NewBranch(start, legs), m)
        BY DEF ReceiptInv, NewBranch, NoReceipt, NoRow, Final
    <2>4. AccountInv(NewBranch(start, legs))
        BY DEF AccountInv, NewBranch
    <2>5. TrippedInv(NewBranch(start, legs), tripped)
        BY DEF TrippedInv, NewBranch
    <2> QED BY <2>1, <2>2, <2>3, <2>4, <2>5 DEF Good
<1>3. ASSUME NEW b \in DOMAIN br'
      PROVE  Good(br'[b], mode', tripped')
    BY <1>1, <1>2
<1> QED BY <1>1, <1>3 DEF RunInv, Branches

\* A step that leaves the branches alone keeps the invariant.
LEMMA StillKeeps ==
    ASSUME RunInv, br' = br, mode' = mode, tripped' = tripped,
           phase' \in {"read", "plan", "start"} => phase \in {"read", "plan", "start"}
    PROVE  RunInv'
BY DEF RunInv, Branches, Good, IsBranch, AnswerInv, ReceiptInv, AccountInv, TrippedInv

LEMMA StepKeeps == RunInv /\ [Next]_vars => RunInv'
<1> SUFFICES ASSUME RunInv, [Next]_vars
             PROVE  RunInv'
    OBVIOUS
<1>1. CASE ReadCooldowns
    BY <1>1, StillKeeps DEF ReadCooldowns
<1>2. CASE Configured
    BY <1>2, StillKeeps DEF Configured
<1>3. CASE Escalate
    BY <1>3, StillKeeps DEF Escalate
<1>4. CASE StartSolo
    BY <1>4, NewKeeps DEF StartSolo
<1>5. CASE StartCompare
    <2>1. PICK m \in {"concurrent", "sequential"} : Begin(m, "header")
        BY <1>5 DEF StartCompare
    <2> QED BY <2>1, NewKeeps
<1>6. CASE NothingToRun
    BY <1>6, StillKeeps DEF NothingToRun
<1>7. ASSUME NEW b \in Branches, BranchStep(b)
      PROVE  RunInv'
    BY <1>7, BranchKeeps
<1>8. CASE Join
    BY <1>8, StillKeeps DEF Join
<1>9. CASE Observe
    BY <1>9, StillKeeps DEF Observe
<1>10. CASE UNCHANGED vars
    BY <1>10, StillKeeps DEF vars
<1> QED BY <1>1, <1>2, <1>3, <1>4, <1>5, <1>6, <1>7, <1>8, <1>9, <1>10 DEF Next

\* The invariant holds of every reachable state.
THEOREM RunInvariant == Spec => []RunInv
<1>1. Init => RunInv
    BY DEF Init, RunInv, Branches
<1>2. RunInv /\ [Next]_vars => RunInv'
    BY StepKeeps
<1> QED BY <1>1, <1>2, PTL DEF Spec

-----------------------------------------------------------------------------

\* _finalize_branch_header and _record_run: whatever raises and whatever is
\* lost, a receipt reads done only over an answer, one that could be rewritten
\* is final once its branch is over, and receipt and row agree.
THEOREM ReceiptsAreTrue == Spec => []ReceiptsTellTheTruth
<1>1. ASSUME RunInv
      PROVE  ReceiptsTellTheTruth
    <2> SUFFICES ASSUME NEW b \in Branches, NEW x, x = br[b]
                 PROVE
            /\ x.receipt.state = "done" => x.rc = "ok"
            /\ x.pc = "over" /\ x.header = "known" /\ ~x.stranded =>
                x.receipt.state \in {"done", "failed"}
            /\ x.receipt.state \in {"done", "failed"} /\ x.row # NoRow =>
                /\ x.receipt.by = x.row.of
                /\ (x.receipt.state = "done") = (x.row.outcome = "ok")
        BY DEF ReceiptsTellTheTruth
    <2> QED BY <1>1, GoodAt DEF ReceiptInv, Final
<1> QED BY <1>1, RunInvariant, PTL

\* _run_pool: unless a call was lost, every abandoned leg has tripped its
\* provider's breaker, and a chain that is over and did not raise has its row
\* and all its transcripts indexed.
THEOREM ChainsAreAccounted == Spec => []ChainIsAccounted
<1>1. ASSUME RunInv
      PROVE  ChainIsAccounted
    <2> SUFFICES ASSUME NEW b \in Branches, NEW x, x = br[b], ~x.lost
                 PROVE
            /\ \A i \in 1..(x.at - 1) : x.legs[i].provider \in tripped
            /\ x.pc \in {"finalize", "over"} /\ ~x.raised =>
                x.row # NoRow /\ x.indexed = x.shipped
        BY DEF ChainIsAccounted, Done
    <2> QED BY <1>1, GoodAt DEF AccountInv, TrippedInv
<1> QED BY <1>1, RunInvariant, PTL

\* What AnswerIsFinal asks of one branch in one step.
Stays(x, y) ==
    /\ y.rc \in {"ok", "failed"} => x.rc = y.rc /\ x.at = y.at
    /\ y.receipt.state \in Final => x.receipt = y.receipt

\* A branch that moves stays true to its answer: the actions that may still
\* move it once it has one leave the answer alone, and none moves it once its
\* receipt is final.
LEMMA MoverStays ==
    ASSUME RunInv, NEW b \in Branches, BranchStep(b)
    PROVE  Stays(br'[b], br[b])
<1> DEFINE y == br[b]
           x == br'[b]
<1>1. IsBranch(y) /\ AnswerInv(y) /\ ReceiptInv(y, mode)
    BY GoodAt
<1>2. b \in DOMAIN br
    BY DEF Branches
<1>3. CASE y.pc \in {"header", "attempt", "abandon"}
    BY <1>1, <1>3 DEF Stays, AnswerInv, ReceiptInv
<1>4. CASE Record(b)
    <2>1. y.pc = "record"
        BY <1>4 DEF Record
    <2>2. x \in {[y EXCEPT !.pc = AfterPool, !.row = RowOf(b), !.indexed = Indexing(b)],
                 [y EXCEPT !.pc = AfterPool, !.lost = TRUE]}
        BY <1>2, <1>4 DEF Record, Move
    <2> DEFINE V == {AfterPool, RowOf(b), Indexing(b), TRUE}
    <2> HIDE DEF V
    <2>3. PICK S : V \subseteq S /\ y \in Carrier(S)
        BY <1>1, Carried
    <2>4. x.rc = y.rc /\ x.at = y.at
        BY <2>2, <2>3 DEF Carrier, V
    <2> QED BY <1>1, <2>1, <2>4 DEF Stays, ReceiptInv
<1>5. CASE Finalize(b)
    <2>1. y.pc = "finalize"
        BY <1>5 DEF Finalize
    <2>2. x \in {[y EXCEPT !.pc = "over", !.receipt = FinalReceipt(b)],
                 [y EXCEPT !.pc = "over", !.stranded = TRUE],
                 [y EXCEPT !.pc = "over"]}
        BY <1>2, <1>5 DEF Finalize, Move
    <2> DEFINE V == {"over", FinalReceipt(b), TRUE}
    <2> HIDE DEF V
    <2>3. PICK S : V \subseteq S /\ y \in Carrier(S)
        BY <1>1, Carried
    <2>4. x.rc = y.rc /\ x.at = y.at
        BY <2>2, <2>3 DEF Carrier, V
    <2> QED BY <1>1, <2>1, <2>4 DEF Stays, ReceiptInv
<1>6. y.pc \in {"header", "attempt", "abandon"} \/ Record(b) \/ Finalize(b)
    BY DEF BranchStep, PostHeader, Answered, Throttled, Raises, Abandon
<1> QED BY <1>3, <1>4, <1>5, <1>6

\* _run_pool: the first answer of a branch, good or bad, is its last, and a
\* final receipt is not written again.
THEOREM AnswersAreFinal == Spec => AnswerIsFinal
<1> DEFINE Kept == \A c \in Branches :
                    /\ br[c].rc \in {"ok", "failed"} =>
                        br'[c].rc = br[c].rc /\ br'[c].at = br[c].at
                    /\ br[c].receipt.state \in {"done", "failed"} =>
                        br'[c].receipt = br[c].receipt
<1>1. ASSUME RunInv, [Next]_vars
      PROVE  [Kept]_vars
    <2>1. ASSUME NEW b \in Branches, BranchStep(b)
          PROVE  Kept
        <3>1. ASSUME NEW c \in Branches
              PROVE  Stays(br'[c], br[c])
            <4>1. CASE c = b
                BY <2>1, <4>1, <1>1, MoverStays
            <4>2. CASE c # b
                <5>1. \E z : br' = [br EXCEPT ![b] = z]
                    BY <2>1 DEF BranchStep, PostHeader, Answered, Throttled,
                                Raises, Abandon, Record, Finalize, Move
                <5>2. br'[c] = br[c]
                    BY <4>2, <5>1, <3>1 DEF Branches
                <5> QED BY <5>2 DEF Stays
            <4> QED BY <4>1, <4>2
        <3> QED BY <3>1 DEF Stays, Final
    <2>2. CASE br' = br
        BY <2>2
    <2>3. CASE StartSolo \/ StartCompare
        <3>1. br = <<>>
            BY <1>1, <2>3 DEF RunInv, StartSolo, StartCompare
        <3> QED BY <3>1 DEF Branches
    <2>4. ReadCooldowns \/ Configured \/ Escalate \/ NothingToRun \/ Join \/ Observe
            => br' = br
        BY DEF ReadCooldowns, Configured, Escalate, NothingToRun, Join, Observe
    <2> QED BY <1>1, <2>1, <2>2, <2>3, <2>4 DEF Next
<1>2. RunInv /\ [Next]_vars =>
        [\A b \in Branches :
            /\ br[b].rc \in {"ok", "failed"} =>
                br'[b].rc = br[b].rc /\ br'[b].at = br[b].at
            /\ br[b].receipt.state \in {"done", "failed"} =>
                br'[b].receipt = br[b].receipt]_vars
    BY <1>1
<1> QED BY <1>2, RunInvariant, PTL DEF Spec, AnswerIsFinal

-----------------------------------------------------------------------------
(* The plan of a job, and the chains of its branches *)

\* How far a chain is, and what that says of the verdict on it.
ChainInv(x) ==
    /\ x.at \in 1..Len(x.legs)
    /\ x.pc = "record" /\ x.rc = "throttled" => x.at = Len(x.legs)
    /\ x.row # NoRow /\ x.row.outcome = "throttled_out" => x.at = Len(x.legs)

\* The other fields of a branch have their types.
BranchTyped(x) ==
    /\ x.header \in {"none", "unknown", "known"}
    /\ x.receipt.state \in {"none", "in_progress", "done", "failed"}
    /\ x.shipped \cup x.indexed \subseteq 1..x.at
    /\ x.lost \in BOOLEAN /\ x.raised \in BOOLEAN /\ x.stranded \in BOOLEAN

\* The order of trial of the branch that e starts.
LegsOf(e) == Order(Pool(e))

PlanInv ==
    /\ fleet \in Fleets
    /\ reviewers \in Seq(Entry) /\ spares \in Seq(Entry)
    /\ EscalationKeepsTheFleet
    /\ phase \in {"read", "plan", "start"} => mode = "none"
    /\ phase = "branches" => mode # "none"
    /\ mode \in {"none", "solo", "concurrent", "sequential"}
    /\ mode = "solo" => Len(reviewers) = 1
    /\ mode = "concurrent" => \E down \in SUBSET Tokens : Resolves(reviewers, down)

ChainsInv ==
    \A b \in Branches :
        /\ b \in DOMAIN reviewers
        /\ br[b].legs = LegsOf(reviewers[b])
        /\ ChainInv(br[b]) /\ BranchTyped(br[b])

JobInv == RunInv /\ PlanInv /\ ChainsInv

\* A step that moves a branch keeps its legs, and takes the next one only when
\* there is one.
LEMMA MoverChains ==
    ASSUME RunInv, NEW b \in Branches, BranchStep(b), ChainInv(br[b]), BranchTyped(br[b])
    PROVE  br'[b].legs = br[b].legs /\ ChainInv(br'[b]) /\ BranchTyped(br'[b])
<1> DEFINE y == br[b]
           x == br'[b]
<1>1. IsBranch(y) /\ AnswerInv(y) /\ ReceiptInv(y, mode)
    BY GoodAt
<1>2. b \in DOMAIN br
    BY DEF Branches
<1>3. CASE PostHeader(b)
    <2>1. PICK h \in {"none", "unknown", "known"} :
            x = [y EXCEPT !.pc = "attempt", !.header = h,
                          !.receipt = IF h = "none" THEN NoReceipt
                                      ELSE [state |-> "in_progress"]]
        BY <1>2, <1>3 DEF PostHeader, Move
    <2> DEFINE r == IF h = "none" THEN NoReceipt ELSE [state |-> "in_progress"]
               V == {"attempt", h, r}
    <2> HIDE DEF V
    <2>2. PICK S : V \subseteq S /\ y \in Carrier(S)
        BY <1>1, Carried
    <2>3. /\ x.legs = y.legs /\ x.at = y.at /\ x.row = y.row
          /\ x.pc = "attempt" /\ x.rc = y.rc /\ x.header = h
          /\ x.receipt = r /\ x.shipped = y.shipped /\ x.indexed = y.indexed
          /\ x.lost = y.lost /\ x.raised = y.raised /\ x.stranded = y.stranded
        BY <2>1, <2>2 DEF Carrier, V
    <2>4. r.state \in {"none", "in_progress"}
        BY DEF NoReceipt
    <2> HIDE DEF r
    <2> QED BY <2>3, <2>4 DEF ChainInv, BranchTyped
<1>4. CASE Answered(b)
    <2>1. PICK rc \in {"ok", "failed"}, new \in Ships(b) :
            x = [y EXCEPT !.pc = "record", !.rc = rc, !.shipped = br[b].shipped \cup new]
        BY <1>2, <1>4 DEF Answered, Move
    <2> DEFINE V == {"record", rc, br[b].shipped \cup new}
    <2> HIDE DEF V
    <2>2. PICK S : V \subseteq S /\ y \in Carrier(S)
        BY <1>1, Carried
    <2>3. /\ x.legs = y.legs /\ x.at = y.at /\ x.row = y.row
          /\ x.pc = "record" /\ x.rc = rc /\ x.header = y.header
          /\ x.receipt = y.receipt /\ x.shipped = br[b].shipped \cup new /\ x.indexed = y.indexed
          /\ x.lost = y.lost /\ x.raised = y.raised /\ x.stranded = y.stranded
        BY <2>1, <2>2 DEF Carrier, V
    <2>4. new \subseteq 1..y.at
        BY <1>1 DEF Ships, AnswerInv, ChainInv
    <2> QED BY <2>1, <2>3, <2>4 DEF ChainInv, BranchTyped
<1>5. CASE Throttled(b)
    <2>1. PICK new \in Ships(b) :
            x = [y EXCEPT !.pc = "abandon", !.rc = "throttled",
                          !.shipped = br[b].shipped \cup new]
        BY <1>2, <1>5 DEF Throttled, Move
    <2> DEFINE V == {"abandon", "throttled", br[b].shipped \cup new}
    <2> HIDE DEF V
    <2>2. PICK S : V \subseteq S /\ y \in Carrier(S)
        BY <1>1, Carried
    <2>3. /\ x.legs = y.legs /\ x.at = y.at /\ x.row = y.row
          /\ x.pc = "abandon" /\ x.rc = "throttled" /\ x.header = y.header
          /\ x.receipt = y.receipt /\ x.shipped = br[b].shipped \cup new /\ x.indexed = y.indexed
          /\ x.lost = y.lost /\ x.raised = y.raised /\ x.stranded = y.stranded
        BY <2>1, <2>2 DEF Carrier, V
    <2>4. new \subseteq 1..y.at
        BY <1>1 DEF Ships, AnswerInv, ChainInv
    <2> QED BY <2>3, <2>4 DEF ChainInv, BranchTyped
<1>6. CASE Raises(b)
    <2>1. CASE y.pc = "header"
        <3>1. PICK r \in {NoReceipt, [state |-> "in_progress"]} :
                x = [y EXCEPT !.pc = "finalize", !.rc = "failed", !.raised = TRUE, !.receipt = r]
            BY <1>2, <1>6, <2>1 DEF Raises, Move
        <3> DEFINE V == {"finalize", "failed", TRUE, r}
        <3> HIDE DEF V
        <3>2. PICK S : V \subseteq S /\ y \in Carrier(S)
            BY <1>1, Carried
        <3>3. /\ x.legs = y.legs /\ x.at = y.at /\ x.row = y.row
              /\ x.pc = "finalize" /\ x.rc = "failed" /\ x.header = y.header
              /\ x.receipt = r /\ x.shipped = y.shipped /\ x.indexed = y.indexed
              /\ x.lost = y.lost /\ x.raised = TRUE /\ x.stranded = y.stranded
            BY <3>1, <3>2 DEF Carrier, V
        <3>4. r.state \in {"none", "in_progress"}
            BY <3>1 DEF NoReceipt
        <3> QED BY <3>3, <3>4 DEF ChainInv, BranchTyped
    <2>2. CASE y.pc = "attempt"
        <3>1. PICK new \in Ships(b) :
                x = [y EXCEPT !.pc = "finalize", !.rc = "failed", !.raised = TRUE,
                              !.shipped = br[b].shipped \cup new]
            BY <1>2, <1>6, <2>2 DEF Raises, Move
        <3> DEFINE V == {"finalize", "failed", TRUE, br[b].shipped \cup new}
        <3> HIDE DEF V
        <3>2. PICK S : V \subseteq S /\ y \in Carrier(S)
            BY <1>1, Carried
        <3>3. /\ x.legs = y.legs /\ x.at = y.at /\ x.row = y.row
              /\ x.pc = "finalize" /\ x.rc = "failed" /\ x.header = y.header
              /\ x.receipt = y.receipt /\ x.shipped = br[b].shipped \cup new /\ x.indexed = y.indexed
              /\ x.lost = y.lost /\ x.raised = TRUE /\ x.stranded = y.stranded
            BY <3>1, <3>2 DEF Carrier, V
        <3>4. new \subseteq 1..y.at
            BY <1>1 DEF Ships, AnswerInv, ChainInv
        <3> QED BY <3>3, <3>4 DEF ChainInv, BranchTyped
    <2> QED BY <1>6, <2>1, <2>2 DEF Raises
<1>7. CASE Abandon(b)
    <2>1. y.pc = "abandon" /\ y.row = NoRow
        BY <1>1, <1>7 DEF Abandon, ReceiptInv
    <2>2. PICK index \in BOOLEAN, trip \in BOOLEAN :
            x = [NextLeg(b) EXCEPT
                    !.indexed = IF index THEN Indexing(b) ELSE br[b].indexed,
                    !.lost = br[b].lost \/ ~index \/ ~trip]
        BY <1>2, <1>7 DEF Abandon
    <2> DEFINE indexed == IF index THEN Indexing(b) ELSE br[b].indexed
               lost == br[b].lost \/ ~index \/ ~trip
    <2>7. indexed \subseteq y.shipped \cup y.indexed /\ lost \in BOOLEAN
        BY DEF Indexing
    <2>8. x = [NextLeg(b) EXCEPT !.indexed = indexed, !.lost = lost]
        BY <2>2
    <2> HIDE DEF indexed, lost
    <2> DEFINE V == {"attempt", "record", y.at + 1, indexed, lost}
    <2> HIDE DEF V
    <2>3. PICK S : V \subseteq S /\ y \in Carrier(S)
        BY <1>1, Carried
    <2>4. y.at \in Nat
        BY <1>1 DEF AnswerInv
    <2>5. CASE y.at < Len(y.legs)
        <3>1. x = [y EXCEPT !.pc = "attempt", !.at = y.at + 1,
                            !.indexed = indexed, !.lost = lost]
            BY <2>5, <2>8 DEF NextLeg
        <3>2. /\ x.legs = y.legs /\ x.at = y.at + 1 /\ x.row = y.row
              /\ x.pc = "attempt" /\ x.rc = y.rc /\ x.header = y.header
              /\ x.receipt = y.receipt /\ x.shipped = y.shipped /\ x.indexed = indexed
              /\ x.lost = lost /\ x.raised = y.raised /\ x.stranded = y.stranded
            BY <2>3, <3>1 DEF Carrier, V
        <3>3. y.at + 1 \in 1..Len(y.legs)
            BY <2>4, <2>5 DEF ChainInv
        <3>4. y.shipped \cup y.indexed \subseteq 1..(y.at + 1)
            BY <2>4 DEF BranchTyped
        <3> QED BY <2>1, <2>7, <3>2, <3>3, <3>4 DEF ChainInv, BranchTyped
    <2>6. CASE ~(y.at < Len(y.legs))
        <3>1. x = [y EXCEPT !.pc = "record", !.indexed = indexed, !.lost = lost]
            BY <2>6, <2>8 DEF NextLeg
        <3>2. /\ x.legs = y.legs /\ x.at = y.at /\ x.row = y.row
              /\ x.pc = "record" /\ x.rc = y.rc /\ x.header = y.header
              /\ x.receipt = y.receipt /\ x.shipped = y.shipped /\ x.indexed = indexed
              /\ x.lost = lost /\ x.raised = y.raised /\ x.stranded = y.stranded
            BY <2>3, <3>1 DEF Carrier, V
        <3>3. y.at = Len(y.legs)
            BY <2>4, <2>6 DEF ChainInv
        <3> QED BY <2>1, <2>7, <3>2, <3>3 DEF ChainInv, BranchTyped
    <2> QED BY <2>5, <2>6
<1>8. CASE Record(b)
    <2>1. y.pc = "record" /\ y.row = NoRow
        BY <1>1, <1>8 DEF Record, ReceiptInv
    <2> DEFINE V == {AfterPool, RowOf(b), Indexing(b), TRUE}
    <2> HIDE DEF V
    <2>2. PICK S : V \subseteq S /\ y \in Carrier(S)
        BY <1>1, Carried
    <2>3. AfterPool # "record"
        BY DEF AfterPool
    <2>4. CASE x = [y EXCEPT !.pc = AfterPool, !.row = RowOf(b), !.indexed = Indexing(b)]
        <3>1. /\ x.legs = y.legs /\ x.at = y.at /\ x.row = RowOf(b)
              /\ x.pc = AfterPool /\ x.rc = y.rc /\ x.header = y.header
              /\ x.receipt = y.receipt /\ x.shipped = y.shipped /\ x.indexed = Indexing(b)
              /\ x.lost = y.lost /\ x.raised = y.raised /\ x.stranded = y.stranded
            BY <2>2, <2>4 DEF Carrier, V
        <3>2. RowOf(b).outcome = "throttled_out" => y.rc = "throttled"
            BY <1>1 DEF RowOf, AnswerInv
        <3>3. Indexing(b) \subseteq y.shipped \cup y.indexed
            BY DEF Indexing
        <3> QED BY <2>1, <2>3, <3>1, <3>2, <3>3 DEF ChainInv, BranchTyped
    <2>5. CASE x = [y EXCEPT !.pc = AfterPool, !.lost = TRUE]
        <3>1. /\ x.legs = y.legs /\ x.at = y.at /\ x.row = y.row
              /\ x.pc = AfterPool /\ x.rc = y.rc /\ x.header = y.header
              /\ x.receipt = y.receipt /\ x.shipped = y.shipped /\ x.indexed = y.indexed
              /\ x.lost = TRUE /\ x.raised = y.raised /\ x.stranded = y.stranded
            BY <2>2, <2>5 DEF Carrier, V
        <3> QED BY <2>1, <2>3, <3>1 DEF ChainInv, BranchTyped
    <2> QED BY <1>2, <1>8, <2>4, <2>5 DEF Record, Move
<1>9. CASE Finalize(b)
    <2> DEFINE V == {"over", FinalReceipt(b), TRUE}
    <2> HIDE DEF V
    <2>1. PICK S : V \subseteq S /\ y \in Carrier(S)
        BY <1>1, Carried
    <2>2. CASE x = [y EXCEPT !.pc = "over", !.receipt = FinalReceipt(b)]
        <3>1. /\ x.legs = y.legs /\ x.at = y.at /\ x.row = y.row
              /\ x.pc = "over" /\ x.rc = y.rc /\ x.header = y.header
              /\ x.receipt = FinalReceipt(b) /\ x.shipped = y.shipped /\ x.indexed = y.indexed
              /\ x.lost = y.lost /\ x.raised = y.raised /\ x.stranded = y.stranded
            BY <2>1, <2>2 DEF Carrier, V
        <3>2. FinalReceipt(b).state \in {"done", "failed"}
            BY DEF FinalReceipt
        <3> QED BY <3>1, <3>2 DEF ChainInv, BranchTyped
    <2>3. CASE x = [y EXCEPT !.pc = "over", !.stranded = TRUE]
        <3>1. /\ x.legs = y.legs /\ x.at = y.at /\ x.row = y.row
              /\ x.pc = "over" /\ x.rc = y.rc /\ x.header = y.header
              /\ x.receipt = y.receipt /\ x.shipped = y.shipped /\ x.indexed = y.indexed
              /\ x.lost = y.lost /\ x.raised = y.raised /\ x.stranded = TRUE
            BY <2>1, <2>3 DEF Carrier, V
        <3> QED BY <3>1 DEF ChainInv, BranchTyped
    <2>4. CASE x = [y EXCEPT !.pc = "over"]
        <3>1. /\ x.legs = y.legs /\ x.at = y.at /\ x.row = y.row
              /\ x.pc = "over" /\ x.rc = y.rc /\ x.header = y.header
              /\ x.receipt = y.receipt /\ x.shipped = y.shipped /\ x.indexed = y.indexed
              /\ x.lost = y.lost /\ x.raised = y.raised /\ x.stranded = y.stranded
            BY <2>1, <2>4 DEF Carrier, V
        <3> QED BY <3>1 DEF ChainInv, BranchTyped
    <2> QED BY <1>2, <1>9, <2>2, <2>3, <2>4 DEF Finalize, Move
<1> QED BY <1>3, <1>4, <1>5, <1>6, <1>7, <1>8, <1>9 DEF BranchStep

LEMMA SameLegs ==
    ASSUME spares' = spares, cooled' = cooled, reviewers' = reviewers, NEW b
    PROVE  LegsOf(reviewers[b])' = LegsOf(reviewers[b])
BY DEF LegsOf, Order, Pool, Cooling

\* A branch step leaves the plan alone.
LEMMA BranchPlan ==
    ASSUME NEW b \in Branches, BranchStep(b)
    PROVE  /\ UNCHANGED <<fleet, cooled, concurrent, promoted, reviewers, spares>>
           /\ phase' = phase /\ mode' = mode
           /\ \E z : br' = [br EXCEPT ![b] = z]
<1>1. ASSUME NEW z, Move(b, z)
      PROVE  /\ UNCHANGED <<fleet, cooled, concurrent, promoted, reviewers, spares>>
             /\ phase' = phase /\ mode' = mode
             /\ \E w : br' = [br EXCEPT ![b] = w]
    BY <1>1 DEF Move, plan, inputs
<1>2. CASE Abandon(b)
    BY <1>2 DEF Abandon, plan, inputs
<1>3. CASE \E z : Move(b, z)
    BY <1>1, <1>3
<1>4. Abandon(b) \/ \E z : Move(b, z)
    BY DEF BranchStep, PostHeader, Answered, Throttled, Raises, Record, Finalize
<1> QED BY <1>2, <1>3, <1>4

LEMMA BranchChains ==
    ASSUME JobInv, NEW b \in Branches, BranchStep(b)
    PROVE  ChainsInv'
<1>1. /\ UNCHANGED <<cooled, reviewers, spares>>
      /\ \E z : br' = [br EXCEPT ![b] = z]
    BY BranchPlan
<1>2. DOMAIN br' = DOMAIN br /\ \A c \in DOMAIN br \ {b} : br'[c] = br[c]
    BY <1>1
<1>3. ASSUME NEW c \in DOMAIN br
      PROVE  /\ c \in DOMAIN reviewers
             /\ br'[c].legs = LegsOf(reviewers[c])
             /\ ChainInv(br'[c]) /\ BranchTyped(br'[c])
    <2>1. c \in DOMAIN reviewers /\ br[c].legs = LegsOf(reviewers[c])
          /\ ChainInv(br[c]) /\ BranchTyped(br[c])
        BY DEF JobInv, ChainsInv, Branches
    <2>2. CASE c = b
        BY <2>1, <2>2, MoverChains DEF JobInv
    <2>3. CASE c # b
        BY <1>2, <2>1, <2>3
    <2> QED BY <2>2, <2>3
<1>4. ASSUME NEW c \in DOMAIN br
      PROVE  LegsOf(reviewers[c])' = LegsOf(reviewers[c])
    BY <1>1, SameLegs
<1>5. ASSUME NEW c \in DOMAIN br'
      PROVE  /\ c \in DOMAIN reviewers'
             /\ br'[c].legs = LegsOf(reviewers[c])'
             /\ ChainInv(br'[c]) /\ BranchTyped(br'[c])
    BY <1>1, <1>2, <1>3, <1>4
<1> QED BY <1>5 DEF ChainsInv, Branches, ChainInv, BranchTyped

\* The legs of a branch: those of its pool, its own entry first to be counted.
LEMMA LegsAre ==
    ASSUME reviewers \in Seq(Entry), spares \in Seq(Entry), NEW b \in DOMAIN reviewers
    PROVE  LET legs == LegsOf(reviewers[b])
               e == reviewers[b]
           IN  /\ legs \in Seq(Entry) /\ Len(legs) \in Nat /\ DOMAIN legs = 1..Len(legs)
               /\ 1 \in 1..Len(legs)
               /\ Elements(legs) = Elements(Pool(e))
               /\ \A i \in 1..Len(legs) : legs[i].driver = e.driver
               /\ \E k \in 0..Len(legs) :
                    /\ \A i \in 1..k : Fresh(legs[i])
                    /\ \A i \in (k + 1)..Len(legs) : ~Fresh(legs[i])
<1> DEFINE e == reviewers[b]
           pool == Pool(e)
           legs == LegsOf(e)
<1>1. e \in Entry
    BY LenProperties
<1>2. /\ pool \in Seq(Entry) /\ e \in Elements(pool)
      /\ \A x \in Elements(pool) : x.driver = e.driver
    BY <1>1, PoolIs
<1> HIDE DEF pool
<1>3. /\ Order(pool) \in Seq(Entry) /\ Elements(Order(pool)) = Elements(pool)
      /\ \E k \in 0..Len(Order(pool)) :
            /\ \A i \in 1..k : Fresh(Order(pool)[i])
            /\ \A i \in (k + 1)..Len(Order(pool)) : ~Fresh(Order(pool)[i])
    BY <1>2, OrderIs
<1>4. legs = Order(pool)
    BY DEF LegsOf, pool
<1> HIDE DEF legs
<1>5. /\ legs \in Seq(Entry) /\ Elements(legs) = Elements(pool)
      /\ \E k \in 0..Len(legs) :
            /\ \A i \in 1..k : Fresh(legs[i])
            /\ \A i \in (k + 1)..Len(legs) : ~Fresh(legs[i])
    BY <1>3, <1>4
<1>6. Len(legs) \in Nat /\ DOMAIN legs = 1..Len(legs)
    BY <1>5, LenProperties
<1>7. \A i \in 1..Len(legs) : legs[i] \in Elements(pool)
    BY <1>5, <1>6 DEF Elements
<1>8. 1 \in 1..Len(legs)
    <2>1. PICK i \in DOMAIN legs : legs[i] = e
        BY <1>2, <1>5 DEF Elements
    <2> QED BY <1>6, <2>1
<1>9. \A i \in 1..Len(legs) : legs[i].driver = e.driver
    BY <1>2, <1>7
<1> QED BY <1>5, <1>6, <1>8, <1>9 DEF legs, pool

\* A chain starts at the first leg of its pool.
LEMMA NewChains ==
    ASSUME PlanInv, NEW m, NEW start \in {"header", "attempt"}, Begin(m, start)
    PROVE  ChainsInv'
<1>1. /\ UNCHANGED <<cooled, reviewers, spares>>
      /\ br' = [b \in DOMAIN reviewers |-> NewBranch(start, LegsOf(reviewers[b]))]
    BY DEF Begin, plan, inputs, LegsOf
<1>2. ASSUME NEW b \in DOMAIN reviewers
      PROVE  br'[b].legs = LegsOf(reviewers[b])' /\ ChainInv(br'[b]) /\ BranchTyped(br'[b])
    <2> DEFINE legs == LegsOf(reviewers[b])
    <2>1. 1 \in 1..Len(legs)
        BY LegsAre DEF PlanInv
    <2> HIDE DEF legs
    <2>2. br'[b] = NewBranch(start, legs)
        BY <1>1 DEF legs
    <2>3. NewBranch(start, legs).legs = legs /\ ChainInv(NewBranch(start, legs))
          /\ BranchTyped(NewBranch(start, legs))
        BY <2>1 DEF ChainInv, BranchTyped, NewBranch, NoRow, NoReceipt
    <2>4. LegsOf(reviewers[b])' = legs
        BY <1>1, SameLegs DEF legs
    <2> QED BY <2>2, <2>3, <2>4
<1>3. DOMAIN br' = DOMAIN reviewers'
    BY <1>1
<1>4. ASSUME NEW c \in DOMAIN br'
      PROVE  /\ c \in DOMAIN reviewers'
             /\ br'[c].legs = LegsOf(reviewers[c])'
             /\ ChainInv(br'[c]) /\ BranchTyped(br'[c])
    BY <1>1, <1>2, <1>3
<1> QED BY <1>4 DEF ChainsInv, Branches, ChainInv, BranchTyped

\* A step that leaves branches and plan alone.
LEMMA StillChains ==
    ASSUME ChainsInv, br' = br, br = <<>> \/ UNCHANGED <<cooled, reviewers, spares>>
    PROVE  ChainsInv'
<1>1. CASE br = <<>>
    BY <1>1 DEF ChainsInv, Branches
<1>2. CASE UNCHANGED <<cooled, reviewers, spares>>
    <2>1. ASSUME NEW c \in DOMAIN br'
          PROVE  /\ c \in DOMAIN reviewers'
                 /\ br'[c].legs = LegsOf(reviewers[c])'
                 /\ ChainInv(br'[c]) /\ BranchTyped(br'[c])
        <3>1. c \in DOMAIN reviewers /\ br[c].legs = LegsOf(reviewers[c])
          /\ ChainInv(br[c]) /\ BranchTyped(br[c])
            BY DEF ChainsInv, Branches
        <3>2. LegsOf(reviewers[c])' = LegsOf(reviewers[c])
            BY <1>2, SameLegs
        <3> QED BY <1>2, <3>1, <3>2
    <2> QED BY <2>1 DEF ChainsInv, Branches, ChainInv, BranchTyped
<1> QED BY <1>1, <1>2

LEMMA ChainsNext == JobInv /\ [Next]_vars => ChainsInv'
<1> SUFFICES ASSUME JobInv, [Next]_vars
             PROVE  ChainsInv'
    OBVIOUS
<1>1. CASE ReadCooldowns \/ Configured \/ Escalate
    <2>1. br = <<>> /\ br' = br
        BY <1>1 DEF ReadCooldowns, Configured, Escalate, JobInv, RunInv
    <2> QED BY <2>1, StillChains DEF JobInv
<1>2. CASE StartSolo \/ StartCompare
    <2>1. PICK m \in {"solo", "concurrent", "sequential"}, start \in {"header", "attempt"} :
            Begin(m, start)
        BY <1>2 DEF StartSolo, StartCompare
    <2> QED BY <2>1, NewChains DEF JobInv
<1>3. ASSUME NEW b \in Branches, BranchStep(b)
      PROVE  ChainsInv'
    BY <1>3, BranchChains
<1>4. CASE NothingToRun \/ Join \/ Observe \/ UNCHANGED vars
    <2>1. br' = br /\ UNCHANGED <<cooled, reviewers, spares>>
        BY <1>4 DEF NothingToRun, Join, Observe, vars, plan, inputs
    <2> QED BY <2>1, StillChains DEF JobInv
<1> QED BY <1>1, <1>2, <1>3, <1>4 DEF Next

LEMMA SameEscalation ==
    ASSUME EscalationKeepsTheFleet, fleet' = fleet, promoted' = promoted, concurrent' = concurrent,
           reviewers' = reviewers, spares' = spares
    PROVE  EscalationKeepsTheFleet'
<1>1. Actives' = Actives /\ Trials' = Trials
    BY DEF Actives, Trials
<1>2. CASE promoted = <<>>
    BY <1>2 DEF EscalationKeepsTheFleet
<1>3. CASE promoted # <<>>
    BY <1>1, <1>3 DEF EscalationKeepsTheFleet
<1> QED BY <1>2, <1>3

\* A step that leaves the plan and the mode alone keeps what is known of them.
LEMMA StillPlanned ==
    ASSUME PlanInv, UNCHANGED <<fleet, cooled, concurrent, promoted, reviewers, spares>>,
           mode' = mode,
           phase' \in {"read", "plan", "start"} => phase \in {"read", "plan", "start"},
           phase' = "branches" => phase = "branches"
    PROVE  PlanInv'
<1>1. EscalationKeepsTheFleet'
    BY SameEscalation DEF PlanInv
<1> QED BY <1>1 DEF PlanInv

LEMMA PlanNext == PlanInv /\ [Next]_vars => PlanInv'
<1> SUFFICES ASSUME PlanInv, [Next]_vars
             PROVE  PlanInv'
    OBVIOUS
<1>1. CASE ReadCooldowns
    <2>1. /\ UNCHANGED <<fleet, concurrent, promoted, reviewers, spares, mode>>
          /\ phase = "read" /\ phase' = "plan"
        BY <1>1 DEF ReadCooldowns, plan
    <2>2. EscalationKeepsTheFleet'
        BY <2>1, SameEscalation DEF PlanInv
    <2> QED BY <2>1, <2>2 DEF PlanInv
<1>2. CASE Configured
    <2>1. /\ fleet' = fleet /\ mode' = mode /\ promoted' = <<>>
          /\ reviewers' = Actives \o Trials /\ spares' = Backups
          /\ phase = "plan" /\ phase' = "start"
        BY <1>2 DEF Configured, inputs
    <2>2. Actives \o Trials \in Seq(Entry) /\ Backups \in Seq(Entry)
        BY ExistingIs DEF PlanInv
    <2>3. EscalationKeepsTheFleet'
        BY <2>1 DEF EscalationKeepsTheFleet
    <2> QED BY <2>1, <2>2, <2>3 DEF PlanInv
<1>3. CASE Escalate
    <2>1. /\ fleet' = fleet /\ mode' = mode /\ phase = "plan" /\ phase' = "start"
        BY <1>3 DEF Escalate, inputs
    <2>2. {reviewers', spares', promoted'} \subseteq Seq(Entry) /\ EscalationKeepsTheFleet'
        BY <1>3, EscalationIs DEF PlanInv
    <2> QED BY <2>1, <2>2 DEF PlanInv
<1>4. CASE StartSolo
    <2>1. /\ UNCHANGED <<fleet, concurrent, promoted, reviewers, spares>>
          /\ mode' = "solo" /\ phase' = "branches" /\ Len(reviewers) = 1
        BY <1>4 DEF StartSolo, Begin, plan, inputs
    <2>2. EscalationKeepsTheFleet'
        BY <2>1, SameEscalation DEF PlanInv
    <2> QED BY <2>1, <2>2 DEF PlanInv
<1>5. CASE StartCompare
    <2>1. PICK down \in SUBSET Tokens :
            Begin(IF Resolves(reviewers, down) THEN "concurrent" ELSE "sequential", "header")
        BY <1>5 DEF StartCompare
    <2>2. /\ UNCHANGED <<fleet, concurrent, promoted, reviewers, spares>>
          /\ mode' = IF Resolves(reviewers, down) THEN "concurrent" ELSE "sequential"
          /\ phase' = "branches"
        BY <2>1 DEF Begin, plan, inputs
    <2>3. EscalationKeepsTheFleet'
        BY <2>2, SameEscalation DEF PlanInv
    <2>4. mode' = "concurrent" => Resolves(reviewers, down)'
        BY <2>2 DEF Resolves
    <2> QED BY <2>2, <2>3, <2>4 DEF PlanInv
<1>6. ASSUME NEW b \in Branches, BranchStep(b)
      PROVE  PlanInv'
    BY <1>6, BranchPlan, StillPlanned
<1>7. CASE NothingToRun \/ Join \/ Observe \/ UNCHANGED vars
    BY <1>7, StillPlanned DEF NothingToRun, Join, Observe, vars, plan, inputs
<1> QED BY <1>1, <1>2, <1>3, <1>4, <1>5, <1>6, <1>7 DEF Next

THEOREM JobInvariant == Spec => []JobInv
<1>1. Init => JobInv
    <2> SUFFICES ASSUME Init PROVE JobInv
        OBVIOUS
    <2>1. RunInv
        BY DEF Init, RunInv, Branches
    <2>2. EscalationKeepsTheFleet
        BY DEF Init, EscalationKeepsTheFleet
    <2>3. PlanInv
        BY <2>2 DEF Init, PlanInv
    <2>4. ChainsInv
        BY DEF Init, ChainsInv, Branches
    <2> QED BY <2>1, <2>3, <2>4 DEF JobInv
<1>2. JobInv /\ [Next]_vars => JobInv'
    BY StepKeeps, PlanNext, ChainsNext DEF JobInv
<1> QED BY <1>1, <1>2, PTL DEF Spec

\* What remains of the type invariant.
TypesInv ==
    /\ phase \in {"read", "plan", "start", "branches", "observe", "over"}
    /\ concurrent \in BOOLEAN /\ observed \in BOOLEAN
    /\ cooled \subseteq Providers /\ tripped \subseteq Providers
    /\ faults \in 0..MaxFaults
    /\ verdict \in {"none", "ok", "failed"}
    /\ promoted \in Seq(Entry)

\* At most one more thing goes wrong in a step, and never one too many.
LEMMA FaultIsBounded ==
    ASSUME faults \in 0..MaxFaults, NEW n \in {0, 1}, Fault(n)
    PROVE  faults' \in 0..MaxFaults
<1>1. MaxFaults \in Nat
    BY RunConstants
<1> QED BY <1>1 DEF Fault

LEMMA BranchTypes ==
    ASSUME JobInv, TypesInv, NEW b \in Branches, BranchStep(b)
    PROVE  TypesInv'
<1>1. /\ UNCHANGED <<cooled, concurrent, promoted>> /\ phase' = phase
    BY BranchPlan
<1>2. UNCHANGED <<verdict, observed>>
    BY DEF BranchStep, PostHeader, Answered, Throttled, Raises, Abandon, Record, Finalize,
           Move, outcome
<1>3. \E n \in {0, 1} : Fault(n)
    <2>1. CASE PostHeader(b)
        <3>1. PICK h \in {"none", "unknown", "known"} : Fault(IF h = "known" THEN 0 ELSE 1)
            BY <2>1 DEF PostHeader
        <3> QED BY <3>1
    <2>2. CASE Abandon(b)
        <3>1. PICK index \in BOOLEAN, trip \in BOOLEAN : Fault(IF index /\ trip THEN 0 ELSE 1)
            BY <2>2 DEF Abandon
        <3> QED BY <3>1
    <2>3. CASE Answered(b) \/ Throttled(b) \/ Raises(b) \/ Record(b) \/ Finalize(b)
        <3>1. Fault(0) \/ Fault(1)
            BY <2>3 DEF Answered, Throttled, Raises, Record, Finalize
        <3> QED BY <3>1
    <2> QED BY <2>1, <2>2, <2>3 DEF BranchStep
<1>4. faults' \in 0..MaxFaults
    BY <1>3, FaultIsBounded DEF TypesInv
<1>5. tripped' \subseteq Providers
    <2>1. CASE Abandon(b)
        <3>1. /\ b \in DOMAIN reviewers /\ br[b].legs = LegsOf(reviewers[b])
              /\ br[b].at \in 1..Len(br[b].legs)
              /\ reviewers \in Seq(Entry) /\ spares \in Seq(Entry)
            BY DEF JobInv, ChainsInv, ChainInv, PlanInv
        <3>2. br[b].legs \in Seq(Entry)
            BY <3>1, LegsAre
        <3>3. Leg(b) \in Entry
            BY <3>1, <3>2, LenProperties DEF Leg
        <3>4. Leg(b).provider \in Providers
            BY <3>3 DEF Entry
        <3>5. tripped' \subseteq tripped \cup {Leg(b).provider}
            BY <2>1 DEF Abandon
        <3> QED BY <3>4, <3>5 DEF TypesInv
    <2>2. CASE ~Abandon(b)
        <3>1. tripped' = tripped
            BY <2>2 DEF BranchStep, PostHeader, Answered, Throttled, Raises, Record, Finalize, Move
        <3> QED BY <3>1 DEF TypesInv
    <2> QED BY <2>1, <2>2
<1> QED BY <1>1, <1>2, <1>4, <1>5 DEF TypesInv

LEMMA TypesNext == JobInv /\ TypesInv /\ [Next]_vars => TypesInv'
<1> SUFFICES ASSUME JobInv, TypesInv, [Next]_vars
             PROVE  TypesInv'
    OBVIOUS
<1>1. CASE ReadCooldowns
    BY <1>1 DEF TypesInv, ReadCooldowns, plan, outcome
<1>2. CASE Configured
    <2>1. <<>> \in Seq(Entry)
        OBVIOUS
    <2> QED BY <1>2, <2>1 DEF TypesInv, Configured, inputs, outcome
<1>3. CASE Escalate
    <2>1. promoted' \in Seq(Entry) /\ concurrent' \in BOOLEAN
        BY <1>3, EscalationIs DEF JobInv, PlanInv
    <2>2. UNCHANGED <<cooled, tripped, verdict, observed, faults>> /\ phase' = "start"
        BY <1>3 DEF Escalate, inputs, outcome
    <2> QED BY <2>1, <2>2 DEF TypesInv
<1>4. CASE StartSolo \/ StartCompare
    <2>1. PICK m \in {"solo", "concurrent", "sequential"}, start \in {"header", "attempt"} :
            Begin(m, start)
        BY <1>4 DEF StartSolo, StartCompare
    <2> QED BY <2>1 DEF TypesInv, Begin, plan, inputs, outcome
<1>5. CASE NothingToRun
    BY <1>5 DEF TypesInv, NothingToRun, plan, inputs
<1>6. ASSUME NEW b \in Branches, BranchStep(b)
      PROVE  TypesInv'
    BY <1>6, BranchTypes
<1>7. CASE Join
    BY <1>7 DEF TypesInv, Join, plan, inputs
<1>8. CASE Observe
    BY <1>8 DEF TypesInv, Observe, plan, inputs
<1>9. CASE UNCHANGED vars
    BY <1>9 DEF TypesInv, vars
<1> QED BY <1>1, <1>2, <1>3, <1>4, <1>5, <1>6, <1>7, <1>8, <1>9 DEF Next

\* The variables of a job have their types, and the chain of a branch stays
\* within its pool.
THEOREM RunTypeCorrect == Spec => []TypeOK
<1>1. Init => TypesInv
    <2>1. <<>> \in Seq(Entry) /\ MaxFaults \in Nat
        BY RunConstants
    <2>2. 0 \in 0..MaxFaults
        BY <2>1
    <2>3. FALSE \in BOOLEAN
        OBVIOUS
    <2> QED BY <2>1, <2>2, <2>3 DEF Init, TypesInv
<1>2. JobInv /\ TypesInv /\ [Next]_vars => TypesInv'
    BY TypesNext
<1>3. JobInv /\ TypesInv => TypeOK
    <2> SUFFICES ASSUME JobInv, TypesInv PROVE TypeOK
        OBVIOUS
    <2>1. ASSUME NEW b \in Branches
          PROVE  /\ br[b].pc \in {"header", "attempt", "abandon", "record", "finalize", "over"}
                 /\ br[b].rc \in {"none", "ok", "failed", "throttled"}
                 /\ br[b].at \in 1..Len(br[b].legs)
                 /\ BranchTyped(br[b])
        <3>1. AnswerInv(br[b])
            BY GoodAt DEF JobInv
        <3>2. ChainInv(br[b]) /\ BranchTyped(br[b])
            BY DEF JobInv, ChainsInv
        <3> QED BY <3>1, <3>2 DEF AnswerInv, ChainInv
    <2>2. \A s \in {promoted, reviewers, spares} : s \in Seq(Entry)
        BY DEF JobInv, PlanInv, TypesInv
    <2>3. /\ fleet \in Fleets
          /\ mode \in {"none", "solo", "concurrent", "sequential"}
        BY DEF JobInv, PlanInv
    <2> QED BY <2>1, <2>2, <2>3 DEF TypeOK, TypesInv, BranchTyped
<1> QED BY <1>1, <1>2, <1>3, JobInvariant, PTL DEF Spec

-----------------------------------------------------------------------------

\* plan_escalation: whatever the reads say and whichever backups are accepted,
\* a round with promotions runs every configured reviewer, under one driver,
\* within the budget, and no promoted entry is a failover target as well.
THEOREM EscalationKeeps == Spec => []EscalationKeepsTheFleet
<1>1. JobInv => EscalationKeepsTheFleet
    BY DEF JobInv, PlanInv
<1> QED BY <1>1, JobInvariant, PTL

\* order_pool and _run_pool: in every chain of every fleet, an entry that is
\* cooling or too small is tried after all the others, and a chain is called
\* throttled out only after its whole pool.
THEOREM LastResorts == Spec => []LastResortsLast
<1>1. ASSUME JobInv
      PROVE  LastResortsLast
    <2> DEFINE Legs(b, S) == {br[b].legs[i] : i \in S}
               Eligible(b) == {e \in Legs(b, DOMAIN br[b].legs) : e.fits /\ ~Cooling(e)}
    <2>1. ASSUME NEW b \in Branches
          PROVE  /\ \A i \in Tried(b) :
                        br[b].legs[i] \notin Eligible(b) => Eligible(b) \subseteq Legs(b, 1..(i - 1))
                 /\ br[b].row # NoRow /\ br[b].row.outcome = "throttled_out" =>
                        Legs(b, Tried(b)) = Elements(Pool(reviewers[b]))
        <3> DEFINE legs == br[b].legs
        <3>1. /\ b \in DOMAIN reviewers /\ legs = LegsOf(reviewers[b]) /\ ChainInv(br[b])
              /\ reviewers \in Seq(Entry) /\ spares \in Seq(Entry)
            BY <1>1 DEF JobInv, ChainsInv, PlanInv
        <3>2. /\ Len(legs) \in Nat /\ DOMAIN legs = 1..Len(legs)
              /\ Elements(legs) = Elements(Pool(reviewers[b]))
              /\ \E k \in 0..Len(legs) :
                    /\ \A i \in 1..k : Fresh(legs[i])
                    /\ \A i \in (k + 1)..Len(legs) : ~Fresh(legs[i])
            BY <3>1, LegsAre
        <3>3. PICK k \in 0..Len(legs) :
                    /\ \A i \in 1..k : Fresh(legs[i])
                    /\ \A i \in (k + 1)..Len(legs) : ~Fresh(legs[i])
            BY <3>2
        <3>4. br[b].at \in 1..Len(legs)
            BY <3>1 DEF ChainInv
        <3>5. ASSUME NEW i \in Tried(b), legs[i] \notin Eligible(b), NEW e \in Eligible(b)
              PROVE  e \in Legs(b, 1..(i - 1))
            <4>1. i \in 1..Len(legs)
                BY <3>2, <3>4 DEF Tried
            <4>2. ~Fresh(legs[i])
                BY <3>2, <3>5, <4>1 DEF Fresh
            <4>3. ~(i <= k)
                BY <3>3, <4>1, <4>2
            <4>4. PICK j \in 1..Len(legs) : e = legs[j]
                BY <3>2, <3>5
            <4>5. Fresh(legs[j])
                BY <3>5, <4>4 DEF Fresh
            <4>6. j <= k
                BY <3>2, <3>3, <4>5
            <4>7. j \in 1..(i - 1)
                BY <3>2, <3>3, <4>1, <4>3, <4>6
            <4> QED BY <4>4, <4>7
        <3>6. ASSUME br[b].row # NoRow, br[b].row.outcome = "throttled_out"
              PROVE  Legs(b, Tried(b)) = Elements(Pool(reviewers[b]))
            <4>1. br[b].at = Len(legs)
                BY <3>1, <3>6 DEF ChainInv
            <4>2. br[b].pc # "header"
                BY <1>1, <3>6, GoodAt DEF JobInv, ReceiptInv
            <4>3. Tried(b) = DOMAIN legs
                BY <3>2, <4>1, <4>2 DEF Tried
            <4> QED BY <3>2, <4>3 DEF Elements
        <3> QED BY <3>5, <3>6
    <2> QED BY <2>1 DEF LastResortsLast, Elements
<1> QED BY <1>1, JobInvariant, PTL

\* _resolve_actor tells two installation tokens apart although one App may
\* have minted them both.  Here an App mints at most one token of a fleet.
AppsMintOnce ==
    \A t \in AppTokens \cap Tokens, u \in Tokens : t # u => AuthorOf[t] # AuthorOf[u]

\* Tokens told apart by _resolve_actor post under different accounts.
LEMMA ActorsAreAuthors ==
    ASSUME AppsMintOnce, NEW t \in Tokens, NEW u \in Tokens, ActorOf(t) # ActorOf(u)
    PROVE  AuthorOf[t] # AuthorOf[u]
<1>1. t # u
    BY DEF ActorOf
<1>2. CASE t \in AppTokens
    BY <1>1, <1>2 DEF AppsMintOnce
<1>3. CASE u \in AppTokens
    BY <1>1, <1>3 DEF AppsMintOnce
<1>4. CASE t \notin AppTokens /\ u \notin AppTokens
    BY <1>4 DEF ActorOf
<1> QED BY <1>2, <1>3, <1>4

\* _branch_seats, _with_branch_ledger, _compatible_backups, _review_compare:
\* legs that share a seat are of one branch, under one driver and one ledger
\* configuration, and branches at work at the same time post under different
\* accounts.
THEOREM BranchesApart ==
    ASSUME AppsMintOnce
    PROVE  Spec => []BranchesStayApart
<1>1. ASSUME JobInv
      PROVE  OneLanePerSeat
    <2> SUFFICES ASSUME NEW b \in Branches, NEW c \in Branches,
                        NEW i \in Tried(b), NEW j \in Tried(c),
                        RunsAs(b, i).seat = RunsAs(c, j).seat
                 PROVE  b = c /\ RunsAs(b, i) = RunsAs(c, j)
        BY DEF OneLanePerSeat
    <2>1. /\ b \in DOMAIN reviewers /\ c \in DOMAIN reviewers
          /\ br[b].legs = LegsOf(reviewers[b]) /\ br[c].legs = LegsOf(reviewers[c])
          /\ ChainInv(br[b]) /\ ChainInv(br[c])
          /\ reviewers \in Seq(Entry) /\ spares \in Seq(Entry)
        BY <1>1 DEF JobInv, ChainsInv, PlanInv
    <2>2. b = c
        <3>1. CASE mode = "solo"
            <4>1. Len(reviewers) = 1 /\ DOMAIN reviewers = 1..Len(reviewers)
                BY <1>1, <2>1, <3>1, LenProperties DEF JobInv, PlanInv
            <4> QED BY <2>1, <4>1
        <3>2. CASE mode # "solo"
            <4>1. BranchSeats(reviewers)[b] = BranchSeats(reviewers)[c]
                BY <3>2 DEF RunsAs
            <4> QED BY <2>1, <4>1, SeatsDiffer
        <3> QED BY <3>1, <3>2
    <2>3. br[b].legs[i].driver = reviewers[b].driver /\ br[c].legs[j].driver = reviewers[c].driver
        <3>1. i \in 1..Len(br[b].legs) /\ j \in 1..Len(br[c].legs)
            <4>1. Len(br[b].legs) \in Nat /\ Len(br[c].legs) \in Nat
                BY <2>1, LegsAre
            <4> QED BY <2>1, <4>1 DEF ChainInv, Tried
        <3> QED BY <2>1, <3>1, LegsAre
    <2> QED BY <2>2, <2>3 DEF RunsAs, LedgerOf
<1>2. ASSUME JobInv
      PROVE  OneAuthorAtATime
    <2> SUFFICES ASSUME NEW b \in Branches, NEW c \in Branches, b # c,
                        Turn(b), br[b].pc # "over", Turn(c), br[c].pc # "over"
                 PROVE  AuthorOf[TokenOf[reviewers[b].env]] # AuthorOf[TokenOf[reviewers[c].env]]
        BY DEF OneAuthorAtATime
    <2>1. /\ b \in DOMAIN reviewers /\ c \in DOMAIN reviewers /\ reviewers \in Seq(Entry)
        BY <1>2 DEF JobInv, ChainsInv, PlanInv
    <2>2. b \in Nat /\ c \in Nat /\ DOMAIN reviewers = 1..Len(reviewers)
        BY <2>1, LenProperties
    <2>3. mode # "solo"
        BY <1>2, <2>1, <2>2 DEF JobInv, PlanInv
    <2>4. mode # "sequential"
        <3>1. b < c \/ c < b
            BY <2>2
        <3> QED BY <3>1 DEF Turn
    <2>5. mode = "concurrent"
        BY <1>2, <2>3, <2>4 DEF JobInv, PlanInv, Turn
    <2>6. PICK down \in SUBSET Tokens : Resolves(reviewers, down)
        BY <1>2, <2>5 DEF JobInv, PlanInv
    <2> DEFINE t == TokenOf[reviewers[b].env]
               u == TokenOf[reviewers[c].env]
    <2>7. HasIdentity(reviewers[b]) /\ HasIdentity(reviewers[c]) /\ ActorOf(t) # ActorOf(u)
        BY <2>1, <2>6 DEF Resolves
    <2>8. reviewers[b].env \in Envs \cup {NoEnv} /\ reviewers[c].env \in Envs \cup {NoEnv}
        <3>1. reviewers[b] \in Entry /\ reviewers[c] \in Entry
            BY <2>1, LenProperties
        <3> QED BY <3>1 DEF Entry
    <2>9. t \in Tokens /\ u \in Tokens
        BY <2>7, <2>8 DEF HasIdentity, Tokens
    <2> HIDE DEF t, u
    <2>10. AuthorOf[t] # AuthorOf[u]
        BY <2>7, <2>9, ActorsAreAuthors
    <2> QED BY <2>10 DEF t, u
<1>3. JobInv => BranchesStayApart
    BY <1>1, <1>2 DEF BranchesStayApart
<1> QED BY <1>3, JobInvariant, PTL
=============================================================================
