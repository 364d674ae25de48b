------------------------ MODULE SectionControlProofs ------------------------
(***************************************************************************)
(* What addSection does to a list of sections, of any length and with its  *)
(* erasures as the code makes them.                                        *)
(*                                                                         *)
(* The erasures run in a loop, so this needs induction.  It is done with   *)
(* sets in the place of predicates: a set of naturals that contains 0 and  *)
(* with each number the next one is Nat, which follows from the existence  *)
(* of least elements and that from the library's theorems on finite sets.  *)
(***************************************************************************)
EXTENDS SectionControl, FiniteSetTheorems, WellFoundedInduction, TLAPS

-----------------------------------------------------------------------------
(* Induction and recursion over the naturals.                              *)

\* A set of naturals has a least element.
LEMMA NatMin ==
  ASSUME NEW T \in SUBSET Nat, T # {}
  PROVE  \E n \in T : \A m \in T : n <= m
<1>1. PICK k \in T : TRUE
  OBVIOUS
<1> DEFINE K == 0..k
           U == {0..n : n \in T \cap K}
<1>2. IsFiniteSet(K)
  BY FS_Interval
<1>3. IsWellFoundedOn(StrictSubsetOrdering(K), SUBSET K)
  BY <1>2, FS_StrictSubsetOrderingWellFounded, FS_FiniteSubsetsOfFinite
<1>4. U \subseteq SUBSET K /\ U # {}
  OBVIOUS
<1> HIDE DEF U
<1>5. PICK x \in U : \A y \in U : ~ (<<y, x>> \in StrictSubsetOrdering(K))
  BY <1>3, <1>4, WFMin
<1>6. PICK n \in T \cap K : x = 0..n
  BY <1>5 DEF U
<1>7. ASSUME NEW m \in T, m < n PROVE FALSE
  <2>1. (0..m) \in U
    BY <1>7, <1>6 DEF U
  <2>2. (0..m) \subseteq 0..n /\ n \in 0..n /\ n \notin 0..m
    BY <1>7
  <2>3. <<0..m, 0..n>> \in StrictSubsetOrdering(K)
    BY <2>2, <2>1, <1>6, <1>4 DEF StrictSubsetOrdering
  <2> QED BY <2>1, <2>3, <1>5, <1>6
<1> QED BY <1>6, <1>7

\* Induction, of a set instead of a predicate.
LEMMA NatInductionSet ==
  ASSUME NEW S \in SUBSET Nat, 0 \in S, \A n \in S : n + 1 \in S
  PROVE  \A n \in Nat : n \in S
<1> DEFINE T == Nat \ S
<1>1. ASSUME T # {} PROVE FALSE
  <2>1. PICK n \in T : \A m \in T : n <= m
    BY <1>1, NatMin
  <2>2. n \in Nat /\ n # 0
    BY <2>1
  <2>3. n - 1 \in Nat /\ n - 1 \notin T
    BY <2>1, <2>2
  <2>4. (n - 1) + 1 \in S
    BY <2>3
  <2> QED BY <2>1, <2>2, <2>4
<1> QED BY <1>1

\* A recursive function exists, by way of its restrictions to 0..n.
Approximations(X, x0, step, n) ==
  {f \in [0..n -> X] : f[0] = x0 /\ \A k \in 0..(n - 1) : f[k + 1] = step[k][f[k]]}

LEMMA ApproximationsAgree ==
  ASSUME NEW X, NEW x0, NEW step,
         NEW m \in Nat, NEW n \in Nat, m <= n,
         NEW f \in Approximations(X, x0, step, m),
         NEW h \in Approximations(X, x0, step, n)
  PROVE  \A k \in 0..m : f[k] = h[k]
<1> DEFINE S == {k \in Nat : k <= m => f[k] = h[k]}
<1>1. 0 \in S
  BY DEF Approximations
<1>2. ASSUME NEW k \in S PROVE k + 1 \in S
  <2>1. CASE k + 1 <= m
    <3>1. k \in 0..(m - 1) /\ k \in 0..(n - 1) /\ f[k] = h[k]
      BY <2>1
    <3> QED BY <3>1 DEF Approximations
  <2> QED BY <2>1
<1> HIDE DEF S
<1>3. \A k \in Nat : k \in S
  <2>1. S \in SUBSET Nat
    BY DEF S
  <2> QED BY <1>1, <1>2, <2>1, NatInductionSet
<1> QED BY <1>3 DEF S

LEMMA ApproximationExists ==
  ASSUME NEW X, NEW x0 \in X, NEW step \in [Nat -> [X -> X]]
  PROVE  \A n \in Nat : Approximations(X, x0, step, n) # {}
<1> DEFINE S == {n \in Nat : Approximations(X, x0, step, n) # {}}
<1>1. 0 \in S
  <2>1. [k \in 0..0 |-> x0] \in Approximations(X, x0, step, 0)
    BY DEF Approximations
  <2> QED BY <2>1
<1>2. ASSUME NEW n \in S PROVE n + 1 \in S
  <2>1. PICK f : f \in Approximations(X, x0, step, n)
    OBVIOUS
  <2> DEFINE h == [k \in 0..(n + 1) |-> IF k = n + 1 THEN step[n][f[n]] ELSE f[k]]
  <2>2. n \in Nat /\ f \in [0..n -> X] /\ f[n] \in X /\ step[n][f[n]] \in X
    BY <2>1 DEF Approximations
  <2>3. h \in [0..(n + 1) -> X]
    BY <2>2
  <2>4. h[0] = x0
    BY <2>1, <2>2 DEF Approximations
  <2>5. ASSUME NEW k \in 0..((n + 1) - 1) PROVE h[k + 1] = step[k][h[k]]
    <3>1. CASE k = n
      BY <3>1, <2>2
    <3>2. CASE k # n
      <4>1. k \in 0..(n - 1) /\ k \in 0..(n + 1) /\ k + 1 \in 0..(n + 1) /\ k # n + 1
        BY <3>2, <2>2
      <4>2. f[k + 1] = step[k][f[k]]
        BY <4>1, <2>1 DEF Approximations
      <4> QED BY <4>1, <4>2, <3>2
    <3> QED BY <3>1, <3>2
  <2> HIDE DEF h
  <2>6. h \in Approximations(X, x0, step, n + 1)
    BY <2>3, <2>4, <2>5 DEF Approximations
  <2> QED BY <2>2, <2>6
<1> HIDE DEF S
<1>3. \A n \in Nat : n \in S
  <2>1. S \in SUBSET Nat
    BY DEF S
  <2> QED BY <1>1, <1>2, <2>1, NatInductionSet
<1> QED BY <1>3 DEF S

Iterates(g, x0, step) ==
  /\ g[0] = x0
  /\ \A k \in Nat : g[k + 1] = step[k][g[k]]

LEMMA RecursionExists ==
  ASSUME NEW X, NEW x0 \in X, NEW step \in [Nat -> [X -> X]]
  PROVE  \E g \in [Nat -> X] : Iterates(g, x0, step)
<1> DEFINE A(n) == Approximations(X, x0, step, n)
           a    == [n \in Nat |-> CHOOSE f : f \in A(n)]
           g    == [n \in Nat |-> a[n][n]]
<1>1. ASSUME NEW n \in Nat PROVE a[n] \in A(n)
  <2>1. \E f : f \in A(n)
    BY ApproximationExists
  <2> QED BY <2>1
<1> HIDE DEF a
<1>2. ASSUME NEW n \in Nat
      PROVE  /\ a[n] \in [0..n -> X] /\ a[n][0] = x0
             /\ \A k \in 0..(n - 1) : a[n][k + 1] = step[k][a[n][k]]
  BY <1>1 DEF Approximations
<1>3. g \in [Nat -> X] /\ g[0] = x0
  BY <1>2
<1>4. ASSUME NEW k \in Nat PROVE g[k + 1] = step[k][g[k]]
  <2>1. a[k] \in A(k) /\ a[k + 1] \in A(k + 1)
    BY <1>1
  <2>2. \A i \in 0..k : a[k][i] = a[k + 1][i]
    BY <2>1, ApproximationsAgree
  <2>3. k \in 0..k /\ k \in 0..((k + 1) - 1) /\ k + 1 \in Nat
    OBVIOUS
  <2>4. a[k + 1][k + 1] = step[k][a[k + 1][k]]
    BY <1>2, <2>3
  <2> QED BY <2>2, <2>3, <2>4
<1> QED BY <1>3, <1>4 DEF Iterates
-----------------------------------------------------------------------------
(* Erasing in a loop.                                                      *)

\* A pair first, second as the receiver makes them; first = second when the
\* window is closed and a segment reaches up to it.
Section == {x \in Int \X Int : x[1] <= x[2]}

LEMMA PairIsSection ==
  ASSUME NEW a \in Int, NEW b \in Int, a <= b
  PROVE  <<a, b>> \in Section /\ <<a, b>>[1] = a /\ <<a, b>>[2] = b
  BY DEF Section

LEMMA SectionBounds ==
  ASSUME NEW x \in Section
  PROVE  x[1] \in Int /\ x[2] \in Int /\ x[1] <= x[2]
  BY DEF Section

\* The memory of a vector of sections, and its size.
Vector == {v \in [mem : Seq(Section), n : Int] : v.n <= Len(v.mem)}

\* The sections are in the order of their first bytes.
Ascending(F) == \A i, j \in 1..Len(F) : i <= j => F[i][1] <= F[j][1]

\* erase shifts the slots from i on to below the size by one.
LEMMA EraseAtSlots ==
  ASSUME NEW v \in Vector, NEW i \in Nat
  PROVE  /\ EraseAt(v, i) \in Vector
         /\ EraseAt(v, i).n = v.n - 1
         /\ Len(EraseAt(v, i).mem) = Len(v.mem)
         /\ \A j \in 1..Len(v.mem) :
              EraseAt(v, i).mem[j] = IF i < j /\ j < v.n THEN v.mem[j + 1] ELSE v.mem[j]
<1> DEFINE slot(j) == IF i < j /\ j < v.n THEN v.mem[j + 1] ELSE v.mem[j]
           mem == [j \in 1..Len(v.mem) |-> slot(j)]
<1>1. v.mem \in Seq(Section) /\ v.n \in Int /\ v.n <= Len(v.mem) /\ Len(v.mem) \in Nat
  BY DEF Vector
<1>2. ASSUME NEW j \in 1..Len(v.mem) PROVE slot(j) \in Section
  <2>1. CASE i < j /\ j < v.n
    <3>1. j + 1 \in 1..Len(v.mem)
      BY <1>1, <2>1
    <3> QED BY <1>1, <2>1, <3>1
  <2>2. CASE ~(i < j /\ j < v.n)
    BY <1>1, <2>2
  <2> QED BY <2>1, <2>2
<1> HIDE DEF slot
<1>3. mem \in Seq(Section) /\ Len(mem) = Len(v.mem)
  BY <1>1, <1>2
<1>4. EraseAt(v, i) = [mem |-> mem, n |-> v.n - 1]
  BY DEF EraseAt, slot
<1> HIDE DEF mem
<1>5. EraseAt(v, i) \in Vector
  BY <1>1, <1>3, <1>4 DEF Vector
<1>6. \A j \in 1..Len(v.mem) : mem[j] = slot(j)
  BY DEF mem
<1> QED BY <1>3, <1>4, <1>5, <1>6 DEF slot

\* The recursion in Erasures defines a function.
LEMMA ErasuresUnfold ==
  ASSUME NEW v \in Vector, NEW from \in Nat
  PROVE  /\ Erasures(v, from)[0] = v
         /\ \A k \in Nat : Erasures(v, from)[k + 1] = EraseAt(Erasures(v, from)[k], from + k)
<1> DEFINE step == [k \in Nat |-> [w \in Vector |-> EraseAt(w, from + k)]]
           Rec(g) == g = [k \in Nat |-> IF k = 0 THEN v ELSE EraseAt(g[k - 1], from + k - 1)]
<1>1. step \in [Nat -> [Vector -> Vector]]
  <2> SUFFICES ASSUME NEW k \in Nat, NEW w \in Vector
               PROVE  EraseAt(w, from + k) \in Vector
    BY Zenon
  <2> QED BY EraseAtSlots
<1>2. PICK g \in [Nat -> Vector] : Iterates(g, v, step)
  <2> HIDE DEF step
  <2> QED BY <1>1, RecursionExists
<1>3. \A k \in Nat : g[k + 1] = EraseAt(g[k], from + k)
  BY <1>2, Zenon DEF Iterates
<1>4. Rec(g)
  <2>1. ASSUME NEW k \in Nat
        PROVE  g[k] = IF k = 0 THEN v ELSE EraseAt(g[k - 1], from + k - 1)
    <3>1. CASE k = 0
      BY <1>2, <3>1 DEF Iterates
    <3>2. CASE k # 0
      <4>1. k - 1 \in Nat /\ (k - 1) + 1 = k /\ from + (k - 1) = from + k - 1
        BY <3>2
      <4> QED BY <1>3, <3>2, <4>1
    <3> QED BY <3>1, <3>2
  <2> QED BY <1>2, <2>1
<1> DEFINE h == Erasures(v, from)
<1>5. h = CHOOSE f : Rec(f)
  BY DEF Erasures
<1>6. Rec(h)
  <2> HIDE DEF Rec, h
  <2> QED BY <1>4, <1>5
<1> HIDE DEF h
<1>7. h[0] = v
  BY <1>6
<1>8. ASSUME NEW k \in Nat PROVE h[k + 1] = EraseAt(h[k], from + k)
  <2>1. k + 1 \in Nat /\ k + 1 # 0 /\ (k + 1) - 1 = k /\ from + (k + 1) - 1 = from + k
    OBVIOUS
  <2> DEFINE q == k + 1
  <2>2. q \in Nat /\ q # 0 /\ q - 1 = k /\ from + q - 1 = from + k
    BY <2>1
  <2> HIDE DEF q
  <2>3. h[q] = EraseAt(h[q - 1], from + q - 1)
    BY <1>6, <2>2
  <2> QED BY <2>2, <2>3 DEF q
<1> QED BY <1>7, <1>8 DEF h

\* What a run of k erasures from index `from' on leaves of the sections F.
ErasedFrom(v, F, from, k) ==
  /\ v \in Vector
  /\ Len(v.mem) = Len(F)
  /\ v.n = Len(F) - k
  /\ Ascending(v.mem)
  /\ \A j \in 1..Len(F) : \E i \in 1..Len(F) : v.mem[j] = F[i]
  /\ \A j \in 1..Len(F) : F[j][1] <= v.mem[j][1]
  /\ \A j \in 1..Len(F) : j <= from => v.mem[j] = F[j]

\* Whatever erase moves, the whole memory stays in order, stale slots too.
LEMMA EraseAtKeeps ==
  ASSUME NEW F \in Seq(Section), NEW from \in Nat, NEW k \in Nat,
         NEW v, ErasedFrom(v, F, from, k), NEW i \in Nat, from <= i
  PROVE  ErasedFrom(EraseAt(v, i), F, from, k + 1)
<1> DEFINE N == Len(F)
           w == EraseAt(v, i)
<1>1. v \in Vector /\ Len(v.mem) = N /\ v.n = N - k /\ N \in Nat
  BY DEF ErasedFrom
<1>2. /\ w \in Vector /\ w.n = v.n - 1 /\ Len(w.mem) = N
      /\ \A j \in 1..N : w.mem[j] = IF i < j /\ j < v.n THEN v.mem[j + 1] ELSE v.mem[j]
  BY <1>1, EraseAtSlots
<1>3. \A j \in 1..N : v.mem[j] \in Section /\ v.mem[j][1] \in Int /\ F[j] \in Section /\ F[j][1] \in Int
  <2>1. \A j \in 1..N : v.mem[j] \in Section /\ F[j] \in Section
    BY <1>1 DEF Vector
  <2> QED BY <2>1, SectionBounds
<1>4. \A a, b \in 1..N : a <= b => v.mem[a][1] <= v.mem[b][1]
  BY <1>1 DEF ErasedFrom, Ascending
<1>5. /\ \A j \in 1..N : \E q \in 1..N : v.mem[j] = F[q]
      /\ \A j \in 1..N : F[j][1] <= v.mem[j][1]
      /\ \A j \in 1..N : j <= from => v.mem[j] = F[j]
  BY DEF ErasedFrom
<1> HIDE DEF N, w
\* Where the content of a slot comes from.
<1>6. ASSUME NEW j \in 1..N
      PROVE  \/ w.mem[j] = v.mem[j] /\ ~(i < j /\ j < v.n)
             \/ w.mem[j] = v.mem[j + 1] /\ j + 1 \in 1..N /\ i < j /\ j < v.n
  BY <1>1, <1>2
<1>7. ASSUME NEW a \in 1..N, NEW b \in 1..N, a <= b
      PROVE  w.mem[a][1] <= w.mem[b][1]
  <2>1. CASE w.mem[a] = v.mem[a]
    <3>1. CASE w.mem[b] = v.mem[b]
      BY <1>4, <1>7, <2>1, <3>1
    <3>2. CASE w.mem[b] = v.mem[b + 1] /\ b + 1 \in 1..N
      BY <1>4, <1>7, <2>1, <3>2
    <3> QED BY <1>6, <3>1, <3>2
  <2>2. CASE w.mem[a] = v.mem[a + 1] /\ a + 1 \in 1..N /\ i < a /\ a < v.n
    <3>1. CASE w.mem[b] = v.mem[b] /\ ~(i < b /\ b < v.n)
      <4>1. v.n <= b /\ a + 1 <= b
        BY <1>1, <1>7, <2>2, <3>1
      <4> QED BY <1>4, <2>2, <3>1, <4>1
    <3>2. CASE w.mem[b] = v.mem[b + 1] /\ b + 1 \in 1..N
      <4>1. a + 1 <= b + 1
        BY <1>7
      <4> QED BY <1>4, <2>2, <3>2, <4>1
    <3> QED BY <1>6, <3>1, <3>2
  <2> QED BY <1>6, <2>1, <2>2
<1>8. ASSUME NEW j \in 1..N PROVE \E q \in 1..N : w.mem[j] = F[q]
  BY <1>5, <1>6
<1>9. ASSUME NEW j \in 1..N PROVE F[j][1] <= w.mem[j][1]
  <2>1. CASE w.mem[j] = v.mem[j]
    BY <1>5, <2>1
  <2>2. CASE w.mem[j] = v.mem[j + 1] /\ j + 1 \in 1..N
    <3>1. j <= j + 1 /\ v.mem[j][1] <= v.mem[j + 1][1]
      BY <1>4, <2>2
    <3>2. F[j][1] <= v.mem[j][1]
      BY <1>5
    <3> QED BY <1>3, <2>2, <3>1, <3>2
  <2> QED BY <1>6, <2>1, <2>2
<1>10. ASSUME NEW j \in 1..N, j <= from PROVE w.mem[j] = F[j]
  BY <1>1, <1>5, <1>6, <1>10
<1>11. Ascending(w.mem)
  BY <1>2, <1>7 DEF Ascending
<1>12. w.n = N - (k + 1)
  BY <1>1, <1>2
<1>13. ErasedFrom(w, F, from, k + 1)
  BY <1>2, <1>8, <1>9, <1>10, <1>11, <1>12 DEF ErasedFrom, N
<1> QED BY <1>13 DEF w

\* The vector on entry to addSection.
Full(F) == [mem |-> F, n |-> Len(F)]

\* The loop as a whole, by induction over its iterations.
LEMMA EraseRunKeeps ==
  ASSUME NEW F \in Seq(Section), Ascending(F), NEW from \in Nat, NEW to \in Int
  PROVE  ErasedFrom(EraseRun(Full(F), from, to), F, from, IF from < to THEN to - from ELSE 0)
<1> DEFINE v == Full(F)
           h == Erasures(v, from)
           S == {k \in Nat : ErasedFrom(h[k], F, from, k)}
<1>1. v \in Vector /\ v.mem = F /\ v.n = Len(F)
  BY DEF Vector, Full
<1>2. \A j \in 1..Len(F) : F[j][1] \in Int
  BY DEF Section
<1>3. ErasedFrom(v, F, from, 0)
  BY <1>1, <1>2 DEF ErasedFrom
<1>4. h[0] = v /\ \A k \in Nat : h[k + 1] = EraseAt(h[k], from + k)
  BY <1>1, ErasuresUnfold
<1> HIDE DEF h, v
<1>5. 0 \in S
  BY <1>3, <1>4
<1>6. ASSUME NEW k \in S PROVE k + 1 \in S
  <2>1. from + k \in Nat /\ from <= from + k /\ ErasedFrom(h[k], F, from, k)
    OBVIOUS
  <2>2. ErasedFrom(EraseAt(h[k], from + k), F, from, k + 1)
    BY <2>1, EraseAtKeeps
  <2> QED BY <1>4, <2>2
<1> HIDE DEF S
<1>7. \A k \in Nat : k \in S
  <2>1. S \in SUBSET Nat
    BY DEF S
  <2> QED BY <1>5, <1>6, <2>1, NatInductionSet
<1>8. \A k \in Nat : ErasedFrom(h[k], F, from, k)
  BY <1>7 DEF S
<1>9. CASE from < to
  <2>1. to - from \in Nat /\ EraseRun(v, from, to) = h[to - from]
    BY <1>9 DEF EraseRun, h
  <2>2. ErasedFrom(EraseRun(v, from, to), F, from, to - from)
    BY <1>8, <2>1
  <2> QED BY <1>9, <2>2 DEF v
<1>10. CASE ~(from < to)
  BY <1>3, <1>10 DEF EraseRun, v
<1> QED BY <1>9, <1>10
-----------------------------------------------------------------------------
(* What addSection makes of the vector.                                    *)

Within(x, p) == x[1] <= p /\ p < x[2]

\* Some section of F claims the byte at position p.
Claimed(F, p) == \E i \in 1..Len(F) : Within(F[i], p)

\* x begins and ends where sec or some section of F does.
EndsAmong(F, sec, x) ==
  /\ x[1] = sec[1] \/ \E i \in 1..Len(F) : x[1] = F[i][1]
  /\ x[2] = sec[2] \/ \E i \in 1..Len(F) : x[2] = F[i][2]

\* R invents nothing: whatever it claims, sec or F claimed already.
AddsOnly(F, sec, R) ==
  /\ R \in Seq(Section)
  /\ Ascending(R)
  /\ R # <<>> /\ R[1][1] <= sec[1]
  /\ \A j \in 1..Len(R) : EndsAmong(F, sec, R[j])
  /\ \A j \in 1..Len(R) : \A p \in Int :
       Within(R[j], p) => Within(sec, p) \/ Claimed(F, p)

\* b is what the search for position p finds in F.
FoundBeyond(F, p, b) ==
  \/ b = -1 /\ \A i \in 1..Len(F) : F[i][2] <= p
  \/ /\ b \in 0..(Len(F) - 1)
     /\ F[b + 1][2] > p
     /\ \A i \in 1..b : F[i][2] <= p

\* It finds the first section that ends behind p.
LEMMA FirstBeyondIs ==
  ASSUME NEW F \in Seq(Section), NEW p \in Int
  PROVE  FoundBeyond(F, p, FirstBeyond(F, p))
<1> DEFINE beyond == {i \in 0..(Len(F) - 1) : F[i + 1][1] > p \/ F[i + 1][2] > p}
           f == FirstBeyond(F, p)
<1>1. \A i \in 1..Len(F) : F[i][1] \in Int /\ F[i][2] \in Int /\ F[i][1] <= F[i][2]
  BY DEF Section
<1>2. f = IF beyond = {} THEN -1 ELSE Min(beyond)
  BY DEF FirstBeyond
<1>3. \A i \in 0..(Len(F) - 1) : i \in beyond <=> F[i + 1][2] > p
  <2> SUFFICES ASSUME NEW i \in 0..(Len(F) - 1)
               PROVE  i \in beyond <=> F[i + 1][2] > p
    OBVIOUS
  <2>1. i + 1 \in 1..Len(F)
    OBVIOUS
  <2> QED BY <1>1, <2>1
<1>4. beyond \in SUBSET Nat /\ \A i \in beyond : i \in 0..(Len(F) - 1)
  OBVIOUS
<1> HIDE DEF beyond, f
<1>5. CASE beyond = {}
  <2>1. ASSUME NEW i \in 1..Len(F) PROVE F[i][2] <= p
    <3>1. i - 1 \in 0..(Len(F) - 1) /\ (i - 1) + 1 = i
      OBVIOUS
    <3>2. ~(F[(i - 1) + 1][2] > p)
      BY <1>3, <1>5, <3>1
    <3> QED BY <1>1, <3>1, <3>2
  <2> QED BY <1>2, <1>5, <2>1 DEF f, FoundBeyond
<1>6. CASE beyond # {}
  <2>1. \E x \in beyond : \A y \in beyond : x <= y
    BY <1>4, <1>6, NatMin
  <2>2. f = CHOOSE x \in beyond : \A y \in beyond : x <= y
    BY <1>2, <1>6, Zenon DEF Min
  <2>3. f \in beyond /\ \A y \in beyond : f <= y
    BY <2>1, <2>2
  <2>4. f \in 0..(Len(F) - 1) /\ F[f + 1][2] > p
    BY <1>3, <1>4, <2>3
  <2>5. ASSUME NEW i \in 1..f PROVE F[i][2] <= p
    <3>1. i - 1 \in 0..(Len(F) - 1) /\ (i - 1) + 1 = i /\ ~(f <= i - 1) /\ i \in 1..Len(F)
      BY <2>4
    <3>2. ~(F[(i - 1) + 1][2] > p)
      BY <1>3, <2>3, <3>1
    <3> QED BY <1>1, <3>1, <3>2
  <2> QED BY <2>4, <2>5 DEF f, FoundBeyond
<1> QED BY <1>5, <1>6

\* The vector's memory holds sections of F only, in order.
SectionsOf(v, F) ==
  /\ v \in Vector
  /\ Ascending(v.mem)
  /\ \A j \in 1..Len(v.mem) : \E i \in 1..Len(F) : v.mem[j] = F[i]

\* x may stand at slot q of v.
FitsAt(v, q, x) ==
  /\ \A j \in 1..Len(v.mem) : j < q => v.mem[j][1] <= x[1]
  /\ \A j \in 1..Len(v.mem) : q < j => x[1] <= v.mem[j][1]

\* x claims nothing new, and begins no later than sec.
Supported(F, sec, x) ==
  /\ x[1] <= sec[1]
  /\ EndsAmong(F, sec, x)
  /\ \A p \in Int : Within(x, p) => Within(sec, p) \/ Claimed(F, p)

\* A section that begins where the one at slot q does.
LEMMA SameBeginningFits ==
  ASSUME NEW v, v.mem \in Seq(Section), Ascending(v.mem),
         NEW q \in 1..Len(v.mem), NEW x, x[1] = v.mem[q][1]
  PROVE  FitsAt(v, q, x)
<1> DEFINE m == v.mem
<1>1. \A a, b \in 1..Len(m) : a <= b => m[a][1] <= m[b][1]
  BY DEF Ascending
<1> HIDE DEF m
<1>2. /\ \A j \in 1..Len(m) : j < q => m[j][1] <= x[1]
      /\ \A j \in 1..Len(m) : q < j => x[1] <= m[j][1]
  BY <1>1 DEF m
<1> QED BY <1>2 DEF FitsAt, m

\* The branches that change one slot.
LEMMA WidenedSlot ==
  ASSUME NEW F \in Seq(Section), NEW sec \in Section, NEW v, SectionsOf(v, F),
         NEW q \in 1..v.n, NEW x \in Section, FitsAt(v, q, x), Supported(F, sec, x)
  PROVE  AddsOnly(F, sec, SubSeq([v.mem EXCEPT ![q] = x], 1, v.n))
<1> DEFINE mem == v.mem
           n   == v.n
           m2  == [mem EXCEPT ![q] = x]
           R   == SubSeq(m2, 1, n)
<1>1. mem \in Seq(Section) /\ n \in Int /\ n <= Len(mem) /\ Len(mem) \in Nat /\ n \in Nat /\ q \in 1..Len(mem)
  BY DEF SectionsOf, Vector
<1>2. /\ \A j \in 1..Len(mem) : mem[j] \in Section /\ mem[j][1] \in Int
      /\ x[1] \in Int
  <2> HIDE DEF mem
  <2>1. \A j \in 1..Len(mem) : mem[j] \in Section
    BY <1>1
  <2> QED BY <2>1, SectionBounds
<1>3. /\ \A j \in 1..Len(mem) : \E i \in 1..Len(F) : mem[j] = F[i]
      /\ \A a, b \in 1..Len(mem) : a <= b => mem[a][1] <= mem[b][1]
      /\ \A j \in 1..Len(mem) : j < q => mem[j][1] <= x[1]
      /\ \A j \in 1..Len(mem) : q < j => x[1] <= mem[j][1]
  BY DEF SectionsOf, FitsAt, Ascending
<1> HIDE DEF mem, n
<1>4. m2 \in Seq(Section) /\ Len(m2) = Len(mem)
      /\ \A j \in 1..Len(mem) : m2[j] = IF j = q THEN x ELSE mem[j]
  BY <1>1
<1> HIDE DEF m2
<1>5. R \in Seq(Section) /\ Len(R) = n /\ \A j \in 1..n : R[j] = m2[j]
  BY <1>1, <1>4
<1>6. \A j \in 1..n : j \in 1..Len(mem) /\ R[j] = IF j = q THEN x ELSE mem[j]
  BY <1>1, <1>4, <1>5
<1> HIDE DEF R
<1>7. Ascending(R)
  <2> SUFFICES ASSUME NEW a \in 1..n, NEW b \in 1..n, a <= b
               PROVE  R[a][1] <= R[b][1]
    BY <1>5 DEF Ascending
  <2>1. /\ a \in 1..Len(mem) /\ R[a] = IF a = q THEN x ELSE mem[a]
        /\ b \in 1..Len(mem) /\ R[b] = IF b = q THEN x ELSE mem[b]
    BY <1>6
  <2>2. CASE a = q /\ b = q
    BY <1>2, <2>1, <2>2
  <2>3. CASE a = q /\ b # q
    BY <1>1, <1>3, <2>1, <2>3
  <2>4. CASE a # q /\ b = q
    BY <1>1, <1>3, <2>1, <2>4
  <2>5. CASE a # q /\ b # q
    BY <1>3, <2>1, <2>5
  <2> QED BY <2>2, <2>3, <2>4, <2>5
<1>8. R # <<>> /\ R[1][1] <= sec[1]
  <2>1. 1 \in 1..n /\ q \in 1..n /\ 1 <= q
    BY <1>1 DEF n
  <2>2. R[1][1] <= R[q][1]
    BY <1>5, <1>7, <2>1 DEF Ascending
  <2>3. R[q] = x /\ x[1] <= sec[1] /\ sec[1] \in Int
    BY <1>6, <2>1 DEF Supported, Section
  <2>4. R[1][1] \in Int
    BY <1>5, <2>1 DEF Section
  <2> QED BY <1>2, <1>5, <2>1, <2>2, <2>3, <2>4
<1>9. ASSUME NEW j \in 1..n, NEW p \in Int, Within(R[j], p)
      PROVE  Within(sec, p) \/ Claimed(F, p)
  <2>1. CASE j = q
    BY <1>6, <1>9, <2>1 DEF Supported
  <2>2. CASE j # q
    <3>1. PICK i \in 1..Len(F) : R[j] = F[i]
      BY <1>3, <1>6, <2>2
    <3> QED BY <1>9, <3>1 DEF Claimed
  <2> QED BY <2>1, <2>2
<1>11. ASSUME NEW j \in 1..n PROVE EndsAmong(F, sec, R[j])
  <2>1. CASE j = q
    BY <1>6, <2>1 DEF Supported
  <2>2. CASE j # q
    <3>1. PICK i \in 1..Len(F) : R[j] = F[i]
      BY <1>3, <1>6, <2>2
    <3> QED BY <3>1 DEF EndsAmong
  <2> QED BY <2>1, <2>2
<1>10. AddsOnly(F, sec, R)
  BY <1>5, <1>7, <1>8, <1>9, <1>11 DEF AddsOnly
<1> QED BY <1>10 DEF R, m2, mem, n

LEMMA ConcatIs ==
  ASSUME NEW V, NEW p \in Seq(V), NEW q \in Seq(V)
  PROVE  /\ p \o q \in Seq(V) /\ Len(p) \in Nat
         /\ Len(p \o q) = Len(p) + Len(q)
         /\ \A k \in 1..(Len(p) + Len(q)) :
              (p \o q)[k] = IF k <= Len(p) THEN p[k] ELSE q[k - Len(p)]
  OBVIOUS

\* Where insert puts the new section and the others.
LEMMA InsertSlots ==
  ASSUME NEW sec \in Section, NEW v \in Vector, NEW f \in 0..v.n
  PROVE  /\ InsertSection(v, f, sec) \in Seq(Section)
         /\ Len(InsertSection(v, f, sec)) = v.n + 1
         /\ \A j \in 1..(v.n + 1) :
              \/ j <= f /\ j \in 1..Len(v.mem) /\ InsertSection(v, f, sec)[j] = v.mem[j]
              \/ j = f + 1 /\ InsertSection(v, f, sec)[j] = sec
              \/ j > f + 1 /\ j - 1 \in 1..Len(v.mem)
                 /\ InsertSection(v, f, sec)[j] = v.mem[j - 1]
<1> DEFINE mem == v.mem
           n   == v.n
           kept == SubSeq(mem, 1, n)
           before == SubSeq(kept, 1, f)
           after == SubSeq(kept, f + 1, n)
           R   == InsertSection(v, f, sec)
<1>1. mem \in Seq(Section) /\ n \in Int /\ n <= Len(mem) /\ Len(mem) \in Nat /\ n \in Nat
  BY DEF Vector
<1> HIDE DEF mem
<1>4. kept \in Seq(Section) /\ Len(kept) = n /\ \A j \in 1..n : kept[j] = mem[j]
  BY <1>1
<1>5. R = (before \o <<sec>>) \o after
  <2>1. R = InsertAt(kept, f + 1, sec)
    BY DEF InsertSection, mem
  <2> HIDE DEF R, kept
  <2>2. (f + 1) - 1 = f
    OBVIOUS
  <2> QED BY <1>4, <2>1, <2>2 DEF InsertAt
<1> HIDE DEF kept, R
<1>20. f \in Nat /\ f <= n /\ n \in Nat
  BY <1>1
<1> HIDE DEF n
<1>6. before \in Seq(Section) /\ Len(before) = f /\ \A j \in 1..f : before[j] = mem[j]
  BY <1>4, <1>20
<1>7. after \in Seq(Section) /\ Len(after) = n - f /\ \A j \in 1..(n - f) : after[j] = mem[f + j]
  BY <1>4, <1>20
<1> HIDE DEF before, after
<1>8. /\ R \in Seq(Section) /\ Len(R) = n + 1
      /\ \A j \in 1..(n + 1) :
           R[j] = IF j <= f THEN before[j] ELSE IF j = f + 1 THEN sec ELSE after[j - f - 1]
  <2> DEFINE left == before \o <<sec>>
  <2>1. <<sec>> \in Seq(Section) /\ Len(<<sec>>) = 1 /\ <<sec>>[1] = sec
    OBVIOUS
  <2>2. /\ left \in Seq(Section) /\ Len(left) = f + 1
        /\ \A j \in 1..(f + 1) : left[j] = IF j <= f THEN before[j] ELSE sec
    BY <1>6, <1>20, <2>1
  <2> HIDE DEF left
  <2>3. R = left \o after
    BY <1>5 DEF left
  <2>4. /\ R \in Seq(Section) /\ Len(R) = n + 1
        /\ \A j \in 1..(n + 1) : R[j] = IF j <= f + 1 THEN left[j] ELSE after[j - (f + 1)]
    <3>1. Len(left) + Len(after) = n + 1
      BY <1>7, <1>20, <2>2
    <3>2. /\ R \in Seq(Section) /\ Len(R) = Len(left) + Len(after)
          /\ \A j \in 1..(Len(left) + Len(after)) :
               R[j] = IF j <= Len(left) THEN left[j] ELSE after[j - Len(left)]
      BY <1>7, <2>2, <2>3, ConcatIs
    <3> QED BY <2>2, <3>1, <3>2
  <2>5. ASSUME NEW j \in 1..(n + 1)
        PROVE  R[j] = IF j <= f THEN before[j] ELSE IF j = f + 1 THEN sec ELSE after[j - f - 1]
    <3>1. j - (f + 1) = j - f - 1
      BY <1>20
    <3> QED BY <1>20, <2>2, <2>4, <2>5, <3>1
  <2> QED BY <2>4, <2>5
<1>9. \A j \in 1..(n + 1) :
        \/ j <= f /\ j \in 1..Len(mem) /\ R[j] = mem[j]
        \/ j = f + 1 /\ R[j] = sec
        \/ j > f + 1 /\ j - 1 \in 1..Len(mem) /\ R[j] = mem[j - 1]
  <2> SUFFICES ASSUME NEW j \in 1..(n + 1)
               PROVE  \/ j <= f /\ j \in 1..Len(mem) /\ R[j] = mem[j]
                      \/ j = f + 1 /\ R[j] = sec
                      \/ j > f + 1 /\ j - 1 \in 1..Len(mem) /\ R[j] = mem[j - 1]
    OBVIOUS
  <2>0. n <= Len(mem)
    BY <1>1 DEF n
  <2>1. CASE j <= f
    BY <1>6, <1>8, <1>20, <2>0, <2>1, <1>1
  <2>2. CASE j = f + 1
    BY <1>8, <1>20, <2>2
  <2>3. CASE j > f + 1
    <3> DEFINE k == j - f - 1
    <3>1. k \in 1..(n - f) /\ f + k = j - 1 /\ j - 1 \in 1..Len(mem)
      BY <1>1, <1>20, <2>0, <2>3
    <3>2. R[j] = after[k]
      BY <1>8, <1>20, <2>3
    <3> HIDE DEF k
    <3>3. R[j] = mem[f + k]
      BY <1>7, <3>1, <3>2
    <3> QED BY <2>3, <3>1, <3>3
  <2> QED BY <1>20, <2>1, <2>2, <2>3
<1> QED BY <1>8, <1>9 DEF R, n, mem

\* The branches that insert the new section.
LEMMA InsertedSlot ==
  ASSUME NEW F \in Seq(Section), NEW sec \in Section, NEW v, SectionsOf(v, F),
         NEW f \in 0..v.n,
         \A j \in 1..Len(v.mem) : j <= f => v.mem[j][1] <= sec[1],
         \A j \in 1..Len(v.mem) : f < j => sec[1] <= v.mem[j][1]
  PROVE  AddsOnly(F, sec, InsertSection(v, f, sec))
<1> DEFINE mem == v.mem
           n   == v.n
           R   == InsertSection(v, f, sec)
<1>1. v \in Vector /\ mem \in Seq(Section) /\ n \in Int /\ n <= Len(mem) /\ Len(mem) \in Nat
      /\ n \in Nat
  BY DEF SectionsOf, Vector
<1>2. /\ \A j \in 1..Len(mem) : mem[j] \in Section /\ mem[j][1] \in Int
      /\ sec[1] \in Int
  <2> HIDE DEF mem
  <2>1. \A j \in 1..Len(mem) : mem[j] \in Section
    BY <1>1
  <2> QED BY <2>1, SectionBounds
<1>3. /\ \A j \in 1..Len(mem) : \E i \in 1..Len(F) : mem[j] = F[i]
      /\ \A a, b \in 1..Len(mem) : a <= b => mem[a][1] <= mem[b][1]
      /\ \A j \in 1..Len(mem) : j <= f => mem[j][1] <= sec[1]
      /\ \A j \in 1..Len(mem) : f < j => sec[1] <= mem[j][1]
  BY DEF SectionsOf, Ascending
<1>8. R \in Seq(Section) /\ Len(R) = n + 1
  BY <1>1, InsertSlots
<1>9. \A j \in 1..(n + 1) :
        \/ j <= f /\ j \in 1..Len(mem) /\ R[j] = mem[j]
        \/ j = f + 1 /\ R[j] = sec
        \/ j > f + 1 /\ j - 1 \in 1..Len(mem) /\ R[j] = mem[j - 1]
  BY <1>1, InsertSlots
<1>20. f \in Nat /\ f <= n /\ n \in Nat
  BY <1>1
<1> HIDE DEF mem, n, R
<1>10. Ascending(R)
  <2> SUFFICES ASSUME NEW a \in 1..(n + 1), NEW b \in 1..(n + 1), a <= b
               PROVE  R[a][1] <= R[b][1]
    BY <1>8 DEF Ascending
  <2>4. \/ b <= f /\ b \in 1..Len(mem) /\ R[b] = mem[b]
        \/ b = f + 1 /\ R[b] = sec
        \/ b > f + 1 /\ b - 1 \in 1..Len(mem) /\ R[b] = mem[b - 1]
    BY <1>9
  <2>1. CASE a <= f /\ a \in 1..Len(mem) /\ R[a] = mem[a]
    <3>1. CASE b <= f /\ b \in 1..Len(mem) /\ R[b] = mem[b]
      BY <1>3, <2>1, <3>1
    <3>2. CASE b = f + 1 /\ R[b] = sec
      BY <1>3, <2>1, <3>2
    <3>3. CASE b > f + 1 /\ b - 1 \in 1..Len(mem) /\ R[b] = mem[b - 1]
      <4>1. a <= b - 1
        BY <1>20, <2>1, <3>3
      <4> QED BY <1>3, <2>1, <3>3, <4>1
    <3> QED BY <2>4, <3>1, <3>2, <3>3
  <2>2. CASE a = f + 1 /\ R[a] = sec
    <3>1. CASE b = f + 1 /\ R[b] = sec
      BY <1>2, <2>2, <3>1
    <3>2. CASE b > f + 1 /\ b - 1 \in 1..Len(mem) /\ R[b] = mem[b - 1]
      <4>1. f < b - 1
        BY <1>20, <3>2
      <4> QED BY <1>3, <2>2, <3>2, <4>1
    <3> QED BY <1>20, <2>2, <2>4, <3>1, <3>2
  <2>3. CASE a > f + 1 /\ a - 1 \in 1..Len(mem) /\ R[a] = mem[a - 1]
    <3>1. b > f + 1 /\ b - 1 \in 1..Len(mem) /\ R[b] = mem[b - 1]
      BY <1>9, <1>20, <2>3
    <3>2. a - 1 <= b - 1
      BY <1>20
    <3> QED BY <1>3, <2>3, <3>1, <3>2
  <2> QED BY <1>9, <2>1, <2>2, <2>3
<1>11. R # <<>> /\ R[1][1] <= sec[1]
  <2>1. 1 \in 1..(n + 1) /\ f + 1 \in 1..(n + 1) /\ 1 <= f + 1
    BY <1>20
  <2>2. R[f + 1] = sec
    BY <1>9, <1>20, <2>1
  <2>3. R[1][1] <= R[f + 1][1]
    BY <1>8, <1>10, <2>1 DEF Ascending
  <2> QED BY <1>8, <2>1, <2>2, <2>3
<1>12. ASSUME NEW j \in 1..(n + 1), NEW p \in Int, Within(R[j], p)
       PROVE  Within(sec, p) \/ Claimed(F, p)
  <2>1. R[j] = sec \/ \E i \in 1..Len(mem) : R[j] = mem[i]
    BY <1>9
  <2>2. R[j] = sec \/ \E i \in 1..Len(F) : R[j] = F[i]
    BY <1>3, <2>1
  <2> QED BY <1>12, <2>2 DEF Claimed
<1>14. ASSUME NEW j \in 1..(n + 1) PROVE EndsAmong(F, sec, R[j])
  <2>1. R[j] = sec \/ \E i \in 1..Len(mem) : R[j] = mem[i]
    BY <1>9
  <2>2. R[j] = sec \/ \E i \in 1..Len(F) : R[j] = F[i]
    BY <1>3, <2>1
  <2> QED BY <2>2 DEF EndsAmong
<1>13. AddsOnly(F, sec, R)
  BY <1>8, <1>10, <1>11, <1>12, <1>14 DEF AddsOnly
<1> QED BY <1>13 DEF R

\* The two searches of addSection, the second for a later position.
LEMMA BackNotBeforeFront ==
  ASSUME NEW F \in Seq(Section), NEW sec \in Section,
         NEW f \in 0..(Len(F) - 1), FoundBeyond(F, sec[1], f),
         NEW g, FoundBeyond(F, sec[2], g)
  PROVE  \/ g = -1 /\ \A i \in 1..Len(F) : F[i][2] <= sec[2]
         \/ /\ g \in 0..(Len(F) - 1) /\ f <= g /\ g + 1 \in 1..Len(F)
            /\ F[g + 1][2] > sec[2]
            /\ \A i \in 1..g : F[i][2] <= sec[2]
<1> DEFINE N == Len(F)
<1>1. /\ N \in Nat
      /\ \A i \in 1..N : F[i][1] \in Int /\ F[i][2] \in Int /\ F[i][1] <= F[i][2]
      /\ sec[1] \in Int /\ sec[2] \in Int /\ sec[1] <= sec[2]
  BY DEF Section
<1>2. \A i \in 1..f : F[i][2] <= sec[1]
  BY DEF FoundBeyond
<1>3. CASE g = -1
  BY <1>3 DEF FoundBeyond
<1>4. CASE g # -1
  <2>1. /\ g \in 0..(N - 1) /\ g + 1 \in 1..N
        /\ F[g + 1][2] > sec[2] /\ \A i \in 1..g : F[i][2] <= sec[2]
    BY <1>1, <1>4 DEF FoundBeyond
  <2>2. f <= g
    <3>1. SUFFICES ASSUME g < f PROVE FALSE
      BY <2>1
    <3>2. g + 1 \in 1..f
      BY <2>1, <3>1
    <3> QED BY <1>1, <1>2, <2>1, <3>2
  <2> QED BY <2>1, <2>2
<1> QED BY <1>3, <1>4

LEMMA ErasedSectionsOf ==
  ASSUME NEW F, NEW v, NEW from, NEW k, ErasedFrom(v, F, from, k)
  PROVE  SectionsOf(v, F)
  BY DEF ErasedFrom, SectionsOf

\* sec begins inside a section.
LEMMA AddInsideAddsOnly ==
  ASSUME NEW F \in Seq(Section), Ascending(F), NEW sec \in Section,
         NEW f \in 0..(Len(F) - 1), FoundBeyond(F, sec[1], f), F[f + 1][1] <= sec[1],
         NEW g, FoundBeyond(F, sec[2], g)
  PROVE  AddsOnly(F, sec, AddInside(F, sec, f, g))
<1> DEFINE N == Len(F)
           q == f + 1
           inBack == g # -1 /\ F[g + 1][1] <= sec[2]
           stop   == CASE g = -1 -> f + 1 + (Len(F) - f) \div 2
                       [] inBack -> g + 1
                       [] OTHER  -> g
           second == IF inBack THEN F[g + 1][2] ELSE sec[2]
           v == EraseRun(Full(F), f + 1, stop)
           x == <<F[q][1], second>>
<1>1. /\ N \in Nat /\ q \in 1..N /\ q \in Nat /\ f \in Nat /\ q = f + 1
      /\ \A i \in 1..N : F[i] \in Section /\ F[i][1] \in Int /\ F[i][2] \in Int /\ F[i][1] <= F[i][2]
      /\ sec[1] \in Int /\ sec[2] \in Int /\ sec[1] <= sec[2]
  BY DEF Section
<1>2. F[q][2] > sec[1] /\ F[q][1] <= sec[1] /\ \A i \in 1..f : F[i][2] <= sec[1]
  BY <1>1 DEF FoundBeyond
<1>3. \/ g = -1 /\ \A i \in 1..N : F[i][2] <= sec[2]
      \/ /\ g \in 0..(N - 1) /\ f <= g /\ g + 1 \in 1..N
         /\ F[g + 1][2] > sec[2]
         /\ \A i \in 1..g : F[i][2] <= sec[2]
  BY BackNotBeforeFront
<1>4. stop \in Int /\ stop <= N
  <2>1. CASE g = -1
    <3>1. stop = f + 1 + (N - f) \div 2
      BY <2>1
    <3> DEFINE d == N - f
               h == d \div 2
    <3>2. d \in Nat /\ d >= 1
      <4> HIDE DEF N
      <4> QED BY <1>1
    <3>4. h \in Int /\ h <= d - 1
      <4> HIDE DEF d
      <4> QED BY <3>2
    <3>3. stop = f + 1 + h
      BY <3>1
    <3>5. f \in Int /\ N \in Int /\ f + d = N
      BY <1>1
    <3> HIDE DEF h, stop, N, d
    <3>6. d \in Int
      BY <3>2
    <3> QED BY <3>3, <3>4, <3>5, <3>6
  <2>2. CASE g # -1 /\ inBack
    <3>1. stop = g + 1
      BY <2>2
    <3> QED BY <1>1, <1>3, <2>2, <3>1
  <2>3. CASE g # -1 /\ ~inBack
    <3>1. stop = g
      BY <2>3
    <3> QED BY <1>1, <1>3, <2>3, <3>1
  <2> QED BY <2>1, <2>2, <2>3
<1>5. second \in Int /\ F[q][1] <= second
  <2> HIDE DEF q
  <2>1. F[q][1] \in Int
    BY <1>1
  <2>2. CASE inBack
    <3>1. second = F[g + 1][2] /\ F[g + 1][2] \in Int /\ F[g + 1][2] > sec[2]
      BY <1>1, <1>3, <2>2
    <3> HIDE DEF second
    <3> QED BY <1>1, <1>2, <2>1, <3>1
  <2>3. CASE ~inBack
    <3>1. second = sec[2]
      BY <2>3
    <3> HIDE DEF second
    <3> QED BY <1>1, <1>2, <2>1, <3>1
  <2> QED BY <2>2, <2>3
<1>6. ASSUME NEW p \in Int, Within(x, p)
      PROVE  Within(sec, p) \/ Claimed(F, p)
  <2>1. F[q][1] <= p /\ p < second
    BY <1>6 DEF Within
  <2>2. CASE p < F[q][2]
    <3> HIDE DEF q
    <3> QED BY <1>1, <2>1, <2>2 DEF Claimed, Within
  <2>3. CASE F[q][2] <= p /\ p < sec[2]
    <3> HIDE DEF q
    <3> QED BY <1>1, <1>2, <2>3 DEF Within
  <2>4. CASE sec[2] <= p
    <3>2. inBack
      <4> SUFFICES ASSUME ~inBack PROVE FALSE
        OBVIOUS
      <4>1. second = sec[2]
        OBVIOUS
      <4> HIDE DEF second, inBack
      <4> QED BY <1>1, <2>1, <2>4, <4>1
    <3>3. second = F[g + 1][2] /\ F[g + 1][1] <= sec[2] /\ g # -1
      BY <3>2
    <3>4. g + 1 \in 1..N
      BY <1>3, <3>3
    <3> HIDE DEF second, inBack, N
    <3>5. F[g + 1][1] \in Int
      BY <1>1, <3>4
    <3>6. F[g + 1][1] <= p
      BY <1>1, <2>4, <3>3, <3>5
    <3> QED BY <2>1, <3>3, <3>4, <3>6 DEF Claimed, Within, N
  <2> HIDE DEF second
  <2> QED BY <1>1, <2>2, <2>3, <2>4
<1>17. EndsAmong(F, sec, x)
  BY <1>1, <1>3 DEF EndsAmong
<1> HIDE DEF stop
<1>7. ErasedFrom(v, F, q, IF q < stop THEN stop - q ELSE 0)
  BY <1>1, <1>4, EraseRunKeeps
<1>8. AddInside(F, sec, f, g) = SubSeq([v.mem EXCEPT ![q] = <<@[1], second>>], 1, v.n)
  <2>1. AddInside(F, sec, f, g) = Contents([v EXCEPT !.mem[q] = <<@[1], second>>])
    BY DEF AddInside, Full, stop
  <2> HIDE DEF v, second, q
  <2>2. v \in Vector
    BY <1>7 DEF ErasedFrom
  <2> QED BY <2>1, <2>2 DEF Contents, Vector
<1> HIDE DEF v, second
<1>9. /\ v \in Vector /\ v.mem \in Seq(Section) /\ Len(v.mem) = N /\ v.n = N - (IF q < stop THEN stop - q ELSE 0)
      /\ Ascending(v.mem) /\ v.mem[q] = F[q]
  BY <1>1, <1>7 DEF ErasedFrom, Vector
<1>10. q \in 1..v.n
  BY <1>1, <1>4, <1>9
<1>11. [v.mem EXCEPT ![q] = <<@[1], second>>] = [v.mem EXCEPT ![q] = x]
  BY <1>9
<1>12. x \in Section /\ x[1] = F[q][1]
  BY <1>1, <1>5 DEF Section
<1> HIDE DEF x
<1>13. FitsAt(v, q, x)
  BY <1>1, <1>9, <1>12 DEF FitsAt, Ascending
<1>14. Supported(F, sec, x)
  BY <1>2, <1>6, <1>12, <1>17 DEF Supported
<1>15. SectionsOf(v, F)
  BY <1>7, ErasedSectionsOf
<1> HIDE DEF q
<1>16. AddsOnly(F, sec, SubSeq([v.mem EXCEPT ![q] = x], 1, v.n))
  BY <1>10, <1>12, <1>13, <1>14, <1>15, WidenedSlot
<1> QED BY <1>8, <1>11, <1>16

\* sec begins in front of a section.
LEMMA AddBeforeAddsOnly ==
  ASSUME NEW F \in Seq(Section), Ascending(F), NEW sec \in Section,
         NEW f \in 0..(Len(F) - 1), FoundBeyond(F, sec[1], f), sec[1] < F[f + 1][1],
         NEW g, FoundBeyond(F, sec[2], g)
  PROVE  AddsOnly(F, sec, AddBefore(F, sec, f, g))
<1> DEFINE N == Len(F)
           s == sec[1]
           t == sec[2]
           q == f + 1
           count == IF g = -1 THEN Len(F) - f ELSE g - f
           k == IF f < count THEN count - f ELSE 0
           v == EraseRun(Full(F), f, count)
           touches == f > 0 /\ s = v.mem[f][2]
           widened(second) == [v.mem EXCEPT ![f] = <<@[1], second>>]
           apart == g = -1 \/ t < v.mem[g + 1][1]
<1>1. /\ N \in Nat /\ q \in 1..N /\ q \in Nat /\ f \in Nat /\ q = f + 1
      /\ \A i \in 1..N : F[i] \in Section /\ F[i][1] \in Int /\ F[i][2] \in Int /\ F[i][1] <= F[i][2]
      /\ s \in Int /\ t \in Int /\ s <= t
  BY DEF Section
<1>2. s < F[q][1] /\ \A i \in 1..f : F[i][2] <= s
  BY <1>1 DEF FoundBeyond
<1>3. \/ g = -1
      \/ g \in 0..(N - 1) /\ f <= g /\ g + 1 \in 1..N
  BY BackNotBeforeFront
<1>4. /\ count \in Int /\ k \in Nat
      /\ f <= N - k
      /\ g # -1 => q <= N - k
      /\ f > 0 /\ g # -1 => f <= N - k - 1
  <2>1. f + 1 <= N /\ N \in Nat /\ f \in Nat
    BY <1>1
  <2> HIDE DEF N
  <2>2. CASE g = -1
    <3>1. count = N - f
      BY <2>2 DEF N
    <3> HIDE DEF count
    <3>2. count \in Int /\ f + count = N
      BY <2>1, <3>1
    <3>3. k \in Nat /\ k <= count /\ f <= N - k
      <4>1. CASE f < count
        BY <2>1, <3>2, <4>1
      <4>2. CASE ~(f < count)
        BY <2>1, <3>2, <4>2
      <4> QED BY <4>1, <4>2
    <3> QED BY <2>2, <3>2, <3>3
  <2>3. CASE g # -1
    <3>1. count = g - f
      BY <2>3
    <3>2. g \in Int /\ g <= N - 1 /\ f <= g
      BY <1>3, <2>1, <2>3
    <3> HIDE DEF count
    <3>3. count \in Int /\ f + count = g
      BY <2>1, <3>1, <3>2
    <3>4. k \in Nat /\ f <= N - k - 1
      <4>1. CASE f < count
        BY <2>1, <3>2, <3>3, <4>1
      <4>2. CASE ~(f < count)
        BY <2>1, <3>2, <3>3, <4>2
      <4> QED BY <4>1, <4>2
    <3> HIDE DEF k
    <3>5. q <= N - k /\ f <= N - k
      BY <2>1, <3>4
    <3> QED BY <3>3, <3>4, <3>5
  <2> QED BY <2>2, <2>3
<1>5. ErasedFrom(v, F, f, k)
  BY <1>1, <1>4, EraseRunKeeps
<1>6. AddBefore(F, sec, f, g) =
        IF apart
          THEN IF touches THEN Contents([v EXCEPT !.mem = widened(t)])
                          ELSE InsertSection(v, f, sec)
          ELSE IF touches
                 THEN Contents(EraseAt([v EXCEPT !.mem = widened(v.mem[f + 1][2])], f))
                 ELSE Contents([v EXCEPT !.mem[f + 1] = <<s, @[2]>>])
  BY DEF AddBefore, Full
<1> HIDE DEF count, k, v
<1>7. /\ v \in Vector /\ v.mem \in Seq(Section) /\ Len(v.mem) = N /\ v.n = N - k
      /\ v.n \in Int /\ v = [mem |-> v.mem, n |-> v.n]
      /\ Ascending(v.mem)
      /\ \A j \in 1..N : v.mem[j] \in Section /\ v.mem[j][1] \in Int /\ v.mem[j][2] \in Int
                         /\ v.mem[j][1] <= v.mem[j][2]
      /\ \A j \in 1..N : F[j][1] <= v.mem[j][1]
      /\ \A j \in 1..N : j <= f => v.mem[j] = F[j]
      /\ \A a, b \in 1..N : a <= b => v.mem[a][1] <= v.mem[b][1]
  <2>1. /\ v \in Vector /\ Len(v.mem) = N /\ v.n = N - k /\ Ascending(v.mem)
        /\ \A j \in 1..N : F[j][1] <= v.mem[j][1]
        /\ \A j \in 1..N : j <= f => v.mem[j] = F[j]
    BY <1>5 DEF ErasedFrom
  <2>2. v.mem \in Seq(Section) /\ v.n \in Int /\ v = [mem |-> v.mem, n |-> v.n]
    BY <2>1 DEF Vector
  <2>3. \A j \in 1..N : v.mem[j] \in Section
    BY <2>1, <2>2
  <2>4. \A a, b \in 1..N : a <= b => v.mem[a][1] <= v.mem[b][1]
    BY <2>1 DEF Ascending
  <2> QED BY <2>1, <2>2, <2>3, <2>4, SectionBounds
<1>8. SectionsOf(v, F)
  BY <1>5, ErasedSectionsOf
\* Where the slots stand relative to sec.
<1>9. ASSUME NEW j \in 1..N, j <= f
      PROVE  v.mem[j] = F[j] /\ v.mem[j][2] <= s /\ v.mem[j][1] <= s
  BY <1>1, <1>2, <1>7, <1>9
<1>10. ASSUME NEW j \in 1..N, f < j
       PROVE  s < v.mem[j][1] /\ v.mem[q][1] <= v.mem[j][1]
  <2>1. q <= j /\ F[q][1] <= v.mem[q][1] /\ v.mem[q][1] <= v.mem[j][1]
    BY <1>1, <1>7, <1>10
  <2> QED BY <1>1, <1>2, <1>7, <2>1
<1>20. touches => f \in 1..N /\ v.mem[f] = F[f] /\ F[f][2] = s /\ F[f][1] <= s
  BY <1>1, <1>7, <1>9
<1>21. v.n = N - k /\ f <= v.n /\ (g # -1 => q <= v.n) /\ (f > 0 /\ g # -1 => f <= v.n - 1)
  BY <1>1, <1>4, <1>7
<1>22. apart \/ g # -1
  OBVIOUS
<1>23. touches => f > 0
  OBVIOUS
<1>11. CASE apart /\ touches
  <2> DEFINE x == <<v.mem[f][1], t>>
  <2>1. /\ f \in 1..v.n /\ f \in 1..N /\ v.mem[f] = F[f] /\ F[f][2] = s /\ F[f][1] <= s
    BY <1>1, <1>7, <1>11, <1>20, <1>21
  <2>2. x \in Section /\ x[1] = F[f][1] /\ x[2] = t
    <3>1. F[f][1] \in Int /\ F[f][1] <= t
      BY <1>1, <2>1
    <3> HIDE DEF t
    <3> QED BY <1>1, <2>1, <3>1, PairIsSection
  <2>3. AddBefore(F, sec, f, g) = SubSeq([v.mem EXCEPT ![f] = x], 1, v.n)
    BY <1>6, <1>7, <1>11, <2>1 DEF Contents
  <2> HIDE DEF x, touches, apart
  <2>4. Supported(F, sec, x)
    <3>1. ASSUME NEW p \in Int, Within(x, p) PROVE Within(sec, p) \/ Claimed(F, p)
      <4>1. F[f][1] <= p /\ p < t
        BY <2>2, <3>1 DEF Within
      <4>2. CASE p < s
        BY <2>1, <4>1, <4>2 DEF Within, Claimed
      <4>3. CASE s <= p
        BY <4>1, <4>3 DEF Within
      <4> QED BY <1>1, <4>2, <4>3
    <3>2. EndsAmong(F, sec, x)
      BY <2>1, <2>2 DEF EndsAmong
    <3> QED BY <1>1, <2>1, <2>2, <3>1, <3>2 DEF Supported
  <2>5. FitsAt(v, f, x)
    BY <1>7, <2>1, <2>2, SameBeginningFits
  <2> QED BY <1>8, <2>1, <2>2, <2>3, <2>4, <2>5, WidenedSlot
<1>12. CASE apart /\ ~touches
  <2>1. AddBefore(F, sec, f, g) = InsertSection(v, f, sec)
    BY <1>6, <1>12
  <2>2. f \in 0..v.n
    BY <1>1, <1>7, <1>21
  <2>3. /\ \A j \in 1..Len(v.mem) : j <= f => v.mem[j][1] <= sec[1]
        /\ \A j \in 1..Len(v.mem) : f < j => sec[1] <= v.mem[j][1]
    BY <1>1, <1>7, <1>9, <1>10
  <2> QED BY <1>8, <2>1, <2>2, <2>3, InsertedSlot
\* The section at slot q begins at or before the end of sec.
<1>13. ASSUME ~apart
       PROVE  /\ q \in 1..v.n /\ v.mem[q] \in Section
              /\ s < v.mem[q][1] /\ v.mem[q][1] <= t /\ v.mem[q][1] <= v.mem[q][2]
              /\ v.mem[q][1] \in Int /\ v.mem[q][2] \in Int
              /\ \E i \in 1..N : v.mem[q] = F[i]
  <2>1. g + 1 \in 1..N /\ f < g + 1 /\ v.mem[g + 1][1] <= t
    <3>1. g # -1 /\ ~(t < v.mem[g + 1][1])
      BY <1>13
    <3>2. g + 1 \in 1..N /\ f <= g /\ g \in Int
      BY <1>3, <3>1
    <3> HIDE DEF N, t
    <3>3. v.mem[g + 1][1] \in Int /\ t \in Int /\ f \in Int
      BY <1>1, <1>7, <3>2
    <3> QED BY <3>1, <3>2, <3>3
  <2>2. v.mem[q][1] <= v.mem[g + 1][1]
    BY <1>10, <2>1
  <2>3. q \in 1..v.n
    BY <1>1, <1>7, <1>13, <1>21
  <2>4. f < q /\ s < v.mem[q][1]
    BY <1>1, <1>10
  <2>5. \E i \in 1..N : v.mem[q] = F[i]
    BY <1>1, <1>5 DEF ErasedFrom
  <2> QED BY <1>1, <1>7, <2>1, <2>2, <2>3, <2>4, <2>5
\* From s up to the end of the section at slot q nothing is new.
<1>30. ASSUME ~apart, NEW p \in Int, s <= p, p < v.mem[q][2]
       PROVE  Within(sec, p) \/ Claimed(F, p)
  <2> HIDE DEF apart, q
  <2>1. CASE p < t
    BY <1>30, <2>1 DEF Within
  <2>2. CASE t <= p
    <3>1. v.mem[q][1] <= p
      BY <1>1, <1>13, <1>30, <2>2
    <3>2. Within(v.mem[q], p)
      BY <1>30, <3>1 DEF Within
    <3> QED BY <1>13, <1>30, <3>2 DEF Claimed
  <2> QED BY <1>1, <2>1, <2>2
<1>14. CASE ~apart /\ ~touches
  <2> DEFINE x == <<s, v.mem[q][2]>>
  <2>1. AddBefore(F, sec, f, g) = SubSeq([v.mem EXCEPT ![q] = x], 1, v.n)
    BY <1>1, <1>6, <1>7, <1>14 DEF Contents
  <2> HIDE DEF apart, touches
  <2>2. x \in Section /\ x[1] = s /\ x[2] = v.mem[q][2]
    <3>1. v.mem[q][2] \in Int /\ s <= v.mem[q][2]
      BY <1>1, <1>13, <1>14
    <3> HIDE DEF q, s
    <3> QED BY <1>1, <3>1, PairIsSection
  <2> HIDE DEF x
  <2>3. Supported(F, sec, x)
    <3>1. ASSUME NEW p \in Int, Within(x, p) PROVE Within(sec, p) \/ Claimed(F, p)
      <4>1. s <= p /\ p < v.mem[q][2]
        BY <2>2, <3>1 DEF Within
      <4> HIDE DEF q, s
      <4> QED BY <1>14, <1>30, <4>1
    <3>2. EndsAmong(F, sec, x)
      BY <1>13, <1>14, <2>2 DEF EndsAmong
    <3> QED BY <1>1, <2>2, <3>1, <3>2 DEF Supported
  <2>4. FitsAt(v, q, x)
    <3>1. \A j \in 1..N : j < q => j <= f
      BY <1>1
    <3>2. \A j \in 1..N : q < j => f < j
      BY <1>1
    <3> HIDE DEF q
    <3> QED BY <1>1, <1>7, <1>9, <1>10, <2>2, <3>1, <3>2 DEF FitsAt
  <2> HIDE DEF q
  <2> QED BY <1>8, <1>13, <1>14, <2>1, <2>2, <2>3, <2>4, WidenedSlot
<1>15. CASE ~apart /\ touches
  <2> DEFINE x == <<v.mem[f][1], v.mem[q][2]>>
             m2 == [v.mem EXCEPT ![f] = x]
             w == [v EXCEPT !.mem = m2]
             u == EraseAt(v, f)
  <2>1. /\ f \in 1..N /\ f \in Nat /\ f <= v.n - 1 /\ v.mem[f] = F[f] /\ F[f][2] = s /\ F[f][1] <= s
    BY <1>1, <1>15, <1>20, <1>21, <1>22
  <2>2. x \in Section /\ x[1] = F[f][1] /\ x[2] = v.mem[q][2]
    <3>1. v.mem[q][2] \in Int /\ F[f][1] \in Int /\ F[f][1] <= v.mem[q][2]
      <4>1. F[f][1] \in Int /\ F[f][1] <= s /\ s \in Int
        BY <1>1, <2>1
      <4>2. /\ s < v.mem[q][1] /\ v.mem[q][1] <= v.mem[q][2]
            /\ v.mem[q][1] \in Int /\ v.mem[q][2] \in Int
        BY <1>13, <1>15
      <4> DEFINE a == F[f][1]
                 c == v.mem[q][1]
                 d == v.mem[q][2]
      <4>3. /\ a \in Int /\ c \in Int /\ d \in Int /\ s \in Int
            /\ a <= s /\ s < c /\ c <= d
        BY <4>1, <4>2
      <4> HIDE DEF a, c, d, s
      <4>4. a <= d
        BY <4>3
      <4> QED BY <4>3, <4>4 DEF a, d
    <3> HIDE DEF q
    <3> QED BY <2>1, <3>1, PairIsSection
  <2>3. AddBefore(F, sec, f, g) = Contents(EraseAt(w, f))
    BY <1>1, <1>6, <1>7, <1>15, <2>1
  <2> HIDE DEF apart, touches, x
  <2>4. /\ m2 \in Seq(Section) /\ Len(m2) = N
        /\ \A j \in 1..N : m2[j] = IF j = f THEN x ELSE v.mem[j]
    BY <1>7, <2>1, <2>2
  <2> HIDE DEF m2
  <2>5. w \in Vector /\ w.mem = m2 /\ w.n = v.n
    BY <1>7, <2>4 DEF Vector
  <2> HIDE DEF w
  <2>6. /\ u \in Vector /\ u.n = v.n - 1 /\ Len(u.mem) = N
        /\ \A j \in 1..N : u.mem[j] = IF f < j /\ j < v.n THEN v.mem[j + 1] ELSE v.mem[j]
    BY <1>7, <2>1, EraseAtSlots
  <2>7. /\ EraseAt(w, f) \in Vector /\ EraseAt(w, f).n = v.n - 1 /\ Len(EraseAt(w, f).mem) = N
        /\ \A j \in 1..N : EraseAt(w, f).mem[j] = IF f < j /\ j < v.n THEN m2[j + 1] ELSE m2[j]
    BY <2>1, <2>4, <2>5, EraseAtSlots
  <2>8. ErasedFrom(u, F, f, k + 1)
    BY <1>4, <1>5, <2>1, EraseAtKeeps
  <2>9. EraseAt(w, f).mem = [u.mem EXCEPT ![f] = x]
    <3> DEFINE m3 == EraseAt(w, f).mem
    <3>1. m3 \in Seq(Section) /\ Len(m3) = N /\ u.mem \in Seq(Section)
      BY <2>6, <2>7 DEF Vector
    <3>2. \A j \in 1..N : m3[j] = IF f < j /\ j < v.n THEN m2[j + 1] ELSE m2[j]
      BY <2>7
    <3>3. \A j \in 1..N : m3[j] = IF j = f THEN x ELSE u.mem[j]
      <4> SUFFICES ASSUME NEW j \in 1..N
                   PROVE  m3[j] = IF j = f THEN x ELSE u.mem[j]
        OBVIOUS
      <4>0. /\ m3[j] = IF f < j /\ j < v.n THEN m2[j + 1] ELSE m2[j]
            /\ u.mem[j] = IF f < j /\ j < v.n THEN v.mem[j + 1] ELSE v.mem[j]
            /\ v.n \in Int /\ v.n <= N /\ N \in Nat
        BY <1>1, <1>4, <1>7, <2>6, <3>2
      <4> HIDE DEF m3, u, N
      <4>1. CASE f < j /\ j < v.n
        <5>1. j + 1 \in 1..N /\ j + 1 # f /\ j # f
          BY <2>1, <4>0, <4>1
        <5> QED BY <2>4, <4>0, <4>1, <5>1
      <4>2. CASE ~(f < j /\ j < v.n)
        BY <2>1, <2>4, <4>0, <4>2
      <4> QED BY <4>1, <4>2
    <3>4. m3 = [u.mem EXCEPT ![f] = x]
      <4> DEFINE m4 == u.mem
      <4>1. m3 \in Seq(Section) /\ Len(m3) = N /\ m4 \in Seq(Section) /\ Len(m4) = N
        BY <2>6, <3>1
      <4>2. \A j \in 1..N : m3[j] = IF j = f THEN x ELSE m4[j]
        BY <3>3
      <4> HIDE DEF m3, m4, u, N
      <4>3. m3 = [m4 EXCEPT ![f] = x]
        BY <4>1, <4>2
      <4> QED BY <4>3 DEF m4
    <3> HIDE DEF m3, u
    <3> QED BY <3>4 DEF m3
  <2>10. AddBefore(F, sec, f, g) = SubSeq([u.mem EXCEPT ![f] = x], 1, u.n)
    BY <2>3, <2>6, <2>7, <2>9 DEF Contents
  <2> HIDE DEF u
  <2>11. /\ SectionsOf(u, F) /\ u.mem[f] = F[f] /\ Ascending(u.mem) /\ f \in 1..u.n
    <3>1. SectionsOf(u, F)
      BY <2>8, ErasedSectionsOf
    <3>2. u.mem[f] = F[f] /\ Ascending(u.mem)
      BY <2>1, <2>8 DEF ErasedFrom
    <3>3. f \in 1..u.n
      BY <1>7, <2>1, <2>6
    <3> QED BY <3>1, <3>2, <3>3
  <2>12. FitsAt(u, f, x)
    <3>1. u.mem \in Seq(Section) /\ f \in 1..Len(u.mem)
      BY <2>1, <2>6 DEF Vector
    <3> QED BY <2>2, <2>11, <3>1, SameBeginningFits
  <2>13. Supported(F, sec, x)
    <3>1. ASSUME NEW p \in Int, Within(x, p) PROVE Within(sec, p) \/ Claimed(F, p)
      <4>1. F[f][1] <= p /\ p < v.mem[q][2]
        BY <2>2, <3>1 DEF Within
      <4>2. CASE p < s
        BY <2>1, <4>1, <4>2 DEF Within, Claimed
      <4>3. CASE s <= p
        <5> HIDE DEF q, s
        <5> QED BY <1>15, <1>30, <4>1, <4>3
      <4> QED BY <1>1, <4>2, <4>3
    <3>2. EndsAmong(F, sec, x)
      BY <1>13, <1>15, <2>1, <2>2 DEF EndsAmong
    <3> QED BY <1>1, <2>1, <2>2, <3>1, <3>2 DEF Supported
  <2> QED BY <2>2, <2>10, <2>11, <2>12, <2>13, WidenedSlot
<1> QED BY <1>11, <1>12, <1>14, <1>15

\* secCont::addSection on sections that are in order: they stay in order, and the
\* result claims no byte that neither the new section nor an old one claimed.  (It may forget
\* bytes: the erasures skip sections.)
THEOREM AddSectionInventsNothing ==
  ASSUME NEW F \in Seq(Section), Ascending(F), NEW sec \in Section
  PROVE  AddsOnly(F, sec, addSection(F, sec))
<1> DEFINE f == FirstBeyond(F, sec[1])
           g == FirstBeyond(F, sec[2])
<1>1. sec[1] \in Int /\ sec[2] \in Int /\ sec[1] <= sec[2]
  BY SectionBounds
<1>2. FoundBeyond(F, sec[1], f) /\ FoundBeyond(F, sec[2], g)
  BY <1>1, FirstBeyondIs
<1>3. addSection(F, sec) =
        CASE f = -1 -> Append(F, sec)
          [] f # -1 /\ sec[1] < F[f + 1][1] -> AddBefore(F, sec, f, g)
          [] OTHER -> AddInside(F, sec, f, g)
  BY DEF addSection
<1> HIDE DEF f, g
<1>4. CASE f = -1
  <2> DEFINE v == Full(F)
  <2>1. addSection(F, sec) = Append(F, sec)
    BY <1>3, <1>4
  <2>2. \A i \in 1..Len(F) : F[i][2] <= sec[1]
    BY <1>2, <1>4 DEF FoundBeyond
  <2>3. \A i \in 1..Len(F) : F[i] \in Section /\ F[i][1] \in Int /\ F[i][1] <= sec[1]
    BY <1>1, <2>2, SectionBounds
  <2> DEFINE R == Append(F, sec)
             N == Len(F)
  <2>4. N \in Nat /\ R \in Seq(Section) /\ Len(R) = N + 1
        /\ \A j \in 1..(N + 1) : R[j] = IF j <= N THEN F[j] ELSE sec
    OBVIOUS
  <2> HIDE DEF R
  <2>5. Ascending(R)
    <3> SUFFICES ASSUME NEW a \in 1..(N + 1), NEW b \in 1..(N + 1), a <= b
                 PROVE  R[a][1] <= R[b][1]
      BY <2>4 DEF Ascending
    <3>1. CASE b <= N
      BY <2>4, <3>1 DEF Ascending
    <3>2. CASE b = N + 1
      BY <1>1, <2>3, <2>4, <3>2
    <3> QED BY <2>4, <3>1, <3>2
  <2>6. R # <<>> /\ R[1][1] <= sec[1]
    BY <1>1, <2>3, <2>4
  <2>7. \A j \in 1..(N + 1) : \A p \in Int :
          Within(R[j], p) => Within(sec, p) \/ Claimed(F, p)
    BY <2>4 DEF Claimed
  <2>8. \A j \in 1..(N + 1) : EndsAmong(F, sec, R[j])
    BY <2>4 DEF EndsAmong
  <2> QED BY <2>1, <2>4, <2>5, <2>6, <2>7, <2>8 DEF AddsOnly, R
<1>5. CASE f # -1
  <2>1. f \in 0..(Len(F) - 1) /\ f + 1 \in 1..Len(F) /\ F[f + 1][1] \in Int
    BY <1>2, <1>5, SectionBounds DEF FoundBeyond
  <2>2. CASE sec[1] < F[f + 1][1]
    BY <1>2, <1>3, <1>5, <2>1, <2>2, AddBeforeAddsOnly
  <2>3. CASE ~(sec[1] < F[f + 1][1])
    <3>1. F[f + 1][1] <= sec[1]
      BY <1>1, <2>1, <2>3
    <3> QED BY <1>2, <1>3, <1>5, <2>1, <2>3, <3>1, AddInsideAddsOnly
  <2> QED BY <2>2, <2>3
<1> QED BY <1>4, <1>5
-----------------------------------------------------------------------------
(* When addSection is exact.                                               *)

\* The sections are apart, in the order of the stream, none empty.
Apart(F) == \A i, j \in 1..Len(F) : i < j => F[i][2] <= F[j][1]
Disjoint(F) == Apart(F) /\ \A i \in 1..Len(F) : F[i][1] < F[i][2]

\* No section begins strictly inside sec.
BeginsInside(F, sec) == \E i \in 1..Len(F) : sec[1] < F[i][1] /\ F[i][1] < sec[2]

\* R is F with one section x in the place of those from a+1 to b.
Spliced(R, F, a, b, x) ==
  /\ a \in Nat /\ b \in Nat /\ a <= b /\ b <= Len(F)
  /\ R \in Seq(Section) /\ Len(R) = a + 1 + (Len(F) - b)
  /\ \A j \in 1..Len(R) :
       \/ j <= a /\ R[j] = F[j]
       \/ j = a + 1 /\ R[j] = x
       \/ j > a + 1 /\ R[j] = F[j - a - 1 + b]

\* x is sec and the sections from a+1 to b in one.
Bridges(x, F, sec, a, b) ==
  /\ x \in Section
  /\ \A i \in 1..Len(F) : i <= a => F[i][2] <= x[1]
  /\ \A i \in 1..Len(F) : b < i => x[2] <= F[i][1]
  /\ \A p \in Int : Within(x, p) <=> Within(sec, p) \/ \E i \in (a + 1)..b : Within(F[i], p)
  /\ x[1] = sec[1] \/ \E i \in 1..Len(F) : x[1] = F[i][1]
  /\ x = sec \/ x[1] < x[2]

\* One section of R is new or has grown, by the bytes of sec; R is apart.
Joined(F, sec, R) ==
  /\ R \in Seq(Section)
  /\ Apart(R)
  /\ \A p \in Int : Claimed(R, p) <=> Within(sec, p) \/ Claimed(F, p)
  /\ \E k \in 1..Len(R) :
       /\ \A j \in 1..Len(R) : j < k => j \in 1..Len(F) /\ R[j] = F[j]
       /\ \A j \in 1..Len(R) : k < j => \E i \in 1..Len(F) : R[j] = F[i]
       /\ R[k][1] = sec[1] \/ \E i \in 1..Len(F) : R[k][1] = F[i][1]
       /\ R[k] = sec \/ R[k][1] < R[k][2]

LEMMA SpliceJoins ==
  ASSUME NEW F \in Seq(Section), Disjoint(F), NEW sec, NEW R, NEW a, NEW b, NEW x,
         Spliced(R, F, a, b, x), Bridges(x, F, sec, a, b)
  PROVE  Joined(F, sec, R)
<1> DEFINE N == Len(F)
           M == Len(R)
<1>1. /\ N \in Nat /\ a \in Nat /\ b \in Nat /\ a <= b /\ b <= N
      /\ R \in Seq(Section) /\ M = a + 1 + (N - b)
  BY DEF Spliced
<1>2. ASSUME NEW j \in 1..M
      PROVE  \/ j <= a /\ j \in 1..N /\ R[j] = F[j]
             \/ j = a + 1 /\ R[j] = x
             \/ j > a + 1 /\ j - a - 1 + b \in 1..N /\ b < j - a - 1 + b /\ R[j] = F[j - a - 1 + b]
  <2>1. \/ j <= a /\ R[j] = F[j]
        \/ j = a + 1 /\ R[j] = x
        \/ j > a + 1 /\ R[j] = F[j - a - 1 + b]
    BY DEF Spliced
  <2>2. j \in Int /\ 1 <= j /\ j <= M
    BY <1>1
  <2> HIDE DEF N, M
  <2>3. j <= a => j \in 1..N
    BY <1>1, <2>2
  <2>4. j > a + 1 => j - a - 1 + b \in 1..N /\ b < j - a - 1 + b
    BY <1>1, <2>2
  <2> QED BY <2>1, <2>3, <2>4, Zenon
<1>3. \A i, j \in 1..N : i < j => F[i][2] <= F[j][1]
  BY DEF Disjoint, Apart
<1>4. /\ \A i \in 1..N : i <= a => F[i][2] <= x[1]
      /\ \A i \in 1..N : b < i => x[2] <= F[i][1]
      /\ \A p \in Int : Within(x, p) <=> Within(sec, p) \/ \E i \in (a + 1)..b : Within(F[i], p)
      /\ x[1] = sec[1] \/ \E i \in 1..N : x[1] = F[i][1]
      /\ x = sec \/ x[1] < x[2]
      /\ x[1] \in Int /\ x[2] \in Int /\ x[1] <= x[2]
  BY SectionBounds DEF Bridges
<1>5. \A i \in 1..N : F[i][1] \in Int /\ F[i][2] \in Int
  BY SectionBounds
<1> HIDE DEF N, M
<1>6. Apart(R)
  <2> SUFFICES ASSUME NEW i \in 1..M, NEW j \in 1..M, i < j
               PROVE  R[i][2] <= R[j][1]
    BY DEF Apart, M
  <2>4. \/ j <= a /\ j \in 1..N /\ R[j] = F[j]
        \/ j = a + 1 /\ R[j] = x
        \/ j > a + 1 /\ j - a - 1 + b \in 1..N /\ b < j - a - 1 + b /\ R[j] = F[j - a - 1 + b]
    BY <1>2, Zenon
  <2>1. CASE i <= a /\ i \in 1..N /\ R[i] = F[i]
    <3>1. CASE j <= a /\ j \in 1..N /\ R[j] = F[j]
      BY <1>3, <2>1, <3>1
    <3>2. CASE j = a + 1 /\ R[j] = x
      BY <1>4, <2>1, <3>2
    <3>3. CASE /\ j > a + 1 /\ j - a - 1 + b \in 1..N /\ b < j - a - 1 + b
               /\ R[j] = F[j - a - 1 + b]
      <4>1. i < j - a - 1 + b
        BY <1>1, <2>1, <3>3
      <4> QED BY <1>3, <2>1, <3>3, <4>1
    <3> QED BY <2>4, <3>1, <3>2, <3>3
  <2>2. CASE i = a + 1 /\ R[i] = x
    <3>1. /\ j > a + 1 /\ j - a - 1 + b \in 1..N /\ b < j - a - 1 + b
          /\ R[j] = F[j - a - 1 + b]
      <4>1. ~(j <= a) /\ ~(j = a + 1)
        BY <1>1, <2>2
      <4> QED BY <2>4, <4>1, Zenon
    <3> QED BY <1>4, <2>2, <3>1
  <2>3. CASE /\ i > a + 1 /\ i - a - 1 + b \in 1..N /\ R[i] = F[i - a - 1 + b]
    <3>1. /\ j > a + 1 /\ j - a - 1 + b \in 1..N /\ R[j] = F[j - a - 1 + b]
      BY <1>1, <1>2, <2>3
    <3>2. i - a - 1 + b < j - a - 1 + b
      BY <1>1
    <3> QED BY <1>3, <2>3, <3>1, <3>2
  <2> QED BY <1>2, <2>1, <2>2, <2>3
<1>7. ASSUME NEW p \in Int, Claimed(R, p)
      PROVE  Within(sec, p) \/ Claimed(F, p)
  <2>1. PICK j \in 1..M : Within(R[j], p)
    BY <1>7 DEF Claimed, M
  <2>2. CASE j = a + 1 /\ R[j] = x
    <3>1. Within(sec, p) \/ \E i \in (a + 1)..b : Within(F[i], p)
      BY <1>4, <2>1, <2>2
    <3>2. \A i \in (a + 1)..b : i \in 1..N
      BY <1>1
    <3> QED BY <3>1, <3>2 DEF Claimed, N
  <2>3. CASE \E i \in 1..N : R[j] = F[i]
    BY <2>1, <2>3 DEF Claimed, N
  <2> QED BY <1>2, <2>2, <2>3
<1>8. a + 1 \in 1..M /\ R[a + 1] = x
  <2>1. a + 1 \in 1..M /\ ~(a + 1 <= a) /\ ~(a + 1 > a + 1)
    BY <1>1
  <2> QED BY <1>2, <2>1
<1>9. ASSUME NEW p \in Int, Within(sec, p) \/ Claimed(F, p)
      PROVE  Claimed(R, p)
  <2>1. CASE Within(sec, p)
    <3>1. Within(x, p)
      BY <1>4, <2>1
    <3> QED BY <1>8, <3>1 DEF Claimed, M
  <2>2. CASE Claimed(F, p)
    <3>1. PICK i \in 1..N : Within(F[i], p)
      BY <2>2 DEF Claimed, N
    <3>2. CASE i <= a
      <4>1. i \in 1..M /\ ~(i = a + 1) /\ ~(i > a + 1)
        BY <1>1, <3>2
      <4>2. R[i] = F[i]
        BY <1>2, <4>1
      <4> QED BY <3>1, <4>1, <4>2 DEF Claimed, M
    <3>3. CASE a < i /\ i <= b
      <4>1. i \in (a + 1)..b
        BY <1>1, <3>3
      <4>2. Within(x, p)
        BY <1>4, <3>1, <4>1
      <4> QED BY <1>8, <4>2 DEF Claimed, M
    <3>4. CASE b < i
      <4> DEFINE j == i - b + a + 1
      <4>1. j \in 1..M /\ ~(j <= a) /\ ~(j = a + 1) /\ j - a - 1 + b = i
        BY <1>1, <3>4
      <4> HIDE DEF j
      <4>2. R[j] = F[i]
        BY <1>2, <4>1
      <4> QED BY <3>1, <4>1, <4>2 DEF Claimed, M
    <3> QED BY <1>1, <3>2, <3>3, <3>4
  <2> QED BY <1>9, <2>1, <2>2
<1>10. ASSUME NEW j \in 1..M, j < a + 1 PROVE j \in 1..N /\ R[j] = F[j]
  BY <1>1, <1>2, <1>10
<1>11. ASSUME NEW j \in 1..M, a + 1 < j PROVE \E i \in 1..N : R[j] = F[i]
  BY <1>1, <1>2, <1>11
<1>12. \E k \in 1..M :
         /\ \A j \in 1..M : j < k => j \in 1..N /\ R[j] = F[j]
         /\ \A j \in 1..M : k < j => \E i \in 1..N : R[j] = F[i]
         /\ R[k][1] = sec[1] \/ \E i \in 1..N : R[k][1] = F[i][1]
         /\ R[k] = sec \/ R[k][1] < R[k][2]
  <2> DEFINE k == a + 1
  <2>1. k \in 1..M /\ R[k] = x
    BY <1>8
  <2>2. /\ \A j \in 1..M : j < k => j \in 1..N /\ R[j] = F[j]
        /\ \A j \in 1..M : k < j => \E i \in 1..N : R[j] = F[i]
    BY <1>10, <1>11
  <2> HIDE DEF k
  <2>3. R[k][1] = sec[1] \/ \E i \in 1..N : R[k][1] = F[i][1]
    BY <1>4, <2>1
  <2>5. R[k] = sec \/ R[k][1] < R[k][2]
    BY <1>4, <2>1
  <2> QED BY <2>1, <2>2, <2>3, <2>5, Zenon
<1> QED BY <1>1, <1>6, <1>7, <1>9, <1>12 DEF Joined, M, N

\* The branches that change slot q only.
LEMMA ReplacedSlot ==
  ASSUME NEW F \in Seq(Section), NEW q \in 1..Len(F), NEW x \in Section
  PROVE  Spliced(SubSeq([F EXCEPT ![q] = x], 1, Len(F)), F, q - 1, q, x)
<1> DEFINE N == Len(F)
           m == [F EXCEPT ![q] = x]
           R == SubSeq(m, 1, N)
           a == q - 1
<1>1. /\ m \in Seq(Section) /\ Len(m) = N /\ N \in Nat /\ q \in Nat /\ q \in 1..N
      /\ \A j \in 1..N : m[j] = IF j = q THEN x ELSE F[j]
  OBVIOUS
<1> HIDE DEF m, N
<1>2. R \in Seq(Section) /\ Len(R) = N /\ \A j \in 1..N : R[j] = m[j]
  BY <1>1
<1> HIDE DEF R
<1>3. a \in Nat /\ q \in Nat /\ a <= q /\ q <= N /\ N = a + 1 + (N - q)
  BY <1>1
<1>4. ASSUME NEW j \in 1..N
      PROVE  \/ j <= a /\ R[j] = F[j]
             \/ j = a + 1 /\ R[j] = x
             \/ j > a + 1 /\ R[j] = F[j - a - 1 + q]
  <2>1. R[j] = IF j = q THEN x ELSE F[j]
    BY <1>1, <1>2
  <2>2. j < q => j <= a
    BY <1>1
  <2>3. a + 1 = q /\ j - a - 1 + q = j
    BY <1>1
  <2>4. j < q \/ j = q \/ j > q
    BY <1>1
  <2> QED BY <2>1, <2>2, <2>3, <2>4
<1>5. Spliced(R, F, a, q, x)
  BY <1>2, <1>3, <1>4 DEF Spliced, N
<1> QED BY <1>5 DEF R, m, N

\* The branches that also erase the section behind slot q, before or after.
LEMMA MergedSlots ==
  ASSUME NEW F \in Seq(Section), NEW q \in 1..(Len(F) - 1), NEW x \in Section,
         NEW R \in Seq(Section), Len(R) = Len(F) - 1,
         \A j \in 1..(Len(F) - 1) :
           R[j] = IF j = q THEN x ELSE IF j < q THEN F[j] ELSE F[j + 1]
  PROVE  Spliced(R, F, q - 1, q + 1, x)
<1> DEFINE N == Len(F)
           a == q - 1
           b == q + 1
<1>1. N \in Nat /\ q \in Nat /\ 1 <= q /\ q <= N - 1
  OBVIOUS
<1> HIDE DEF N
<1>3. /\ a \in Nat /\ b \in Nat /\ a <= b /\ b <= N
      /\ N - 1 = a + 1 + (N - b)
  BY <1>1
<1>4. ASSUME NEW j \in 1..(N - 1)
      PROVE  \/ j <= a /\ R[j] = F[j]
             \/ j = a + 1 /\ R[j] = x
             \/ j > a + 1 /\ R[j] = F[j - a - 1 + b]
  <2>1. R[j] = IF j = q THEN x ELSE IF j < q THEN F[j] ELSE F[j + 1]
    BY DEF N
  <2>2. j < q => j <= a
    BY <1>1
  <2>3. a + 1 = q /\ j - a - 1 + b = j + 1
    BY <1>1
  <2>4. j < q \/ j = q \/ j > q
    BY <1>1
  <2>5. j > q => ~(j = q) /\ ~(j < q)
    BY <1>1
  <2>6. j < q => ~(j = q)
    BY <1>1
  <2> HIDE DEF a, b
  <2> QED BY <2>1, <2>2, <2>3, <2>4, <2>5, <2>6
<1> QED BY <1>3, <1>4 DEF Spliced, N

LEMMA InsertedBetween ==
  ASSUME NEW F \in Seq(Section), NEW f \in 0..Len(F), NEW sec \in Section
  PROVE  Spliced(InsertSection(Full(F), f, sec), F, f, f, sec)
<1> DEFINE N == Len(F)
           R == InsertSection(Full(F), f, sec)
<1>1. Full(F) \in Vector /\ Full(F).mem = F /\ Full(F).n = N /\ N \in Nat /\ f \in 0..N
      /\ f \in Nat /\ f <= N
  BY DEF Full, Vector
<1>2. /\ R \in Seq(Section) /\ Len(R) = N + 1
      /\ \A j \in 1..(N + 1) :
           \/ j <= f /\ j \in 1..N /\ R[j] = F[j]
           \/ j = f + 1 /\ R[j] = sec
           \/ j > f + 1 /\ j - 1 \in 1..N /\ R[j] = F[j - 1]
  <2> DEFINE v == Full(F)
  <2>1. v \in Vector /\ v.mem = F /\ v.n = N /\ f \in 0..v.n
    BY <1>1
  <2> HIDE DEF v, N
  <2>2. /\ InsertSection(v, f, sec) \in Seq(Section)
        /\ Len(InsertSection(v, f, sec)) = v.n + 1
        /\ \A j \in 1..(v.n + 1) :
             \/ j <= f /\ j \in 1..Len(v.mem) /\ InsertSection(v, f, sec)[j] = v.mem[j]
             \/ j = f + 1 /\ InsertSection(v, f, sec)[j] = sec
             \/ j > f + 1 /\ j - 1 \in 1..Len(v.mem)
                /\ InsertSection(v, f, sec)[j] = v.mem[j - 1]
    BY <2>1, InsertSlots
  <2>3. R = InsertSection(v, f, sec)
    BY DEF v
  <2> HIDE DEF R
  <2>4. Len(v.mem) = N
    BY <2>1 DEF N
  <2> QED BY <2>1, <2>2, <2>3, <2>4
<1> HIDE DEF R, N
<1>3. N + 1 = f + 1 + (N - f)
  BY <1>1
<1>4. \A j \in 1..(N + 1) : j - f - 1 + f = j - 1
  BY <1>1
<1>5. ASSUME NEW j \in 1..(N + 1)
      PROVE  \/ j <= f /\ R[j] = F[j]
             \/ j = f + 1 /\ R[j] = sec
             \/ j > f + 1 /\ R[j] = F[j - f - 1 + f]
  BY <1>2, <1>4
<1>6. Spliced(R, F, f, f, sec)
  BY <1>1, <1>2, <1>3, <1>5 DEF Spliced, N
<1> QED BY <1>6 DEF R

\* A run of no or of one erasure.
LEMMA ShortEraseRun ==
  ASSUME NEW v \in Vector, NEW from \in Nat
  PROVE  /\ \A to \in Int : to <= from => EraseRun(v, from, to) = v
         /\ EraseRun(v, from, from + 1) = EraseAt(v, from)
<1>1. ASSUME NEW to \in Int, to <= from PROVE EraseRun(v, from, to) = v
  BY <1>1 DEF EraseRun
<1>2. EraseRun(v, from, from + 1) = Erasures(v, from)[1]
  <2>1. from < from + 1 /\ (from + 1) - from = 1
    OBVIOUS
  <2> QED BY <2>1 DEF EraseRun
<1>3. Erasures(v, from)[0 + 1] = EraseAt(Erasures(v, from)[0], from + 0)
      /\ Erasures(v, from)[0] = v
  BY ErasuresUnfold
<1> QED BY <1>1, <1>2, <1>3

\* x stands between its neighbours and is sec and the sections from a+1 to b.
FillsIn(x, F, sec, a, b) ==
  /\ a \in Nat /\ b \in Nat /\ a < b /\ b <= Len(F)
  /\ a > 0 => F[a][2] <= x[1]
  /\ b < Len(F) => x[2] <= F[b + 1][1]
  /\ \A p \in Int : Within(x, p) <=> Within(sec, p) \/ \E i \in (a + 1)..b : Within(F[i], p)
  /\ x[1] = sec[1] \/ x[1] = F[a + 1][1]
  /\ x[1] < x[2]

LEMMA FillingBridges ==
  ASSUME NEW F \in Seq(Section), Disjoint(F), NEW sec, NEW x \in Section,
         NEW a, NEW b, FillsIn(x, F, sec, a, b)
  PROVE  Bridges(x, F, sec, a, b)
<1> DEFINE N == Len(F)
<1>1. /\ N \in Nat /\ a \in Nat /\ b \in Nat /\ a < b /\ b <= N
      /\ x[1] \in Int /\ x[2] \in Int
      /\ a > 0 => F[a][2] <= x[1]
      /\ b < N => x[2] <= F[b + 1][1]
  BY SectionBounds DEF FillsIn
<1>2. /\ \A i \in 1..N : F[i][1] \in Int /\ F[i][2] \in Int /\ F[i][1] <= F[i][2]
      /\ \A i, j \in 1..N : i < j => F[i][2] <= F[j][1]
  BY SectionBounds DEF Disjoint, Apart
<1> HIDE DEF N
<1>3. ASSUME NEW i \in 1..N, i <= a PROVE F[i][2] <= x[1]
  <2>1. a \in 1..N /\ a > 0
    BY <1>1, <1>3
  <2>2. CASE i = a
    BY <1>1, <2>1, <2>2
  <2>3. CASE i < a
    <3>1. F[i][2] <= F[a][1] /\ F[a][1] <= F[a][2] /\ F[a][2] <= x[1]
      BY <1>1, <1>2, <2>1, <2>3
    <3> QED BY <1>1, <1>2, <2>1, <3>1
  <2> QED BY <1>1, <1>3, <2>2, <2>3
<1>4. ASSUME NEW i \in 1..N, b < i PROVE x[2] <= F[i][1]
  <2> DEFINE c == b + 1
  <2>1. c \in 1..N /\ x[2] <= F[c][1] /\ c <= i
    BY <1>1, <1>4
  <2> HIDE DEF c
  <2>2. CASE i = c
    BY <2>1, <2>2
  <2>3. CASE c < i
    <3>1. F[c][2] <= F[i][1] /\ F[c][1] <= F[c][2]
      BY <1>2, <2>1, <2>3
    <3> QED BY <1>1, <1>2, <2>1, <3>1
  <2> QED BY <1>1, <2>1, <2>2, <2>3
<1>5. x[1] = sec[1] \/ \E i \in 1..N : x[1] = F[i][1]
  <2>1. a + 1 \in 1..N
    BY <1>1
  <2> QED BY <2>1 DEF FillsIn
<1> QED BY <1>3, <1>4, <1>5 DEF Bridges, FillsIn, N

LEMMA ErasedThenWidened ==
  ASSUME NEW F \in Seq(Section), NEW q \in 1..(Len(F) - 1), NEW second,
         <<F[q][1], second>> \in Section
  PROVE  Spliced(Contents([EraseAt(Full(F), q) EXCEPT !.mem[q] = <<@[1], second>>]),
                 F, q - 1, q + 1, <<F[q][1], second>>)
<1> DEFINE N == Len(F)
           v == EraseAt(Full(F), q)
           x == <<F[q][1], second>>
           m == [v.mem EXCEPT ![q] = <<@[1], second>>]
           R == SubSeq(m, 1, N - 1)
<1>1. Full(F) \in Vector /\ Full(F).mem = F /\ Full(F).n = N /\ N \in Nat
      /\ q \in Nat /\ q \in 1..(N - 1) /\ q \in 1..N
  BY DEF Full, Vector
<1>2. /\ v \in Vector /\ v.n = N - 1 /\ Len(v.mem) = N
      /\ \A j \in 1..N : v.mem[j] = IF q < j /\ j < N THEN F[j + 1] ELSE F[j]
  BY <1>1, EraseAtSlots
<1>3. v = [mem |-> v.mem, n |-> v.n] /\ v.mem \in Seq(Section)
  BY <1>2 DEF Vector
<1> HIDE DEF v, N
<1>4. Contents([v EXCEPT !.mem[q] = <<@[1], second>>]) = R
  BY <1>2, <1>3 DEF Contents
<1>5. v.mem[q] = F[q]
  BY <1>1, <1>2
<1>6. m = [v.mem EXCEPT ![q] = x]
  BY <1>5
<1> HIDE DEF x, m
<1>7. m \in Seq(Section) /\ Len(m) = N
      /\ \A j \in 1..N : m[j] = IF j = q THEN x ELSE v.mem[j]
  <2>1. x \in Section
    BY DEF x
  <2> QED BY <1>1, <1>2, <1>3, <1>6, <2>1
<1>8. R \in Seq(Section) /\ Len(R) = N - 1 /\ \A j \in 1..(N - 1) : R[j] = m[j]
  BY <1>1, <1>7
<1> HIDE DEF R
<1>9. ASSUME NEW j \in 1..(N - 1)
      PROVE  R[j] = IF j = q THEN x ELSE IF j < q THEN F[j] ELSE F[j + 1]
  <2>1. j \in 1..N /\ j < N
    BY <1>1
  <2>2. R[j] = IF j = q THEN x ELSE v.mem[j]
    BY <1>7, <1>8, <2>1
  <2>3. v.mem[j] = IF q < j THEN F[j + 1] ELSE F[j]
    BY <1>2, <2>1
  <2>4. j < q \/ j = q \/ (q < j /\ ~(j = q) /\ ~(j < q))
    BY <1>1
  <2>5. j < q => ~(q < j) /\ ~(j = q)
    BY <1>1
  <2> QED BY <2>2, <2>3, <2>4, <2>5
<1>10. Spliced(R, F, q - 1, q + 1, x)
  BY <1>8, <1>9, MergedSlots DEF N, x
<1> QED BY <1>4, <1>10 DEF v, x

LEMMA WidenedThenErased ==
  ASSUME NEW F \in Seq(Section), NEW q \in 1..(Len(F) - 1), NEW x \in Section
  PROVE  Spliced(Contents(EraseAt([Full(F) EXCEPT !.mem = [F EXCEPT ![q] = x]], q)),
                 F, q - 1, q + 1, x)
<1> DEFINE N == Len(F)
           m == [F EXCEPT ![q] = x]
           u == [mem |-> m, n |-> N]
           v == EraseAt(u, q)
           R == SubSeq(v.mem, 1, N - 1)
<1>1. N \in Nat /\ q \in Nat /\ q \in 1..(N - 1) /\ q \in 1..N
      /\ m \in Seq(Section) /\ Len(m) = N
      /\ \A j \in 1..N : m[j] = IF j = q THEN x ELSE F[j]
  OBVIOUS
<1> HIDE DEF m
<1>2. [Full(F) EXCEPT !.mem = m] = u
  <2>1. Full(F) = [mem |-> F, n |-> N]
    BY DEF Full
  <2> QED BY <2>1
<1> HIDE DEF N
<1>3. u \in Vector /\ u.mem = m /\ u.n = N
  BY <1>1 DEF Vector
<1> HIDE DEF u
<1>4. /\ v \in Vector /\ v.n = N - 1 /\ Len(v.mem) = N
      /\ \A j \in 1..N : v.mem[j] = IF q < j /\ j < N THEN m[j + 1] ELSE m[j]
  <2>1. /\ v \in Vector /\ v.n = u.n - 1 /\ Len(v.mem) = Len(u.mem)
        /\ \A j \in 1..Len(u.mem) :
             v.mem[j] = IF q < j /\ j < u.n THEN u.mem[j + 1] ELSE u.mem[j]
    BY <1>1, <1>3, EraseAtSlots
  <2> HIDE DEF v
  <2> QED BY <1>1, <1>3, <2>1
<1>5. v.mem \in Seq(Section)
  BY <1>4 DEF Vector
<1>6. Contents(v) = R
  BY <1>4 DEF Contents
<1> HIDE DEF v
<1>8. R \in Seq(Section) /\ Len(R) = N - 1 /\ \A j \in 1..(N - 1) : R[j] = v.mem[j]
  BY <1>1, <1>4, <1>5
<1> HIDE DEF R
<1>9. ASSUME NEW j \in 1..(N - 1)
      PROVE  R[j] = IF j = q THEN x ELSE IF j < q THEN F[j] ELSE F[j + 1]
  <2>1. j \in 1..N /\ j < N /\ j + 1 \in 1..N
    BY <1>1
  <2>2. R[j] = IF q < j THEN m[j + 1] ELSE m[j]
    BY <1>4, <1>8, <2>1
  <2>3. m[j] = IF j = q THEN x ELSE F[j]
    BY <1>1, <2>1
  <2>4. q < j => m[j + 1] = F[j + 1]
    <3>1. q < j => ~(j + 1 = q)
      BY <1>1
    <3> QED BY <1>1, <2>1, <3>1
  <2>5. j < q \/ j = q \/ (q < j /\ ~(j = q) /\ ~(j < q))
    BY <1>1
  <2>6. j < q => ~(q < j) /\ ~(j = q)
    BY <1>1
  <2>7. j = q => ~(q < j)
    BY <1>1
  <2> QED BY <2>2, <2>3, <2>4, <2>5, <2>6, <2>7
<1>10. Spliced(R, F, q - 1, q + 1, x)
  BY <1>8, <1>9, MergedSlots DEF N
<1> QED BY <1>2, <1>6, <1>10 DEF v, m, u

\* sec begins inside a section.
LEMMA AddInsideJoins ==
  ASSUME NEW F \in Seq(Section), Disjoint(F), NEW sec \in Section, ~BeginsInside(F, sec),
         NEW f \in 0..(Len(F) - 1), FoundBeyond(F, sec[1], f), F[f + 1][1] <= sec[1],
         NEW g, FoundBeyond(F, sec[2], g)
  PROVE  Joined(F, sec, AddInside(F, sec, f, g))
<1> DEFINE N == Len(F)
           q == f + 1
           s == sec[1]
           t == sec[2]
           inBack == g # -1 /\ F[g + 1][1] <= sec[2]
           stop   == CASE g = -1 -> f + 1 + (Len(F) - f) \div 2
                       [] inBack -> g + 1
                       [] OTHER  -> g
           second == IF inBack THEN F[g + 1][2] ELSE sec[2]
           v == EraseRun(Full(F), q, stop)
           R == AddInside(F, sec, f, g)
           x == <<F[q][1], second>>
<1>1. /\ N \in Nat /\ q \in 1..N /\ q \in Nat /\ f \in Nat /\ q = f + 1 /\ f = q - 1
      /\ s \in Int /\ t \in Int /\ s <= t
      /\ F[q][1] \in Int /\ F[q][2] \in Int
      /\ F[q][1] <= s /\ s < F[q][2]
  BY SectionBounds DEF FoundBeyond
<1>2. /\ \A i \in 1..N : F[i][1] \in Int /\ F[i][2] \in Int /\ F[i][1] < F[i][2]
      /\ \A i, j \in 1..N : i < j => F[i][2] <= F[j][1]
      /\ \A i \in 1..N : ~(s < F[i][1] /\ F[i][1] < t)
  <2>1. \A i \in 1..N : F[i] \in Section
    OBVIOUS
  <2>2. \A i \in 1..N : F[i][1] \in Int /\ F[i][2] \in Int
    BY <2>1, SectionBounds
  <2>3. \A i \in 1..N : F[i][1] < F[i][2]
    BY DEF Disjoint
  <2>4. \A i, j \in 1..N : i < j => F[i][2] <= F[j][1]
    BY DEF Disjoint, Apart
  <2>5. \A i \in 1..N : ~(s < F[i][1] /\ F[i][1] < t)
    BY DEF BeginsInside
  <2> QED BY <2>2, <2>3, <2>4, <2>5
<1>3. \/ g = -1 /\ \A i \in 1..N : F[i][2] <= t
      \/ /\ g \in 0..(N - 1) /\ f <= g /\ g + 1 \in 1..N
         /\ F[g + 1][2] > t
         /\ \A i \in 1..g : F[i][2] <= t
  BY BackNotBeforeFront
<1>4. R = Contents([v EXCEPT !.mem[q] = <<@[1], second>>])
  BY DEF AddInside, Full
<1> SUFFICES Joined(F, sec, R)
  OBVIOUS
<1> HIDE DEF R, v
<1>5. Full(F) \in Vector
  BY DEF Full, Vector
\* The three branches that erase nothing.
<1>6. ASSUME v = Full(F), x \in Section, FillsIn(x, F, sec, f, q)
      PROVE  Joined(F, sec, R)
  <2>1. R = SubSeq([F EXCEPT ![q] = <<@[1], second>>], 1, N)
    BY <1>4, <1>6 DEF Full, Contents
  <2>2. R = SubSeq([F EXCEPT ![q] = x], 1, N)
    BY <2>1
  <2> HIDE DEF x, N, q
  <2>3. Spliced(R, F, q - 1, q, x)
    BY <1>1, <1>6, <2>2, ReplacedSlot DEF N
  <2>4. Bridges(x, F, sec, q - 1, q)
    BY <1>1, <1>6, FillingBridges
  <2> QED BY <2>3, <2>4, SpliceJoins
<1>7. f > 0 => F[f][2] <= F[q][1]
  <2>1. f > 0 => f \in 1..N /\ f < q
    BY <1>1
  <2> QED BY <1>1, <1>2, <2>1
<1>8. \A p \in Int : (\E i \in (f + 1)..q : Within(F[i], p)) <=> Within(F[q], p)
  <2>1. (f + 1)..q = {q}
    BY <1>1
  <2> QED BY <2>1
<1>9. CASE F[q][2] > t
  <2>1. g = f
    <3>1. g # -1
      BY <1>1, <1>3, <1>9
    <3>2. ~(f < g)
      <4>1. f < g => q \in 1..g
        BY <1>1, <1>3, <3>1
      <4> QED BY <1>1, <1>3, <1>9, <3>1, <4>1
    <3> QED BY <1>1, <1>3, <3>1, <3>2
  <2>2. inBack /\ g # -1 /\ g + 1 = q
    BY <1>1, <2>1
  <2>3. stop = q /\ second = F[q][2]
    BY <1>1, <2>2
  <2>4. v = Full(F)
    BY <1>1, <1>5, <2>3, ShortEraseRun DEF v
  <2>5. x[1] = F[q][1] /\ x[2] = F[q][2] /\ x \in Section
    <3>1. F[q][1] <= F[q][2]
      BY <1>1
    <3> HIDE DEF second, q, stop
    <3>2. F[q][1] <= second /\ second \in Int /\ F[q][1] \in Int /\ second = F[q][2]
      BY <1>1, <2>3, <3>1
    <3> QED BY <3>2, PairIsSection
  <2>6. \A p \in Int : Within(x, p) <=> Within(sec, p) \/ Within(F[q], p)
    <3> HIDE DEF x, q
    <3> QED BY <1>1, <1>9, <2>5 DEF Within
  <2>7. q < N => x[2] <= F[q + 1][1]
    BY <1>1, <1>2, <2>5
  <2>8. FillsIn(x, F, sec, f, q)
    <3>1. f < q /\ q <= N /\ x[1] < x[2] /\ x[1] = F[f + 1][1]
      <4> HIDE DEF x
      <4> QED BY <1>1, <2>5
    <3>2. f > 0 => F[f][2] <= x[1]
      BY <1>7, <2>5
    <3> HIDE DEF x
    <3> QED BY <1>1, <1>8, <2>6, <2>7, <3>1, <3>2 DEF FillsIn
  <2> QED BY <1>6, <2>4, <2>5, <2>8
\* sec ends at or behind the end of section q.
<1>10. ASSUME F[q][2] <= t, second = t, q < N => t <= F[q + 1][1]
       PROVE  x \in Section /\ FillsIn(x, F, sec, f, q)
  <2>1. x[1] = F[q][1] /\ x[2] = t /\ x \in Section
    <3>1. F[q][1] <= t
      BY <1>1
    <3> HIDE DEF second, q, t
    <3> QED BY <1>1, <1>10, <3>1, PairIsSection
  <2>2. \A p \in Int : Within(x, p) <=> Within(sec, p) \/ Within(F[q], p)
    <3> HIDE DEF x, q
    <3> QED BY <1>1, <1>10, <2>1 DEF Within
  <2>3. FillsIn(x, F, sec, f, q)
    <3> HIDE DEF x
    <3> QED BY <1>1, <1>7, <1>8, <1>10, <2>1, <2>2 DEF FillsIn
  <2> QED BY <2>1, <2>3
<1>11. CASE F[q][2] <= t /\ q = N
  <2>1. g = -1
    <3>1. SUFFICES ASSUME g # -1 PROVE FALSE
      OBVIOUS
    <3>2. g + 1 = q
      BY <1>1, <1>3, <1>11, <3>1
    <3> QED BY <1>1, <1>3, <1>11, <3>1, <3>2
  <2>2. stop = q /\ second = t
    <3>1. stop = f + 1 + (N - f) \div 2
      BY <2>1
    <3>2. N - f = 1 /\ 1 \div 2 = 0
      BY <1>1, <1>11
    <3>3. stop = q
      BY <1>1, <3>1, <3>2
    <3> QED BY <2>1, <3>3
  <2>3. v = Full(F)
    BY <1>1, <1>5, <2>2, ShortEraseRun DEF v
  <2> QED BY <1>1, <1>6, <1>10, <1>11, <2>2, <2>3
<1>12. CASE F[q][2] <= t /\ q < N
  <2> DEFINE r == q + 1
  <2>1. r \in 1..N /\ F[q][2] <= F[r][1] /\ F[r][1] \in Int /\ F[r][2] \in Int
        /\ F[r][1] < F[r][2] /\ t <= F[r][1]
    <3>1. r \in 1..N /\ q < r
      BY <1>1, <1>12
    <3> HIDE DEF r
    <3>2. F[q][2] <= F[r][1] /\ F[r][1] \in Int /\ F[r][2] \in Int /\ F[r][1] < F[r][2]
          /\ ~(s < F[r][1] /\ F[r][1] < t)
      BY <1>1, <1>2, <3>1
    <3> QED BY <1>1, <3>1, <3>2
  <2>2. g = q
    <3>1. g # -1
      BY <1>1, <1>3, <2>1
    <3>2. g # f
      BY <1>1, <1>3, <1>12, <3>1
    <3>3. ~(q < g)
      <4> SUFFICES ASSUME q < g PROVE FALSE
        OBVIOUS
      <4>1. g \in Int /\ \A i \in 1..g : F[i][2] <= t
        BY <1>3, <3>1
      <4>2. r \in 1..g
        <5> HIDE DEF N
        <5> QED BY <1>1, <4>1
      <4>3. F[r][2] <= t
        BY <4>1, <4>2
      <4> HIDE DEF r, t
      <4> QED BY <1>1, <2>1, <4>3
    <3> QED BY <1>1, <1>3, <3>1, <3>2, <3>3
  <2>3. CASE F[r][1] > t
    <3>1. ~inBack /\ g # -1
      BY <1>1, <2>1, <2>2, <2>3
    <3>2. stop = q /\ second = t
      BY <2>2, <3>1
    <3>3. v = Full(F)
      BY <1>1, <1>5, <3>2, ShortEraseRun DEF v
    <3> QED BY <1>6, <1>10, <1>12, <2>1, <3>2, <3>3
  <2>4. CASE F[r][1] = t
    <3>1. inBack /\ g # -1
      BY <1>1, <2>1, <2>2, <2>4
    <3>2. stop = q + 1 /\ second = F[r][2]
      BY <2>2, <3>1
    <3>3. v = EraseAt(Full(F), q)
      BY <1>1, <1>5, <3>2, ShortEraseRun DEF v
    <3>4. x[1] = F[q][1] /\ x[2] = F[r][2] /\ x \in Section
      <4>1. F[q][1] <= F[r][2]
        <5>1. F[q][1] \in Int /\ F[q][2] \in Int /\ F[q][1] <= F[q][2]
          BY <1>1
        <5> HIDE DEF q, r
        <5> QED BY <2>1, <5>1
      <4> HIDE DEF second, q, r
      <4> QED BY <1>1, <2>1, <3>2, <4>1, PairIsSection
    <3>5. Spliced(R, F, q - 1, q + 1, x)
      <4>1. q \in 1..(N - 1)
        BY <1>1, <1>12
      <4>2. R = Contents([EraseAt(Full(F), q) EXCEPT !.mem[q] = <<@[1], second>>])
        BY <1>4, <3>3
      <4> HIDE DEF q, second
      <4> QED BY <3>4, <4>1, <4>2, ErasedThenWidened
    <3>6. \A p \in Int : Within(x, p) <=> Within(sec, p) \/ Within(F[q], p) \/ Within(F[r], p)
      <4> SUFFICES ASSUME NEW p \in Int
                   PROVE  Within(x, p) <=> Within(sec, p) \/ Within(F[q], p) \/ Within(F[r], p)
        OBVIOUS
      <4> DEFINE a == F[q][1]
                 b == F[q][2]
                 d == F[r][2]
      <4>1. /\ a \in Int /\ b \in Int /\ d \in Int /\ s \in Int /\ t \in Int
            /\ a <= s /\ s < b /\ b <= t /\ t < d /\ s <= t
        <5> HIDE DEF q, r, s, t
        <5> QED BY <1>1, <1>12, <2>1, <2>4
      <4>2. /\ Within(x, p) <=> (a <= p /\ p < d)
            /\ Within(sec, p) <=> (s <= p /\ p < t)
            /\ Within(F[q], p) <=> (a <= p /\ p < b)
            /\ Within(F[r], p) <=> (t <= p /\ p < d)
        <5> HIDE DEF x, q, r
        <5> QED BY <2>4, <3>4 DEF Within
      <4> HIDE DEF a, b, d, s, t
      <4>3. (a <= p /\ p < d) <=> ((s <= p /\ p < t) \/ (a <= p /\ p < b) \/ (t <= p /\ p < d))
        BY <4>1
      <4> QED BY <4>2, <4>3
    <3>7. (f + 1)..r = {q, r}
      BY <1>1
    <3>8. r < N => x[2] <= F[r + 1][1]
      <4>1. r < N => r + 1 \in 1..N /\ r < r + 1
        BY <2>1
      <4> HIDE DEF r, x
      <4>2. r < N => F[r][2] <= F[r + 1][1]
        BY <1>2, <2>1, <4>1
      <4> QED BY <3>4, <4>2
    <3>9. FillsIn(x, F, sec, f, r)
      <4>0. f \in Nat /\ r \in Nat /\ f < r /\ r <= N
        BY <1>1, <2>1
      <4>1. x[1] < x[2]
        <5> DEFINE a == F[q][1]
                   d == F[r][2]
        <5>1. a \in Int /\ d \in Int /\ s \in Int /\ t \in Int /\ a <= s /\ s <= t /\ t < d
          <6> HIDE DEF q, r, s, t
          <6> QED BY <1>1, <1>12, <2>1, <2>4
        <5>2. x[1] = a /\ x[2] = d
          <6> HIDE DEF q, r, x
          <6> QED BY <2>4, <3>4
        <5> HIDE DEF a, d, x, s, t
        <5>3. a < d
          BY <5>1
        <5> QED BY <5>2, <5>3
      <4>2. \A p \in Int : Within(x, p) <=> Within(sec, p) \/ \E i \in (f + 1)..r : Within(F[i], p)
        <5> HIDE DEF x, r, q
        <5> QED BY <3>6, <3>7
      <4>3. (f > 0 => F[f][2] <= x[1]) /\ x[1] = F[f + 1][1]
        BY <1>7, <3>4
      <4> HIDE DEF x, r
      <4> QED BY <3>8, <4>0, <4>1, <4>2, <4>3 DEF FillsIn
    <3> QED
      <4>1. q - 1 = f /\ q + 1 = r
        BY <1>1
      <4> HIDE DEF x, r, q
      <4>2. Bridges(x, F, sec, f, r)
        BY <3>4, <3>9, FillingBridges
      <4> QED BY <3>5, <4>1, <4>2, SpliceJoins
  <2> QED BY <1>1, <2>1, <2>3, <2>4
<1> QED BY <1>1, <1>9, <1>11, <1>12

\* sec begins before a section, and ends no later than that one begins.
LEMMA AddBeforeJoins ==
  ASSUME NEW F \in Seq(Section), Disjoint(F), NEW sec \in Section, ~BeginsInside(F, sec),
         NEW f \in 0..(Len(F) - 1), FoundBeyond(F, sec[1], f), sec[1] < F[f + 1][1],
         NEW g, FoundBeyond(F, sec[2], g)
  PROVE  Joined(F, sec, AddBefore(F, sec, f, g))
<1> DEFINE N == Len(F)
           q == f + 1
           s == sec[1]
           t == sec[2]
           count == IF g = -1 THEN Len(F) - f ELSE g - f
           v == EraseRun(Full(F), f, count)
           R == AddBefore(F, sec, f, g)
<1>1. /\ N \in Nat /\ q \in 1..N /\ q \in Nat /\ f \in Nat /\ q = f + 1 /\ f = q - 1
      /\ s \in Int /\ t \in Int /\ s <= t
      /\ F[q][1] \in Int /\ F[q][2] \in Int
      /\ s < F[q][1]
      /\ \A i \in 1..f : F[i][2] <= s
  BY SectionBounds DEF FoundBeyond
<1>2. /\ \A i \in 1..N : F[i][1] \in Int /\ F[i][2] \in Int /\ F[i][1] < F[i][2]
      /\ \A i, j \in 1..N : i < j => F[i][2] <= F[j][1]
      /\ \A i \in 1..N : ~(s < F[i][1] /\ F[i][1] < t)
  <2>1. \A i \in 1..N : F[i] \in Section
    OBVIOUS
  <2>2. \A i \in 1..N : F[i][1] \in Int /\ F[i][2] \in Int
    BY <2>1, SectionBounds
  <2>3. \A i \in 1..N : F[i][1] < F[i][2]
    BY DEF Disjoint
  <2>4. \A i, j \in 1..N : i < j => F[i][2] <= F[j][1]
    BY DEF Disjoint, Apart
  <2>5. \A i \in 1..N : ~(s < F[i][1] /\ F[i][1] < t)
    BY DEF BeginsInside
  <2> QED BY <2>2, <2>3, <2>4, <2>5
<1>3. /\ t <= F[q][1] /\ F[q][1] < F[q][2]
      /\ \A i \in 1..N : f < i => t <= F[i][1]
  <2>1. t <= F[q][1] /\ F[q][1] < F[q][2]
    <3> HIDE DEF q
    <3> QED BY <1>1, <1>2
  <2>2. ASSUME NEW i \in 1..N, f < i PROVE t <= F[i][1]
    <3>1. i = q \/ q < i
      BY <1>1, <2>2
    <3> HIDE DEF q
    <3>2. q < i => F[q][2] <= F[i][1]
      BY <1>1, <1>2
    <3>3. F[i][1] \in Int
      BY <1>2
    <3> QED BY <1>1, <2>1, <3>1, <3>2, <3>3
  <2> QED BY <2>1, <2>2
<1>4. g = f
  <2>1. \/ g = -1 /\ \A i \in 1..N : F[i][2] <= t
        \/ /\ g \in 0..(N - 1) /\ f <= g /\ g + 1 \in 1..N
           /\ F[g + 1][2] > t
           /\ \A i \in 1..g : F[i][2] <= t
    BY BackNotBeforeFront
  <2>2. F[q][2] > t
    BY <1>1, <1>3
  <2>3. g # -1
    BY <1>1, <2>1, <2>2
  <2>4. ~(f < g)
    <3>1. f < g => q \in 1..g
      BY <1>1, <2>1, <2>3
    <3> QED BY <1>1, <2>1, <2>2, <2>3, <3>1
  <2> QED BY <1>1, <2>1, <2>3, <2>4
<1>5. v = Full(F) /\ g # -1 /\ Full(F).mem = F /\ Full(F).n = N /\ Full(F) \in Vector
  <2>1. Full(F).mem = F /\ Full(F).n = N /\ Full(F) \in Vector
    BY DEF Full, Vector
  <2>2. count = 0 /\ 0 <= f /\ g # -1
    BY <1>1, <1>4
  <2> QED BY <1>1, <2>1, <2>2, ShortEraseRun
<1> DEFINE touches == f > 0 /\ s = F[f][2]
<1>6. R = IF t < F[q][1]
            THEN IF touches
                   THEN Contents([Full(F) EXCEPT !.mem = [F EXCEPT ![f] = <<@[1], t>>]])
                   ELSE InsertSection(Full(F), f, sec)
            ELSE IF touches
                   THEN Contents(EraseAt([Full(F) EXCEPT !.mem = [F EXCEPT ![f] = <<@[1], F[q][2]>>]], f))
                   ELSE Contents([Full(F) EXCEPT !.mem[q] = <<sec[1], @[2]>>])
  <2>1. R = IF g = -1 \/ t < v.mem[g + 1][1]
              THEN IF f > 0 /\ s = v.mem[f][2]
                     THEN Contents([v EXCEPT !.mem = [v.mem EXCEPT ![f] = <<@[1], t>>]])
                     ELSE InsertSection(v, f, sec)
              ELSE IF f > 0 /\ s = v.mem[f][2]
                     THEN Contents(EraseAt([v EXCEPT !.mem = [v.mem EXCEPT ![f] = <<@[1], v.mem[f + 1][2]>>]], f))
                     ELSE Contents([v EXCEPT !.mem[f + 1] = <<sec[1], @[2]>>])
    BY DEF AddBefore, Full
  <2> HIDE DEF R, v
  <2> QED BY <1>4, <1>5, <2>1
<1> SUFFICES Joined(F, sec, R)
  OBVIOUS
<1> HIDE DEF R, v
<1>7. f > 0 => /\ f \in 1..N /\ F[f][1] \in Int /\ F[f][2] \in Int /\ F[f][1] < F[f][2]
               /\ F[f][2] <= s
               /\ f - 1 \in Nat /\ (f - 1) + 1 = f /\ (f - 1) + 1 \in Nat
  <2>1. f > 0 => f \in 1..N /\ f \in 1..f /\ f - 1 \in Nat /\ (f - 1) + 1 = f
    BY <1>1
  <2> QED BY <1>1, <1>2, <2>1
<1>8. f > 1 => f - 1 \in 1..N /\ F[f - 1][2] <= F[f][1]
  <2>1. f > 1 => f - 1 \in 1..N /\ f \in 1..N /\ f - 1 < f
    BY <1>1
  <2> QED BY <1>2, <2>1
<1>9. q < N => F[q][2] <= F[q + 1][1]
  <2>1. q < N => q + 1 \in 1..N /\ q < q + 1
    BY <1>1
  <2> QED BY <1>1, <1>2, <2>1
<1>10. CASE ~touches /\ t < F[q][1]
  <2>1. Spliced(R, F, f, f, sec)
    <3>1. R = InsertSection(Full(F), f, sec) /\ f \in 0..Len(F)
      BY <1>6, <1>10
    <3> QED BY <3>1, InsertedBetween
  <2>2. Bridges(sec, F, sec, f, f)
    <3>1. \A i \in 1..N : i <= f => F[i][2] <= sec[1]
      BY <1>1
    <3>2. (f + 1)..f = {}
      BY <1>1
    <3>3. \A p \in Int : Within(sec, p) <=> Within(sec, p) \/ \E i \in (f + 1)..f : Within(F[i], p)
      BY <3>2
    <3> QED BY <1>3, <3>1, <3>3 DEF Bridges
  <2> QED BY <2>1, <2>2, SpliceJoins
<1>11. CASE touches /\ t < F[q][1]
  <2> DEFINE x == <<F[f][1], t>>
  <2>1. /\ f \in 1..N /\ F[f][1] \in Int /\ F[f][1] < F[f][2] /\ F[f][2] = s
        /\ f - 1 \in Nat /\ (f - 1) + 1 = f
    BY <1>7, <1>11
  <2>2. x[1] = F[f][1] /\ x[2] = t /\ x \in Section
    <3>1. F[f][1] <= t
      BY <1>1, <2>1
    <3> HIDE DEF t
    <3> QED BY <1>1, <2>1, <3>1, PairIsSection
  <2>3. R = SubSeq([F EXCEPT ![f] = x], 1, N)
    <3>1. R = Contents([Full(F) EXCEPT !.mem = [F EXCEPT ![f] = <<@[1], t>>]])
      BY <1>6, <1>11
    <3>2. [F EXCEPT ![f] = <<@[1], t>>] = [F EXCEPT ![f] = x]
      OBVIOUS
    <3> DEFINE m == [F EXCEPT ![f] = x]
    <3>3. R = Contents([Full(F) EXCEPT !.mem = m])
      BY <3>1, <3>2
    <3> HIDE DEF m
    <3>4. R = SubSeq(m, 1, N)
      BY <3>3 DEF Full, Contents
    <3> QED BY <3>4 DEF m
  <2> HIDE DEF x
  <2>4. Spliced(R, F, f - 1, f, x)
    BY <2>1, <2>2, <2>3, ReplacedSlot
  <2>5. \A p \in Int : Within(x, p) <=> Within(sec, p) \/ Within(F[f], p)
    <3> HIDE DEF s, t
    <3> QED BY <1>1, <2>1, <2>2 DEF Within, s, t
  <2>6. FillsIn(x, F, sec, f - 1, f)
    <3> DEFINE a == f - 1
    <3>1. a \in Nat /\ f \in Nat /\ a < f /\ f <= N /\ a + 1 = f /\ (a > 0 => f > 1)
      BY <1>1, <2>1
    <3>2. a > 0 => F[a][2] <= x[1]
      BY <1>8, <2>2, <3>1
    <3>3. f < N => x[2] <= F[f + 1][1]
      BY <1>3, <2>2
    <3>4. x[1] < x[2]
      BY <1>1, <2>1, <2>2
    <3>5. (a + 1)..f = {f}
      BY <3>1
    <3> HIDE DEF a, s, t
    <3>6. \A p \in Int : Within(x, p) <=> Within(sec, p) \/ \E i \in (a + 1)..f : Within(F[i], p)
      BY <2>5, <3>5
    <3>7. x[1] = F[a + 1][1]
      BY <2>2, <3>1
    <3>8. FillsIn(x, F, sec, a, f)
      BY <3>1, <3>2, <3>3, <3>4, <3>6, <3>7 DEF FillsIn, N
    <3> QED BY <3>8 DEF a
  <2> QED BY <2>2, <2>4, <2>6, FillingBridges, SpliceJoins
<1>12. CASE ~touches /\ ~(t < F[q][1])
  <2>0. t = F[q][1]
    BY <1>1, <1>3, <1>12
  <2> DEFINE x == <<s, F[q][2]>>
  <2>1. x[1] = s /\ x[2] = F[q][2] /\ x \in Section
    <3>1. s <= F[q][2]
      BY <1>1, <1>3
    <3> HIDE DEF q, s
    <3> QED BY <1>1, <3>1, PairIsSection
  <2>2. R = SubSeq([F EXCEPT ![q] = x], 1, N)
    <3>1. R = Contents([Full(F) EXCEPT !.mem[q] = <<sec[1], @[2]>>])
      BY <1>6, <1>12
    <3> HIDE DEF q
    <3>2. R = SubSeq([F EXCEPT ![q] = <<sec[1], @[2]>>], 1, N)
      BY <3>1 DEF Full, Contents
    <3> QED BY <1>1, <3>2
  <2> HIDE DEF x
  <2>3. Spliced(R, F, q - 1, q, x)
    <3> HIDE DEF q
    <3> QED BY <1>1, <2>1, <2>2, ReplacedSlot
  <2>4. \A p \in Int : Within(x, p) <=> Within(sec, p) \/ Within(F[q], p)
    <3> HIDE DEF q, s, t
    <3> QED BY <1>1, <1>3, <2>0, <2>1 DEF Within, s, t
  <2>5. FillsIn(x, F, sec, f, q)
    <3>1. f > 0 => F[f][2] <= x[1]
      BY <1>7, <2>1
    <3>2. (f + 1)..q = {q}
      BY <1>1
    <3>3. q < N => x[2] <= F[q + 1][1]
      BY <1>9, <2>1
    <3> HIDE DEF q
    <3>4. x[1] < x[2] /\ f < q /\ q <= N
      BY <1>1, <1>3, <2>1
    <3>5. \A p \in Int : Within(x, p) <=> Within(sec, p) \/ \E i \in (f + 1)..q : Within(F[i], p)
      BY <2>4, <3>2
    <3> QED BY <1>1, <2>1, <3>1, <3>3, <3>4, <3>5 DEF FillsIn
  <2>6. q - 1 = f
    BY <1>1
  <2> QED BY <2>1, <2>3, <2>5, <2>6, FillingBridges, SpliceJoins
<1>13. CASE touches /\ ~(t < F[q][1])
  <2>0. t = F[q][1]
    BY <1>1, <1>3, <1>13
  <2> DEFINE x == <<F[f][1], F[q][2]>>
  <2>1. /\ f \in 1..N /\ F[f][1] \in Int /\ F[f][1] < F[f][2] /\ F[f][2] = s
        /\ f - 1 \in Nat /\ (f - 1) + 1 = f /\ f \in 1..(N - 1)
    BY <1>1, <1>7, <1>13
  <2>2. x[1] = F[f][1] /\ x[2] = F[q][2] /\ x \in Section
    <3> HIDE DEF q, s, t, x
    <3>3. F[f][1] < s
      BY <2>1
    <3>4. s < F[q][2]
      BY <1>1, <1>3
    <3>5. F[f][1] \in Int /\ F[q][2] \in Int /\ s \in Int
      BY <1>1, <2>1
    <3>1. F[f][1] <= F[q][2]
      <4> DEFINE a == F[f][1]
                 d == F[q][2]
      <4>1. a \in Int /\ d \in Int /\ s \in Int /\ a < s /\ s < d
        BY <3>3, <3>4, <3>5
      <4> HIDE DEF a, d
      <4>2. a <= d
        BY <4>1
      <4> QED BY <4>2 DEF a, d
    <3> USE DEF x
    <3> QED BY <3>1, <3>5, PairIsSection
  <2>3. Spliced(R, F, f - 1, f + 1, x)
    <3>1. R = Contents(EraseAt([Full(F) EXCEPT !.mem = [F EXCEPT ![f] = <<@[1], F[q][2]>>]], f))
      BY <1>6, <1>13
    <3>2. [F EXCEPT ![f] = <<@[1], F[q][2]>>] = [F EXCEPT ![f] = x]
      OBVIOUS
    <3>3. R = Contents(EraseAt([Full(F) EXCEPT !.mem = [F EXCEPT ![f] = x]], f))
      BY <3>1, <3>2
    <3> HIDE DEF x
    <3> QED BY <2>1, <2>2, <3>3, WidenedThenErased
  <2> HIDE DEF x
  <2>4. \A p \in Int : Within(x, p) <=> Within(sec, p) \/ Within(F[f], p) \/ Within(F[q], p)
    <3> HIDE DEF q, s, t
    <3> QED BY <1>1, <1>3, <2>0, <2>1, <2>2 DEF Within, s, t
  <2>5. FillsIn(x, F, sec, f - 1, q)
    <3> DEFINE a == f - 1
    <3>1. a \in Nat /\ q \in Nat /\ a < q /\ q <= N /\ a + 1 = f /\ (a > 0 => f > 1)
      BY <1>1, <2>1
    <3>2. a > 0 => F[a][2] <= x[1]
      BY <1>8, <2>2, <3>1
    <3>3. q < N => x[2] <= F[q + 1][1]
      BY <1>9, <2>2
    <3>4. x[1] < x[2]
      BY <1>1, <1>3, <2>1, <2>2
    <3>5. (a + 1)..q = {f, q}
      BY <1>1, <3>1
    <3> HIDE DEF a, s, t, q
    <3>6. \A p \in Int : Within(x, p) <=> Within(sec, p) \/ \E i \in (a + 1)..q : Within(F[i], p)
      BY <2>4, <3>5
    <3>7. x[1] = F[a + 1][1]
      BY <2>2, <3>1
    <3>8. FillsIn(x, F, sec, a, q)
      BY <3>1, <3>2, <3>3, <3>4, <3>6, <3>7 DEF FillsIn, N
    <3> QED BY <3>8 DEF a
  <2> QED BY <1>1, <2>2, <2>3, <2>5, FillingBridges, SpliceJoins
<1> QED BY <1>10, <1>11, <1>12, <1>13

\* secCont::addSection on sections that are apart: when none of them begins
\* inside the new one, nothing is forgotten either, and the sections stay apart.
THEOREM AddSectionJoins ==
  ASSUME NEW F \in Seq(Section), Disjoint(F), NEW sec \in Section, ~BeginsInside(F, sec)
  PROVE  Joined(F, sec, addSection(F, sec))
<1> DEFINE f == FirstBeyond(F, sec[1])
           g == FirstBeyond(F, sec[2])
<1>1. sec[1] \in Int /\ sec[2] \in Int /\ sec[1] <= sec[2]
  BY SectionBounds
<1>2. FoundBeyond(F, sec[1], f) /\ FoundBeyond(F, sec[2], g)
  BY <1>1, FirstBeyondIs
<1>3. addSection(F, sec) =
        CASE f = -1 -> Append(F, sec)
          [] f # -1 /\ sec[1] < F[f + 1][1] -> AddBefore(F, sec, f, g)
          [] OTHER -> AddInside(F, sec, f, g)
  BY DEF addSection
<1> HIDE DEF f, g
<1>4. CASE f = -1
  <2> DEFINE N == Len(F)
             R == Append(F, sec)
  <2>1. addSection(F, sec) = R
    BY <1>3, <1>4
  <2>2. \A i \in 1..N : F[i][2] <= sec[1]
    BY <1>2, <1>4 DEF FoundBeyond
  <2>3. /\ R \in Seq(Section) /\ N \in Nat /\ Len(R) = N + 1
        /\ \A j \in 1..(N + 1) : R[j] = IF j <= N THEN F[j] ELSE sec
    OBVIOUS
  <2> HIDE DEF R
  <2>4. Spliced(R, F, N, N, sec)
    <3>1. \A j \in 1..Len(R) : (j <= N /\ R[j] = F[j]) \/ (j = N + 1 /\ R[j] = sec)
      BY <2>3
    <3>2. N + 1 = N + 1 + (N - N) /\ N <= N
      BY <2>3
    <3> QED BY <2>3, <3>1, <3>2 DEF Spliced
  <2>5. Bridges(sec, F, sec, N, N)
    <3>1. (N + 1)..N = {} /\ \A i \in 1..N : ~(N < i)
      BY <2>3
    <3>2. \A p \in Int : Within(sec, p) <=> Within(sec, p) \/ \E i \in (N + 1)..N : Within(F[i], p)
      BY <3>1
    <3> QED BY <2>2, <3>1, <3>2 DEF Bridges
  <2> QED BY <2>1, <2>4, <2>5, SpliceJoins
<1>5. CASE f # -1
  <2>1. f \in 0..(Len(F) - 1) /\ f + 1 \in 1..Len(F) /\ F[f + 1][1] \in Int
    BY <1>2, <1>5, SectionBounds DEF FoundBeyond
  <2>2. CASE sec[1] < F[f + 1][1]
    BY <1>2, <1>3, <1>5, <2>1, <2>2, AddBeforeJoins
  <2>3. CASE ~(sec[1] < F[f + 1][1])
    <3>1. F[f + 1][1] <= sec[1]
      BY <1>1, <2>1, <2>3
    <3> QED BY <1>2, <1>3, <1>5, <2>1, <2>3, <3>1, AddInsideJoins
  <2> QED BY <2>2, <2>3
<1> QED BY <1>4, <1>5
=============================================================================
