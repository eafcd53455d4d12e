--------------------------- MODULE QueueProofs ---------------------------
(***************************************************************************)
(* The two queues: what holds of RetryQueue for any submissions, pages,    *)
(* sites and bounds, and, at the end, of TaskQueue for any tasks.          *)
(***************************************************************************)
EXTENDS RetryQueue, TaskQueue, Integers, FiniteSetTheorems, WellFoundedInduction, TLAPS

(***************************************************************************)
(* Induction over the naturals, for sets: the provers cannot instantiate   *)
(* the predicate of NatInduction.                                          *)
(***************************************************************************)
\* A set of naturals that is not empty has a least member.
LEMMA Minimum ==
  ASSUME NEW S \in SUBSET Nat, S # {}
  PROVE  \E n \in S : \A m \in S : n <= m
<1> DEFINE R == OpToRel(<, Nat)
<1>1. \A x, y \in Nat : <<x, y>> \in R <=> x < y
  BY DEF OpToRel
<1>2. IsWellFoundedOn(R, Nat)
  BY NatLessThanWellFounded
<1> HIDE DEF R
<1>3. PICK n \in S : \A m \in S : ~(<<m, n>> \in R)
  BY <1>2, WFMin
<1>4. \A m \in S : ~(m < n)
  BY <1>1, <1>3
<1>5. QED BY <1>4

\* A set with 0, and with the successor of each member up to a bound, holds
\* everything up to the bound.
LEMMA Induction ==
  ASSUME NEW N \in Nat, NEW A, 0 \in A, \A n \in 0..(N - 1) : n \in A => n + 1 \in A
  PROVE  0..N \subseteq A
<1>1. SUFFICES ASSUME (0..N) \ A # {} PROVE FALSE
  OBVIOUS
<1> DEFINE B == (0..N) \ A
<1>a. B \in SUBSET Nat /\ B # {}
  BY <1>1
<1> HIDE DEF B
<1>2. PICK n \in B : \A m \in B : n <= m
  BY <1>a, Minimum
<1> USE DEF B
<1>3. n - 1 \in 0..(N - 1) /\ n - 1 \notin (0..N) \ A
  BY <1>2
<1>4. QED BY <1>2, <1>3

(***************************************************************************)
(* Filter.                                                                 *)
(***************************************************************************)
\* The parts of a filtered sequence, as Filter defines them.
Parts(q, S, f) ==
  f = [n \in 0..Len(q) |-> IF n = 0 THEN <<>> ELSE IF q[n] \in S THEN Append(f[n - 1], q[n]) ELSE f[n - 1]]

\* There are such parts.
LEMMA PartsExist ==
  ASSUME NEW q, Len(q) \in Nat, NEW S
  PROVE  \E f : Parts(q, S, f)
<1> DEFINE Upto(N, f) ==
             f = [n \in 0..N |-> IF n = 0 THEN <<>> ELSE IF q[n] \in S THEN Append(f[n - 1], q[n]) ELSE f[n - 1]]
           A == {N \in Nat : \E f : Upto(N, f)}
<1>1. 0 \in A
  <2>1. Upto(0, [n \in 0..0 |-> <<>>])
    OBVIOUS
  <2>2. QED BY <2>1
<1>2. ASSUME NEW N \in 0..(Len(q) - 1), N \in A PROVE N + 1 \in A
  <2>1. PICK f : Upto(N, f)
    BY <1>2
  <2> DEFINE last == IF q[N + 1] \in S THEN Append(f[N], q[N + 1]) ELSE f[N]
             g == [n \in 0..(N + 1) |-> IF n = N + 1 THEN last ELSE f[n]]
  <2> HIDE DEF last
  <2>2. \A n \in 0..N : g[n] = f[n]
    OBVIOUS
  <2>3. g[N + 1] = IF q[N + 1] \in S THEN Append(g[N], q[N + 1]) ELSE g[N]
    BY DEF last
  <2>4. \A n \in 0..N : f[n] = IF n = 0 THEN <<>> ELSE IF q[n] \in S THEN Append(f[n - 1], q[n]) ELSE f[n - 1]
    BY <2>1
  <2>5. \A n \in 0..(N + 1) : g[n] = IF n = 0 THEN <<>> ELSE IF q[n] \in S THEN Append(g[n - 1], q[n]) ELSE g[n - 1]
    <3> TAKE n \in 0..(N + 1)
    <3>1. CASE n = N + 1
      <4>1. n # 0 /\ n - 1 = N
        BY <3>1
      <4> HIDE DEF g
      <4>2. QED BY <2>3, <3>1, <4>1
    <3>2. CASE n \in 0..N
      <4>1. n # 0 => n - 1 \in 0..N
        BY <3>2
      <4>2. QED BY <2>2, <2>4, <3>2, <4>1
    <3>3. QED BY <3>1, <3>2
  <2>6. g = [n \in 0..(N + 1) |-> g[n]]
    OBVIOUS
  <2> HIDE DEF g
  <2>7. Upto(N + 1, g)
    BY <2>5, <2>6
  <2>8. N + 1 \in Nat
    OBVIOUS
  <2> HIDE DEF Upto
  <2>9. QED BY <2>7, <2>8
<1>3. Len(q) \in A
  <2> HIDE DEF A
  <2>1. 0..Len(q) \subseteq A
    BY <1>1, <1>2, Induction
  <2>2. QED BY <2>1
<1>4. QED BY <1>3 DEF Parts

\* p is the part of q that is in S: g tells where each entry comes from.
Selection(q, S, p, g) ==
  /\ g \in [1..Len(p) -> 1..Len(q)]
  /\ \A m, n \in 1..Len(p) : m < n => g[m] < g[n]
  /\ \A n \in 1..Len(p) : p[n] = q[g[n]] /\ q[g[n]] \in S
  /\ \A n \in 1..Len(q) : q[n] \in S => \E m \in 1..Len(p) : g[m] = n

\* What Filter computes.
LEMMA FilterSelects ==
  ASSUME NEW E, NEW q \in Seq(E), NEW S
  PROVE  Filter(q, S) \in Seq(E) /\ \E g : Selection(q, S, Filter(q, S), g)
<1>1. PICK f : Parts(q, S, f) /\ Filter(q, S) = f[Len(q)]
  <2> DEFINE c == CHOOSE f : Parts(q, S, f)
  <2>1. Parts(q, S, c)
    BY PartsExist
  <2>2. Filter(q, S) = c[Len(q)]
    BY DEF Filter, Parts
  <2> HIDE DEF c
  <2>3. QED BY <2>1, <2>2
<1>2. /\ f[0] = <<>>
      /\ \A n \in 0..(Len(q) - 1) : f[n + 1] = IF q[n + 1] \in S THEN Append(f[n], q[n + 1]) ELSE f[n]
  <2>1. Len(q) \in Nat
    OBVIOUS
  <2>2. \A n \in 0..Len(q) :
          f[n] = IF n = 0 THEN <<>> ELSE IF q[n] \in S THEN Append(f[n - 1], q[n]) ELSE f[n - 1]
    BY <1>1 DEF Parts
  <2>3. f[0] = <<>>
    BY <2>1, <2>2
  <2>4. ASSUME NEW n \in 0..(Len(q) - 1)
        PROVE  f[n + 1] = IF q[n + 1] \in S THEN Append(f[n], q[n + 1]) ELSE f[n]
    <3>1. n + 1 \in 0..Len(q) /\ n + 1 # 0 /\ (n + 1) - 1 = n
      BY <2>1
    <3>2. QED BY <2>2, <3>1
  <2>5. QED BY <2>3, <2>4
<1> DEFINE Upto(N, g) ==
             /\ f[N] \in Seq(E)
             /\ g \in [1..Len(f[N]) -> 1..N]
             /\ \A m, n \in 1..Len(f[N]) : m < n => g[m] < g[n]
             /\ \A n \in 1..Len(f[N]) : f[N][n] = q[g[n]] /\ q[g[n]] \in S
             /\ \A n \in 1..N : q[n] \in S => \E m \in 1..Len(f[N]) : g[m] = n
           A == {N \in 0..Len(q) : \E g : Upto(N, g)}
<1>3. 0 \in A
  <2>1. Upto(0, [n \in 1..0 |-> 0])
    BY <1>2
  <2>2. QED BY <2>1
<1>4. ASSUME NEW N \in 0..(Len(q) - 1), N \in A PROVE N + 1 \in A
  <2>1. PICK g : Upto(N, g)
    BY <1>4
  <2>2. CASE q[N + 1] \notin S
    <3>1. f[N + 1] = f[N]
      BY <1>2, <2>2
    <3>2. \A n \in 1..(N + 1) : n \in 1..N \/ n = N + 1
      OBVIOUS
    <3>3. Upto(N + 1, g)
      BY <2>1, <2>2, <3>1, <3>2
    <3>4. N + 1 \in 0..Len(q)
      OBVIOUS
    <3> HIDE DEF Upto
    <3>5. QED BY <3>3, <3>4
  <2>3. CASE q[N + 1] \in S
    <3> DEFINE l == Len(f[N])
               h == [n \in 1..(l + 1) |-> IF n = l + 1 THEN N + 1 ELSE g[n]]
    <3>a. N + 1 \in 1..Len(q)
      OBVIOUS
    <3>b. q[N + 1] \in E /\ f[N] \in Seq(E)
      BY <2>1, <3>a
    <3>1. /\ f[N + 1] = Append(f[N], q[N + 1]) /\ q[N + 1] \in E /\ f[N] \in Seq(E)
      BY <1>2, <2>3, <3>b
    <3>2. /\ l \in Nat /\ f[N + 1] \in Seq(E) /\ Len(f[N + 1]) = l + 1 /\ f[N + 1][l + 1] = q[N + 1]
          /\ \A n \in 1..l : f[N + 1][n] = f[N][n]
      BY <3>1
    <3>3. \A n \in 1..l : g[n] \in 1..N
      BY <2>1
    <3>4. h[l + 1] = N + 1 /\ \A n \in 1..l : h[n] = g[n]
      BY <3>2
    <3>5. h \in [1..(l + 1) -> 1..(N + 1)]
      BY <3>2, <3>3
    <3>6. \A m, n \in 1..(l + 1) : m < n => h[m] < h[n]
      <4> SUFFICES ASSUME NEW m \in 1..(l + 1), NEW n \in 1..(l + 1), m < n PROVE h[m] < h[n]
        OBVIOUS
      <4>1. m \in 1..l
        BY <3>2
      <4>2. CASE n = l + 1
        BY <3>3, <3>4, <4>1, <4>2
      <4>3. CASE n \in 1..l
        BY <2>1, <3>4, <4>1, <4>3
      <4>4. QED BY <3>2, <4>2, <4>3
    <3>7. \A n \in 1..(l + 1) : f[N + 1][n] = q[h[n]] /\ q[h[n]] \in S
      BY <2>1, <2>3, <3>2, <3>4
    <3> HIDE DEF h, l
    <3>8. ASSUME NEW n \in 1..(N + 1), q[n] \in S PROVE \E m \in 1..(l + 1) : h[m] = n
      <4>1. CASE n = N + 1
        <5>1. l + 1 \in 1..(l + 1)
          BY <3>2
        <5>2. QED BY <3>4, <4>1, <5>1
      <4>2. CASE n \in 1..N
        <5>1. PICK m \in 1..l : g[m] = n
          BY <2>1, <3>8, <4>2 DEF l
        <5>2. m \in 1..(l + 1) /\ h[m] = n
          BY <3>2, <3>4, <5>1
        <5>3. QED BY <5>2
      <4>3. QED BY <4>1, <4>2
    <3>9. Upto(N + 1, h)
      BY <3>2, <3>5, <3>6, <3>7, <3>8
    <3>10. N + 1 \in 0..Len(q)
      OBVIOUS
    <3> HIDE DEF Upto
    <3>11. QED BY <3>9, <3>10
  <2>4. QED BY <2>2, <2>3
<1>5. Len(q) \in A
  <2> HIDE DEF A
  <2>1. Len(q) \in Nat
    OBVIOUS
  <2>2. 0..Len(q) \subseteq A
    BY <1>3, <1>4, <2>1, Induction
  <2>3. QED BY <2>1, <2>2
<1>6. PICK g : Upto(Len(q), g)
  BY <1>5
<1>7. Selection(q, S, Filter(q, S), g)
  BY <1>1, <1>6 DEF Selection
<1>8. QED BY <1>1, <1>6, <1>7


(***************************************************************************)
(* Queues of entries, one per submission.                                  *)
(***************************************************************************)
\* No submission has two entries in q.
Distinct(q) == \A m, n \in 1..Len(q) : q[m].id = q[n].id => m = n

\* The entries of p are entries of q.
Within(p, q) == \A n \in 1..Len(p) : \E m \in 1..Len(q) : p[n] = q[m]

\* A queue with one entry per submission is as long as it has submissions.
LEMMA DistinctLength ==
  ASSUME NEW q, Len(q) \in Nat, Distinct(q)
  PROVE  IsFiniteSet(Ids(q)) /\ Len(q) = Cardinality(Ids(q))
<1> DEFINE f == [n \in 1..Len(q) |-> q[n].id]
<1>1. f \in Bijection(1..Len(q), Ids(q))
  <2>1. f \in [1..Len(q) -> Ids(q)]
    BY DEF Ids
  <2>2. \A m, n \in 1..Len(q) : f[m] = f[n] => m = n
    BY DEF Distinct
  <2>3. \A i \in Ids(q) : \E n \in 1..Len(q) : f[n] = i
    BY DEF Ids
  <2> HIDE DEF f
  <2>4. QED BY <2>1, <2>2, <2>3 DEF Bijection, Injection, Surjection, IsInjective
<1>2. ExistsBijection(1..Len(q), Ids(q))
  BY <1>1 DEF ExistsBijection
<1>3. IsFiniteSet(1..Len(q)) /\ Cardinality(1..Len(q)) = Len(q)
  <2>1. Len(q) \in Nat /\ Len(q) \in Int /\ 1 \in Int
    OBVIOUS
  <2>2. /\ IsFiniteSet(1..Len(q))
        /\ Cardinality(1..Len(q)) = IF 1 > Len(q) THEN 0 ELSE Len(q) - 1 + 1
    BY <2>1, FS_Interval
  <2>3. QED BY <2>1, <2>2
<1>4. QED BY <1>2, <1>3, FS_Bijection

\* A queue with one entry per submission, of the submissions of another, is no longer.
LEMMA NoLonger ==
  ASSUME NEW p, NEW q, Len(p) \in Nat, Len(q) \in Nat, Distinct(p), Distinct(q), Ids(p) \subseteq Ids(q)
  PROVE  Len(p) <= Len(q)
<1>1. Len(p) = Cardinality(Ids(p)) /\ Len(q) = Cardinality(Ids(q)) /\ IsFiniteSet(Ids(q))
  BY DistinctLength
<1>2. Cardinality(Ids(p)) <= Cardinality(Ids(q))
  BY <1>1, FS_Subset
<1>3. QED BY <1>1, <1>2

\* What Filter keeps, and in which order.
LEMMA FilterFacts ==
  ASSUME NEW E, NEW q \in Seq(E), NEW S
  PROVE  /\ Filter(q, S) \in Seq(E)
         /\ Within(Filter(q, S), q)
         /\ \A n \in 1..Len(Filter(q, S)) : Filter(q, S)[n] \in S
         /\ \A n \in 1..Len(q) : q[n] \in S => \E m \in 1..Len(Filter(q, S)) : Filter(q, S)[m] = q[n]
         /\ Distinct(q) => Distinct(Filter(q, S))
<1> DEFINE p == Filter(q, S)
<1>1. p \in Seq(E) /\ \E g : Selection(q, S, p, g)
  BY FilterSelects
<1> HIDE DEF p
<1>2. PICK g : Selection(q, S, p, g)
  BY <1>1
<1>3. /\ g \in [1..Len(p) -> 1..Len(q)]
      /\ \A m, n \in 1..Len(p) : m < n => g[m] < g[n]
      /\ \A n \in 1..Len(p) : p[n] = q[g[n]] /\ q[g[n]] \in S
      /\ \A n \in 1..Len(q) : q[n] \in S => \E m \in 1..Len(p) : g[m] = n
  BY <1>2 DEF Selection
<1>4. Within(p, q)
  BY <1>3 DEF Within
<1>5. \A n \in 1..Len(p) : p[n] \in S
  BY <1>3
<1>6. \A n \in 1..Len(q) : q[n] \in S => \E m \in 1..Len(p) : p[m] = q[n]
  BY <1>3
<1>7. ASSUME Distinct(q) PROVE Distinct(p)
  <2> SUFFICES ASSUME NEW m \in 1..Len(p), NEW n \in 1..Len(p), p[m].id = p[n].id PROVE m = n
    BY DEF Distinct
  <2>1. g[m] = g[n]
    BY <1>3, <1>7 DEF Distinct
  <2>2. Len(p) \in Nat
    BY <1>1
  <2>3. g[m] \in Nat /\ g[n] \in Nat
    BY <1>3
  <2>4. QED BY <1>3, <2>1, <2>2, <2>3
<1>8. QED BY <1>1, <1>4, <1>5, <1>6, <1>7 DEF p

\* The places of a selection keep the order of the queue.
LEMMA FilterOrder ==
  ASSUME NEW E, NEW q \in Seq(E), NEW S, Distinct(q),
         NEW m \in 1..Len(Filter(q, S)), NEW n \in 1..Len(Filter(q, S)),
         NEW k \in 1..Len(q), NEW l \in 1..Len(q), k < l,
         Filter(q, S)[m].id = q[k].id, Filter(q, S)[n].id = q[l].id
  PROVE  m < n
<1> DEFINE p == Filter(q, S)
<1>1. p \in Seq(E) /\ \E g : Selection(q, S, p, g)
  BY FilterSelects
<1>2. m \in 1..Len(p) /\ n \in 1..Len(p) /\ p[m].id = q[k].id /\ p[n].id = q[l].id
  OBVIOUS
<1> HIDE DEF p
<1>3. PICK g : Selection(q, S, p, g)
  BY <1>1
<1>4. g[m] = k /\ g[n] = l
  <2>1. g[m] \in 1..Len(q) /\ g[n] \in 1..Len(q) /\ p[m] = q[g[m]] /\ p[n] = q[g[n]]
    BY <1>2, <1>3 DEF Selection
  <2>2. q[g[m]].id = q[k].id /\ q[g[n]].id = q[l].id
    BY <1>2, <2>1
  <2>3. QED BY <2>1, <2>2 DEF Distinct
<1>5. Len(p) \in Nat
  BY <1>1
<1>6. QED BY <1>2, <1>3, <1>4, <1>5 DEF Selection

\* r is q without its first k entries, and without the screenshots of its first j
\* entries: no entry goes while one has a screenshot.
Shorn(q, r, k, j) ==
  /\ k \in 0..(Len(q) - 1) /\ j \in 0..Len(q) /\ (k > 0 => j = Len(q))
  /\ Len(r) = Len(q) - k
  /\ \A n \in 1..Len(r) : /\ r[n].id = q[n + k].id
                          /\ r[n].version = q[n + k].version
                          /\ r[n].shot <=> q[n + k].shot /\ n + k > j

\* Strip and Evict.
LEMMA StripFacts ==
  ASSUME NEW q \in Seq(Entry), NEW j
  PROVE  /\ Strip(q, j) \in Seq(Entry) /\ Len(Strip(q, j)) = Len(q)
         /\ \A n \in 1..Len(q) : /\ Strip(q, j)[n].id = q[n].id
                                 /\ Strip(q, j)[n].version = q[n].version
                                 /\ Strip(q, j)[n].shot <=> q[n].shot /\ n > j
<1> DEFINE s == Strip(q, j)
<1>1. s = [m \in 1..Len(q) |-> [q[m] EXCEPT !.shot = @ /\ m > j]]
  BY DEF Strip
<1>2. \A n \in 1..Len(q) : q[n] \in Entry
  OBVIOUS
<1>3. \A n \in 1..Len(q) : s[n] = [q[n] EXCEPT !.shot = @ /\ n > j]
  BY <1>1
<1>4. ASSUME NEW n \in 1..Len(q)
      PROVE  /\ s[n] \in Entry /\ s[n].id = q[n].id /\ s[n].version = q[n].version
             /\ s[n].shot <=> q[n].shot /\ n > j
  <2> DEFINE b == n > j
  <2>1. s[n] = [q[n] EXCEPT !.shot = @ /\ b]
    BY <1>3
  <2>2. b \in BOOLEAN
    OBVIOUS
  <2> HIDE DEF b, s
  <2>3. QED BY <1>2, <2>1, <2>2 DEF Entry, b
<1>5. DOMAIN s = 1..Len(q) /\ Len(q) \in Nat
  BY <1>1
<1>6. s \in [1..Len(q) -> Entry]
  BY <1>1, <1>4
<1> HIDE DEF s
<1>7. s \in Seq(Entry) /\ Len(s) = Len(q)
  BY <1>5, <1>6
<1>8. QED BY <1>4, <1>7 DEF s

\* What Shed writes: nothing, or a shorn queue.
LEMMA ShedForm ==
  ASSUME NEW q \in Seq(Entry), Len(q) > 0, NEW space
  PROVE  /\ Shed(q, space) \in Seq(Entry)
         /\ Shed(q, space) # <<>> => \E k \in 0..(Len(q) - 1), j \in 0..Len(q) : Shorn(q, Shed(q, space), k, j)
<1> DEFINE L == Len(q)
           Strips == {n \in 0..L : Size(Strip(q, n)) <= space}
           Evicts == {n \in 0..(L - 1) : Size(Evict(Strip(q, L), n)) <= space}
           Least(S) == CHOOSE n \in S : \A m \in S : n <= m
           r == Shed(q, space)
<1>1. r = IF Strips # {} THEN Strip(q, Least(Strips))
          ELSE IF Evicts # {} THEN Evict(Strip(q, L), Least(Evicts)) ELSE <<>>
  BY DEF Shed
<1>2. L \in Nat /\ L > 0
  OBVIOUS
<1>3. Strips \in SUBSET (0..L) /\ Evicts \in SUBSET (0..(L - 1))
  OBVIOUS
<1>4. ASSUME NEW S \in SUBSET Nat, S # {} PROVE Least(S) \in S
  <2>1. \E n \in S : \A m \in S : n <= m
    BY <1>4, Minimum
  <2>2. QED BY <2>1
<1> HIDE DEF Strips, Evicts, Least, r
<1>5. CASE Strips # {}
  <2> DEFINE j == Least(Strips)
  <2>a. Strips \in SUBSET Nat
    BY <1>3
  <2>1. j \in 0..L
    BY <1>3, <1>4, <1>5, <2>a
  <2> HIDE DEF j
  <2>2. r = Strip(q, j)
    BY <1>1, <1>5 DEF j
  <2>3. r \in Seq(Entry) /\ Shorn(q, r, 0, j)
    BY <1>2, <2>1, <2>2, StripFacts DEF Shorn
  <2>4. 0 \in 0..(L - 1)
    BY <1>2
  <2>5. QED BY <2>1, <2>3, <2>4 DEF r
<1>6. CASE Strips = {} /\ Evicts # {}
  <2> DEFINE k == Least(Evicts)
             s == Strip(q, L)
  <2>a. Evicts \in SUBSET Nat
    BY <1>3
  <2>1. k \in 0..(L - 1)
    BY <1>3, <1>4, <1>6, <2>a
  <2>2. s \in Seq(Entry) /\ Len(s) = L
        /\ \A n \in 1..L : s[n].id = q[n].id /\ s[n].version = q[n].version /\ (s[n].shot <=> q[n].shot /\ n > L)
    BY StripFacts
  <2>3. r = SubSeq(s, k + 1, Len(s))
    BY <1>1, <1>6 DEF Evict
  <2> HIDE DEF k, s
  <2>4. r \in Seq(Entry) /\ Len(r) = L - k /\ \A n \in 1..Len(r) : r[n] = s[n + k]
    BY <1>2, <2>1, <2>2, <2>3
  <2>5. \A n \in 1..Len(r) : n + k \in 1..L
    BY <1>2, <2>1, <2>4
  <2>6. Shorn(q, r, k, L)
    BY <1>2, <2>1, <2>2, <2>4, <2>5 DEF Shorn
  <2>7. L \in 0..L
    BY <1>2
  <2>8. QED BY <2>1, <2>4, <2>6, <2>7 DEF r
<1>7. CASE Strips = {} /\ Evicts = {}
  <2>1. r = <<>>
    BY <1>1, <1>7
  <2>2. QED BY <2>1 DEF r
<1>8. QED BY <1>5, <1>6, <1>7


(***************************************************************************)
(* Types.                                                                  *)
(***************************************************************************)
\* What a submission sends has been sent a first time.
TypeInv ==
  /\ TypeOK
  /\ \A s \in Submission : sub[s] \in {"sending", "queueing", "unqueueing"} => version[s] # 0

\* The entry queued for a submission.
EntryOf(s) == [id |-> s, version |-> version[s], shot |-> s \in setting.screenshots]

\* What a setting holds.
LEMMA SettingType ==
  ASSUME setting \in Settings
  PROVE  /\ setting.pageOf \in [Submission -> Page]
         /\ setting.versions \in 1..MaxVersions
         /\ setting.retries \in Nat
         /\ setting.screenshots \subseteq Submission
         /\ MaxVersions \in Nat /\ MaxQueue \in Nat /\ MaxQueue > 0
<1>1. setting \in Setting
  BY RetryQueueAssumption
<1>2. MaxVersions \in Nat /\ MaxQueue \in Nat /\ MaxQueue > 0
  BY RetryQueueAssumption
<1>3. QED BY <1>1, <1>2 DEF Setting

\* The queue without a submission's entry.
LEMMA OthersFacts ==
  ASSUME NEW s, stored \in Seq(Entry)
  PROVE  /\ Others(s) \in Seq(Entry)
         /\ Within(Others(s), stored)
         /\ \A n \in 1..Len(Others(s)) : Others(s)[n].id # s
         /\ \A n \in 1..Len(stored) : stored[n].id # s => \E m \in 1..Len(Others(s)) : Others(s)[m] = stored[n]
         /\ Distinct(stored) => Distinct(Others(s))
<1> DEFINE S == {e \in Entry : e.id # s}
<1>1. Others(s) = Filter(stored, S)
  BY DEF Others
<1>2. \A n \in 1..Len(stored) : stored[n].id # s => stored[n] \in S
  OBVIOUS
<1>3. \A e \in S : e.id # s
  OBVIOUS
<1> HIDE DEF S
<1>4. /\ Others(s) \in Seq(Entry)
      /\ Within(Others(s), stored)
      /\ \A n \in 1..Len(Others(s)) : Others(s)[n] \in S
      /\ \A n \in 1..Len(stored) : stored[n] \in S => \E m \in 1..Len(Others(s)) : Others(s)[m] = stored[n]
      /\ Distinct(stored) => Distinct(Others(s))
  BY <1>1, FilterFacts
<1>5. QED BY <1>2, <1>3, <1>4

\* The queue a submission joins: d of the others go, and it comes last.
LEMMA EnqueuedForm ==
  ASSUME TypeInv, NEW s \in Submission, sub[s] = "queueing"
  PROVE  /\ Enqueued(s) \in Seq(Entry) /\ Len(Enqueued(s)) > 0
         /\ EntryOf(s) \in Entry
         /\ \E d \in 0..1 :
              /\ d = 1 <=> Len(Others(s)) >= MaxQueue
              /\ d <= Len(Others(s))
              /\ Len(Enqueued(s)) = Len(Others(s)) - d + 1
              /\ Enqueued(s)[Len(Enqueued(s))] = EntryOf(s)
              /\ \A n \in 1..(Len(Others(s)) - d) : Enqueued(s)[n] = Others(s)[n + d]
<1> DEFINE rest == Others(s)
           q == Enqueued(s)
           d == IF Len(rest) >= MaxQueue THEN 1 ELSE 0
           left == IF Len(rest) >= MaxQueue THEN Tail(rest) ELSE rest
<1>1. stored \in Seq(Entry) /\ setting \in Settings
  BY DEF TypeInv, TypeOK
<1>2. MaxQueue \in Nat /\ MaxQueue > 0 /\ MaxVersions \in Nat
  BY <1>1, SettingType
<1>3. EntryOf(s) \in Entry
  <2>1. version[s] \in 1..MaxVersions
    BY <1>2 DEF TypeInv, TypeOK
  <2>2. (s \in setting.screenshots) \in BOOLEAN
    OBVIOUS
  <2>3. QED BY <2>1, <2>2 DEF EntryOf, Entry
<1>4. rest \in Seq(Entry)
  BY <1>1, OthersFacts
<1>5. q = Append(left, EntryOf(s))
  BY DEF Enqueued, EntryOf
<1> HIDE DEF rest, q
<1>6. left \in Seq(Entry) /\ Len(left) = Len(rest) - d /\ d <= Len(rest)
      /\ \A n \in 1..Len(left) : left[n] = rest[n + d]
  <2>1. CASE Len(rest) >= MaxQueue
    <3>1. rest # <<>>
      BY <1>2, <1>4, <2>1
    <3>2. left = Tail(rest) /\ d = 1
      BY <2>1
    <3>3. QED BY <1>2, <1>4, <2>1, <3>1, <3>2
  <2>2. CASE ~(Len(rest) >= MaxQueue)
    <3>1. left = rest /\ d = 0
      BY <2>2
    <3>2. QED BY <1>4, <3>1
  <2>3. QED BY <2>1, <2>2
<1>7. d \in 0..1 /\ (d = 1 <=> Len(rest) >= MaxQueue)
  OBVIOUS
<1> HIDE DEF left, d
<1>8. /\ q \in Seq(Entry) /\ Len(q) = Len(rest) - d + 1
      /\ q[Len(q)] = EntryOf(s) /\ \A n \in 1..(Len(rest) - d) : q[n] = rest[n + d]
  BY <1>3, <1>4, <1>5, <1>6, <1>7
<1>9. Len(q) > 0
  BY <1>4, <1>6, <1>7, <1>8
<1>10. QED BY <1>3, <1>6, <1>7, <1>8, <1>9 DEF rest, q

\* Every step keeps TypeInv.
LEMMA TypeStep == TypeInv /\ [Next]_vars => TypeInv'
<1> SUFFICES ASSUME TypeInv, [Next]_vars PROVE TypeInv'
  OBVIOUS
<1>t. /\ TypeOK /\ setting \in Settings /\ stored \in Seq(Entry)
      /\ \A s \in Submission : sub[s] \in {"sending", "queueing", "unqueueing"} => version[s] \in 1..MaxVersions
  <2>1. TypeOK
    BY DEF TypeInv
  <2>2. MaxVersions \in Nat
    BY RetryQueueAssumption
  <2>3. ASSUME NEW s \in Submission, sub[s] \in {"sending", "queueing", "unqueueing"} PROVE version[s] \in 1..MaxVersions
    BY <2>1, <2>2, <2>3 DEF TypeInv, TypeOK
  <2>4. QED BY <2>1, <2>3 DEF TypeOK
<1>l. \A s, v : v \in 0..MaxVersions /\ Land(s, v) => landed' \in [Submission -> 0..MaxVersions]
  BY <1>t DEF Land, TypeOK
<1>n. ASSUME NEW s \in Submission, NEW v \in 1..MaxVersions, NoAnswer(s, v)
      PROVE  landed' \in [Submission -> 0..MaxVersions] /\ wire' \subseteq Submission \X (1..MaxVersions)
  <2>1. v \in 0..MaxVersions
    OBVIOUS
  <2>2. QED BY <1>t, <1>l, <1>n, <2>1 DEF NoAnswer, server, TypeOK
<1>1. ASSUME NEW s \in Submission, Submit(s) PROVE TypeInv'
  <2>1. version[s] + 1 \in 1..MaxVersions
    BY <1>t, <1>1, SettingType DEF Submit, TypeOK
  <2>2. version' = [version EXCEPT ![s] = version[s] + 1] /\ sub' = [sub EXCEPT ![s] = "sending"]
    BY <1>1 DEF Submit
  <2>3. setting.retries \in Nat
    BY <1>t, SettingType
  <2>4. TypeOK'
    <3>1. version' \in [Submission -> 0..MaxVersions] /\ sub'[s] = "sending"
      BY <1>t, <2>1, <2>2 DEF TypeOK
    <3>2. attempt' \in [Submission -> 0..setting.retries]
      BY <1>t, <1>1, <2>3 DEF Submit, TypeOK
    <3>3. QED BY <1>t, <1>1, <2>2, <3>1, <3>2 DEF Submit, TypeOK, flush, server
  <2>5. \A z \in Submission : (sub'[z] = sub[z] /\ version'[z] = version[z]) \/ version'[z] = version[s] + 1
    BY <1>t, <2>2 DEF TypeOK
  <2>6. version[s] + 1 # 0
    BY <2>1
  <2>7. QED BY <2>4, <2>5, <2>6 DEF TypeInv
<1>2. ASSUME NEW s \in Submission, Attempt(s) PROVE TypeInv'
  <2>1. version[s] \in 1..MaxVersions /\ sub[s] = "sending"
    BY <1>t, <1>2 DEF Attempt
  <2>2. landed' \in [Submission -> 0..MaxVersions] /\ wire' \subseteq Submission \X (1..MaxVersions)
    <3>1. CASE NoAnswer(s, version[s])
      BY <1>n, <2>1, <3>1
    <3>2. CASE Land(s, version[s]) /\ UNCHANGED wire
      <4>1. version[s] \in 0..MaxVersions
        BY <2>1
      <4>2. QED BY <1>t, <1>l, <3>2, <4>1 DEF TypeOK
    <3>3. CASE UNCHANGED server
      BY <1>t, <3>3 DEF server, TypeOK
    <3>4. QED BY <1>2, <3>1, <3>2, <3>3 DEF Attempt
  <2>3. attempt' \in [Submission -> 0..setting.retries]
    <3>1. setting.retries \in Nat
      BY <1>t, SettingType
    <3>2. CASE attempt' = attempt
      BY <1>t, <3>2 DEF TypeOK
    <3>3. CASE attempt[s] < setting.retries /\ attempt' = [attempt EXCEPT ![s] = @ + 1]
      <4>1. attempt[s] + 1 \in 0..setting.retries
        BY <1>t, <3>1, <3>3 DEF TypeOK
      <4>2. QED BY <1>t, <3>3, <4>1 DEF TypeOK
    <3>4. QED BY <1>2, <3>2, <3>3 DEF Attempt
  <2>4. /\ sub' \in [Submission -> {"draft", "sending", "queueing", "saved", "unsaved", "unqueueing", "sent", "refused", "gone"}]
        /\ \A z \in Submission : sub'[z] # sub[z] => z = s
    BY <1>t, <1>2 DEF Attempt, TypeOK
  <2>5. UNCHANGED <<setting, stored, holder, page, todo, failed, kept, version, rejected>>
    BY <1>2 DEF Attempt, flush
  <2>6. TypeOK'
    BY <1>t, <2>2, <2>3, <2>4, <2>5 DEF TypeOK
  <2>7. QED BY <1>t, <2>1, <2>4, <2>5, <2>6 DEF TypeInv
<1>3. ASSUME NEW s \in Submission, QueueForRetry(s) PROVE TypeInv'
  <2>1. Enqueued(s) \in Seq(Entry) /\ Len(Enqueued(s)) > 0
    BY <1>3, EnqueuedForm DEF QueueForRetry
  <2>2. stored' \in Seq(Entry)
    BY <1>t, <1>3, <2>1, ShedForm DEF QueueForRetry
  <2>3. /\ sub' = [sub EXCEPT ![s] = "saved"] \/ sub' = [sub EXCEPT ![s] = "unsaved"]
        /\ rejected' \subseteq rejected
        /\ UNCHANGED <<setting, holder, page, todo, failed, kept, version, attempt, landed, wire>>
    BY <1>3 DEF QueueForRetry, flush, server
  <2>4. TypeOK'
    BY <1>t, <2>2, <2>3 DEF TypeOK
  <2>5. QED BY <1>t, <2>3, <2>4 DEF TypeInv, TypeOK
<1>4. ASSUME NEW s \in Submission, Unqueue(s) PROVE TypeInv'
  <2>1. stored' \in Seq(Entry)
    BY <1>t, <1>4, OthersFacts DEF Unqueue
  <2>2. /\ sub' = [sub EXCEPT ![s] = "sent"]
        /\ UNCHANGED <<setting, holder, page, todo, failed, kept, version, attempt, landed, wire, rejected>>
    BY <1>4 DEF Unqueue, flush, server
  <2>3. TypeOK'
    BY <1>t, <2>1, <2>2 DEF TypeOK
  <2>4. QED BY <1>t, <2>2, <2>3 DEF TypeInv, TypeOK
<1>5. ASSUME NEW p \in Page, Load(p) PROVE TypeInv'
  <2>1. /\ page' = [page EXCEPT ![p] = "loading"]
        /\ UNCHANGED <<setting, stored, holder, todo, failed, kept, sub, version, attempt, landed, wire, rejected>>
    BY <1>5 DEF Load, sending, server
  <2>2. QED BY <1>t, <2>1 DEF TypeInv, TypeOK
<1>6. ASSUME NEW p \in Page, StartFlush(p) PROVE TypeInv'
  <2>1. Elsewhere(p) \in Seq(Entry) /\ ToRetry(p) \in Seq(Entry)
    BY <1>t, FilterFacts DEF Elsewhere, ToRetry
  <2>2. <<>> \in Seq(Entry)
    OBVIOUS
  <2>3. /\ stored' \in Seq(Entry) /\ holder' \in Page \cup {None}
        /\ page' \in [Page -> {"closed", "loading", "headers", "replaying", "idle"}]
        /\ todo' \in [Page -> Seq(Entry)] /\ failed' \in [Page -> Seq(Entry)] /\ kept' \in [Page -> Seq(Entry)]
    BY <1>t, <1>6, <2>1, <2>2 DEF StartFlush, TypeOK
  <2>4. UNCHANGED <<setting, sub, version, attempt, landed, wire, rejected>>
    BY <1>6 DEF StartFlush, sending, server
  <2>5. QED BY <1>t, <2>3, <2>4 DEF TypeInv, TypeOK
<1>e. ASSUME NEW p \in Page, EndFlush(p)
      PROVE  /\ holder' \in Page \cup {None}
             /\ page' \in [Page -> {"closed", "loading", "headers", "replaying", "idle"}]
             /\ todo' \in [Page -> Seq(Entry)] /\ failed' \in [Page -> Seq(Entry)] /\ kept' \in [Page -> Seq(Entry)]
  <2>1. <<>> \in Seq(Entry)
    OBVIOUS
  <2>2. QED BY <1>t, <1>e, <2>1 DEF EndFlush, Release, TypeOK
<1>7. ASSUME NEW p \in Page, Headers(p) PROVE TypeInv'
  <2>1. UNCHANGED <<setting, stored, sub, version, attempt, landed, wire, rejected>>
    BY <1>7 DEF Headers, sending, server
  <2>2. CASE EndFlush(p)
    BY <1>t, <1>e, <2>1, <2>2 DEF TypeInv, TypeOK
  <2>3. CASE page' = [page EXCEPT ![p] = "replaying"] /\ UNCHANGED <<holder, todo, failed, kept>>
    BY <1>t, <2>1, <2>3 DEF TypeInv, TypeOK
  <2>4. QED BY <1>7, <2>2, <2>3 DEF Headers
<1>8. ASSUME NEW p \in Page, Replay(p) PROVE TypeInv'
  <2>1. todo[p] \in Seq(Entry) /\ todo[p] # <<>> /\ failed[p] \in Seq(Entry)
    BY <1>t, <1>8 DEF Replay, TypeOK
  <2>2. Head(todo[p]) \in Entry /\ Tail(todo[p]) \in Seq(Entry)
    BY <2>1
  <2> DEFINE e == Head(todo[p])
  <2>3. e.id \in Submission /\ e.version \in 1..MaxVersions /\ e.version \in 0..MaxVersions
    BY <2>2 DEF Entry
  <2>4. Append(failed[p], e) \in Seq(Entry)
    BY <2>1, <2>2
  <2>5. /\ todo' = [todo EXCEPT ![p] = Tail(todo[p])]
        /\ UNCHANGED <<setting, stored, holder, page, kept, sub, version, attempt>>
    BY <1>8 DEF Replay, sending
  <2>6. \/ Land(e.id, e.version) /\ UNCHANGED <<wire, failed, rejected>>
        \/ rejected' = rejected \cup {e.id} /\ UNCHANGED <<landed, wire, failed>>
        \/ NoAnswer(e.id, e.version) /\ failed' = [failed EXCEPT ![p] = Append(failed[p], e)] /\ UNCHANGED rejected
    BY <1>8 DEF Replay, server
  <2> HIDE DEF e
  <2>7. landed' \in [Submission -> 0..MaxVersions] /\ wire' \subseteq Submission \X (1..MaxVersions)
    BY <1>t, <1>l, <1>n, <2>3, <2>6 DEF TypeOK
  <2>8. failed' \in [Page -> Seq(Entry)] /\ rejected' \subseteq Submission
    BY <1>t, <2>3, <2>4, <2>6 DEF TypeOK
  <2>9. todo' \in [Page -> Seq(Entry)]
    BY <1>t, <2>2, <2>5 DEF TypeOK
  <2>10. QED BY <1>t, <2>5, <2>7, <2>8, <2>9 DEF TypeInv, TypeOK
<1>9. ASSUME NEW p \in Page, Rewrite(p) PROVE TypeInv'
  <2>1. UNCHANGED <<setting, sub, version, attempt, landed, wire, rejected>> /\ EndFlush(p)
    BY <1>9 DEF Rewrite, sending, server
  <2>2. kept[p] \in Seq(Entry) /\ failed[p] \in Seq(Entry)
    BY <1>t DEF TypeOK
  <2>3. kept[p] \o failed[p] \in Seq(Entry)
    BY <2>2
  <2>4. stored' \in Seq(Entry)
    BY <1>t, <1>9, <2>3 DEF Rewrite
  <2>5. QED BY <1>t, <1>e, <2>1, <2>4 DEF TypeInv, TypeOK
<1>10. ASSUME NEW p \in Page, Close(p) PROVE TypeInv'
  <2>1. <<>> \in Seq(Entry)
    OBVIOUS
  <2>2. /\ sub' = [s \in Submission |->
                     IF setting.pageOf[s] = p /\ sub[s] \in {"sending", "queueing", "unqueueing"} THEN "gone" ELSE sub[s]]
        /\ UNCHANGED <<setting, stored, version, attempt, landed, wire, rejected>>
    BY <1>10 DEF Close, server
  <2>3. sub' \in [Submission -> {"draft", "sending", "queueing", "saved", "unsaved", "unqueueing", "sent", "refused", "gone"}]
        /\ \A s \in Submission : sub'[s] \in {sub[s], "gone"}
    BY <1>t, <2>2 DEF TypeOK
  <2>4. /\ holder' \in Page \cup {None}
        /\ page' \in [Page -> {"closed", "loading", "headers", "replaying", "idle"}]
        /\ todo' \in [Page -> Seq(Entry)] /\ failed' \in [Page -> Seq(Entry)] /\ kept' \in [Page -> Seq(Entry)]
    BY <1>t, <1>10, <2>1 DEF Close, Release, TypeOK
  <2>5. TypeOK'
    BY <1>t, <2>2, <2>3, <2>4 DEF TypeOK
  <2>6. QED BY <1>t, <2>2, <2>3, <2>5 DEF TypeInv
<1>11. ASSUME NEW s \in Submission, NEW v \in 1..MaxVersions, Arrive(s, v) PROVE TypeInv'
  <2>1. v \in 0..MaxVersions
    OBVIOUS
  <2>2. landed' \in [Submission -> 0..MaxVersions] /\ wire' \subseteq wire
    BY <1>l, <1>11, <2>1 DEF Arrive
  <2>3. UNCHANGED <<setting, stored, holder, page, todo, failed, kept, sub, version, attempt, rejected>>
    BY <1>11 DEF Arrive, flush, sending
  <2>4. QED BY <1>t, <2>2, <2>3 DEF TypeInv, TypeOK
<1>12. CASE UNCHANGED vars
  BY <1>t, <1>12 DEF TypeInv, TypeOK, vars, flush, sending, server
<1>13. QED BY <1>1, <1>2, <1>3, <1>4, <1>5, <1>6, <1>7, <1>8, <1>9, <1>10, <1>11, <1>12 DEF Next, Send, Flush

\* Initial states have TypeInv.
LEMMA TypeInit == Init => TypeInv
<1> SUFFICES ASSUME Init PROVE TypeInv
  OBVIOUS
<1>1. setting \in Settings
  BY DEF Init
<1>2. setting.retries \in Nat /\ MaxVersions \in Nat
  BY <1>1, SettingType
<1>3. <<>> \in Seq(Entry)
  OBVIOUS
<1>4. TypeOK
  BY <1>2, <1>3 DEF Init, TypeOK
<1>5. QED BY <1>4 DEF Init, TypeInv

\* Every variable has its type, whatever the submissions, pages and sites.
THEOREM TypeCorrect == Spec => []TypeOK
<1>1. TypeInv => TypeOK
  BY DEF TypeInv
<1>2. QED BY <1>1, TypeInit, TypeStep, PTL DEF Spec


(***************************************************************************)
(* One entry per submission, and what is given up when room is short.      *)
(***************************************************************************)
\* What a flush of page p at setting c has set apart: kept for other endpoints,
\* still to replay and failed are queues without a submission in common.
Split(c, p, k, t, f) ==
  /\ Distinct(k) /\ Distinct(t) /\ Distinct(f)
  /\ \A n \in 1..Len(k) : c.endpointOf[k[n].id] # c.flushEndpoint[p]
  /\ \A n \in 1..Len(t) : c.endpointOf[t[n].id] = c.flushEndpoint[p]
  /\ \A n \in 1..Len(f) : c.endpointOf[f[n].id] = c.flushEndpoint[p]
  /\ \A m \in 1..Len(t), n \in 1..Len(f) : t[m].id # f[n].id

\* One entry per submission, in the queue and in what a flush has set apart.
OneEach ==
  /\ Distinct(stored)
  /\ \A p \in Page : Split(setting, p, kept[p], todo[p], failed[p])

\* Nothing has been set apart.
LEMMA SplitEmpty ==
  ASSUME NEW c, NEW p
  PROVE  Split(c, p, <<>>, <<>>, <<>>)
BY DEF Split, Distinct

\* Where the entries of a concatenation come from.
LEMMA Concatenated ==
  ASSUME NEW a \in Seq(Entry), NEW b \in Seq(Entry)
  PROVE  \A n \in 1..Len(a \o b) : \/ n \in 1..Len(a) /\ (a \o b)[n] = a[n]
                                   \/ n - Len(a) \in 1..Len(b) /\ (a \o b)[n] = b[n - Len(a)]
<1> DEFINE q == a \o b
<1>1. Len(a) \in Nat /\ Len(b) \in Nat /\ Len(q) = Len(a) + Len(b)
  OBVIOUS
<1>2. /\ \A n \in 1..Len(a) : q[n] = a[n]
      /\ \A n \in 1..Len(b) : q[n + Len(a)] = b[n]
  OBVIOUS
<1> HIDE DEF q
<1>3. ASSUME NEW n \in 1..Len(q) PROVE (n \in 1..Len(a) /\ q[n] = a[n]) \/ (n - Len(a) \in 1..Len(b) /\ q[n] = b[n - Len(a)])
  <2>1. CASE n > Len(a)
    <3>1. n - Len(a) \in 1..Len(b) /\ (n - Len(a)) + Len(a) = n
      BY <1>1, <2>1
    <3>2. QED BY <1>2, <3>1
  <2>2. QED BY <1>1, <1>2, <2>1
<1>4. QED BY <1>3 DEF q

\* The entries of a queue in two sequences that share no submission.
LEMMA Joined ==
  ASSUME NEW a \in Seq(Entry), NEW b \in Seq(Entry), Distinct(a), Distinct(b),
         \A m \in 1..Len(a), n \in 1..Len(b) : a[m].id # b[n].id
  PROVE  Distinct(a \o b) /\ Ids(a \o b) = Ids(a) \cup Ids(b)
<1> DEFINE q == a \o b
<1>1. Len(a) \in Nat /\ Len(b) \in Nat /\ q \in Seq(Entry) /\ Len(q) = Len(a) + Len(b)
  OBVIOUS
<1>2. /\ \A n \in 1..Len(a) : q[n] = a[n]
      /\ \A n \in 1..Len(b) : q[n + Len(a)] = b[n]
  OBVIOUS
<1> HIDE DEF q
<1>3. \A n \in 1..Len(q) : n \in 1..Len(a) \/ (n - Len(a) \in 1..Len(b) /\ q[n] = b[n - Len(a)])
  BY Concatenated DEF q
<1>4. Distinct(q)
  <2> SUFFICES ASSUME NEW m \in 1..Len(q), NEW n \in 1..Len(q), q[m].id = q[n].id PROVE m = n
    BY DEF Distinct
  <2>1. CASE m \in 1..Len(a) /\ n \in 1..Len(a)
    BY <1>2, <2>1 DEF Distinct
  <2>2. CASE n - Len(a) \in 1..Len(b) /\ q[n] = b[n - Len(a)] /\ m - Len(a) \in 1..Len(b) /\ q[m] = b[m - Len(a)]
    <3>1. m - Len(a) = n - Len(a)
      BY <2>2 DEF Distinct
    <3>2. QED BY <1>1, <3>1
  <2>3. QED BY <1>2, <1>3, <2>1, <2>2
<1>5. Ids(q) = Ids(a) \cup Ids(b)
  <2>1. ASSUME NEW i \in Ids(q) PROVE i \in Ids(a) \cup Ids(b)
    <3>1. PICK n \in 1..Len(q) : i = q[n].id
      BY DEF Ids
    <3>2. QED BY <1>2, <1>3, <3>1 DEF Ids
  <2>2. ASSUME NEW i \in Ids(a) PROVE i \in Ids(q)
    <3>1. PICK n \in 1..Len(a) : i = a[n].id
      BY DEF Ids
    <3>2. n \in 1..Len(q) /\ i = q[n].id
      BY <1>1, <1>2, <3>1
    <3>3. QED BY <3>2 DEF Ids
  <2>3. ASSUME NEW i \in Ids(b) PROVE i \in Ids(q)
    <3>1. PICK n \in 1..Len(b) : i = b[n].id
      BY DEF Ids
    <3>2. n + Len(a) \in 1..Len(q) /\ i = q[n + Len(a)].id
      BY <1>1, <1>2, <3>1
    <3>3. QED BY <3>2 DEF Ids
  <2>4. QED BY <2>1, <2>2, <2>3
<1>6. QED BY <1>4, <1>5 DEF q

\* What a flush leaves alone, and what it replays.
LEMMA ElsewhereFacts ==
  ASSUME NEW p, stored \in Seq(Entry)
  PROVE  /\ Elsewhere(p) \in Seq(Entry) /\ Within(Elsewhere(p), stored)
         /\ Distinct(stored) => Distinct(Elsewhere(p))
         /\ \A n \in 1..Len(Elsewhere(p)) : setting.endpointOf[Elsewhere(p)[n].id] # setting.flushEndpoint[p]
         /\ \A n \in 1..Len(stored) : setting.endpointOf[stored[n].id] # setting.flushEndpoint[p] =>
              \E m \in 1..Len(Elsewhere(p)) : Elsewhere(p)[m] = stored[n]
<1> DEFINE S == {e \in Entry : setting.endpointOf[e.id] # setting.flushEndpoint[p]}
<1>1. Elsewhere(p) = Filter(stored, S)
  BY DEF Elsewhere
<1>2. \A n \in 1..Len(stored) : setting.endpointOf[stored[n].id] # setting.flushEndpoint[p] => stored[n] \in S
  OBVIOUS
<1>3. \A e \in S : setting.endpointOf[e.id] # setting.flushEndpoint[p]
  OBVIOUS
<1> HIDE DEF S
<1>4. QED BY <1>1, <1>2, <1>3, FilterFacts

LEMMA ToRetryFacts ==
  ASSUME NEW p, stored \in Seq(Entry)
  PROVE  /\ ToRetry(p) \in Seq(Entry) /\ Within(ToRetry(p), stored)
         /\ Distinct(stored) => Distinct(ToRetry(p))
         /\ \A n \in 1..Len(ToRetry(p)) : setting.endpointOf[ToRetry(p)[n].id] = setting.flushEndpoint[p]
         /\ \A n \in 1..Len(stored) :
              /\ setting.endpointOf[stored[n].id] = setting.flushEndpoint[p]
              /\ setting.visitor[p] \in {None, setting.authorOf[stored[n].id]}
              => \E m \in 1..Len(ToRetry(p)) : ToRetry(p)[m] = stored[n]
<1> DEFINE S == {e \in Entry : /\ setting.endpointOf[e.id] = setting.flushEndpoint[p]
                               /\ setting.visitor[p] \in {None, setting.authorOf[e.id]}}
<1>1. ToRetry(p) = Filter(stored, S)
  BY DEF ToRetry
<1>2. \A n \in 1..Len(stored) :
        /\ setting.endpointOf[stored[n].id] = setting.flushEndpoint[p]
        /\ setting.visitor[p] \in {None, setting.authorOf[stored[n].id]}
        => stored[n] \in S
  OBVIOUS
<1>3. \A e \in S : setting.endpointOf[e.id] = setting.flushEndpoint[p]
  OBVIOUS
<1> HIDE DEF S
<1>4. QED BY <1>1, <1>2, <1>3, FilterFacts

\* r is what is queued for submission s when the first c of the other entries
\* go, d of them for want of place, and the first j screenshots of what joins.
Written(s, r, c, d, j) ==
  LET rest == Others(s)
  IN  /\ r \in Seq(Entry) /\ d \in 0..1 /\ c \in d..Len(rest) /\ j \in Nat
      /\ d = 1 <=> Len(rest) >= MaxQueue
      /\ c > d => j = Len(rest) - d + 1
      /\ Len(r) = Len(rest) - c + 1
      /\ r[Len(r)].id = s /\ r[Len(r)].version = version[s]
      /\ r[Len(r)].shot <=> s \in setting.screenshots /\ Len(rest) - d + 1 > j
      /\ \A n \in 1..(Len(rest) - c) : /\ r[n].id = rest[n + c].id
                                       /\ r[n].version = rest[n + c].version
                                       /\ r[n].shot <=> rest[n + c].shot /\ n + c - d > j

\* What QueueForRetry writes.
LEMMA WrittenForm ==
  ASSUME TypeInv, NEW s \in Submission, sub[s] = "queueing", NEW space, Shed(Enqueued(s), space) # <<>>
  PROVE  \E c \in Nat, d \in 0..1, j \in Nat : Written(s, Shed(Enqueued(s), space), c, d, j)
<1> DEFINE q == Enqueued(s)
           r == Shed(q, space)
           rest == Others(s)
<1>1. q \in Seq(Entry) /\ Len(q) > 0
  BY EnqueuedForm
<1>2. PICK d \in 0..1 :
        /\ d = 1 <=> Len(rest) >= MaxQueue
        /\ d <= Len(rest)
        /\ Len(q) = Len(rest) - d + 1
        /\ q[Len(q)] = EntryOf(s)
        /\ \A n \in 1..(Len(rest) - d) : q[n] = rest[n + d]
  BY EnqueuedForm
<1>3. r \in Seq(Entry) /\ r # <<>> => \E k \in 0..(Len(q) - 1), j \in 0..Len(q) : Shorn(q, r, k, j)
  BY <1>1, ShedForm
<1>4. rest \in Seq(Entry)
  BY OthersFacts DEF TypeInv, TypeOK
<1>4a. r \in Seq(Entry)
  BY <1>1, ShedForm
<1>4b. r # <<>>
  OBVIOUS
<1> HIDE DEF q, r, rest
<1>5. PICK k \in 0..(Len(q) - 1), j \in 0..Len(q) : Shorn(q, r, k, j)
  BY <1>3, <1>4a, <1>4b
<1> DEFINE c == k + d
<1>6. Len(rest) \in Nat /\ Len(q) \in Nat /\ k \in Nat /\ d \in Nat
  BY <1>1, <1>4
<1>7. c \in d..Len(rest) /\ c \in Nat /\ j \in Nat
  BY <1>2, <1>6
<1>8. Len(r) = Len(rest) - c + 1 /\ Len(r) = Len(q) - k /\ Len(r) \in 1..Len(q) /\ Len(r) + k = Len(q)
  BY <1>2, <1>5, <1>6 DEF Shorn
<1>9. c > d => j = Len(rest) - d + 1
  BY <1>2, <1>5, <1>6 DEF Shorn
<1>10. r[Len(r)].id = s /\ r[Len(r)].version = version[s]
       /\ (r[Len(r)].shot <=> s \in setting.screenshots /\ Len(rest) - d + 1 > j)
  <2>1. Len(r) \in 1..Len(r)
    BY <1>8
  <2>2. /\ r[Len(r)].id = q[Len(q)].id
        /\ r[Len(r)].version = q[Len(q)].version
        /\ r[Len(r)].shot <=> q[Len(q)].shot /\ Len(q) > j
    BY <1>5, <1>8, <2>1 DEF Shorn
  <2>3. q[Len(q)].id = s /\ q[Len(q)].version = version[s] /\ (q[Len(q)].shot <=> s \in setting.screenshots)
    <3>1. EntryOf(s).id = s /\ EntryOf(s).version = version[s]
      BY DEF EntryOf
    <3>2. EntryOf(s).shot <=> s \in setting.screenshots
      BY Zenon DEF EntryOf
    <3>3. QED BY <1>2, <3>1, <3>2
  <2>4. QED BY <1>2, <2>2, <2>3
<1>11. ASSUME NEW n \in 1..(Len(rest) - c)
       PROVE  /\ r[n].id = rest[n + c].id
              /\ r[n].version = rest[n + c].version
              /\ r[n].shot <=> rest[n + c].shot /\ n + c - d > j
  <2>1. n \in 1..Len(r) /\ n + k \in 1..(Len(rest) - d) /\ (n + k) + d = n + c
    BY <1>6, <1>8
  <2>2. q[n + k] = rest[n + c]
    BY <1>2, <2>1
  <2>3. r[n].id = q[n + k].id /\ r[n].version = q[n + k].version /\ (r[n].shot <=> q[n + k].shot /\ n + k > j)
    BY <1>5, <2>1 DEF Shorn
  <2>4. n + c - d = n + k
    BY <1>6
  <2>5. QED BY <2>2, <2>3, <2>4
<1>12. Written(s, r, c, d, j)
  BY <1>2, <1>4a, <1>7, <1>8, <1>9, <1>10, <1>11 DEF Written, rest
<1>13. QED BY <1>7, <1>12 DEF q, r

\* What QueueForRetry writes has one entry per submission, within the cap.
LEMMA WrittenOnce ==
  ASSUME TypeInv, Distinct(stored), NEW s \in Submission, NEW r, NEW c \in Nat, NEW d \in 0..1, NEW j \in Nat,
         Written(s, r, c, d, j)
  PROVE  Distinct(r) /\ (Len(stored) <= MaxQueue => Len(r) <= MaxQueue)
<1> DEFINE rest == Others(s)
<1>1. stored \in Seq(Entry) /\ MaxQueue \in Nat
  BY RetryQueueAssumption DEF TypeInv, TypeOK
<1>2. rest \in Seq(Entry) /\ Within(rest, stored) /\ Distinct(rest) /\ \A n \in 1..Len(rest) : rest[n].id # s
  BY <1>1, OthersFacts
<1>3. /\ r \in Seq(Entry) /\ c \in d..Len(rest)
      /\ d = 1 <=> Len(rest) >= MaxQueue
      /\ Len(r) = Len(rest) - c + 1 /\ r[Len(r)].id = s
      /\ \A n \in 1..(Len(rest) - c) : r[n].id = rest[n + c].id
  BY DEF Written
<1> HIDE DEF rest
<1>4. Len(rest) \in Nat /\ Len(r) \in Nat
  BY <1>2, <1>3
<1>5. \A n \in 1..Len(r) : n = Len(r) \/ (n \in 1..(Len(rest) - c) /\ n + c \in 1..Len(rest))
  <2>1. c \in Nat /\ c <= Len(rest) /\ Len(r) = Len(rest) - c + 1
    BY <1>3
  <2> SUFFICES ASSUME NEW n \in 1..Len(r), n # Len(r)
               PROVE  n \in 1..(Len(rest) - c) /\ n + c \in 1..Len(rest)
    OBVIOUS
  <2>2. n \in Nat /\ 1 <= n /\ n < Len(r)
    BY <1>4
  <2>3. QED BY <1>4, <2>1, <2>2
<1>6. Distinct(r)
  <2> SUFFICES ASSUME NEW m \in 1..Len(r), NEW n \in 1..Len(r), r[m].id = r[n].id PROVE m = n
    BY DEF Distinct
  <2>1. CASE m \in 1..(Len(rest) - c) /\ n \in 1..(Len(rest) - c) /\ m + c \in 1..Len(rest) /\ n + c \in 1..Len(rest)
    <3>1. rest[m + c].id = rest[n + c].id
      BY <1>3, <2>1
    <3>2. m + c = n + c
      BY <1>2, <2>1, <3>1 DEF Distinct
    <3>3. QED BY <1>4, <3>2
  <2>2. QED BY <1>2, <1>3, <1>5, <2>1
<1>7. Len(rest) <= Len(stored)
  <2>1. Ids(rest) \subseteq Ids(stored)
    BY <1>2 DEF Within, Ids
  <2>2. Len(stored) \in Nat
    BY <1>1
  <2>3. QED BY <1>2, <1>4, <2>1, <2>2, NoLonger
<1>8. Len(stored) \in Nat
  BY <1>1
<1>9. QED BY <1>1, <1>3, <1>4, <1>6, <1>7, <1>8


\* An entry moves from what is to replay to what failed, or is done with.
LEMMA SplitReplay ==
  ASSUME NEW c, NEW p, NEW k, NEW t \in Seq(Entry), NEW f \in Seq(Entry), t # <<>>, Split(c, p, k, t, f)
  PROVE  Split(c, p, k, Tail(t), f) /\ Split(c, p, k, Tail(t), Append(f, Head(t)))
<1> DEFINE u == Tail(t)
           e == Head(t)
           g == Append(f, e)
<1>1. Len(t) \in Nat /\ Len(t) > 0 /\ Len(f) \in Nat
  OBVIOUS
<1>2. u \in Seq(Entry) /\ Len(u) = Len(t) - 1 /\ e = t[1] /\ \A n \in 1..Len(u) : u[n] = t[n + 1]
  BY <1>1
<1>3. Len(g) = Len(f) + 1 /\ g[Len(f) + 1] = e /\ \A n \in 1..Len(f) : g[n] = f[n]
  BY <1>1, <1>2
<1> HIDE DEF u, e, g
<1>4. \A n \in 1..Len(u) : n + 1 \in 1..Len(t)
  BY <1>1, <1>2
<1>5. 1 \in 1..Len(t)
  BY <1>1
<1>6. \A n \in 1..Len(g) : n \in 1..Len(f) \/ n = Len(f) + 1
  BY <1>1, <1>3
<1>7. Distinct(u)
  <2> SUFFICES ASSUME NEW m \in 1..Len(u), NEW n \in 1..Len(u), u[m].id = u[n].id PROVE m = n
    BY DEF Distinct
  <2>a. m + 1 \in 1..Len(t) /\ n + 1 \in 1..Len(t) /\ t[m + 1].id = t[n + 1].id
    BY <1>2, <1>4
  <2>b. Distinct(t)
    BY DEF Split
  <2>1. m + 1 = n + 1
    BY <2>a, <2>b DEF Distinct
  <2>2. QED BY <2>1
<1>8. \A n \in 1..Len(u) : u[n].id # e.id
  <2> SUFFICES ASSUME NEW n \in 1..Len(u), u[n].id = e.id PROVE FALSE
    OBVIOUS
  <2>1. n + 1 = 1
    BY <1>2, <1>4, <1>5 DEF Split, Distinct
  <2>2. QED BY <2>1
<1>9. \A n \in 1..Len(f) : f[n].id # e.id
  BY <1>2, <1>5 DEF Split
<1>10. Distinct(g)
  <2> SUFFICES ASSUME NEW m \in 1..Len(g), NEW n \in 1..Len(g), g[m].id = g[n].id PROVE m = n
    BY DEF Distinct
  <2>1. CASE m \in 1..Len(f) /\ n \in 1..Len(f)
    BY <1>3, <2>1 DEF Split, Distinct
  <2>2. QED BY <1>3, <1>6, <1>9, <2>1
<1>11. c.endpointOf[e.id] = c.flushEndpoint[p]
  BY <1>2, <1>5 DEF Split
<1>12. \A m \in 1..Len(u), n \in 1..Len(f) : u[m].id # f[n].id
  BY <1>2, <1>4 DEF Split
<1>13. \A n \in 1..Len(u) : c.endpointOf[u[n].id] = c.flushEndpoint[p]
  BY <1>2, <1>4 DEF Split
<1>14. \A n \in 1..Len(g) : c.endpointOf[g[n].id] = c.flushEndpoint[p]
  BY <1>3, <1>6, <1>11 DEF Split
<1>15. \A m \in 1..Len(u), n \in 1..Len(g) : u[m].id # g[n].id
  BY <1>3, <1>6, <1>8, <1>12
<1>16. Split(c, p, k, u, f)
  BY <1>7, <1>12, <1>13 DEF Split
<1>17. Split(c, p, k, u, g)
  BY <1>7, <1>10, <1>13, <1>14, <1>15 DEF Split
<1>18. QED BY <1>16, <1>17 DEF u, e, g

\* Every step keeps one entry per submission, locks or not.
LEMMA OneEachStep == TypeInv /\ OneEach /\ [Next]_vars => OneEach'
<1> SUFFICES ASSUME TypeInv, OneEach, [Next]_vars PROVE OneEach'
  OBVIOUS
<1>t. /\ stored \in Seq(Entry) /\ page \in [Page -> {"closed", "loading", "headers", "replaying", "idle"}]
      /\ todo \in [Page -> Seq(Entry)] /\ failed \in [Page -> Seq(Entry)] /\ kept \in [Page -> Seq(Entry)]
  BY DEF TypeInv, TypeOK
<1>s. Distinct(stored) /\ \A p \in Page : Split(setting, p, kept[p], todo[p], failed[p])
  BY DEF OneEach
\* One page's parts change.
<1>p. ASSUME NEW p \in Page, UNCHANGED setting, Distinct(stored'),
             Split(setting, p, kept'[p], todo'[p], failed'[p]),
             \A o \in Page \ {p} : kept'[o] = kept[o] /\ todo'[o] = todo[o] /\ failed'[o] = failed[o]
      PROVE  OneEach'
  <2>1. ASSUME NEW o \in Page PROVE Split(setting', o, kept'[o], todo'[o], failed'[o])
    BY <1>s, <1>p, Zenon
  <2>2. QED BY <1>p, <2>1 DEF OneEach
\* No page's parts change.
<1>u. ASSUME UNCHANGED <<setting, todo, failed, kept>>, Distinct(stored') PROVE OneEach'
  BY <1>s, <1>u DEF OneEach
<1>e. ASSUME NEW p \in Page, UNCHANGED setting, Distinct(stored'),
             todo' = [todo EXCEPT ![p] = <<>>], failed' = [failed EXCEPT ![p] = <<>>], kept' = [kept EXCEPT ![p] = <<>>]
      PROVE  OneEach'
  <2>1. kept'[p] = <<>> /\ todo'[p] = <<>> /\ failed'[p] = <<>>
    BY <1>t, <1>e
  <2>2. \A o \in Page \ {p} : kept'[o] = kept[o] /\ todo'[o] = todo[o] /\ failed'[o] = failed[o]
    BY <1>t, <1>e
  <2>3. Split(setting, p, kept'[p], todo'[p], failed'[p])
    BY <2>1, SplitEmpty
  <2>4. QED BY <1>e, <1>p, <2>2, <2>3
<1>1. ASSUME NEW s \in Submission, Submit(s) \/ Attempt(s) PROVE OneEach'
  BY <1>s, <1>u, <1>1 DEF Submit, Attempt, flush
<1>2. ASSUME NEW s \in Submission, QueueForRetry(s) PROVE OneEach'
  <2>1. Distinct(stored')
    <3>1. CASE stored' = stored
      BY <1>s, <3>1
    <3>2. CASE stored' # stored
      <4>1. PICK space : stored' = Shed(Enqueued(s), space) /\ stored' # <<>>
        BY <1>2, <3>2 DEF QueueForRetry
      <4>2. sub[s] = "queueing"
        BY <1>2 DEF QueueForRetry
      <4>3. PICK c \in Nat, d \in 0..1, j \in Nat : Written(s, stored', c, d, j)
        BY <4>1, <4>2, WrittenForm
      <4>4. QED BY <1>s, <4>3, WrittenOnce
    <3>3. QED BY <3>1, <3>2
  <2>2. QED BY <1>u, <1>2, <2>1 DEF QueueForRetry, flush
<1>3. ASSUME NEW s \in Submission, Unqueue(s) PROVE OneEach'
  <2>1. Distinct(stored')
    BY <1>t, <1>s, <1>3, OthersFacts DEF Unqueue
  <2>2. QED BY <1>u, <1>3, <2>1 DEF Unqueue, flush
<1>4. ASSUME NEW p \in Page, Load(p) PROVE OneEach'
  BY <1>s, <1>u, <1>4 DEF Load
<1>5. ASSUME NEW p \in Page, StartFlush(p) PROVE OneEach'
  <2>1. CASE ToRetry(p) = <<>>
    <3>1. stored' \in {Elsewhere(p), stored} /\ UNCHANGED <<setting, todo, failed, kept>>
      BY <1>5, <2>1 DEF StartFlush
    <3>2. Distinct(stored')
      BY <1>t, <1>s, <3>1, ElsewhereFacts
    <3>3. QED BY <1>u, <3>1, <3>2
  <2>2. CASE ToRetry(p) # <<>>
    <3>1. /\ UNCHANGED <<setting, stored>>
          /\ todo' = [todo EXCEPT ![p] = ToRetry(p)]
          /\ kept' = [kept EXCEPT ![p] = Elsewhere(p)]
          /\ failed' = [failed EXCEPT ![p] = <<>>]
      BY <1>5, <2>2 DEF StartFlush
    <3>2. kept'[p] = Elsewhere(p) /\ todo'[p] = ToRetry(p) /\ failed'[p] = <<>>
      BY <1>t, <3>1
    <3>3. \A o \in Page \ {p} : kept'[o] = kept[o] /\ todo'[o] = todo[o] /\ failed'[o] = failed[o]
      BY <1>t, <3>1
    <3>4. Split(setting, p, Elsewhere(p), ToRetry(p), <<>>)
      BY <1>t, <1>s, ElsewhereFacts, ToRetryFacts DEF Split, Distinct
    <3>5. Distinct(stored')
      BY <1>s, <3>1
    <3>6. Split(setting, p, kept'[p], todo'[p], failed'[p])
      BY <3>2, <3>4
    <3>7. QED BY <1>p, <3>1, <3>3, <3>5, <3>6
  <2>3. QED BY <2>1, <2>2
<1>6. ASSUME NEW p \in Page, Headers(p) PROVE OneEach'
  <2>1. UNCHANGED <<setting, stored>> /\ Distinct(stored')
    BY <1>s, <1>6 DEF Headers
  <2>2. CASE EndFlush(p)
    BY <1>e, <2>1, <2>2 DEF EndFlush
  <2>3. CASE UNCHANGED <<todo, failed, kept>>
    BY <1>u, <2>1, <2>3
  <2>4. QED BY <1>6, <2>2, <2>3 DEF Headers
<1>7. ASSUME NEW p \in Page, Replay(p) PROVE OneEach'
  <2>1. /\ UNCHANGED <<setting, stored, kept>> /\ todo[p] # <<>>
        /\ todo' = [todo EXCEPT ![p] = Tail(todo[p])]
        /\ failed' = failed \/ failed' = [failed EXCEPT ![p] = Append(failed[p], Head(todo[p]))]
    BY <1>7 DEF Replay
  <2>2. todo[p] \in Seq(Entry) /\ failed[p] \in Seq(Entry)
    BY <1>t
  <2>3. /\ kept'[p] = kept[p] /\ todo'[p] = Tail(todo[p])
        /\ failed'[p] = failed[p] \/ failed'[p] = Append(failed[p], Head(todo[p]))
    BY <1>t, <2>1
  <2>4. \A o \in Page \ {p} : kept'[o] = kept[o] /\ todo'[o] = todo[o] /\ failed'[o] = failed[o]
    BY <1>t, <2>1
  <2>5. /\ Split(setting, p, kept[p], Tail(todo[p]), failed[p])
        /\ Split(setting, p, kept[p], Tail(todo[p]), Append(failed[p], Head(todo[p])))
    BY <1>s, <2>1, <2>2, SplitReplay
  <2>6. Split(setting, p, kept'[p], todo'[p], failed'[p])
    BY <2>3, <2>5
  <2>7. QED BY <1>s, <1>p, <2>1, <2>4, <2>6
<1>8. ASSUME NEW p \in Page, Rewrite(p) PROVE OneEach'
  <2>1. kept[p] \in Seq(Entry) /\ failed[p] \in Seq(Entry) /\ Split(setting, p, kept[p], todo[p], failed[p])
    BY <1>t, <1>s
  <2>2. Distinct(kept[p] \o failed[p])
    <3>1. Distinct(kept[p]) /\ Distinct(failed[p])
      BY <2>1 DEF Split
    <3>2. \A m \in 1..Len(kept[p]), n \in 1..Len(failed[p]) : kept[p][m].id # failed[p][n].id
      BY <2>1 DEF Split
    <3>3. QED BY <2>1, <3>1, <3>2, Joined
  <2>3. Distinct(stored')
    BY <1>s, <1>8, <2>2 DEF Rewrite
  <2>4. QED BY <1>e, <1>8, <2>3 DEF Rewrite, EndFlush
<1>9. ASSUME NEW p \in Page, Close(p) PROVE OneEach'
  BY <1>s, <1>e, <1>9 DEF Close
<1>10. ASSUME NEW s \in Submission, NEW v \in 1..MaxVersions, Arrive(s, v) PROVE OneEach'
  BY <1>s, <1>u, <1>10 DEF Arrive, flush
<1>11. CASE UNCHANGED vars
  BY <1>s, <1>u, <1>11 DEF vars, flush
<1>12. QED BY <1>1, <1>2, <1>3, <1>4, <1>5, <1>6, <1>7, <1>8, <1>9, <1>10, <1>11 DEF Next, Send, Flush

\* Initial states have one entry per submission.
LEMMA OneEachInit == Init => OneEach
<1> SUFFICES ASSUME Init PROVE OneEach
  OBVIOUS
<1>1. stored = <<>> /\ \A p \in Page : kept[p] = <<>> /\ todo[p] = <<>> /\ failed[p] = <<>>
  BY DEF Init
<1>2. \A p \in Page : Split(setting, p, <<>>, <<>>, <<>>)
  BY SplitEmpty
<1>3. \A p \in Page : Split(setting, p, kept[p], todo[p], failed[p])
  BY <1>1, <1>2
<1>4. Distinct(stored)
  BY <1>1 DEF Distinct
<1>5. QED BY <1>3, <1>4 DEF OneEach

\* A submission is told it is saved only when its entry was written.
LEMMA SavedByQueueing ==
  ASSUME TypeInv, [Next]_vars, NEW s \in Submission, sub[s] # "saved", sub'[s] = "saved"
  PROVE  QueueForRetry(s) /\ \E space : stored' = Shed(Enqueued(s), space) /\ stored' # <<>>
<1>t. sub \in [Submission -> {"draft", "sending", "queueing", "saved", "unsaved", "unqueueing", "sent", "refused", "gone"}]
  BY DEF TypeInv, TypeOK
<1>1. ASSUME NEW z \in Submission, Submit(z) \/ Attempt(z) \/ Unqueue(z) PROVE FALSE
  BY <1>t, <1>1 DEF Submit, Attempt, Unqueue
<1>2. ASSUME NEW z \in Submission, QueueForRetry(z)
      PROVE  QueueForRetry(s) /\ \E space : stored' = Shed(Enqueued(s), space) /\ stored' # <<>>
  <2>1. \E space : \/ stored' = Shed(Enqueued(z), space) /\ stored' # <<>>
                   \/ sub' = [sub EXCEPT ![z] = "unsaved"]
    BY <1>2 DEF QueueForRetry
  <2>2. sub' = [sub EXCEPT ![z] = "saved"] \/ sub' = [sub EXCEPT ![z] = "unsaved"]
    BY <1>2 DEF QueueForRetry
  <2>3. z = s /\ sub' # [sub EXCEPT ![z] = "unsaved"]
    BY <1>t, <2>2
  <2>4. QED BY <1>2, <2>1, <2>3
<1>3. ASSUME NEW p \in Page, Load(p) \/ StartFlush(p) \/ Headers(p) \/ Replay(p) \/ Rewrite(p) PROVE FALSE
  BY <1>3 DEF Load, StartFlush, Headers, Replay, Rewrite, sending
<1>4. ASSUME NEW p \in Page, Close(p) PROVE FALSE
  BY <1>t, <1>4 DEF Close
<1>5. ASSUME NEW z \in Submission, NEW v \in 1..MaxVersions, Arrive(z, v) PROVE FALSE
  BY <1>5 DEF Arrive, sending
<1>6. CASE UNCHANGED vars
  BY <1>6 DEF vars, sending
<1>7. QED BY <1>1, <1>2, <1>3, <1>4, <1>5, <1>6 DEF Next, Send, Flush


\* What queueing gives up, by the places of the queue.
LEMMA QueueingSheds ==
  ASSUME TypeInv, OneEach, NEW s \in Submission, sub[s] = "queueing",
         NEW r, NEW c \in Nat, NEW d \in 0..1, NEW j \in Nat, Written(s, r, c, d, j)
  PROVE  LET Gone(n) == stored[n].id # s /\ stored[n].id \notin Ids(r)
             Stripped(n) == stored[n].shot /\ stored[n].id # s /\ stored[n].id \in Ids(r) \ Shots(r)
         IN  /\ r[Len(r)].id = s
             /\ \A m, n \in 1..Len(stored) : m < n /\ stored[m].id # s =>
                  /\ Gone(n) => Gone(m)
                  /\ Stripped(n) => stored[m].id \notin Shots(r)
             /\ s \in setting.screenshots \ Shots(r) => Shots(r) = {}
             /\ (\E n \in 1..Len(stored) : Gone(n)) /\ Len(r) < MaxQueue => Shots(r) = {}
<1> DEFINE rest == Others(s)
           Gone(n) == stored[n].id # s /\ stored[n].id \notin Ids(r)
           Stripped(n) == stored[n].shot /\ stored[n].id # s /\ stored[n].id \in Ids(r) \ Shots(r)
<1>1. stored \in Seq(Entry) /\ MaxQueue \in Nat /\ Distinct(stored)
  BY RetryQueueAssumption DEF TypeInv, TypeOK, OneEach
<1>2. /\ rest \in Seq(Entry) /\ Distinct(rest)
      /\ \A n \in 1..Len(rest) : rest[n].id # s
      /\ \A n \in 1..Len(stored) : stored[n].id # s => \E m \in 1..Len(rest) : rest[m] = stored[n]
  BY <1>1, OthersFacts
<1>3. /\ r \in Seq(Entry) /\ c \in d..Len(rest)
      /\ d = 1 <=> Len(rest) >= MaxQueue
      /\ c > d => j = Len(rest) - d + 1
      /\ Len(r) = Len(rest) - c + 1
      /\ r[Len(r)].id = s
      /\ r[Len(r)].shot <=> s \in setting.screenshots /\ Len(rest) - d + 1 > j
      /\ \A n \in 1..(Len(rest) - c) : r[n].id = rest[n + c].id /\ (r[n].shot <=> rest[n + c].shot /\ n + c - d > j)
  BY DEF Written
<1>4. \A m, n \in 1..Len(rest), k, l \in 1..Len(stored) :
        k < l /\ rest[m].id = stored[k].id /\ rest[n].id = stored[l].id => m < n
  BY <1>1, FilterOrder DEF Others
<1> HIDE DEF rest
<1>5. Len(rest) \in Nat /\ Len(r) \in Nat /\ c \in Nat /\ d \in Nat /\ d <= c /\ c <= Len(rest) /\ Len(r) > 0
  BY <1>2, <1>3
<1>6. \A n \in 1..Len(r) : n = Len(r) \/ (n \in 1..(Len(rest) - c) /\ n + c \in 1..Len(rest))
  <2>1. Len(r) = Len(rest) - c + 1
    BY <1>3
  <2> SUFFICES ASSUME NEW n \in 1..Len(r), n # Len(r)
               PROVE  n \in 1..(Len(rest) - c) /\ n + c \in 1..Len(rest)
    OBVIOUS
  <2>2. n \in Nat /\ 1 <= n /\ n < Len(r)
    BY <1>5
  <2>3. QED BY <1>5, <2>1, <2>2
\* The m-th of the others goes if it is among the first c.
<1>7. ASSUME NEW m \in 1..Len(rest) PROVE rest[m].id \notin Ids(r) <=> m <= c
  <2>1. ASSUME m <= c, rest[m].id \in Ids(r) PROVE FALSE
    <3>1. PICK n \in 1..Len(r) : rest[m].id = r[n].id
      BY <2>1 DEF Ids
    <3>2. n \in 1..(Len(rest) - c) /\ n + c \in 1..Len(rest)
      BY <1>2, <1>3, <1>6, <3>1
    <3>3. rest[m].id = rest[n + c].id
      BY <1>3, <3>1, <3>2
    <3>4. m = n + c
      BY <1>2, <3>2, <3>3 DEF Distinct
    <3>5. QED BY <1>5, <2>1, <3>2, <3>4
  <2>2. ASSUME m > c PROVE rest[m].id \in Ids(r)
    <3>1. m - c \in 1..(Len(rest) - c) /\ m - c \in 1..Len(r) /\ (m - c) + c = m
      BY <1>3, <1>5, <2>2
    <3>2. r[m - c].id = rest[m].id
      BY <1>3, <3>1
    <3>3. QED BY <3>1, <3>2 DEF Ids
  <2>3. QED BY <1>5, <2>1, <2>2
\* The m-th of the others has its screenshot if it is not among the first j.
<1>8. ASSUME NEW m \in 1..Len(rest) PROVE rest[m].id \in Shots(r) <=> m > c /\ rest[m].shot /\ m - d > j
  <2>1. ASSUME rest[m].id \in Shots(r) PROVE m > c /\ rest[m].shot /\ m - d > j
    <3>1. PICK n \in 1..Len(r) : rest[m].id = r[n].id /\ r[n].shot
      BY <2>1 DEF Shots
    <3>2. n \in 1..(Len(rest) - c) /\ n + c \in 1..Len(rest)
      BY <1>2, <1>3, <1>6, <3>1
    <3>3. rest[m].id = rest[n + c].id /\ rest[n + c].shot /\ n + c - d > j
      BY <1>3, <3>1, <3>2
    <3>4. m = n + c
      BY <1>2, <3>2, <3>3 DEF Distinct
    <3>5. QED BY <1>5, <3>2, <3>3, <3>4
  <2>2. ASSUME m > c, rest[m].shot, m - d > j PROVE rest[m].id \in Shots(r)
    <3>1. m - c \in 1..(Len(rest) - c) /\ m - c \in 1..Len(r) /\ (m - c) + c = m
      BY <1>3, <1>5, <2>2
    <3>2. r[m - c].id = rest[m].id /\ r[m - c].shot
      BY <1>3, <2>2, <3>1
    <3>3. m - c \in {n \in 1..Len(r) : r[n].shot}
      BY <3>1, <3>2
    <3>4. QED BY <3>2, <3>3 DEF Shots
  <2>3. QED BY <2>1, <2>2
\* No screenshot is left if the new queue's have all gone.
<1>9. ASSUME j >= Len(rest) - d + 1 PROVE Shots(r) = {}
  <2> SUFFICES ASSUME NEW n \in 1..Len(r), r[n].shot PROVE FALSE
    BY DEF Shots
  <2>1. CASE n = Len(r)
    BY <1>3, <1>5, <1>9, <2>1
  <2>2. CASE n \in 1..(Len(rest) - c)
    <3>1. n + c - d > j
      BY <1>3, <2>2
    <3>2. QED BY <1>5, <1>9, <2>2, <3>1
  <2>3. QED BY <1>6, <2>1, <2>2
<1>10. ASSUME NEW m \in 1..Len(stored), NEW n \in 1..Len(stored), m < n, stored[m].id # s
       PROVE  /\ Gone(n) => Gone(m)
              /\ Stripped(n) => stored[m].id \notin Shots(r)
  <2>1. PICK k \in 1..Len(rest) : rest[k] = stored[m]
    BY <1>2, <1>10
  <2>2. ASSUME stored[n].id # s PROVE \E l \in 1..Len(rest) : rest[l] = stored[n] /\ k < l
    <3>1. PICK l \in 1..Len(rest) : rest[l] = stored[n]
      BY <1>2, <2>2
    <3>2. k < l
      BY <1>4, <1>10, <2>1, <3>1
    <3>3. QED BY <3>1, <3>2
  <2>3. ASSUME Gone(n) PROVE Gone(m)
    <3>1. PICK l \in 1..Len(rest) : rest[l] = stored[n] /\ k < l
      BY <2>2, <2>3
    <3>2. l <= c
      BY <1>7, <2>3, <3>1
    <3>3. k <= c
      BY <1>5, <3>1, <3>2
    <3>4. QED BY <1>7, <1>10, <2>1, <3>3
  <2>4. ASSUME Stripped(n), stored[m].id \in Shots(r) PROVE FALSE
    <3>1. PICK l \in 1..Len(rest) : rest[l] = stored[n] /\ k < l
      BY <2>2, <2>4
    <3>2. l > c /\ ~(l - d > j)
      BY <1>5, <1>7, <1>8, <2>4, <3>1
    <3>3. k - d > j
      BY <1>8, <2>1, <2>4
    <3>4. QED BY <1>5, <3>1, <3>2, <3>3
  <2>5. QED BY <2>3, <2>4
<1>11. ASSUME s \in setting.screenshots \ Shots(r) PROVE Shots(r) = {}
  <2>1. ~r[Len(r)].shot
    <3>1. SUFFICES ASSUME r[Len(r)].shot PROVE FALSE
      OBVIOUS
    <3>2. Len(r) \in {n \in 1..Len(r) : r[n].shot}
      BY <1>5, <3>1
    <3>3. s \in Shots(r)
      BY <1>3, <3>2 DEF Shots
    <3>4. QED BY <1>11, <3>3
  <2>2. QED BY <1>3, <1>5, <1>9, <1>11, <2>1
<1>12. ASSUME NEW n \in 1..Len(stored), Gone(n), Len(r) < MaxQueue PROVE Shots(r) = {}
  <2>1. PICK m \in 1..Len(rest) : rest[m] = stored[n]
    BY <1>2, <1>12
  <2>2. m <= c
    BY <1>7, <1>12, <2>1
  <2>3. c > d
    BY <1>1, <1>3, <1>5, <1>12, <2>2
  <2>4. QED BY <1>3, <1>5, <1>9, <2>3
<1>13. QED BY <1>3, <1>10, <1>11, <1>12

\* Whatever the pages, the sites and the room there is, and with no lock at all:
\* screenshots go before entries, the first of the queue before the later, and
\* the feedback being queued is written.
THEOREM ShedsOldest == Spec => OldestFirst
<1>1. TypeInv /\ OneEach /\ [Next]_vars =>
        [\A s \in Submission : (sub[s] = "queueing" /\ sub'[s] = "saved") => ShedsInOrder(s)]_vars
  <2> SUFFICES ASSUME TypeInv, OneEach, [Next]_vars, NEW s \in Submission, sub[s] = "queueing", sub'[s] = "saved"
               PROVE  ShedsInOrder(s)
    OBVIOUS
  <2>1. PICK space : stored' = Shed(Enqueued(s), space) /\ stored' # <<>>
    BY SavedByQueueing
  <2>2. PICK c \in Nat, d \in 0..1, j \in Nat : Written(s, stored', c, d, j)
    BY <2>1, WrittenForm
  <2>3. QED BY <2>2, QueueingSheds DEF ShedsInOrder
<1>2. QED BY <1>1, TypeInit, OneEachInit, TypeStep, OneEachStep, PTL DEF Spec, OldestFirst


(***************************************************************************)
(* Under the lock: what is queued is the latest, and nothing is forgotten. *)
(***************************************************************************)
\* Page p replays the queue.
Flushing(p) == page[p] \in {"headers", "replaying"}

\* What is queued for a saved submission is the payload it sent last.
SavedLatest ==
  \A n \in 1..Len(stored) : sub[stored[n].id] = "saved" => stored[n].version = version[stored[n].id]

\* Only what has landed leaves the queue at the popup's word.
LandedFirst == \A s \in Submission : sub[s] = "unqueueing" => landed[s] # 0

\* A flush of p accounts for every queued entry: it leaves it alone, has it among
\* its own, or is through with it.
Accounted(p) ==
  /\ kept[p] = Elsewhere(p)
  /\ Within(todo[p], stored) /\ Within(failed[p], stored)
  /\ \A s \in Ids(stored) :
       /\ setting.endpointOf[s] = setting.flushEndpoint[p]
       /\ setting.visitor[p] \in {None, setting.authorOf[s]}
       => s \in Ids(todo[p]) \cup Ids(failed[p]) \/ landed[s] # 0 \/ s \in rejected

\* The page that replays the queue holds the lock, and accounts for the queue.
FlushesAlone == \A p \in Page : Flushing(p) => holder = p /\ Accounted(p)

QueueInv == TypeInv /\ OneEach /\ Len(stored) <= MaxQueue /\ SavedLatest /\ LandedFirst /\ FlushesAlone

\* What has landed stays landed, and what the server refused stays refused unless
\* it is queued again.
LEMMA LandedStays ==
  ASSUME TypeInv, [Next]_vars
  PROVE  \A s \in Submission : landed[s] # 0 => landed'[s] # 0
<1>t. landed \in [Submission -> 0..MaxVersions]
  BY DEF TypeInv, TypeOK
<1>l. \A s, v : Land(s, v) => \A z \in Submission : landed[z] # 0 => landed'[z] # 0
  BY <1>t DEF Land
<1>n. \A s, v : NoAnswer(s, v) => \A z \in Submission : landed[z] # 0 => landed'[z] # 0
  BY <1>l DEF NoAnswer, server
<1>1. ASSUME NEW s \in Submission, Attempt(s) PROVE \A z \in Submission : landed[z] # 0 => landed'[z] # 0
  BY <1>l, <1>n, <1>1 DEF Attempt, server
<1>2. ASSUME NEW p \in Page, Replay(p) PROVE \A z \in Submission : landed[z] # 0 => landed'[z] # 0
  BY <1>l, <1>n, <1>2 DEF Replay, server
<1>3. ASSUME NEW s \in Submission, NEW v \in 1..MaxVersions, Arrive(s, v)
      PROVE  \A z \in Submission : landed[z] # 0 => landed'[z] # 0
  BY <1>l, <1>3 DEF Arrive
<1>4. ASSUME NEW s \in Submission, Submit(s) \/ QueueForRetry(s) \/ Unqueue(s) PROVE landed' = landed
  BY <1>4 DEF Submit, QueueForRetry, Unqueue, server
<1>5. ASSUME NEW p \in Page, Load(p) \/ StartFlush(p) \/ Headers(p) \/ Rewrite(p) \/ Close(p) PROVE landed' = landed
  BY <1>5 DEF Load, StartFlush, Headers, Rewrite, Close, server
<1>6. CASE UNCHANGED vars
  BY <1>6 DEF vars, server
<1>7. QED BY <1>1, <1>2, <1>3, <1>4, <1>5, <1>6 DEF Next, Send, Flush

\* No page replays the queue while the lock is free.
LEMMA NobodyFlushing ==
  ASSUME HasLocks, FlushesAlone, Unlocked
  PROVE  \A p \in Page : ~Flushing(p)
<1>1. holder = None /\ None \notin Page
  BY RetryQueueAssumption DEF Unlocked
<1>2. QED BY <1>1 DEF FlushesAlone

\* What a flush writes back was in the queue.
LEMMA WrittenBack ==
  ASSUME QueueInv, NEW p \in Page, Rewrite(p)
  PROVE  Within(stored', stored) /\ Len(stored') <= Len(stored)
<1>1. stored \in Seq(Entry) /\ kept[p] \in Seq(Entry) /\ failed[p] \in Seq(Entry)
  BY DEF QueueInv, TypeInv, TypeOK
<1>2. Split(setting, p, kept[p], todo[p], failed[p]) /\ Distinct(stored)
  BY DEF QueueInv, OneEach
<1>3. Within(kept[p], stored) /\ Within(failed[p], stored)
  <2>1. Accounted(p)
    BY DEF QueueInv, FlushesAlone, Flushing, Rewrite
  <2>2. QED BY <1>1, <2>1, ElsewhereFacts DEF Accounted
<1>4. CASE stored' = stored
  BY <1>1, <1>4 DEF Within
<1>5. CASE stored' = kept[p] \o failed[p]
  <2>1. \A n \in 1..Len(stored') :
          \/ n \in 1..Len(kept[p]) /\ stored'[n] = kept[p][n]
          \/ n - Len(kept[p]) \in 1..Len(failed[p]) /\ stored'[n] = failed[p][n - Len(kept[p])]
    BY <1>1, <1>5, Concatenated
  <2>2. Within(stored', stored)
    <3> SUFFICES ASSUME NEW n \in 1..Len(stored') PROVE \E m \in 1..Len(stored) : stored'[n] = stored[m]
      BY DEF Within
    <3>1. CASE n \in 1..Len(kept[p]) /\ stored'[n] = kept[p][n]
      BY <1>3, <3>1 DEF Within
    <3>2. CASE n - Len(kept[p]) \in 1..Len(failed[p]) /\ stored'[n] = failed[p][n - Len(kept[p])]
      BY <1>3, <3>2 DEF Within
    <3>3. QED BY <2>1, <3>1, <3>2
  <2>3. Distinct(kept[p]) /\ Distinct(failed[p]) /\ \A m \in 1..Len(kept[p]), n \in 1..Len(failed[p]) : kept[p][m].id # failed[p][n].id
    BY <1>2 DEF Split
  <2>4. Distinct(stored')
    BY <1>1, <1>5, <2>3, Joined
  <2>5. Ids(stored') \subseteq Ids(stored)
    BY <2>2 DEF Within, Ids
  <2>6. stored' \in Seq(Entry)
    BY <1>1, <1>5
  <2>7. Len(stored') \in Nat /\ Len(stored) \in Nat
    BY <1>1, <2>6
  <2>8. QED BY <1>2, <2>2, <2>4, <2>5, <2>7, NoLonger
<1>6. QED BY <1>4, <1>5 DEF Rewrite

\* A shorter queue of the same entries keeps what is said of the queue.
LEMMA LatestKept ==
  ASSUME QueueInv, stored' \in Seq(Entry), Within(stored', stored), Len(stored') <= Len(stored),
         \A s \in Submission : sub'[s] = "saved" => sub[s] = "saved" /\ version'[s] = version[s]
  PROVE  Len(stored') <= MaxQueue /\ SavedLatest'
<1>1. stored \in Seq(Entry) /\ MaxQueue \in Nat /\ Len(stored) <= MaxQueue
  BY RetryQueueAssumption DEF QueueInv, TypeInv, TypeOK
<1>2. Len(stored) \in Nat /\ Len(stored') \in Nat
  BY <1>1
<1>3. ASSUME NEW n \in 1..Len(stored'), sub'[stored'[n].id] = "saved" PROVE stored'[n].version = version'[stored'[n].id]
  <2>1. PICK m \in 1..Len(stored) : stored'[n] = stored[m]
    BY DEF Within
  <2>2. stored'[n].id \in Submission
    <3>1. stored'[n] \in Entry
      OBVIOUS
    <3>2. QED BY <3>1 DEF Entry
  <2>3. QED BY <1>3, <2>1, <2>2 DEF QueueInv, SavedLatest
<1>4. QED BY <1>1, <1>2, <1>3 DEF SavedLatest

\* Every step keeps the cap and the latest payloads.
LEMMA LatestStep ==
  ASSUME HasLocks, QueueInv, [Next]_vars
  PROVE  Len(stored') <= MaxQueue /\ SavedLatest'
<1>t. /\ stored \in Seq(Entry) /\ stored' \in Seq(Entry)
      /\ sub \in [Submission -> {"draft", "sending", "queueing", "saved", "unsaved", "unqueueing", "sent", "refused", "gone"}]
      /\ version \in [Submission -> 0..MaxVersions]
  <2>1. TypeInv'
    BY TypeStep DEF QueueInv
  <2>2. QED BY <2>1 DEF QueueInv, TypeInv, TypeOK
<1>w. Len(stored) \in Nat /\ Within(stored, stored)
  BY <1>t DEF Within
<1>s. ASSUME NEW s \in Submission, sub[s] # "saved", sub'[s] = "saved"
      PROVE  Len(stored') <= MaxQueue /\ SavedLatest'
  <2>1. QueueForRetry(s) /\ \E space : stored' = Shed(Enqueued(s), space) /\ stored' # <<>>
    BY <1>s, SavedByQueueing DEF QueueInv
  <2>2. sub[s] = "queueing" /\ UNCHANGED version /\ sub' = [sub EXCEPT ![s] = "saved"]
    <3>1. sub[s] = "queueing" /\ UNCHANGED version
          /\ (sub' = [sub EXCEPT ![s] = "saved"] \/ sub' = [sub EXCEPT ![s] = "unsaved"])
      BY <2>1 DEF QueueForRetry
    <3>2. QED BY <1>t, <1>s, <3>1
  <2>3. PICK c \in Nat, d \in 0..1, j \in Nat : Written(s, stored', c, d, j)
    BY <2>1, <2>2, WrittenForm DEF QueueInv
  <2>4. Len(stored') <= MaxQueue
    BY <2>3, WrittenOnce DEF QueueInv, OneEach
  <2> DEFINE rest == Others(s)
  <2>5. rest \in Seq(Entry) /\ Within(rest, stored) /\ \A n \in 1..Len(rest) : rest[n].id # s
    BY <1>t, OthersFacts
  <2>6. /\ c \in Nat /\ c <= Len(rest) /\ Len(stored') = Len(rest) - c + 1
        /\ stored'[Len(stored')].id = s /\ stored'[Len(stored')].version = version[s]
        /\ \A n \in 1..(Len(rest) - c) : stored'[n].id = rest[n + c].id /\ stored'[n].version = rest[n + c].version
    BY <2>3 DEF Written
  <2> HIDE DEF rest
  <2>7. Len(rest) \in Nat
    BY <2>5
  <2>8. ASSUME NEW n \in 1..Len(stored'), sub'[stored'[n].id] = "saved" PROVE stored'[n].version = version'[stored'[n].id]
    <3>1. CASE n = Len(stored')
      BY <2>2, <2>6, <3>1
    <3>2. CASE n # Len(stored')
      <4>1. n \in 1..(Len(rest) - c) /\ n + c \in 1..Len(rest)
        BY <2>6, <2>7, <3>2
      <4>2. PICK m \in 1..Len(stored) : rest[n + c] = stored[m]
        BY <2>5, <4>1 DEF Within
      <4>3. stored'[n].id = stored[m].id /\ stored'[n].version = stored[m].version /\ stored[m].id # s
        BY <2>5, <2>6, <4>1, <4>2
      <4>4. stored[m].id \in Submission
        <5>1. stored[m] \in Entry
          BY <1>t
        <5>2. QED BY <5>1 DEF Entry
      <4>5. sub[stored[m].id] = "saved"
        BY <1>t, <2>2, <2>8, <4>3, <4>4
      <4>6. QED BY <2>2, <4>3, <4>5 DEF QueueInv, SavedLatest
    <3>3. QED BY <3>1, <3>2
  <2>9. QED BY <2>4, <2>8 DEF SavedLatest
<1>k. ASSUME stored' = stored, \A s \in Submission : sub'[s] = "saved" => sub[s] = "saved" /\ version'[s] = version[s]
      PROVE  Len(stored') <= MaxQueue /\ SavedLatest'
  <2>1. Within(stored', stored) /\ Len(stored') <= Len(stored)
    BY <1>k, <1>w
  <2>2. QED BY <1>t, <1>k, <2>1, LatestKept
<1>1. ASSUME NEW s \in Submission, Submit(s) \/ Attempt(s) PROVE Len(stored') <= MaxQueue /\ SavedLatest'
  <2>1. stored' = stored
    BY <1>1 DEF Submit, Attempt
  <2>2. \A z \in Submission : sub'[z] = "saved" => sub[z] = "saved" /\ version'[z] = version[z]
    BY <1>t, <1>1 DEF Submit, Attempt
  <2>3. QED BY <1>k, <2>1, <2>2
<1>2. ASSUME NEW s \in Submission, QueueForRetry(s) PROVE Len(stored') <= MaxQueue /\ SavedLatest'
  <2>1. CASE sub' = [sub EXCEPT ![s] = "saved"]
    BY <1>t, <1>2, <1>s, <2>1 DEF QueueForRetry
  <2>2. CASE sub' # [sub EXCEPT ![s] = "saved"]
    <3>1. stored' = stored /\ sub' = [sub EXCEPT ![s] = "unsaved"] /\ UNCHANGED version
      BY <1>2, <2>2 DEF QueueForRetry
    <3>2. \A z \in Submission : sub'[z] = "saved" => sub[z] = "saved" /\ version'[z] = version[z]
      BY <1>t, <3>1
    <3>3. QED BY <1>k, <3>1, <3>2
  <2>3. QED BY <2>1, <2>2
<1>3. ASSUME NEW s \in Submission, Unqueue(s) PROVE Len(stored') <= MaxQueue /\ SavedLatest'
  <2>1. \A z \in Submission : sub'[z] = "saved" => sub[z] = "saved" /\ version'[z] = version[z]
    BY <1>t, <1>3 DEF Unqueue
  <2>2. CASE stored' = stored
    BY <1>k, <2>1, <2>2
  <2>3. CASE stored' = Others(s)
    <3>1. Within(stored', stored) /\ Distinct(stored) /\ Distinct(stored')
      BY <1>t, <2>3, OthersFacts DEF QueueInv, OneEach
    <3>2. Ids(stored') \subseteq Ids(stored) /\ Len(stored') \in Nat
      BY <1>t, <3>1 DEF Within, Ids
    <3>3. Len(stored') <= Len(stored)
      BY <1>w, <3>1, <3>2, NoLonger
    <3>4. QED BY <1>t, <2>1, <3>1, <3>3, LatestKept
  <2>4. QED BY <1>3, <2>2, <2>3 DEF Unqueue
<1>4. ASSUME NEW p \in Page, Load(p) \/ Headers(p) \/ Replay(p) PROVE Len(stored') <= MaxQueue /\ SavedLatest'
  BY <1>k, <1>4 DEF Load, Headers, Replay, sending
<1>5. ASSUME NEW p \in Page, StartFlush(p) PROVE Len(stored') <= MaxQueue /\ SavedLatest'
  <2>1. \A z \in Submission : sub'[z] = "saved" => sub[z] = "saved" /\ version'[z] = version[z]
    BY <1>5 DEF StartFlush, sending
  <2>2. CASE stored' = stored
    BY <1>k, <2>1, <2>2
  <2>3. CASE stored' = Elsewhere(p)
    <3>1. Within(stored', stored) /\ Distinct(stored) /\ Distinct(stored')
      BY <1>t, <2>3, ElsewhereFacts DEF QueueInv, OneEach
    <3>2. Ids(stored') \subseteq Ids(stored) /\ Len(stored') \in Nat
      BY <1>t, <3>1 DEF Within, Ids
    <3>3. Len(stored') <= Len(stored)
      BY <1>w, <3>1, <3>2, NoLonger
    <3>4. QED BY <1>t, <2>1, <3>1, <3>3, LatestKept
  <2>4. QED BY <1>5, <2>2, <2>3 DEF StartFlush
<1>6. ASSUME NEW p \in Page, Rewrite(p) PROVE Len(stored') <= MaxQueue /\ SavedLatest'
  <2>1. \A z \in Submission : sub'[z] = "saved" => sub[z] = "saved" /\ version'[z] = version[z]
    BY <1>6 DEF Rewrite, sending
  <2>2. QED BY <1>t, <1>6, <2>1, WrittenBack, LatestKept
<1>7. ASSUME NEW p \in Page, Close(p) PROVE Len(stored') <= MaxQueue /\ SavedLatest'
  <2>1. stored' = stored
    BY <1>7 DEF Close
  <2>2. \A z \in Submission : sub'[z] = "saved" => sub[z] = "saved" /\ version'[z] = version[z]
    BY <1>t, <1>7 DEF Close
  <2>3. QED BY <1>k, <2>1, <2>2
<1>8. ASSUME NEW s \in Submission, NEW v \in 1..MaxVersions, Arrive(s, v) PROVE Len(stored') <= MaxQueue /\ SavedLatest'
  BY <1>k, <1>8 DEF Arrive, sending
<1>9. CASE UNCHANGED vars
  BY <1>k, <1>9 DEF vars, sending
<1>10. QED BY <1>1, <1>2, <1>3, <1>4, <1>5, <1>6, <1>7, <1>8, <1>9 DEF Next, Send, Flush


\* Every step keeps what has landed to be unqueued.
LEMMA LandedStep ==
  ASSUME QueueInv, [Next]_vars
  PROVE  LandedFirst'
<1>t. /\ sub \in [Submission -> {"draft", "sending", "queueing", "saved", "unsaved", "unqueueing", "sent", "refused", "gone"}]
      /\ landed \in [Submission -> 0..MaxVersions] /\ version \in [Submission -> 0..MaxVersions]
  BY DEF QueueInv, TypeInv, TypeOK
<1>l. \A s \in Submission : landed[s] # 0 => landed'[s] # 0
  BY LandedStays DEF QueueInv
<1>k. ASSUME \A s \in Submission : sub'[s] = "unqueueing" => sub[s] = "unqueueing" PROVE LandedFirst'
  BY <1>l, <1>k DEF QueueInv, LandedFirst
<1>1. ASSUME NEW s \in Submission, Attempt(s) PROVE LandedFirst'
  <2>1. CASE sub' = [sub EXCEPT ![s] = "unqueueing"]
    <3>1. Land(s, version[s])
      BY <1>t, <1>1, <2>1 DEF Attempt
    <3>2. version[s] # 0
      BY <1>1 DEF Attempt, QueueInv, TypeInv
    <3>3. landed'[s] # 0
      BY <1>t, <3>1, <3>2 DEF Land
    <3>4. ASSUME NEW z \in Submission, sub'[z] = "unqueueing" PROVE landed'[z] # 0
      BY <1>t, <1>l, <2>1, <3>3, <3>4 DEF QueueInv, LandedFirst
    <3>5. QED BY <3>4 DEF LandedFirst
  <2>2. CASE sub' # [sub EXCEPT ![s] = "unqueueing"]
    BY <1>t, <1>k, <1>1, <2>2 DEF Attempt
  <2>3. QED BY <2>1, <2>2
<1>2. ASSUME NEW s \in Submission, Submit(s) \/ QueueForRetry(s) \/ Unqueue(s) PROVE LandedFirst'
  <2>1. \E a \in {"sending", "saved", "unsaved", "sent"} : sub' = [sub EXCEPT ![s] = a]
    BY <1>2 DEF Submit, QueueForRetry, Unqueue
  <2>2. QED BY <1>t, <1>k, <2>1
<1>3. ASSUME NEW p \in Page, Load(p) \/ StartFlush(p) \/ Headers(p) \/ Replay(p) \/ Rewrite(p) PROVE LandedFirst'
  BY <1>k, <1>3 DEF Load, StartFlush, Headers, Replay, Rewrite, sending
<1>4. ASSUME NEW p \in Page, Close(p) PROVE LandedFirst'
  BY <1>t, <1>k, <1>4 DEF Close
<1>5. ASSUME NEW s \in Submission, NEW v \in 1..MaxVersions, Arrive(s, v) PROVE LandedFirst'
  BY <1>k, <1>5 DEF Arrive, sending
<1>6. CASE UNCHANGED vars
  BY <1>k, <1>6 DEF vars, sending
<1>7. QED BY <1>1, <1>2, <1>3, <1>4, <1>5, <1>6 DEF Next, Send, Flush

\* The entries of a queue less its first.
LEMMA TailIds ==
  ASSUME NEW q \in Seq(Entry), q # <<>>
  PROVE  /\ Tail(q) \in Seq(Entry) /\ Head(q) \in Entry
         /\ Ids(q) = {Head(q).id} \cup Ids(Tail(q))
         /\ Within(Tail(q), q) /\ \E m \in 1..Len(q) : Head(q) = q[m]
<1> DEFINE u == Tail(q)
<1>1. Len(q) \in Nat /\ Len(q) > 0
  OBVIOUS
<1>2. u \in Seq(Entry) /\ Len(u) = Len(q) - 1 /\ Head(q) = q[1] /\ \A n \in 1..Len(u) : u[n] = q[n + 1]
  BY <1>1
<1> HIDE DEF u
<1>3. \A n \in 1..Len(u) : n + 1 \in 1..Len(q)
  BY <1>1, <1>2
<1>4. 1 \in 1..Len(q)
  BY <1>1
<1>5. Within(u, q)
  BY <1>2, <1>3 DEF Within
<1>6. Ids(q) = {q[1].id} \cup Ids(u)
  <2>1. ASSUME NEW n \in 1..Len(q), n # 1 PROVE q[n].id \in Ids(u)
    <3>1. n - 1 \in 1..Len(u) /\ (n - 1) + 1 = n
      BY <1>1, <1>2, <2>1
    <3>2. u[n - 1] = q[n]
      BY <1>2, <3>1
    <3>3. QED BY <3>1, <3>2 DEF Ids
  <2>2. Ids(u) \subseteq Ids(q)
    BY <1>5 DEF Within, Ids
  <2>3. q[1].id \in Ids(q)
    BY <1>4 DEF Ids
  <2>4. Ids(q) \subseteq {q[1].id} \cup Ids(u)
    BY <2>1 DEF Ids
  <2>5. QED BY <2>2, <2>3, <2>4
<1>7. QED BY <1>2, <1>4, <1>5, <1>6 DEF u

\* The entries of a queue and one more.
LEMMA AppendIds ==
  ASSUME NEW q \in Seq(Entry), NEW e \in Entry
  PROVE  /\ Ids(Append(q, e)) = Ids(q) \cup {e.id}
         /\ \A r : Within(q, r) /\ (\E m \in 1..Len(r) : e = r[m]) => Within(Append(q, e), r)
<1> DEFINE u == Append(q, e)
<1>1. Len(q) \in Nat /\ u \in Seq(Entry) /\ Len(u) = Len(q) + 1 /\ u[Len(q) + 1] = e /\ \A n \in 1..Len(q) : u[n] = q[n]
  OBVIOUS
<1> HIDE DEF u
<1>2. \A n \in 1..Len(u) : n \in 1..Len(q) \/ n = Len(q) + 1
  BY <1>1
<1>3. Len(q) + 1 \in 1..Len(u) /\ \A n \in 1..Len(q) : n \in 1..Len(u)
  BY <1>1
<1>4. Ids(u) = Ids(q) \cup {e.id}
  BY <1>1, <1>2, <1>3 DEF Ids
<1>5. \A r : Within(q, r) /\ (\E m \in 1..Len(r) : e = r[m]) => Within(u, r)
  BY <1>1, <1>2 DEF Within
<1>6. QED BY <1>4, <1>5 DEF u

\* Under the lock, every step keeps the flush alone with the queue.
LEMMA AloneStep ==
  ASSUME HasLocks, QueueInv, [Next]_vars
  PROVE  FlushesAlone'
<1>t. /\ stored \in Seq(Entry) /\ holder \in Page \cup {None}
      /\ page \in [Page -> {"closed", "loading", "headers", "replaying", "idle"}]
      /\ todo \in [Page -> Seq(Entry)] /\ failed \in [Page -> Seq(Entry)] /\ kept \in [Page -> Seq(Entry)]
  BY DEF QueueInv, TypeInv, TypeOK
<1>i. Ids(stored) \subseteq Submission
  <2>1. \A n \in 1..Len(stored) : stored[n] \in Entry
    BY <1>t
  <2>2. QED BY <2>1 DEF Ids, Entry
<1>l. \A s \in Submission : landed[s] # 0 => landed'[s] # 0
  BY LandedStays DEF QueueInv
<1>a. \A p \in Page : Flushing(p) => holder = p /\ Accounted(p)
  BY DEF QueueInv, FlushesAlone
<1>f. ASSUME NEW p \in Page, Flushing(p), UNCHANGED <<setting, stored>>, rejected \subseteq rejected',
             kept'[p] = kept[p], todo'[p] = todo[p], failed'[p] = failed[p]
      PROVE  Accounted(p)'
  <2>1. Accounted(p)
    BY <1>a, <1>f
  <2>2. Elsewhere(p)' = Elsewhere(p)
    BY <1>f DEF Elsewhere
  <2>3. QED BY <1>f, <1>i, <1>l, <2>1, <2>2 DEF Accounted
<1>u. ASSUME UNCHANGED <<setting, stored, holder, todo, failed, kept>>, rejected \subseteq rejected',
             \A p \in Page : Flushing(p)' => Flushing(p)
      PROVE  FlushesAlone'
  <2>1. ASSUME NEW p \in Page, Flushing(p)' PROVE holder' = p /\ Accounted(p)'
    BY <1>a, <1>f, <1>u, <2>1
  <2>2. QED BY <2>1 DEF FlushesAlone
<1>n. ASSUME Unlocked, UNCHANGED page PROVE FlushesAlone'
  <2>1. \A p \in Page : ~Flushing(p)
    BY <1>n, NobodyFlushing DEF QueueInv
  <2>2. QED BY <1>n, <2>1 DEF FlushesAlone, Flushing
\* The flush of one page ends: another page's goes on.
<1>e. ASSUME NEW p \in Page, NEW a \in {"idle", "closed"}, page' = [page EXCEPT ![p] = a], Release(p),
             UNCHANGED <<setting, rejected>>, stored' = stored \/ Flushing(p),
             todo' = [todo EXCEPT ![p] = <<>>], failed' = [failed EXCEPT ![p] = <<>>], kept' = [kept EXCEPT ![p] = <<>>]
      PROVE  FlushesAlone'
  <2>1. ASSUME NEW o \in Page, Flushing(o)' PROVE holder' = o /\ Accounted(o)'
    <3>1. o # p /\ Flushing(o)
      BY <1>t, <1>e, <2>1 DEF Flushing
    <3>2. holder = o /\ ~Flushing(p)
      BY <1>a, <3>1
    <3>3. holder' = o /\ stored' = stored
      BY <1>e, <3>1, <3>2 DEF Release
    <3>4. kept'[o] = kept[o] /\ todo'[o] = todo[o] /\ failed'[o] = failed[o]
      BY <1>t, <1>e, <3>1
    <3>5. QED BY <1>e, <1>f, <3>1, <3>3, <3>4
  <2>2. QED BY <2>1 DEF FlushesAlone
<1>1. ASSUME NEW s \in Submission, Submit(s) \/ Attempt(s) PROVE FlushesAlone'
  BY <1>u, <1>1 DEF Submit, Attempt, flush, Flushing
<1>2. ASSUME NEW s \in Submission, QueueForRetry(s) \/ Unqueue(s) PROVE FlushesAlone'
  BY <1>n, <1>2 DEF QueueForRetry, Unqueue, flush
<1>3. ASSUME NEW p \in Page, Load(p) PROVE FlushesAlone'
  BY <1>t, <1>u, <1>3 DEF Load, Flushing
<1>4. ASSUME NEW p \in Page, StartFlush(p) PROVE FlushesAlone'
  <2>1. \A o \in Page : ~Flushing(o)
    BY <1>4, NobodyFlushing DEF StartFlush, QueueInv
  <2>2. CASE ToRetry(p) = <<>>
    <3>1. page' = [page EXCEPT ![p] = "idle"]
      BY <1>4, <2>2 DEF StartFlush
    <3>2. \A o \in Page : ~Flushing(o)'
      BY <1>t, <2>1, <3>1 DEF Flushing
    <3>3. QED BY <3>2 DEF FlushesAlone
  <2>3. CASE ToRetry(p) # <<>>
    <3>1. /\ page' = [page EXCEPT ![p] = "headers"] /\ holder' = p
          /\ todo' = [todo EXCEPT ![p] = ToRetry(p)]
          /\ kept' = [kept EXCEPT ![p] = Elsewhere(p)]
          /\ failed' = [failed EXCEPT ![p] = <<>>]
          /\ UNCHANGED <<setting, stored>>
      BY <1>4, <2>3 DEF StartFlush
    <3>2. todo'[p] = ToRetry(p) /\ kept'[p] = Elsewhere(p) /\ failed'[p] = <<>>
      BY <1>t, <3>1
    <3>3. Elsewhere(p)' = Elsewhere(p)
      BY <3>1 DEF Elsewhere
    <3>4. Within(ToRetry(p), stored) /\ Within(<<>>, stored)
      BY <1>t, ToRetryFacts DEF Within
    <3>5. ASSUME NEW s \in Ids(stored), setting.endpointOf[s] = setting.flushEndpoint[p],
                 setting.visitor[p] \in {None, setting.authorOf[s]}
          PROVE  s \in Ids(ToRetry(p))
      <4>1. PICK n \in 1..Len(stored) : s = stored[n].id
        BY DEF Ids
      <4>2. PICK m \in 1..Len(ToRetry(p)) : ToRetry(p)[m] = stored[n]
        BY <1>t, <3>5, <4>1, ToRetryFacts
      <4>3. QED BY <4>1, <4>2 DEF Ids
    <3>6. Accounted(p)'
      BY <3>1, <3>2, <3>3, <3>4, <3>5 DEF Accounted
    <3>7. ASSUME NEW o \in Page, Flushing(o)' PROVE o = p
      BY <1>t, <2>1, <3>1, <3>7 DEF Flushing
    <3>8. QED BY <3>1, <3>6, <3>7 DEF FlushesAlone
  <2>4. QED BY <2>2, <2>3
<1>5. ASSUME NEW p \in Page, Headers(p) PROVE FlushesAlone'
  <2>1. CASE EndFlush(p)
    BY <1>e, <1>5, <2>1 DEF Headers, EndFlush
  <2>2. CASE page' = [page EXCEPT ![p] = "replaying"] /\ UNCHANGED <<holder, todo, failed, kept>>
    <3>1. \A o \in Page : Flushing(o)' => Flushing(o)
      BY <1>t, <1>5, <2>2 DEF Headers, Flushing
    <3>2. QED BY <1>u, <1>5, <2>2, <3>1 DEF Headers
  <2>3. QED BY <1>5, <2>1, <2>2 DEF Headers
<1>6. ASSUME NEW p \in Page, Replay(p) PROVE FlushesAlone'
  <2>1. /\ UNCHANGED <<setting, stored, holder, page, kept>> /\ todo[p] # <<>> /\ Flushing(p)
        /\ todo' = [todo EXCEPT ![p] = Tail(todo[p])]
    BY <1>6 DEF Replay, Flushing
  <2> DEFINE e == Head(todo[p])
  <2>2. /\ todo[p] \in Seq(Entry) /\ failed[p] \in Seq(Entry)
        /\ todo'[p] = Tail(todo[p]) /\ kept'[p] = kept[p]
    BY <1>t, <2>1
  <2>3. \/ Land(e.id, e.version) /\ failed' = failed /\ rejected' = rejected
        \/ rejected' = rejected \cup {e.id} /\ failed' = failed
        \/ failed' = [failed EXCEPT ![p] = Append(failed[p], e)] /\ rejected' = rejected
    BY <1>6 DEF Replay
  <2>4. /\ e \in Entry
        /\ Ids(todo[p]) = {e.id} \cup Ids(Tail(todo[p]))
        /\ Within(Tail(todo[p]), todo[p]) /\ \E m \in 1..Len(todo[p]) : e = todo[p][m]
    BY <2>1, <2>2, TailIds
  <2> HIDE DEF e
  <2>5. Accounted(p) /\ holder = p
    BY <1>a, <2>1
  <2>6. Within(Tail(todo[p]), stored) /\ \E m \in 1..Len(stored) : e = stored[m]
    BY <2>4, <2>5 DEF Accounted, Within
  <2>7. /\ rejected \subseteq rejected'
        /\ Within(failed'[p], stored)
        /\ Ids(failed[p]) \subseteq Ids(failed'[p])
        /\ e.id \in Ids(failed'[p]) \/ landed'[e.id] # 0 \/ e.id \in rejected'
    <3>1. CASE failed' = [failed EXCEPT ![p] = Append(failed[p], e)] /\ rejected' = rejected
      <4>1. failed'[p] = Append(failed[p], e)
        BY <1>t, <3>1
      <4>2. Ids(failed'[p]) = Ids(failed[p]) \cup {e.id} /\ Within(failed'[p], stored)
        BY <2>2, <2>4, <2>5, <2>6, <4>1, AppendIds DEF Accounted
      <4>3. QED BY <3>1, <4>2
    <3>2. CASE rejected' = rejected \cup {e.id} /\ failed' = failed
      BY <2>5, <3>2 DEF Accounted
    <3>3. CASE Land(e.id, e.version) /\ failed' = failed /\ rejected' = rejected
      <4>1. landed \in [Submission -> 0..MaxVersions]
        BY DEF QueueInv, TypeInv, TypeOK
      <4>2. e.id \in Submission /\ e.version \in 1..MaxVersions
        BY <2>4 DEF Entry
      <4>3. landed'[e.id] # 0
        BY <3>3, <4>1, <4>2 DEF Land
      <4>4. QED BY <2>5, <3>3, <4>3 DEF Accounted
    <3>4. QED BY <2>3, <3>1, <3>2, <3>3
  <2>8. Elsewhere(p)' = Elsewhere(p)
    BY <2>1 DEF Elsewhere
  <2>9. Accounted(p)'
    <3>1. ASSUME NEW s \in Ids(stored), setting.endpointOf[s] = setting.flushEndpoint[p],
                 setting.visitor[p] \in {None, setting.authorOf[s]}
          PROVE  s \in Ids(todo'[p]) \cup Ids(failed'[p]) \/ landed'[s] # 0 \/ s \in rejected'
      <4>1. s \in Ids(todo[p]) \cup Ids(failed[p]) \/ landed[s] # 0 \/ s \in rejected
        BY <2>5, <3>1 DEF Accounted
      <4>2. s \in Submission
        BY <1>i
      <4>3. QED BY <1>l, <2>2, <2>4, <2>7, <4>1, <4>2
    <3>2. kept'[p] = Elsewhere(p)'
      BY <2>1, <2>5, <2>8 DEF Accounted
    <3>3. Within(todo'[p], stored') /\ Within(failed'[p], stored')
      BY <2>1, <2>2, <2>6, <2>7
    <3>4. QED BY <2>1, <3>1, <3>2, <3>3 DEF Accounted
  <2>10. ASSUME NEW o \in Page, Flushing(o)' PROVE o = p
    BY <1>a, <2>1, <2>5, <2>10 DEF Flushing
  <2>11. QED BY <2>1, <2>5, <2>9, <2>10 DEF FlushesAlone
<1>7. ASSUME NEW p \in Page, Rewrite(p) PROVE FlushesAlone'
  BY <1>e, <1>7 DEF Rewrite, EndFlush, Flushing
<1>8. ASSUME NEW p \in Page, Close(p) PROVE FlushesAlone'
  BY <1>e, <1>8 DEF Close
<1>9. ASSUME NEW s \in Submission, NEW v \in 1..MaxVersions, Arrive(s, v) PROVE FlushesAlone'
  BY <1>u, <1>9 DEF Arrive, flush, Flushing
<1>10. CASE UNCHANGED vars
  BY <1>u, <1>10 DEF vars, flush, Flushing
<1>11. QED BY <1>1, <1>2, <1>3, <1>4, <1>5, <1>6, <1>7, <1>8, <1>9, <1>10 DEF Next, Send, Flush

\* QueueInv holds initially and is kept by every step under the lock.
LEMMA QueueInit == Init => QueueInv
<1> SUFFICES ASSUME Init PROVE QueueInv
  OBVIOUS
<1>1. Len(stored) <= MaxQueue /\ SavedLatest
  BY RetryQueueAssumption DEF Init, SavedLatest
<1>2. LandedFirst /\ FlushesAlone
  BY DEF Init, LandedFirst, FlushesAlone, Flushing
<1>3. QED BY <1>1, <1>2, TypeInit, OneEachInit DEF QueueInv

LEMMA QueueStep == HasLocks /\ QueueInv /\ [Next]_vars => QueueInv'
BY TypeStep, OneEachStep, LatestStep, LandedStep, AloneStep DEF QueueInv

\* With the browser's locks, the queue keeps its cap and one entry per submission,
\* and what will be replayed is the payload its visitor was last told is saved,
\* whatever the pages, submissions, sites and bounds.
THEOREM LatestQueued ==
  ASSUME HasLocks
  PROVE  Spec => []QueuedIsLatest
<1>1. QueueInv => QueuedIsLatest
  <2> SUFFICES ASSUME QueueInv PROVE QueuedIsLatest
    OBVIOUS
  <2>1. stored \in Seq(Entry) /\ Distinct(stored)
    BY DEF QueueInv, TypeInv, TypeOK, OneEach
  <2>2. Len(stored) \in Nat
    BY <2>1
  <2>3. Len(stored) = Cardinality(Ids(stored))
    BY <2>1, <2>2, DistinctLength
  <2>4. QED BY <2>3 DEF QueueInv, SavedLatest, QueuedIsLatest
<1>2. QueueInv /\ [Next]_vars => QueueInv'
  BY QueueStep
<1>3. QED BY <1>1, <1>2, QueueInit, PTL DEF Spec

\* What leaves the queue has landed, was refused, is somebody else's, or makes
\* place for newer entries.
LEMMA NoneForgotten ==
  ASSUME HasLocks, QueueInv, [Next]_vars, NEW s \in Ids(stored) \ Ids(stored')
  PROVE  landed[s] # 0 \/ s \in rejected \/ Quitting(s) \/ Queueing
<1>t. /\ stored \in Seq(Entry) /\ s \in Ids(stored) /\ s \notin Ids(stored')
      /\ page \in [Page -> {"closed", "loading", "headers", "replaying", "idle"}]
      /\ sub \in [Submission -> {"draft", "sending", "queueing", "saved", "unsaved", "unqueueing", "sent", "refused", "gone"}]
      /\ todo \in [Page -> Seq(Entry)] /\ failed \in [Page -> Seq(Entry)] /\ kept \in [Page -> Seq(Entry)]
  BY DEF QueueInv, TypeInv, TypeOK
<1>m. PICK n \in 1..Len(stored) : s = stored[n].id
  BY DEF Ids
<1>c. stored' # stored
  BY <1>t
<1>1. ASSUME NEW z \in Submission, QueueForRetry(z) PROVE Queueing
  <2>1. sub[z] = "queueing" /\ sub' = [sub EXCEPT ![z] = "saved"]
    BY <1>c, <1>1 DEF QueueForRetry
  <2>2. QED BY <1>t, <2>1 DEF Queueing
<1>2. ASSUME NEW z \in Submission, Unqueue(z) PROVE landed[s] # 0
  <2>1. stored' = Others(z) /\ sub[z] = "unqueueing"
    BY <1>c, <1>2 DEF Unqueue
  <2>2. s = z
    <3>1. SUFFICES ASSUME s # z PROVE s \in Ids(Others(z))
      BY <1>t, <2>1
    <3>2. PICK m \in 1..Len(Others(z)) : Others(z)[m] = stored[n]
      BY <1>t, <1>m, <3>1, OthersFacts
    <3>3. QED BY <1>m, <3>2 DEF Ids
  <2>3. QED BY <2>1, <2>2 DEF QueueInv, LandedFirst
<1>e. ASSUME NEW p \in Page, s \notin Ids(Elsewhere(p)) PROVE setting.endpointOf[s] = setting.flushEndpoint[p]
  <2>1. SUFFICES ASSUME setting.endpointOf[s] # setting.flushEndpoint[p] PROVE s \in Ids(Elsewhere(p))
    BY <1>e
  <2>2. PICK m \in 1..Len(Elsewhere(p)) : Elsewhere(p)[m] = stored[n]
    BY <1>t, <1>m, <2>1, ElsewhereFacts
  <2>3. QED BY <1>m, <2>2 DEF Ids
<1>3. ASSUME NEW p \in Page, StartFlush(p) PROVE Quitting(s)
  <2>1. /\ ToRetry(p) = <<>> /\ stored' = Elsewhere(p) /\ page[p] = "loading"
        /\ page' = [page EXCEPT ![p] = "idle"]
    BY <1>c, <1>3 DEF StartFlush
  <2>2. setting.endpointOf[s] = setting.flushEndpoint[p]
    BY <1>t, <1>e, <2>1
  <2>3. setting.visitor[p] \notin {None, setting.authorOf[s]}
    <3>1. SUFFICES ASSUME setting.visitor[p] \in {None, setting.authorOf[s]} PROVE FALSE
      OBVIOUS
    <3>2. \E m \in 1..Len(ToRetry(p)) : ToRetry(p)[m] = stored[n]
      BY <1>t, <1>m, <2>2, <3>1, ToRetryFacts
    <3>3. QED BY <2>1, <3>2
  <2>4. page'[p] = "idle"
    BY <1>t, <2>1
  <2>5. QED BY <2>1, <2>2, <2>3, <2>4 DEF Quitting
<1>4. ASSUME NEW p \in Page, Rewrite(p) PROVE landed[s] # 0 \/ s \in rejected \/ Quitting(s)
  <2>1. /\ stored' = kept[p] \o failed[p] /\ page[p] = "replaying" /\ todo[p] = <<>>
        /\ page' = [page EXCEPT ![p] = "idle"]
    BY <1>c, <1>4 DEF Rewrite, EndFlush
  <2>2. Accounted(p)
    BY <2>1 DEF QueueInv, FlushesAlone, Flushing
  <2>3. s \notin Ids(kept[p]) /\ s \notin Ids(failed[p])
    <3>1. kept[p] \in Seq(Entry) /\ failed[p] \in Seq(Entry) /\ Split(setting, p, kept[p], todo[p], failed[p])
      BY <1>t DEF QueueInv, OneEach
    <3>2. Ids(stored') = Ids(kept[p]) \cup Ids(failed[p])
      <4>1. \A m \in 1..Len(kept[p]), k \in 1..Len(failed[p]) : kept[p][m].id # failed[p][k].id
        BY <3>1 DEF Split
      <4>2. Distinct(kept[p]) /\ Distinct(failed[p])
        BY <3>1 DEF Split
      <4>3. QED BY <2>1, <3>1, <4>1, <4>2, Joined
    <3>3. QED BY <1>t, <3>2
  <2>4. setting.endpointOf[s] = setting.flushEndpoint[p]
    BY <1>e, <2>2, <2>3 DEF Accounted
  <2>5. CASE setting.visitor[p] \in {None, setting.authorOf[s]}
    <3>1. s \in Ids(todo[p]) \cup Ids(failed[p]) \/ landed[s] # 0 \/ s \in rejected
      BY <1>t, <2>2, <2>4, <2>5 DEF Accounted
    <3>2. Ids(todo[p]) = {}
      BY <2>1 DEF Ids
    <3>3. QED BY <2>3, <3>1, <3>2
  <2>6. CASE setting.visitor[p] \notin {None, setting.authorOf[s]}
    <3>1. page'[p] = "idle"
      BY <1>t, <2>1
    <3>2. QED BY <2>1, <2>4, <2>6, <3>1 DEF Quitting
  <2>7. QED BY <2>5, <2>6
<1>5. ASSUME NEW z \in Submission, Submit(z) \/ Attempt(z) PROVE FALSE
  BY <1>c, <1>5 DEF Submit, Attempt
<1>6. ASSUME NEW p \in Page, Load(p) \/ Headers(p) \/ Replay(p) \/ Close(p) PROVE FALSE
  BY <1>c, <1>6 DEF Load, Headers, Replay, Close
<1>7. ASSUME NEW z \in Submission, NEW v \in 1..MaxVersions, Arrive(z, v) PROVE FALSE
  BY <1>c, <1>7 DEF Arrive
<1>8. CASE UNCHANGED vars
  BY <1>c, <1>8 DEF vars
<1>9. QED BY <1>1, <1>2, <1>3, <1>4, <1>5, <1>6, <1>7, <1>8 DEF Next, Send, Flush

\* With the browser's locks, no flush forgets what another tab queued, whatever
\* the pages, submissions, sites and bounds.
THEOREM NothingLost ==
  ASSUME HasLocks
  PROVE  Spec => NothingForgotten
<1>1. QueueInv /\ [Next]_vars =>
        [\A s \in Ids(stored) \ Ids(stored') : landed[s] # 0 \/ s \in rejected \/ Quitting(s) \/ Queueing]_vars
  BY NoneForgotten
<1>2. QueueInv /\ [Next]_vars => QueueInv'
  BY QueueStep
<1>3. QED BY <1>1, <1>2, QueueInit, PTL DEF Spec, NothingForgotten

\* The lock is held by a page whose flush has steps to take.
LockInv == holder # None => holder \in Page /\ page[holder] \in {"headers", "replaying"}

\* However flushes end, fail or die with their tab, the lock is released: as long as it is held, the flush that holds it is
\* under way, so that a send which needs it waits for a flush and never for nothing (api-client.ts withRetryLock).
THEOREM LockOfAFlush == Spec => []LockInv
<1>1. Init => LockInv
  BY DEF Init, LockInv
<1>2. TypeInv /\ LockInv /\ [Next]_vars => LockInv'
  <2> SUFFICES ASSUME TypeInv, LockInv, [Next]_vars PROVE LockInv'
    OBVIOUS
  <2>0. page \in [Page -> {"closed", "loading", "headers", "replaying", "idle"}] /\ None \notin Page
    BY RetryQueueAssumption DEF TypeInv, TypeOK
  \* A page that ends its flush or closes gives the lock up; what another page does leaves it where it is.
  <2>r. ASSUME NEW p \in Page, NEW how, page' = [page EXCEPT ![p] = how], Release(p) PROVE LockInv'
    BY <2>0, <2>r DEF Release, LockInv
  <2>u. ASSUME UNCHANGED <<page, holder>> PROVE LockInv'
    BY <2>u DEF LockInv
  <2>1. ASSUME NEW s \in Submission, Submit(s) \/ Send(s) PROVE LockInv'
    BY <2>u, <2>1 DEF Submit, Send, Attempt, QueueForRetry, Unqueue, flush
  <2>2. ASSUME NEW p \in Page, Load(p) PROVE LockInv'
    BY <2>0, <2>2 DEF Load, LockInv
  <2>3. ASSUME NEW p \in Page, StartFlush(p) PROVE LockInv'
    BY <2>0, <2>3 DEF StartFlush, LockInv
  <2>4. ASSUME NEW p \in Page, Headers(p) PROVE LockInv'
    <3>1. CASE page' = [page EXCEPT ![p] = "replaying"] /\ UNCHANGED holder
      BY <2>0, <3>1 DEF LockInv
    <3>2. CASE EndFlush(p)
      BY <2>r, <3>2 DEF EndFlush
    <3>3. QED BY <2>4, <3>1, <3>2 DEF Headers
  <2>5. ASSUME NEW p \in Page, Replay(p) \/ Rewrite(p) PROVE LockInv'
    BY <2>r, <2>u, <2>5 DEF Replay, Rewrite, EndFlush
  <2>6. ASSUME NEW p \in Page, Close(p) PROVE LockInv'
    BY <2>r, <2>6 DEF Close
  <2>7. ASSUME NEW s \in Submission, NEW v \in 1..MaxVersions, Arrive(s, v) PROVE LockInv'
    BY <2>u, <2>7 DEF Arrive, flush
  <2>8. CASE UNCHANGED vars
    BY <2>u, <2>8 DEF vars, flush
  <2>9. QED BY <2>1, <2>2, <2>3, <2>4, <2>5, <2>6, <2>7, <2>8 DEF Next, Flush
<1>3. QED BY <1>1, <1>2, TypeInit, TypeStep, PTL DEF Spec

(***************************************************************************)
(* TaskQueue: its types, its maps, and that it implements TaskOrder.       *)
(***************************************************************************)
Started(t) == state[t] \in {"running", "done", "settled", "cleared"}
Over(t) == state[t] \in {"settled", "cleared"}
OnFeedback(t) == work[t].kind # "project"

\* u was queued before t, which has to wait for it.
Before(u, t) == u \in earlier[t] /\ Order!Blocks(work[u], work[t])

\* The tasks that were called have their work, and they and no other a past.
Called ==
  /\ \A t \in Task : state[t] # "new" => work[t] \in Work
  /\ \A t \in Task : \A u \in earlier[t] \cup after[t] : state[t] # "new" /\ state[u] # "new"

\* A feedback's tail is a task of it that has not been cleared, and the last
\* of those that are not over; likewise for a project.
FeedbackTails ==
  \A f \in Feedback :
    /\ feedbackTails[f] # NoTask => /\ state[feedbackTails[f]] \notin {"new", "cleared"}
                                  /\ OnFeedback(feedbackTails[f])
                                  /\ work[feedbackTails[f]].feedback = f
    /\ \A u \in Task : (state[u] # "new" /\ ~Over(u) /\ OnFeedback(u) /\ work[u].feedback = f) =>
         /\ feedbackTails[f] # NoTask
         /\ u = feedbackTails[f] \/ u \in earlier[feedbackTails[f]]

ProjectTails ==
  \A p \in Project :
    /\ projectTails[p] # NoTask => /\ state[projectTails[p]] \notin {"new", "cleared"}
                                 /\ ~OnFeedback(projectTails[p])
                                 /\ work[projectTails[p]].project = p
    /\ \A u \in Task : (state[u] # "new" /\ ~Over(u) /\ ~OnFeedback(u) /\ work[u].project = p) =>
         /\ projectTails[p] # NoTask
         /\ u = projectTails[p] \/ u \in earlier[projectTails[p]]

\* A set in the map is not empty; its members are the uncleared feedback tasks
\* of the project.
Sets ==
  /\ \A t \in Task : tasks[t] # NoTask <=> (state[t] # "new" /\ OnFeedback(t))
  /\ \A t \in Task : tasks[t] # NoTask => state[tasks[t]] # "new"
  /\ \A s, t \in Task : t \in members[s] => tasks[t] = s /\ state[t] # "cleared"
  /\ \A p \in Project : feedbackTasksByProject[p] # NoTask =>
       /\ members[feedbackTasksByProject[p]] # {}
       /\ \A t \in members[feedbackTasksByProject[p]] : work[t].project = p

\* What a task has to wait for is over, or waited for, by it or by a task it
\* waits for.
Chained ==
  \A t, u \in Task : Before(u, t) => Over(u) \/ u \in after[t] \/ \E w \in after[t] : Before(u, w)

\* A task that runs, or ran, had nothing left to wait for.
Ordered == \A t, u \in Task : Started(t) /\ Before(u, t) => Over(u)

IInv ==
  /\ TaskTypeOK
  /\ Called
  /\ FeedbackTails
  /\ ProjectTails
  /\ Sets
  /\ SetStaysProjects
  /\ Chained
  /\ Ordered

USE TaskQueueAssumption

\* The queue is empty when it is created.
LEMMA InitInv == TaskInit => IInv
  BY DEF TaskInit, IInv, TaskTypeOK, Called, FeedbackTails, ProjectTails, Sets, SetStaysProjects, Chained,
         Ordered, Before, Over, Started, OnFeedback, Work

\* What a call queues: the two forms of a feedback task, and a project task.
LEMMA QueueFeedbackInv ==
  ASSUME IInv, NEW t \in Task, NEW p \in Project, NEW f \in Feedback,
         ForFeedback(t, p, f) \/ ForCreation(t, p, f)
  PROVE  IInv'
<1> DEFINE w == work'[t]
<1> USE DEF IInv
<1>1. /\ state[t] = "new" /\ state' = [state EXCEPT ![t] = "queued"]
      /\ w \in Work /\ w.kind \in {"feedback", "creation"} /\ w.project = p /\ w.feedback = f
      /\ work' = [work EXCEPT ![t] = w]
      /\ earlier' = [earlier EXCEPT ![t] = {u \in Task : state[u] # "new"}]
      /\ after' = [after EXCEPT ![t] =
                     (IF w.kind = "feedback" THEN {projectTails[p], feedbackTails[f]} ELSE {feedbackTails[f]}) \ {NoTask}]
      /\ feedbackTails' = [feedbackTails EXCEPT ![f] = t]
      /\ Join(t, p)
      /\ UNCHANGED projectTails
  BY DEF ForFeedback, ForCreation, QueueOnFeedback, Queued, Chain, TaskTypeOK, Work
<1>2. TaskTypeOK'
  BY <1>1 DEF TaskTypeOK, Join
<1>3. Called'
  BY <1>1 DEF Called, TaskTypeOK, Work, FeedbackTails, ProjectTails
<1>4. FeedbackTails'
  BY <1>1, <1>3 DEF FeedbackTails, Called, TaskTypeOK, OnFeedback, Over, Work
<1>5. ProjectTails'
  BY <1>1, <1>3 DEF ProjectTails, Called, TaskTypeOK, OnFeedback, Over, Work
<1>6. Sets' /\ SetStaysProjects'
  BY <1>1 DEF Sets, SetStaysProjects, Join, Called, TaskTypeOK, OnFeedback, Work
<1>7. Chained'
  <2> SUFFICES ASSUME NEW v \in Task, NEW u \in Task, Before(u, v)'
               PROVE  (Over(u) \/ u \in after[v] \/ \E x \in after[v] : Before(u, x))'
    BY DEF Chained
  <2>1. CASE v = t
    <3>1. u # t /\ state[u] # "new" /\ work[u] \in Work /\ work'[u] = work[u] /\ state'[u] = state[u]
      BY <1>1, <2>1 DEF Before, Called, TaskTypeOK
    <3>2. CASE OnFeedback(u)
      <4>1. work[u].feedback = f
        BY <1>1, <2>1, <3>1, <3>2 DEF Before, Order!Blocks, OnFeedback
      <4>2. Over(u) \/ (feedbackTails[f] \in Task /\ (u = feedbackTails[f] \/ Before(u, feedbackTails[f])))
        BY <3>1, <3>2, <4>1 DEF FeedbackTails, TaskTypeOK, OnFeedback, Before, Order!Blocks
      <4> QED
        BY <1>1, <2>1, <3>1, <4>2 DEF Before, Over, TaskTypeOK, FeedbackTails
    <3>3. CASE ~OnFeedback(u)
      <4>1. work[u].project = p /\ w.kind = "feedback"
        BY <1>1, <2>1, <3>1, <3>3 DEF Before, Order!Blocks, OnFeedback
      <4>2. Over(u) \/ (projectTails[p] \in Task /\ (u = projectTails[p] \/ Before(u, projectTails[p])))
        BY <3>1, <3>3, <4>1 DEF ProjectTails, TaskTypeOK, OnFeedback, Before, Order!Blocks
      <4> QED
        BY <1>1, <2>1, <3>1, <4>1, <4>2 DEF Before, Over, TaskTypeOK, ProjectTails
    <3> QED
      BY <3>2, <3>3
  <2>2. CASE v # t
    <3>1. /\ earlier'[v] = earlier[v] /\ after'[v] = after[v] /\ work'[v] = work[v]
          /\ u \in earlier[v] /\ u # t /\ work'[u] = work[u]
      BY <1>1, <2>2 DEF Before, Called, TaskTypeOK
    <3>2. Over(u) \/ u \in after[v] \/ \E x \in after[v] : Before(u, x)
      BY <3>1 DEF Before, Chained
    <3>3. Over(u) => Over(u)'
      BY <1>1, <3>1 DEF Over, TaskTypeOK
    <3>4. ASSUME NEW x \in after[v], Before(u, x) PROVE Before(u, x)'
      BY <1>1, <3>1, <3>4 DEF Before, Called, TaskTypeOK
    <3> QED
      BY <3>1, <3>2, <3>3, <3>4
  <2> QED
    BY <2>1, <2>2
<1>8. Ordered'
  BY <1>1 DEF Ordered, Before, Called, TaskTypeOK, Over, Started, Work
<1> QED
  BY <1>2, <1>3, <1>4, <1>5, <1>6, <1>7, <1>8

LEMMA QueueProjectInv ==
  ASSUME IInv, NEW t \in Task, NEW p \in Project, ForProject(t, p)
  PROVE  IInv'
<1> DEFINE w == work'[t]
<1> USE DEF IInv
<1>1. /\ state[t] = "new" /\ state' = [state EXCEPT ![t] = "queued"]
      /\ w \in Work /\ w.kind = "project" /\ w.project = p
      /\ work' = [work EXCEPT ![t] = w]
      /\ earlier' = [earlier EXCEPT ![t] = {u \in Task : state[u] # "new"}]
      /\ after' = [after EXCEPT ![t] = ({projectTails[p]} \cup Pending(p)) \ {NoTask}]
      /\ projectTails' = [projectTails EXCEPT ![p] = t]
      /\ UNCHANGED <<feedbackTails, feedbackTasksByProject, members, tasks>>
  BY DEF ForProject, Queued, Chain, TaskTypeOK, Work
<1>2. TaskTypeOK'
  BY <1>1 DEF TaskTypeOK, Pending
<1>3. Called'
  BY <1>1 DEF Called, TaskTypeOK, Work, ProjectTails, Sets, Pending
<1>4. FeedbackTails'
  BY <1>1, <1>3 DEF FeedbackTails, Called, TaskTypeOK, OnFeedback, Over, Work
<1>5. ProjectTails'
  BY <1>1, <1>3 DEF ProjectTails, Called, TaskTypeOK, OnFeedback, Over, Work
<1>6. Sets' /\ SetStaysProjects'
  BY <1>1 DEF Sets, SetStaysProjects, Called, TaskTypeOK, OnFeedback, Work
<1>7. Chained'
  <2> SUFFICES ASSUME NEW v \in Task, NEW u \in Task, Before(u, v)'
               PROVE  (Over(u) \/ u \in after[v] \/ \E x \in after[v] : Before(u, x))'
    BY DEF Chained
  <2>1. CASE v = t
    <3>1. /\ u # t /\ state[u] # "new" /\ work[u] \in Work /\ work[u].project = p
          /\ work'[u] = work[u] /\ state'[u] = state[u]
      BY <1>1, <2>1 DEF Before, Called, TaskTypeOK, Order!Blocks
    <3>2. CASE OnFeedback(u)
      BY <1>1, <2>1, <3>1, <3>2 DEF Sets, SetStaysProjects, Pending, TaskTypeOK, Over
    <3>3. CASE ~OnFeedback(u)
      <4>1. Over(u) \/ (projectTails[p] \in Task /\ (u = projectTails[p] \/ Before(u, projectTails[p])))
        BY <3>1, <3>3 DEF ProjectTails, TaskTypeOK, OnFeedback, Before, Order!Blocks
      <4> QED
        BY <1>1, <2>1, <3>1, <4>1 DEF Before, Over, TaskTypeOK, ProjectTails
    <3> QED
      BY <3>2, <3>3
  <2>2. CASE v # t
    <3>1. /\ earlier'[v] = earlier[v] /\ after'[v] = after[v] /\ work'[v] = work[v]
          /\ u \in earlier[v] /\ u # t /\ work'[u] = work[u]
      BY <1>1, <2>2 DEF Before, Called, TaskTypeOK
    <3>2. Over(u) \/ u \in after[v] \/ \E x \in after[v] : Before(u, x)
      BY <3>1 DEF Before, Chained
    <3>3. Over(u) => Over(u)'
      BY <1>1, <3>1 DEF Over, TaskTypeOK
    <3>4. ASSUME NEW x \in after[v], Before(u, x) PROVE Before(u, x)'
      BY <1>1, <3>1, <3>4 DEF Before, Called, TaskTypeOK
    <3> QED
      BY <3>1, <3>2, <3>3, <3>4
  <2> QED
    BY <2>1, <2>2
<1>8. Ordered'
  BY <1>1 DEF Ordered, Before, Called, TaskTypeOK, Over, Started, Work
<1> QED
  BY <1>2, <1>3, <1>4, <1>5, <1>6, <1>7, <1>8

\* A task starts, and its promises settle.
LEMMA StartInv ==
  ASSUME IInv, NEW t \in Task, Start(t)
  PROVE  IInv'
<1> USE DEF IInv, Start, maps
<1>1. TaskTypeOK' /\ Called'
  BY DEF TaskTypeOK, Called
<1>2. FeedbackTails' /\ ProjectTails'
  BY DEF FeedbackTails, ProjectTails, TaskTypeOK, OnFeedback, Over
<1>3. Sets' /\ SetStaysProjects'
  BY DEF Sets, SetStaysProjects, TaskTypeOK, OnFeedback
<1>4. Chained'
  BY DEF Chained, Before, TaskTypeOK, Over
<1>5. Ordered'
  BY DEF Ordered, Chained, Before, TaskTypeOK, Over, Started
<1> QED
  BY <1>1, <1>2, <1>3, <1>4, <1>5

LEMMA SettleInv ==
  ASSUME IInv, NEW t \in Task, Finish(t) \/ Settle(t)
  PROVE  IInv'
<1> USE DEF IInv, Finish, Settle, maps
<1>1. TaskTypeOK' /\ Called'
  BY DEF TaskTypeOK, Called
<1>2. FeedbackTails' /\ ProjectTails'
  BY DEF FeedbackTails, ProjectTails, TaskTypeOK, OnFeedback, Over
<1>3. Sets' /\ SetStaysProjects'
  BY DEF Sets, SetStaysProjects, TaskTypeOK, OnFeedback
<1>4. Chained'
  BY DEF Chained, Before, TaskTypeOK, Over
<1>5. Ordered'
  BY DEF Ordered, Before, TaskTypeOK, Over, Started
<1> QED
  BY <1>1, <1>2, <1>3, <1>4, <1>5

LEMMA ClearInv ==
  ASSUME IInv, NEW t \in Task, Clear(t)
  PROVE  IInv'
<1> USE DEF IInv
<1>1. /\ state[t] = "settled" /\ state' = [state EXCEPT ![t] = "cleared"]
      /\ work[t] \in Work
      /\ UNCHANGED <<work, earlier, after, tasks>>
  BY DEF Clear, Called, TaskTypeOK
<1>2. TaskTypeOK'
  BY <1>1 DEF TaskTypeOK, Clear
<1>3. Called'
  BY <1>1 DEF Called, TaskTypeOK
<1>4. FeedbackTails'
  BY <1>1 DEF FeedbackTails, Clear, Ordered, Before, Order!Blocks, TaskTypeOK, OnFeedback, Over, Started
<1>5. ProjectTails'
  BY <1>1 DEF ProjectTails, Clear, Ordered, Before, Order!Blocks, TaskTypeOK, OnFeedback, Over, Started
<1>6. Sets' /\ SetStaysProjects'
  <2>1. CASE ~OnFeedback(t)
    BY <1>1, <2>1 DEF Sets, SetStaysProjects, Clear, TaskTypeOK, OnFeedback
  <2>2. CASE OnFeedback(t)
    <3>1. /\ tasks[t] \in Task
          /\ members' = [members EXCEPT ![tasks[t]] = @ \ {t}]
          /\ feedbackTasksByProject' =
               IF members[tasks[t]] \subseteq {t}
               THEN [feedbackTasksByProject EXCEPT ![work[t].project] = NoTask]
               ELSE feedbackTasksByProject
      BY <1>1, <2>2 DEF Clear, Sets, TaskTypeOK, OnFeedback
    <3>2. work[t].project \in Project
      BY <1>1 DEF Work
    <3>3. feedbackTasksByProject[work[t].project] = tasks[t] /\ t \in members[tasks[t]]
      BY <1>1, <3>1 DEF SetStaysProjects
    <3>4. Sets'
      BY <1>1, <3>1, <3>2, <3>3 DEF Sets, TaskTypeOK, OnFeedback
    <3>5. SetStaysProjects'
      BY <1>1, <3>1, <3>2, <3>3 DEF Sets, SetStaysProjects, TaskTypeOK
    <3> QED
      BY <3>4, <3>5
  <2> QED
    BY <2>1, <2>2
<1>7. Chained' /\ Ordered'
  BY <1>1 DEF Chained, Ordered, Before, TaskTypeOK, Over, Started
<1> QED
  BY <1>2, <1>3, <1>4, <1>5, <1>6, <1>7

\* The invariant holds of every behaviour.
THEOREM Invariance == TaskSpec => []IInv
<1>1. IInv /\ [TaskNext]_taskVars => IInv'
  <2> SUFFICES ASSUME IInv, [TaskNext]_taskVars PROVE IInv'
    OBVIOUS
  <2>1. CASE UNCHANGED taskVars
    BY <2>1 DEF taskVars, maps, IInv, TaskTypeOK, Called, FeedbackTails, ProjectTails, Sets, SetStaysProjects,
                Chained, Ordered, Before, Over, Started, OnFeedback
  <2>2. ASSUME NEW t \in Task, Call(t) PROVE IInv'
    BY <2>2, QueueFeedbackInv, QueueProjectInv DEF Call
  <2>3. ASSUME NEW t \in Task, Run(t) PROVE IInv'
    BY <2>3, StartInv, SettleInv, ClearInv DEF Run
  <2> QED
    BY <2>1, <2>2, <2>3 DEF TaskNext
<1> QED
  BY <1>1, InitInv, PTL DEF TaskSpec

\* Every variable of the queue stays in its type.
THEOREM TaskTypeCorrect == TaskSpec => []TaskTypeOK
<1>1. IInv => TaskTypeOK
  BY DEF IInv
<1> QED
  BY <1>1, Invariance, PTL

\* Until a task is cleared, its project's set is the one it joined: the comment
\* "a set leaves the map only once empty" is true of createTaskQueue.
THEOREM StableSets == TaskSpec => []SetStaysProjects
<1>1. IInv => SetStaysProjects
  BY DEF IInv
<1> QED
  BY <1>1, Invariance, PTL

\* A queue with no task queued or running holds nothing, whatever it has run.
THEOREM Idle == TaskSpec => []IdleHoldsNothing
<1>1. IInv => IdleHoldsNothing
  <2> SUFFICES ASSUME IInv, \A t \in Task : state[t] \in {"new", "cleared"}
               PROVE  /\ \A f \in Feedback : feedbackTails[f] = NoTask
                      /\ \A p \in Project : projectTails[p] = NoTask /\ feedbackTasksByProject[p] = NoTask
    BY DEF IdleHoldsNothing
  <2>1. \A f \in Feedback : feedbackTails[f] = NoTask
    BY DEF IInv, FeedbackTails, TaskTypeOK
  <2>2. \A p \in Project : projectTails[p] = NoTask
    BY DEF IInv, ProjectTails, TaskTypeOK
  <2>3. \A p \in Project : feedbackTasksByProject[p] = NoTask
    BY DEF IInv, Sets, TaskTypeOK
  <2> QED
    BY <2>1, <2>2, <2>3
<1> QED
  BY <1>1, Invariance, PTL

\* The maps of tails and sets implement the order the queue promises.
THEOREM Implements == TaskSpec => OrderedTasks
<1> DEFINE phase == [t \in Task |-> Phase(t)]
<1>1. TaskInit => Order!Init
  BY DEF TaskInit, Order!Init, Phase
<1>2. IInv /\ IInv' /\ [TaskNext]_taskVars => [Order!Next]_(Order!vars)
  <2> SUFFICES ASSUME IInv, IInv', [TaskNext]_taskVars
               PROVE  [Order!Next]_(Order!vars)
    OBVIOUS
  <2> USE DEF Phase
  <2>1. CASE UNCHANGED taskVars
    BY <2>1 DEF taskVars, maps, Order!vars
  <2>2. ASSUME NEW t \in Task, NEW w \in Work, Queued(t, w)
        PROVE  Order!Queue(t, w)
    <3>1. \A u \in Task : state[u] = "new" <=> Phase(u) = "new"
      BY DEF IInv, TaskTypeOK
    <3>2. phase[t] = "new" /\ {u \in Task : state[u] # "new"} = {u \in Task : phase[u] # "new"}
      BY <2>2, <3>1 DEF Queued
    <3>3. phase' = [phase EXCEPT ![t] = "queued"]
      BY <2>2 DEF Queued, IInv, TaskTypeOK
    <3> QED
      BY <2>2, <3>2, <3>3 DEF Queued, Order!Queue
  <2>3. ASSUME NEW t \in Task, Call(t) PROVE Order!Next
    <3>1. \E w \in Work : Queued(t, w)
      BY <2>3 DEF Call, ForFeedback, ForCreation, ForProject, QueueOnFeedback, Work
    <3> QED
      BY <3>1, <2>2 DEF Order!Next, Order!Work, Work
  <2>4. ASSUME NEW t \in Task, Start(t) PROVE Order!Start(t)
    <3>1. phase[t] = "queued" /\ phase' = [phase EXCEPT ![t] = "running"]
      BY <2>4 DEF Start, IInv, TaskTypeOK
    <3>2. UNCHANGED <<work, earlier>> /\ Started(t)' /\ Ordered'
      BY <2>4 DEF Start, IInv, TaskTypeOK, Started
    <3>3. \A u \in earlier[t] : Order!Blocks(work[u], work[t]) => Over(u)'
      <4> SUFFICES ASSUME NEW u \in earlier[t], Order!Blocks(work[u], work[t]) PROVE Over(u)'
        OBVIOUS
      <4>1. u \in Task
        BY DEF IInv, TaskTypeOK
      <4>2. Before(u, t)'
        BY <3>2 DEF Before
      <4>3. QED BY <3>2, <4>1, <4>2 DEF Ordered
    <3>4. \A u \in earlier[t] : Over(u)' => phase[u] = "ended"
      BY <2>4 DEF Start, IInv, TaskTypeOK, Over
    <3>5. QED BY <2>4, <3>1, <3>2, <3>3, <3>4 DEF Start, Order!Start, Order!Free
  <2>5. ASSUME NEW t \in Task, Settle(t) PROVE Order!End(t)
    BY <2>5 DEF Settle, Order!End, IInv, TaskTypeOK
  <2>6. ASSUME NEW t \in Task, Finish(t) \/ Clear(t) PROVE UNCHANGED Order!vars
    BY <2>6 DEF Finish, Clear, Order!vars, IInv, TaskTypeOK
  <2> QED
    BY <2>1, <2>3, <2>4, <2>5, <2>6 DEF TaskNext, Run, Order!Next
<1> QED
  BY <1>1, <1>2, Invariance, PTL DEF TaskSpec, OrderedTasks, Order!Spec
=============================================================================
