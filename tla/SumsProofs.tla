----------------------------- MODULE SumsProofs -----------------------------
(***************************************************************************)
(* What SumTo computes.  Induction over the naturals is done through the   *)
(* least-element principle, which the library states without an operator   *)
(* parameter (WFMin), so that the provers can use it.                      *)
(***************************************************************************)
EXTENDS Sums, SequenceTheorems, WellFoundedInduction, TLAPS

\* A set of naturals that has an element has a least one.  The induction
\* principle behind the facts about SumTo.
LEMMA LeastElement ==
  ASSUME NEW T \in SUBSET Nat, NEW n \in T
  PROVE  \E x \in T : \A y \in T : x <= y
<1>1. \E R : /\ IsWellFoundedOn(R, Nat)
             /\ \A x, y \in Nat : y < x => <<y, x>> \in R
  <2>1. \A x, y \in Nat : y < x => <<y, x>> \in OpToRel(<, Nat)
    BY DEF OpToRel
  <2> QED BY <2>1, NatLessThanWellFounded, Zenon
<1>2. PICK R : /\ IsWellFoundedOn(R, Nat)
               /\ \A x, y \in Nat : y < x => <<y, x>> \in R
  BY <1>1
<1>3. PICK x \in T : \A y \in T : ~ (<<y, x>> \in R)
  BY <1>2, WFMin
<1>4. \A y \in T : ~ (y < x)
  BY <1>2, <1>3
<1> QED BY <1>4

\* s lists the partial sums of f up to n.
IsPrefixSums(s, f, n) ==
    s = [i \in 0..n |-> IF i = 0 THEN 0 ELSE s[i-1] + f[i]]

\* Every integer function on 1..N has partial sums.
LEMMA PrefixSumsExist ==
  ASSUME NEW N \in Nat, NEW f \in [1..N -> Int]
  PROVE  \A n \in 0..N : \E s \in [0..n -> Int] : IsPrefixSums(s, f, n)
<1> DEFINE Bad == {n \in 0..N : ~ \E s \in [0..n -> Int] : IsPrefixSums(s, f, n)}
<1> SUFFICES ASSUME NEW k \in Bad PROVE FALSE
  OBVIOUS
<1>1. PICK n \in Bad : \A y \in Bad : n <= y
  <2>1. Bad \in SUBSET Nat /\ k \in Bad
    OBVIOUS
  <2> HIDE DEF Bad
  <2> QED BY <2>1, LeastElement
<1>2. n # 0
  <2> DEFINE z == [i \in 0..0 |-> 0]
  <2>1. z \in [0..0 -> Int] /\ IsPrefixSums(z, f, 0)
    BY DEF IsPrefixSums
  <2> QED BY <2>1, <1>1
<1>3. n - 1 \in 0..N /\ n-1 \notin Bad
  BY <1>1, <1>2
<1>4. PICK s \in [0..(n-1) -> Int] : IsPrefixSums(s, f, n-1)
  BY <1>3
<1> DEFINE e == [i \in 0..n |-> IF i < n THEN s[i] ELSE s[n-1] + f[n]]
<1>5. e \in [0..n -> Int]
  BY <1>1, <1>2
<1>6. IsPrefixSums(e, f, n)
  <2>1. ASSUME NEW i \in 0..n PROVE e[i] = IF i = 0 THEN 0 ELSE e[i-1] + f[i]
    <3>1. CASE i = n
      BY <3>1, <1>2
    <3>2. CASE i < n
      <4>1. i \in 0..(n-1)
         BY <3>2
      <4>2. s[i] = IF i = 0 THEN 0 ELSE s[i-1] + f[i]
         BY <4>1, <1>4 DEF IsPrefixSums
      <4> QED BY <4>1, <4>2, <3>2
    <3> QED BY <3>1, <3>2
  <2> QED BY <2>1, <1>5 DEF IsPrefixSums
<1> QED BY <1>1, <1>5, <1>6

\* They are unique.
LEMMA PrefixSumsUnique ==
  ASSUME NEW n \in Nat, NEW f, NEW s, NEW u,
         IsPrefixSums(s, f, n), IsPrefixSums(u, f, n)
  PROVE  s = u
<1>0. /\ \A i \in 0..n : s[i] = IF i = 0 THEN 0 ELSE s[i-1] + f[i]
      /\ \A i \in 0..n : u[i] = IF i = 0 THEN 0 ELSE u[i-1] + f[i]
  BY DEF IsPrefixSums
<1> DEFINE Bad == {i \in 0..n : s[i] # u[i]}
<1>1. ASSUME NEW k \in Bad PROVE FALSE
  <2>1. PICK i \in Bad : \A y \in Bad : i <= y
    <3>1. Bad \in SUBSET Nat /\ k \in Bad
      BY <1>1
    <3> HIDE DEF Bad
    <3> QED BY <3>1, LeastElement
  <2>2. CASE i = 0
    BY <1>0, <2>1, <2>2
  <2>3. CASE i # 0
    <3>1. i - 1 \in 0..n /\ i - 1 \notin Bad
      BY <2>1, <2>3
    <3> QED BY <3>1, <1>0, <2>3
  <2> QED BY <2>2, <2>3
<1>2. \A i \in 0..n : s[i] = u[i]
  BY <1>1
<1> QED BY <1>2 DEF IsPrefixSums

\* SumTo is the last partial sum.
LEMMA SumToIsLast ==
  ASSUME NEW n \in Nat, NEW f, NEW s, IsPrefixSums(s, f, n)
  PROVE  SumTo(f, n) = s[n]
<1> DEFINE c == CHOOSE v : v = [i \in 0..n |-> IF i = 0 THEN 0 ELSE v[i-1] + f[i]]
<1>1. c = [i \in 0..n |-> IF i = 0 THEN 0 ELSE c[i-1] + f[i]]
  BY DEF IsPrefixSums
<1>2. c = s
  <2>1. IsPrefixSums(c, f, n)
    BY <1>1 DEF IsPrefixSums
  <2> HIDE DEF c
  <2> QED BY <2>1, PrefixSumsUnique
<1> QED BY <1>2 DEF SumTo

\* The sum of no values is zero.
LEMMA SumOfNone ==
  ASSUME NEW f
  PROVE  SumTo(f, 0) = 0
<1> DEFINE z == [i \in 0..0 |-> 0]
<1>1. IsPrefixSums(z, f, 0)
  BY DEF IsPrefixSums
<1>2. z[0] = 0
  OBVIOUS
<1> HIDE DEF z
<1> QED BY <1>1, <1>2, SumToIsLast

\* The sum of zeros is zero.
LEMMA SumOfZeros ==
  ASSUME NEW n \in Nat, NEW f, \A i \in 1..n : f[i] = 0
  PROVE  SumTo(f, n) = 0
<1> DEFINE z == [i \in 0..n |-> 0]
<1>1. IsPrefixSums(z, f, n)
  BY DEF IsPrefixSums
<1>2. z[n] = 0
  OBVIOUS
<1> HIDE DEF z
<1> QED BY <1>1, <1>2, SumToIsLast

\* A sum of naturals is a natural and at least each of its terms.
LEMMA SumOfNaturals ==
  ASSUME NEW n \in Nat, NEW f \in [1..n -> Nat]
  PROVE  /\ SumTo(f, n) \in Nat
         /\ \A k \in 1..n : f[k] <= SumTo(f, n)
<1>1. PICK s \in [0..n -> Int] : IsPrefixSums(s, f, n)
  <2>1. f \in [1..n -> Int] /\ n \in 0..n
    OBVIOUS
  <2> QED BY <2>1, PrefixSumsExist
<1>2. /\ \A i \in 0..n : s[i] = IF i = 0 THEN 0 ELSE s[i-1] + f[i]
      /\ SumTo(f, n) = s[n]
  BY <1>1, SumToIsLast DEF IsPrefixSums
<1> DEFINE Bad == {i \in 0..n : ~ (s[i] >= 0 /\ \A k \in 1..i : f[k] <= s[i])}
<1>3. ASSUME NEW b \in Bad PROVE FALSE
  <2>1. PICK i \in Bad : \A y \in Bad : i <= y
    <3>1. Bad \in SUBSET Nat /\ b \in Bad
      BY <1>3
    <3> HIDE DEF Bad
    <3> QED BY <3>1, LeastElement
  <2>2. i # 0
    BY <1>2, <2>1
  <2>3. i - 1 \in 0..n /\ i - 1 \notin Bad
    BY <2>1, <2>2
  <2>4. s[i-1] >= 0 /\ \A k \in 1..(i-1) : f[k] <= s[i-1]
    BY <2>3
  <2>5. s[i] = s[i-1] + f[i] /\ f[i] \in Nat /\ s[i-1] \in Int
    BY <1>2, <2>2, <2>3
  <2>6. s[i] >= 0 /\ \A k \in 1..i : f[k] <= s[i]
    <3>1. ASSUME NEW k \in 1..i PROVE f[k] <= s[i]
      <4>1. f[k] \in Nat
        OBVIOUS
      <4>2. CASE k = i
        BY <4>2, <2>4, <2>5
      <4>3. CASE k # i
        BY <4>1, <4>3, <2>4, <2>5
      <4> QED BY <4>2, <4>3
    <3> QED BY <3>1, <2>4, <2>5
  <2> QED BY <2>6, <2>1
<1>4. n \in 0..n /\ n \notin Bad
  BY <1>3
<1> QED BY <1>2, <1>4

\* Changing one term changes the sum by as much.
LEMMA SumUpdate ==
  ASSUME NEW n \in Nat, NEW f \in [1..n -> Int], NEW g \in [1..n -> Int],
         NEW k \in 1..n, \A i \in 1..n : i # k => g[i] = f[i]
  PROVE  SumTo(g, n) = SumTo(f, n) + g[k] - f[k]
<1>1. PICK s \in [0..n -> Int] : IsPrefixSums(s, f, n)
  <2>1. n \in 0..n
    OBVIOUS
  <2> QED BY <2>1, PrefixSumsExist
<1>2. \A i \in 0..n : s[i] = IF i = 0 THEN 0 ELSE s[i-1] + f[i]
  BY <1>1 DEF IsPrefixSums
<1> DEFINE u == [i \in 0..n |-> IF i < k THEN s[i] ELSE s[i] + g[k] - f[k]]
<1>3. ASSUME NEW i \in 0..n PROVE u[i] = IF i = 0 THEN 0 ELSE u[i-1] + g[i]
  <2>1. s[i] \in Int /\ g[k] \in Int /\ f[k] \in Int
    OBVIOUS
  <2>2. CASE i = 0
    BY <1>2, <2>2
  <2>3. CASE i # 0 /\ i < k
    BY <1>2, <2>3
  <2>4. CASE i = k
    <3>1. i - 1 \in 0..n /\ s[i] = s[i-1] + f[i] /\ s[i-1] \in Int
      BY <1>2, <2>4
    <3> QED BY <3>1, <2>1, <2>4
  <2>5. CASE i > k
    <3>1. i - 1 \in 0..n /\ s[i] = s[i-1] + f[i] /\ s[i-1] \in Int /\ g[i] = f[i]
          /\ f[i] \in Int /\ ~(i - 1 < k)
      BY <1>2, <2>5, SMTT(30)
    <3> QED BY <3>1, <2>1, <2>5
  <2> QED BY <2>2, <2>3, <2>4, <2>5
<1>4. IsPrefixSums(u, g, n)
  BY <1>3 DEF IsPrefixSums
<1>5. u[n] = s[n] + g[k] - f[k]
  OBVIOUS
<1> HIDE DEF u
<1> QED BY <1>1, <1>4, <1>5, SumToIsLast

\* One more term is added to the sum.
LEMMA SumExtend ==
  ASSUME NEW n \in Nat, NEW f \in [1..n -> Int], NEW g \in [1..(n+1) -> Int],
         \A i \in 1..n : g[i] = f[i]
  PROVE  SumTo(g, n+1) = SumTo(f, n) + g[n+1]
<1>1. PICK s \in [0..n -> Int] : IsPrefixSums(s, f, n)
  <2>1. n \in 0..n
    OBVIOUS
  <2> QED BY <2>1, PrefixSumsExist
<1>2. \A i \in 0..n : s[i] = IF i = 0 THEN 0 ELSE s[i-1] + f[i]
  BY <1>1 DEF IsPrefixSums
<1> DEFINE u == [i \in 0..(n+1) |-> IF i <= n THEN s[i] ELSE s[n] + g[n+1]]
<1>3. ASSUME NEW i \in 0..(n+1) PROVE u[i] = IF i = 0 THEN 0 ELSE u[i-1] + g[i]
  <2>1. CASE i = n + 1
    BY <2>1
  <2>2. CASE i # n + 1
    BY <1>2, <2>2
  <2> QED BY <2>1, <2>2
<1>4. IsPrefixSums(u, g, n+1)
  BY <1>3 DEF IsPrefixSums
<1>5. u[n+1] = s[n] + g[n+1]
  OBVIOUS
<1> HIDE DEF u
<1> QED BY <1>1, <1>4, <1>5, SumToIsLast

\* Functions with equal terms have equal sums.
LEMMA SumEqual ==
  ASSUME NEW n \in Nat, NEW f \in [1..n -> Int], NEW g \in [1..n -> Int],
         \A i \in 1..n : g[i] = f[i]
  PROVE  SumTo(g, n) = SumTo(f, n)
<1>1. f = g
  OBVIOUS
<1> QED BY <1>1

-----------------------------------------------------------------------------
(* Sequences joined *)

IsPrefixJoins(s, f, n) == s = [i \in 0..n |-> IF i = 0 THEN <<>> ELSE s[i-1] \o f[i]]

\* The partial joins exist.
LEMMA PrefixJoinsExist ==
  ASSUME NEW S, NEW N \in Nat, NEW f \in [1..N -> Seq(S)]
  PROVE  \A n \in 0..N : \E s \in [0..n -> Seq(S)] : IsPrefixJoins(s, f, n)
<1> DEFINE Bad == {n \in 0..N : ~ \E s \in [0..n -> Seq(S)] : IsPrefixJoins(s, f, n)}
<1> SUFFICES ASSUME NEW k \in Bad PROVE FALSE
  OBVIOUS
<1>1. PICK n \in Bad : \A y \in Bad : n <= y
  <2>1. Bad \in SUBSET Nat /\ k \in Bad
    OBVIOUS
  <2> HIDE DEF Bad
  <2> QED BY <2>1, LeastElement
<1>e. <<>> \in Seq(S)
  BY EmptySeq
<1>2. n # 0
  <2>1. ASSUME n = 0 PROVE FALSE
    <3> DEFINE z == [i \in 0..0 |-> <<>>]
    <3>1. z \in [0..0 -> Seq(S)]
      BY <1>e
    <3>2. IsPrefixJoins(z, f, 0)
      BY DEF IsPrefixJoins
    <3> QED BY <3>1, <3>2, <2>1
  <2> QED BY <2>1
<1>3. n - 1 \in 0..N /\ n - 1 \notin Bad
  <2>1. n \in 0..N
    BY Zenon
  <2> HIDE DEF Bad
  <2> QED BY <2>1, <1>1, <1>2
<1>4. PICK s \in [0..(n-1) -> Seq(S)] : IsPrefixJoins(s, f, n - 1)
  BY <1>3
<1> DEFINE u == [i \in 0..n |-> IF i = n THEN s[n-1] \o f[n] ELSE s[i]]
<1>5. u \in [0..n -> Seq(S)]
  <2>1. s[n-1] \in Seq(S) /\ f[n] \in Seq(S)
    BY <1>1, <1>2, <1>3
  <2>2. s[n-1] \o f[n] \in Seq(S)
    BY <2>1, ConcatProperties
  <2>3. \A i \in 0..n : i # n => i \in 0..(n-1) /\ s[i] \in Seq(S)
    BY <1>1, <1>2
  <2> QED BY <2>2, <2>3
<1>6. IsPrefixJoins(u, f, n)
  <2>1. ASSUME NEW i \in 0..n
        PROVE  u[i] = IF i = 0 THEN <<>> ELSE u[i-1] \o f[i]
    <3>1. CASE i = n
      <4>1. i - 1 \in 0..n /\ i - 1 # n
        BY <3>1, <1>2, <1>1
      <4> QED BY <3>1, <4>1, <1>2
    <3>2. CASE i # n
      <4>1. i \in 0..(n-1) /\ (i # 0 => i - 1 \in 0..n /\ i - 1 # n)
        BY <3>2, <1>1
      <4>2. s[i] = IF i = 0 THEN <<>> ELSE s[i-1] \o f[i]
        BY <4>1, <1>4 DEF IsPrefixJoins
      <4> QED BY <4>1, <4>2, <3>2
    <3> QED BY <3>1, <3>2
  <2> QED BY <2>1 DEF IsPrefixJoins
<1> QED BY <1>1, <1>5, <1>6

\* They are unique.
LEMMA PrefixJoinsUnique ==
  ASSUME NEW n \in Nat, NEW f, NEW s, NEW u,
         IsPrefixJoins(s, f, n), IsPrefixJoins(u, f, n)
  PROVE  s = u
<1>0. /\ \A i \in 0..n : s[i] = IF i = 0 THEN <<>> ELSE s[i-1] \o f[i]
      /\ \A i \in 0..n : u[i] = IF i = 0 THEN <<>> ELSE u[i-1] \o f[i]
  BY DEF IsPrefixJoins
<1> DEFINE Bad == {i \in 0..n : s[i] # u[i]}
<1>1. ASSUME NEW k \in Bad PROVE FALSE
  <2>1. PICK i \in Bad : \A y \in Bad : i <= y
    <3>1. Bad \in SUBSET Nat /\ k \in Bad
      BY <1>1
    <3> HIDE DEF Bad
    <3> QED BY <3>1, LeastElement
  <2>2. CASE i = 0
    BY <1>0, <2>1, <2>2
  <2>3. CASE i # 0
    <3>1. i - 1 \in 0..n /\ i - 1 \notin Bad
      BY <2>1, <2>3
    <3> QED BY <3>1, <1>0, <2>3
  <2> QED BY <2>2, <2>3
<1>2. \A i \in 0..n : s[i] = u[i]
  BY <1>1
<1> QED BY <1>2 DEF IsPrefixJoins

\* JoinTo is the last partial join.
LEMMA JoinToIsLast ==
  ASSUME NEW n \in Nat, NEW f, NEW s, IsPrefixJoins(s, f, n)
  PROVE  JoinTo(f, n) = s[n]
<1> DEFINE c == CHOOSE v : v = [i \in 0..n |-> IF i = 0 THEN <<>> ELSE v[i-1] \o f[i]]
<1>1. c = [i \in 0..n |-> IF i = 0 THEN <<>> ELSE c[i-1] \o f[i]]
  BY DEF IsPrefixJoins
<1>2. c = s
  <2>1. IsPrefixJoins(c, f, n)
    BY <1>1 DEF IsPrefixJoins
  <2> HIDE DEF c
  <2> QED BY <2>1, PrefixJoinsUnique
<1> QED BY <1>2 DEF JoinTo

\* The members of a sequence.
Items(s) == {s[i] : i \in DOMAIN s}

\* Two sequences one after the other hold what either holds.
LEMMA ConcatItems ==
  ASSUME NEW S, NEW p \in Seq(S), NEW q \in Seq(S)
  PROVE  /\ p \o q \in Seq(S)
         /\ \A e : e \in Items(p \o q) <=> e \in Items(p) \/ e \in Items(q)
<1> DEFINE t == p \o q
<1>1. /\ t \in Seq(S) /\ Len(t) = Len(p) + Len(q) /\ Len(p) \in Nat /\ Len(q) \in Nat
      /\ \A i \in 1..(Len(p) + Len(q)) : t[i] = IF i <= Len(p) THEN p[i] ELSE q[i - Len(p)]
  BY ConcatProperties, LenProperties
<1> HIDE DEF t
<1>2. DOMAIN t = 1..(Len(p) + Len(q)) /\ DOMAIN p = 1..Len(p) /\ DOMAIN q = 1..Len(q)
  BY <1>1, LenProperties
<1>3. ASSUME NEW a \in Nat, NEW b \in Nat
      PROVE  /\ \A i \in 1..a : i \in 1..(a + b) /\ i <= a
             /\ \A i \in 1..b : a + i \in 1..(a + b) /\ ~(a + i <= a) /\ (a + i) - a = i
             /\ \A i \in 1..(a + b) : i <= a => i \in 1..a
             /\ \A i \in 1..(a + b) : ~(i <= a) => i - a \in 1..b
  <2>1. \A i \in 1..a : i \in 1..(a + b) /\ i <= a
    OBVIOUS
  <2>2. \A i \in 1..b : a + i \in 1..(a + b) /\ ~(a + i <= a) /\ (a + i) - a = i
    OBVIOUS
  <2>3. \A i \in 1..(a + b) : i <= a => i \in 1..a
    OBVIOUS
  <2>4. \A i \in 1..(a + b) : ~(i <= a) => i - a \in 1..b
    OBVIOUS
  <2> QED BY <2>1, <2>2, <2>3, <2>4
<1> DEFINE a == Len(p)
           b == Len(q)
<1>4. /\ \A i \in 1..a : i \in 1..(a + b) /\ i <= a
      /\ \A i \in 1..b : a + i \in 1..(a + b) /\ ~(a + i <= a) /\ (a + i) - a = i
      /\ \A i \in 1..(a + b) : i <= a => i \in 1..a
      /\ \A i \in 1..(a + b) : ~(i <= a) => i - a \in 1..b
  BY <1>1, <1>3, Zenon
<1>5. /\ DOMAIN t = 1..(a + b) /\ DOMAIN p = 1..a /\ DOMAIN q = 1..b
      /\ \A i \in 1..(a + b) : t[i] = IF i <= a THEN p[i] ELSE q[i - a]
  BY <1>1, <1>2, Zenon
<1> HIDE DEF a, b
<1>6. ASSUME NEW e, e \in Items(t) PROVE e \in Items(p) \/ e \in Items(q)
  <2>1. PICK i \in 1..(a + b) : e = t[i]
    BY <1>5, <1>6 DEF Items
  <2>2. CASE i <= a
    BY <1>4, <1>5, <2>1, <2>2 DEF Items
  <2>3. CASE ~(i <= a)
    <3>1. i - a \in 1..b /\ t[i] = q[i - a]
      BY <1>4, <1>5, <2>3
    <3> QED BY <1>5, <2>1, <3>1 DEF Items
  <2> QED BY <2>2, <2>3
<1>7. ASSUME NEW e, e \in Items(p) PROVE e \in Items(t)
  <2>1. PICK i \in 1..a : e = p[i]
    BY <1>5, <1>7 DEF Items
  <2>2. i \in 1..(a + b) /\ t[i] = p[i]
    BY <1>4, <1>5
  <2> QED BY <1>5, <2>1, <2>2 DEF Items
<1>8. ASSUME NEW e, e \in Items(q) PROVE e \in Items(t)
  <2>1. PICK i \in 1..b : e = q[i]
    BY <1>5, <1>8 DEF Items
  <2>2. a + i \in 1..(a + b) /\ t[a + i] = q[i]
    BY <1>4, <1>5
  <2> QED BY <1>5, <2>1, <2>2 DEF Items
<1>9. \A e : e \in Items(t) <=> e \in Items(p) \/ e \in Items(q)
  BY <1>6, <1>7, <1>8
<1> QED BY <1>1, <1>9 DEF t

\* A join is a sequence that holds what its parts hold, and nothing else.
LEMMA JoinFacts ==
  ASSUME NEW S, NEW n \in Nat, NEW f \in [1..n -> Seq(S)]
  PROVE  /\ JoinTo(f, n) \in Seq(S)
         /\ \A e : e \in Items(JoinTo(f, n)) <=> \E i \in 1..n : e \in Items(f[i])
<1>1. PICK s \in [0..n -> Seq(S)] : IsPrefixJoins(s, f, n)
  <2>1. n \in 0..n
    OBVIOUS
  <2> QED BY <2>1, PrefixJoinsExist
<1>2. /\ \A i \in 0..n : s[i] = IF i = 0 THEN <<>> ELSE s[i-1] \o f[i]
      /\ JoinTo(f, n) = s[n]
  BY <1>1, JoinToIsLast DEF IsPrefixJoins
<1> DEFINE Holds(i) == \A e : e \in Items(s[i]) <=> \E k \in 1..i : e \in Items(f[k])
           Bad == {i \in 0..n : ~Holds(i)}
<1>3. ASSUME NEW b \in Bad PROVE FALSE
  <2> HIDE DEF Holds
  <2>1. PICK m \in Bad : \A y \in Bad : m <= y
    <3>1. Bad \in SUBSET Nat /\ b \in Bad
      BY <1>3
    <3> HIDE DEF Bad
    <3> QED BY <3>1, LeastElement
  <2>2. m \in 0..n /\ ~Holds(m)
    BY <2>1
  <2>3. m # 0
    <3>1. ASSUME m = 0 PROVE Holds(0)
      <4>1. s[0] = <<>>
        BY <1>2, <2>2, <3>1
      <4>2. DOMAIN <<>> = {}
        OBVIOUS
      <4>3. Items(s[0]) = {}
        BY <4>1, <4>2, Zenon DEF Items
      <4>4. \A k \in 1..0 : FALSE
        OBVIOUS
      <4> QED BY <4>3, <4>4, Zenon DEF Holds
    <3> QED BY <2>2, <3>1
  <2>4. m - 1 \in 0..n /\ m \in 1..n /\ Holds(m - 1)
    <3>1. m - 1 \in 0..n /\ m \in 1..n /\ ~(m <= m - 1)
      BY <2>2, <2>3
    <3> QED BY <2>1, <3>1
  <2>5. s[m] = s[m-1] \o f[m] /\ s[m-1] \in Seq(S) /\ f[m] \in Seq(S)
    BY <1>2, <2>3, <2>4
  <2>6. \A e : e \in Items(s[m]) <=> e \in Items(s[m-1]) \/ e \in Items(f[m])
    BY <2>5, ConcatItems
  <2>7. \A k : k \in 1..m <=> k \in 1..(m-1) \/ k = m
    BY <2>4
  <2>8. Holds(m)
    <3>1. ASSUME NEW e PROVE e \in Items(s[m]) <=> \E k \in 1..m : e \in Items(f[k])
      <4>1. e \in Items(s[m-1]) <=> \E k \in 1..(m-1) : e \in Items(f[k])
        BY <2>4 DEF Holds
      <4> QED BY <2>6, <2>7, <4>1, Zenon
    <3> QED BY <3>1 DEF Holds
  <2> QED BY <2>2, <2>8
<1>4. n \in 0..n /\ n \notin Bad
  <2>1. n \in 0..n
    OBVIOUS
  <2> HIDE DEF Bad
  <2> QED BY <1>3, <2>1
<1>5. Holds(n)
  BY <1>4
<1>6. s[n] \in Seq(S)
  BY <1>1, <1>4
<1> QED BY <1>2, <1>5, <1>6, Zenon
=============================================================================
