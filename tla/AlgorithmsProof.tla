-------------------------- MODULE AlgorithmsProof --------------------------
(***************************************************************************)
(* The two algorithms for every input: the trimmed mean for any number of  *)
(* samples of any size, and the calendar for every day of the century.     *)
(*                                                                         *)
(* What a recursive function computes is proved by least counterexample:   *)
(* a set of naturals that is not empty has a least element, and the one    *)
(* before it, which is no counterexample, settles it.                      *)
(***************************************************************************)
EXTENDS TrimmedMean, ClockChip, WellFoundedInduction, FiniteSetTheorems, TLAPS

LEMMA Least ==
  ASSUME NEW T \in SUBSET Nat, T # {}
  PROVE  \E x \in T : \A y \in T : x <= y
<1> DEFINE R == {ss \in Nat \X Nat : ss[1] < ss[2]}
<1>1. IsWellFoundedOn(R, Nat)
  BY NatLessThanWellFounded DEF OpToRel
<1>2. PICK x \in T : \A y \in T : ~ (<<y, x>> \in R)
  BY <1>1, WFMin
<1>3. ASSUME NEW y \in T PROVE x <= y
  <2>1. x \in Nat /\ y \in Nat
    OBVIOUS
  <2>2. <<y, x>> \in Nat \X Nat /\ <<y, x>>[1] = y /\ <<y, x>>[2] = x
    BY <2>1
  <2>3. ~ (y < x)
    BY <1>2, <2>2
  <2> QED BY <2>1, <2>3
<1> QED BY <1>3

-----------------------------------------------------------------------------
(* Sums *)

IsSum(f, s, X, k) ==
  f = [n \in 0 .. k |-> IF n = 0 THEN 0 ELSE f[n - 1] + (IF n \in X THEN 0 ELSE s[n])]

LEMMA SumExists ==
  ASSUME NEW s, NEW X, NEW k \in Nat PROVE \E f : IsSum(f, s, X, k)
<1> DEFINE Bad == {m \in Nat : ~ \E f : IsSum(f, s, X, m)}
<1> SUFFICES ASSUME Bad # {} PROVE FALSE
  OBVIOUS
<1>1. PICK m \in Bad : \A y \in Bad : m <= y
  BY Least
<1>2. m # 0
  <2>1. IsSum([n \in 0 .. 0 |-> 0], s, X, 0)
    BY DEF IsSum
  <2> QED BY <2>1
<1>3. PICK f : IsSum(f, s, X, m - 1)
  <2>1. m - 1 \in Nat /\ ~(m - 1 \in Bad)
    BY <1>1, <1>2
  <2> QED BY <2>1
<1> DEFINE g == [n \in 0 .. m |-> IF n = m THEN f[m - 1] + (IF m \in X THEN 0 ELSE s[m]) ELSE f[n]]
<1>4. IsSum(g, s, X, m)
  <2>0. m \in Nat \ {0}
    BY <1>2
  <2>1. \A n \in 0 .. m - 1 : f[n] = IF n = 0 THEN 0 ELSE f[n - 1] + (IF n \in X THEN 0 ELSE s[n])
    BY <1>3 DEF IsSum
  <2>2. ASSUME NEW n \in 0 .. m
        PROVE g[n] = IF n = 0 THEN 0 ELSE g[n - 1] + (IF n \in X THEN 0 ELSE s[n])
    <3>1. CASE n = m
      BY <2>0, <3>1
    <3>2. CASE n # m
      BY <2>0, <2>1, <3>2
    <3> QED BY <3>1, <3>2
  <2>3. g = [n \in 0 .. m |-> g[n]]
    OBVIOUS
  <2> HIDE DEF g
  <2> QED BY <2>2, <2>3 DEF IsSum
<1> QED BY <1>1, <1>4

LEMMA SumIs ==
  ASSUME NEW s, NEW X, Len(s) \in Nat
  PROVE  \E f : IsSum(f, s, X, Len(s)) /\ SumWithout(s, X) = f[Len(s)]
<1> DEFINE f == CHOOSE h : IsSum(h, s, X, Len(s))
<1>1. IsSum(f, s, X, Len(s))
  BY SumExists
<1>2. SumWithout(s, X) = f[Len(s)]
  BY DEF SumWithout, IsSum
<1> QED BY <1>1, <1>2

\* What a sum up to n has in common with the sum up to n - 1.
LEMMA SumStep ==
  ASSUME NEW k \in Nat, NEW s, NEW X, NEW f, IsSum(f, s, X, k)
  PROVE  /\ f[0] = 0
         /\ \A n \in 1 .. k : f[n] = f[n - 1] + (IF n \in X THEN 0 ELSE s[n])
<1>1. \A n \in 0 .. k : f[n] = IF n = 0 THEN 0 ELSE f[n - 1] + (IF n \in X THEN 0 ELSE s[n])
  BY DEF IsSum
<1> QED BY <1>1

LEMMA SumInt ==
  ASSUME NEW s \in Seq(Int), NEW X, NEW f, IsSum(f, s, X, Len(s))
  PROVE  \A n \in 0 .. Len(s) : f[n] \in Int
<1> DEFINE Bad == {n \in Nat : n <= Len(s) /\ f[n] \notin Int}
<1> SUFFICES ASSUME Bad # {} PROVE FALSE
  OBVIOUS
<1>1. PICK m \in Bad : \A y \in Bad : m <= y
  BY Least
<1>2. f[0] = 0 /\ \A n \in 1 .. Len(s) : f[n] = f[n - 1] + (IF n \in X THEN 0 ELSE s[n])
  BY SumStep
<1>3. m # 0 /\ m \in 1 .. Len(s)
  BY <1>1, <1>2
<1>4. f[m - 1] \in Int
  <2>1. m - 1 \in Nat /\ ~(m - 1 \in Bad)
    BY <1>1, <1>3
  <2> QED BY <2>1, <1>3
<1>5. f[m] = f[m - 1] + (IF m \in X THEN 0 ELSE s[m]) /\ s[m] \in Int
  BY <1>2, <1>3
<1>6. f[m] \in Int
  BY <1>4, <1>5
<1> QED BY <1>1, <1>6

\* f holds the partial sums of s without X.
Sums(f, s, X) ==
  /\ f[0] = 0
  /\ \A n \in 1 .. Len(s) : f[n] = f[n - 1] + (IF n \in X THEN 0 ELSE s[n])
  /\ \A n \in 0 .. Len(s) : f[n] \in Int

LEMMA PartialSums ==
  ASSUME NEW s \in Seq(Int), NEW X
  PROVE  \E f : Sums(f, s, X) /\ SumWithout(s, X) = f[Len(s)]
<1>1. PICK f : IsSum(f, s, X, Len(s)) /\ SumWithout(s, X) = f[Len(s)]
  BY SumIs
<1>2. f[0] = 0 /\ \A n \in 1 .. Len(s) : f[n] = f[n - 1] + (IF n \in X THEN 0 ELSE s[n])
  BY <1>1, SumStep
<1>3. \A n \in 0 .. Len(s) : f[n] \in Int
  BY <1>1, SumInt
<1>4. Sums(f, s, X)
  BY <1>2, <1>3 DEF Sums
<1> QED BY <1>1, <1>4

\* Two sums whose terms differ by one place differ by its value.
LEMMA SumLess ==
  ASSUME NEW s \in Seq(Int), NEW X, NEW x \in 1 .. Len(s), x \notin X
  PROVE  SumWithout(s, X \union {x}) = SumWithout(s, X) - s[x]
<1>1. PICK f : Sums(f, s, X) /\ SumWithout(s, X) = f[Len(s)]
  BY PartialSums
<1>2. PICK g : Sums(g, s, X \union {x}) /\ SumWithout(s, X \union {x}) = g[Len(s)]
  BY PartialSums
<1> DEFINE Bad == {n \in Nat : n <= Len(s) /\ g[n] # f[n] - (IF n < x THEN 0 ELSE s[x])}
<1>6. Bad = {}
  <2> SUFFICES ASSUME Bad # {} PROVE FALSE
    OBVIOUS
  <2>1. PICK m \in Bad : \A y \in Bad : m <= y
    BY Least
  <2>2. m # 0 /\ m \in 1 .. Len(s)
    BY <2>1, <1>1, <1>2 DEF Sums
  <2>3. g[m - 1] = f[m - 1] - (IF m - 1 < x THEN 0 ELSE s[x])
    <3>1. m - 1 \in Nat /\ ~(m - 1 \in Bad)
      BY <2>1, <2>2
    <3> QED BY <3>1, <2>2
  <2>4. m - 1 \in 0 .. Len(s) /\ s[m] \in Int /\ s[x] \in Int
    BY <2>2
  <2>5. f[m] = f[m - 1] + (IF m \in X THEN 0 ELSE s[m])
        /\ g[m] = g[m - 1] + (IF m \in X \union {x} THEN 0 ELSE s[m])
    BY <2>2, <1>1, <1>2 DEF Sums
  <2>6. f[m - 1] \in Int /\ g[m - 1] \in Int
    BY <2>4, <1>1, <1>2 DEF Sums
  <2>7. g[m] = f[m] - (IF m < x THEN 0 ELSE s[x])
    <3>1. CASE m = x
      BY <2>2, <2>3, <2>4, <2>5, <2>6, <3>1
    <3>2. CASE m # x
      <4>1. (m < x) = (m - 1 < x) /\ m \in X \union {x} <=> m \in X
        BY <2>2, <3>2
      <4>2. CASE m \in X
        BY <2>3, <2>4, <2>5, <2>6, <4>1, <4>2
      <4>3. CASE m \notin X
        BY <2>3, <2>4, <2>5, <2>6, <4>1, <4>3
      <4> QED BY <4>2, <4>3
    <3> QED BY <3>1, <3>2
  <2> QED BY <2>1, <2>7
<1>7. Len(s) \in Nat /\ ~(Len(s) < x) /\ ~(Len(s) \in Bad)
  BY <1>6
<1> QED BY <1>1, <1>2, <1>7

\* A sum of greater terms is greater.
LEMMA SumAtMost ==
  ASSUME NEW s \in Seq(Int), NEW t \in Seq(Int), Len(s) = Len(t), NEW X,
         \A n \in (1 .. Len(s)) \ X : s[n] <= t[n]
  PROVE  SumWithout(s, X) <= SumWithout(t, X)
<1>1. PICK f : Sums(f, s, X) /\ SumWithout(s, X) = f[Len(s)]
  BY PartialSums
<1>2. PICK g : Sums(g, t, X) /\ SumWithout(t, X) = g[Len(t)]
  BY PartialSums
<1> DEFINE Bad == {n \in Nat : n <= Len(s) /\ ~(f[n] <= g[n])}
<1>6. Bad = {}
  <2> SUFFICES ASSUME Bad # {} PROVE FALSE
    OBVIOUS
  <2>1. PICK m \in Bad : \A y \in Bad : m <= y
    BY Least
  <2>2. m # 0 /\ m \in 1 .. Len(s)
    BY <2>1, <1>1, <1>2 DEF Sums
  <2>3. f[m - 1] <= g[m - 1]
    <3>1. m - 1 \in Nat /\ ~(m - 1 \in Bad)
      BY <2>1, <2>2
    <3> QED BY <3>1, <2>2
  <2>4. m - 1 \in 0 .. Len(s) /\ s[m] \in Int /\ t[m] \in Int
    BY <2>2
  <2>5. f[m] = f[m - 1] + (IF m \in X THEN 0 ELSE s[m])
        /\ g[m] = g[m - 1] + (IF m \in X THEN 0 ELSE t[m])
    BY <2>2, <1>1, <1>2 DEF Sums
  <2>6. f[m - 1] \in Int /\ g[m - 1] \in Int
    BY <2>4, <1>1, <1>2 DEF Sums
  <2>7. m \notin X => s[m] <= t[m]
    BY <2>2
  <2>8. f[m] <= g[m]
    BY <2>3, <2>4, <2>5, <2>6, <2>7
  <2> QED BY <2>1, <2>8
<1>7. Len(s) \in Nat /\ Len(s) <= Len(s)
  OBVIOUS
<1>8. f[Len(s)] <= g[Len(s)]
  BY <1>6, <1>7
<1> QED BY <1>1, <1>2, <1>8

LEMMA SumType ==
  ASSUME NEW s \in Seq(Int), NEW X
  PROVE  SumWithout(s, X) \in Int
<1>1. PICK g : Sums(g, s, X) /\ SumWithout(s, X) = g[Len(s)]
  BY PartialSums
<1>2. Len(s) \in 0 .. Len(s)
  OBVIOUS
<1>3. g[Len(s)] \in Int
  BY <1>1, <1>2 DEF Sums
<1> QED BY <1>1, <1>3

LEMMA SumEmpty == SumWithout(<<>>, {}) = 0
<1>1. <<>> \in Seq(Int) /\ Len(<<>>) = 0
  OBVIOUS
<1>2. PICK f : Sums(f, <<>>, {}) /\ SumWithout(<<>>, {}) = f[Len(<<>>)]
  BY <1>1, PartialSums
<1> QED BY <1>1, <1>2 DEF Sums

LEMMA SumAppend ==
  ASSUME NEW s \in Seq(Int), NEW v \in Int
  PROVE  SumWithout(Append(s, v), {}) = SumWithout(s, {}) + v
<1> DEFINE t == Append(s, v)
<1>1. /\ t \in Seq(Int) /\ Len(t) = Len(s) + 1 /\ t[Len(s) + 1] = v
      /\ \A n \in 1 .. Len(s) : t[n] = s[n]
  OBVIOUS
<1> HIDE DEF t
<1>2. PICK f : Sums(f, s, {}) /\ SumWithout(s, {}) = f[Len(s)]
  BY PartialSums
<1>3. PICK g : Sums(g, t, {}) /\ SumWithout(t, {}) = g[Len(t)]
  BY <1>1, PartialSums
<1> DEFINE Bad == {n \in Nat : n <= Len(s) /\ g[n] # f[n]}
<1>4. Bad = {}
  <2> SUFFICES ASSUME Bad # {} PROVE FALSE
    OBVIOUS
  <2>1. PICK m \in Bad : \A y \in Bad : m <= y
    BY Least
  <2>2. m # 0 /\ m \in 1 .. Len(s) /\ m \in 1 .. Len(t)
    BY <2>1, <1>1, <1>2, <1>3 DEF Sums
  <2>3. m - 1 \in Nat /\ ~(m - 1 \in Bad)
    BY <2>1, <2>2
  <2>4. g[m - 1] = f[m - 1]
    BY <2>2, <2>3
  <2>5. f[m] = f[m - 1] + s[m] /\ g[m] = g[m - 1] + t[m]
    BY <2>2, <1>2, <1>3 DEF Sums
  <2> QED BY <2>1, <2>2, <2>4, <2>5, <1>1
<1>5. g[Len(s)] = f[Len(s)]
  BY <1>4
<1>6. Len(t) \in 1 .. Len(t) /\ Len(t) - 1 = Len(s)
  BY <1>1
<1>7. g[Len(t)] = g[Len(t) - 1] + t[Len(t)]
  BY <1>3, <1>6 DEF Sums
<1> QED BY <1>1, <1>2, <1>3, <1>5, <1>6, <1>7 DEF t

\* k times m.
LEMMA SumConstant ==
  ASSUME NEW k \in Nat, NEW m \in Int
  PROVE  SumWithout([n \in 1 .. k |-> m], {}) = k * m
<1> DEFINE s == [n \in 1 .. k |-> m]
<1>1. s \in Seq(Int) /\ Len(s) = k /\ \A n \in 1 .. k : s[n] = m
  OBVIOUS
<1> HIDE DEF s
<1>2. PICK f : Sums(f, s, {}) /\ SumWithout(s, {}) = f[Len(s)]
  BY <1>1, PartialSums
<1> DEFINE Bad == {n \in Nat : n <= k /\ f[n] # n * m}
<1>3. Bad = {}
  <2> SUFFICES ASSUME Bad # {} PROVE FALSE
    OBVIOUS
  <2>1. PICK b \in Bad : \A y \in Bad : b <= y
    BY Least
  <2>2. b # 0 /\ b \in 1 .. k
    BY <2>1, <1>1, <1>2 DEF Sums
  <2>3. b - 1 \in Nat /\ ~(b - 1 \in Bad)
    BY <2>1, <2>2
  <2>4. f[b - 1] = (b - 1) * m
    BY <2>2, <2>3
  <2>5. f[b] = f[b - 1] + m
    BY <2>2, <1>1, <1>2 DEF Sums
  <2>6. b * m = (b - 1) * m + m
    BY <2>2
  <2> QED BY <2>1, <2>4, <2>5, <2>6
<1>4. f[k] = k * m
  BY <1>3
<1> QED BY <1>1, <1>2, <1>4 DEF s

-----------------------------------------------------------------------------
(* The samples in order *)

\* p lists the places of s, and q their values, from the least one up.
Arranges(p, q, s) ==
  /\ p \in [1 .. Len(s) -> 1 .. Len(s)]
  /\ \A i, j \in 1 .. Len(s) : p[i] = p[j] => i = j
  /\ \A n \in 1 .. Len(s) : \E i \in 1 .. Len(s) : p[i] = n
  /\ q \in [1 .. Len(s) -> Sample]
  /\ \A i \in 1 .. Len(s) : q[i] = s[p[i]]
  /\ \A i, j \in 1 .. Len(s) : i <= j => q[i] <= q[j]

\* Where a value belongs among n in order: behind those no greater.
Belongs(j, val, q, n) ==
  /\ j \in 1 .. n + 1
  /\ \A i \in 1 .. n : i < j => q[i] <= val
  /\ \A i \in 1 .. n : j <= i => val < q[i]

PutIn(q, n, j, x) ==
  [i \in 1 .. n + 1 |-> IF i < j THEN q[i] ELSE IF i = j THEN x ELSE q[i - 1]]

LEMMA HasPlace ==
  ASSUME NEW s \in Seq(Sample), NEW p, NEW q, Arranges(p, q, s), NEW val \in Sample
  PROVE  \E j : Belongs(j, val, q, Len(s))
<1>0. Len(s) \in Nat /\ Sample \subseteq Int /\ q \in [1 .. Len(s) -> Sample]
  BY MeanAssumption DEF Sample, Arranges
<1> DEFINE T == {j \in Nat : j \in 1 .. Len(s) + 1 /\ (j = Len(s) + 1 \/ val < q[j])}
<1>1. Len(s) + 1 \in T
  BY <1>0
<1>2. PICK j \in T : \A y \in T : j <= y
  BY <1>1, Least
<1>3. j \in 1 .. Len(s) + 1 /\ (j = Len(s) + 1 \/ val < q[j])
  OBVIOUS
<1>4. ASSUME NEW i \in 1 .. Len(s), i < j PROVE q[i] <= val
  <2>1. i \notin T
    BY <1>2, <1>3, <1>4
  <2>2. q[i] \in Int /\ val \in Int
    BY <1>0
  <2>3. ~(val < q[i])
    BY <1>0, <2>1
  <2> QED BY <2>2, <2>3
<1>5. ASSUME NEW i \in 1 .. Len(s), j <= i PROVE val < q[i]
  <2>1. j \in 1 .. Len(s) /\ val < q[j]
    BY <1>0, <1>3, <1>5
  <2>2. q[j] <= q[i]
    BY <2>1, <1>5 DEF Arranges
  <2>3. q[i] \in Int /\ q[j] \in Int /\ val \in Int
    BY <1>0, <2>1
  <2> QED BY <2>1, <2>2, <2>3
<1> QED BY <1>3, <1>4, <1>5 DEF Belongs

LEMMA ArrangedMore ==
  ASSUME NEW s \in Seq(Sample), NEW p, NEW q, Arranges(p, q, s), NEW val \in Sample,
         NEW j, Belongs(j, val, q, Len(s))
  PROVE  Arranges(PutIn(p, Len(s), j, Len(s) + 1), PutIn(q, Len(s), j, val), Append(s, val))
<1> DEFINE n == Len(s)
           t == Append(s, val)
           pp == PutIn(p, n, j, n + 1)
           qq == PutIn(q, n, j, val)
<1>0. n \in Nat /\ Sample \subseteq Int /\ j \in 1 .. n + 1
  BY MeanAssumption DEF Sample, Belongs
<1>1. Len(t) = n + 1 /\ t[n + 1] = val /\ \A i \in 1 .. n : t[i] = s[i]
  OBVIOUS
<1>2. /\ p \in [1 .. n -> 1 .. n] /\ q \in [1 .. n -> Sample]
      /\ \A i, k \in 1 .. n : p[i] = p[k] => i = k
      /\ \A m \in 1 .. n : \E i \in 1 .. n : p[i] = m
      /\ \A i \in 1 .. n : q[i] = s[p[i]]
      /\ \A i, k \in 1 .. n : i <= k => q[i] <= q[k]
  BY DEF Arranges
<1>3. /\ \A i \in 1 .. n : i < j => q[i] <= val
      /\ \A i \in 1 .. n : j <= i => val < q[i]
  BY DEF Belongs
<1>4. \A i \in 1 .. n + 1 :
        /\ pp[i] = IF i < j THEN p[i] ELSE IF i = j THEN n + 1 ELSE p[i - 1]
        /\ qq[i] = IF i < j THEN q[i] ELSE IF i = j THEN val ELSE q[i - 1]
  BY DEF PutIn
<1>5. DOMAIN pp = 1 .. n + 1 /\ DOMAIN qq = 1 .. n + 1
      /\ pp = [i \in 1 .. n + 1 |-> pp[i]] /\ qq = [i \in 1 .. n + 1 |-> qq[i]]
  BY DEF PutIn
<1> HIDE DEF n, t, pp, qq
<1>6. \A i \in 1 .. n + 1 : /\ i < j => i \in 1 .. n
                            /\ i > j => i - 1 \in 1 .. n
  BY <1>0
<1>7. ASSUME NEW i \in 1 .. n + 1
      PROVE  pp[i] \in 1 .. n + 1 /\ qq[i] \in Sample /\ qq[i] = t[pp[i]]
  <2>1. CASE i < j
    <3>1. i \in 1 .. n /\ pp[i] = p[i] /\ qq[i] = q[i]
      BY <1>4, <1>6, <2>1
    <3>2. p[i] \in 1 .. n /\ q[i] \in Sample /\ q[i] = s[p[i]]
      BY <1>2, <3>1
    <3>3. p[i] \in 1 .. n + 1 /\ t[p[i]] = s[p[i]]
      BY <1>0, <1>1, <3>2
    <3> QED BY <3>1, <3>2, <3>3
  <2>2. CASE i = j
    <3>1. pp[i] = n + 1 /\ qq[i] = val
      BY <1>4, <1>0, <2>2
    <3> QED BY <1>0, <1>1, <3>1
  <2>3. CASE i > j
    <3>1. i - 1 \in 1 .. n /\ pp[i] = p[i - 1] /\ qq[i] = q[i - 1]
      BY <1>4, <1>6, <1>0, <2>3
    <3>2. /\ p[i - 1] \in 1 .. n /\ q[i - 1] \in Sample
          /\ q[i - 1] = s[p[i - 1]]
      BY <1>2, <3>1
    <3>3. p[i - 1] \in 1 .. n + 1 /\ t[p[i - 1]] = s[p[i - 1]]
      BY <1>0, <1>1, <3>2
    <3> QED BY <3>1, <3>2, <3>3
  <2> QED BY <1>0, <2>1, <2>2, <2>3
<1>8. ASSUME NEW i \in 1 .. n + 1, NEW k \in 1 .. n + 1, pp[i] = pp[k]
      PROVE  i = k
  <2>1. \A l \in 1 .. n : p[l] \in 1 .. n /\ p[l] # n + 1
    BY <1>0, <1>2
  <2>2. CASE i < j /\ k < j
    BY <1>2, <1>4, <1>6, <1>8, <2>2
  <2>3. CASE i < j /\ k = j
    BY <1>0, <1>4, <1>6, <1>8, <2>1, <2>3
  <2>4. CASE i < j /\ k > j
    <3>1. i \in 1 .. n /\ k - 1 \in 1 .. n /\ p[i] = p[k - 1]
      BY <1>0, <1>4, <1>6, <1>8, <2>4
    <3>2. i = k - 1
      BY <1>2, <3>1
    <3> QED BY <1>0, <2>4, <3>2
  <2>5. CASE i = j /\ k < j
    BY <1>0, <1>4, <1>6, <1>8, <2>1, <2>5
  <2>6. CASE i = j /\ k = j
    BY <2>6
  <2>7. CASE i = j /\ k > j
    BY <1>0, <1>4, <1>6, <1>8, <2>1, <2>7
  <2>8. CASE i > j /\ k < j
    <3>1. k \in 1 .. n /\ i - 1 \in 1 .. n /\ p[k] = p[i - 1]
      BY <1>0, <1>4, <1>6, <1>8, <2>8
    <3>2. k = i - 1
      BY <1>2, <3>1
    <3> QED BY <1>0, <2>8, <3>2
  <2>9. CASE i > j /\ k = j
    BY <1>0, <1>4, <1>6, <1>8, <2>1, <2>9
  <2>10. CASE i > j /\ k > j
    <3>1. k - 1 \in 1 .. n /\ i - 1 \in 1 .. n /\ p[k - 1] = p[i - 1]
      BY <1>0, <1>4, <1>6, <1>8, <2>10
    <3>2. k - 1 = i - 1
      BY <1>2, <3>1
    <3> QED BY <1>0, <3>2
  <2> QED BY <1>0, <2>2, <2>3, <2>4, <2>5, <2>6, <2>7, <2>8, <2>9, <2>10
<1>9. ASSUME NEW m \in 1 .. n + 1 PROVE \E i \in 1 .. n + 1 : pp[i] = m
  <2>1. CASE m = n + 1
    BY <1>0, <1>4, <2>1
  <2>2. CASE m # n + 1
    <3>1. m \in 1 .. n
      BY <1>0, <2>2
    <3>2. PICK i \in 1 .. n : p[i] = m
      BY <1>2, <3>1
    <3>3. CASE i < j
      BY <1>0, <1>4, <3>2, <3>3
    <3>4. CASE i >= j
      <4>1. i + 1 \in 1 .. n + 1 /\ i + 1 > j /\ (i + 1) - 1 = i
        BY <1>0, <3>4
      <4>2. pp[i + 1] = p[i]
        BY <1>0, <1>4, <4>1
      <4> QED BY <3>2, <4>1, <4>2
    <3> QED BY <1>0, <3>3, <3>4
  <2> QED BY <2>1, <2>2
<1>10. ASSUME NEW i \in 1 .. n + 1, NEW k \in 1 .. n + 1, i <= k
       PROVE  qq[i] <= qq[k]
  <2>0. \A l \in 1 .. n : q[l] \in Int
    BY <1>0, <1>2
  <2>1. CASE i < j /\ k < j
    BY <1>2, <1>4, <1>6, <1>10, <2>1
  <2>2. CASE i < j /\ k = j
    BY <1>0, <1>3, <1>4, <1>6, <2>2
  <2>3. CASE i < j /\ k > j
    <3>1. i \in 1 .. n /\ k - 1 \in 1 .. n /\ qq[i] = q[i] /\ qq[k] = q[k - 1] /\ i <= k - 1
      BY <1>0, <1>4, <1>6, <2>3
    <3> QED BY <1>2, <3>1
  <2>4. CASE i = j /\ k = j
    <3>1. qq[k] \in Int
      BY <1>0, <1>7
    <3> QED BY <2>4, <3>1
  <2>5. CASE i = j /\ k > j
    <3>1. k - 1 \in 1 .. n /\ qq[i] = val /\ qq[k] = q[k - 1] /\ j <= k - 1
      BY <1>0, <1>4, <1>6, <2>5
    <3>2. val < q[k - 1]
      BY <1>3, <3>1
    <3> QED BY <1>0, <2>0, <3>1, <3>2
  <2>6. CASE i > j /\ k > j
    <3>1. /\ i - 1 \in 1 .. n /\ k - 1 \in 1 .. n /\ i - 1 <= k - 1
          /\ qq[i] = q[i - 1] /\ qq[k] = q[k - 1]
      BY <1>0, <1>4, <1>6, <1>10, <2>6
    <3> QED BY <1>2, <3>1
  <2> QED BY <1>0, <1>10, <2>1, <2>2, <2>3, <2>4, <2>5, <2>6
<1>11. pp \in [1 .. n + 1 -> 1 .. n + 1] /\ qq \in [1 .. n + 1 -> Sample]
  BY <1>5, <1>7
<1>12. Arranges(pp, qq, t)
  BY <1>1, <1>7, <1>8, <1>9, <1>10, <1>11 DEF Arranges
<1> QED BY <1>12 DEF n, t, pp, qq

\* The i-th least and the i-th greatest of n values in order.  As long as there
\* are less than i, the code's variables stand at the end of the range.
LowAt(q, n, i) == IF i <= n THEN q[i] ELSE Top
HighAt(q, n, i) == IF i <= n THEN q[n + 1 - i] ELSE 0

InOrder(q, n) ==
  /\ n \in Nat /\ q \in [1 .. n -> Sample]
  /\ \A i, k \in 1 .. n : i <= k => q[i] <= q[k]

LEMMA InsertedLow ==
  ASSUME NEW a \in Int, NEW b \in Int, NEW c \in Int, NEW val \in Int
  PROVE  Inserted(<<a, b, c>>, val, [n \in 1 .. 3 |-> val < <<a, b, c>>[n]])
         = IF ~(val < c) THEN <<a, b, c>>
           ELSE IF ~(val < b) THEN <<a, b, val>>
           ELSE IF ~(val < a) THEN <<a, val, b>> ELSE <<val, a, b>>
<1> DEFINE three == <<a, b, c>>
           beats == [n \in 1 .. 3 |-> val < three[n]]
<1>1. three[1] = a /\ three[2] = b /\ three[3] = c
  OBVIOUS
<1>2. beats[1] = (val < a) /\ beats[2] = (val < b) /\ beats[3] = (val < c)
  BY <1>1
<1>3. Inserted(three, val, beats)
      = IF ~beats[3] THEN three
        ELSE IF ~beats[2] THEN <<three[1], three[2], val>>
        ELSE IF ~beats[1] THEN <<three[1], val, three[2]>> ELSE <<val, three[1], three[2]>>
  BY DEF Inserted
<1> QED BY <1>1, <1>2, <1>3

LEMMA InsertedHigh ==
  ASSUME NEW a \in Int, NEW b \in Int, NEW c \in Int, NEW val \in Int
  PROVE  Inserted(<<a, b, c>>, val, [n \in 1 .. 3 |-> val > <<a, b, c>>[n]])
         = IF ~(val > c) THEN <<a, b, c>>
           ELSE IF ~(val > b) THEN <<a, b, val>>
           ELSE IF ~(val > a) THEN <<a, val, b>> ELSE <<val, a, b>>
<1> DEFINE three == <<a, b, c>>
           beats == [n \in 1 .. 3 |-> val > three[n]]
<1>1. three[1] = a /\ three[2] = b /\ three[3] = c
  OBVIOUS
<1>2. beats[1] = (val > a) /\ beats[2] = (val > b) /\ beats[3] = (val > c)
  BY <1>1
<1>3. Inserted(three, val, beats)
      = IF ~beats[3] THEN three
        ELSE IF ~beats[2] THEN <<three[1], three[2], val>>
        ELSE IF ~beats[1] THEN <<three[1], val, three[2]>> ELSE <<val, three[1], three[2]>>
  BY DEF Inserted
<1> QED BY <1>1, <1>2, <1>3

LEMMA LowMoves ==
  ASSUME NEW q, NEW n, InOrder(q, n), NEW val \in Sample, NEW j, Belongs(j, val, q, n),
         NEW i \in 1 .. 3
  PROVE  /\ LowAt(q, n, i) \in Sample
         /\ i < j => LowAt(q, n, i) <= val /\ LowAt(PutIn(q, n, j, val), n + 1, i) = LowAt(q, n, i)
         /\ i = j => val <= LowAt(q, n, i) /\ LowAt(PutIn(q, n, j, val), n + 1, i) = val
         /\ i > j => /\ val <= LowAt(q, n, i) /\ val <= LowAt(q, n, i - 1)
                     /\ LowAt(PutIn(q, n, j, val), n + 1, i) = LowAt(q, n, i - 1)
<1>0. /\ n \in Nat /\ Top \in Nat /\ Sample \subseteq Int /\ j \in 1 .. n + 1
      /\ val \in Int /\ 0 <= val /\ val <= Top /\ Top \in Sample
  BY MeanAssumption DEF Sample, Belongs, InOrder
<1>1. /\ \A k \in 1 .. n : q[k] \in Sample
      /\ \A k \in 1 .. n : k < j => q[k] <= val
      /\ \A k \in 1 .. n : j <= k => val < q[k]
  BY DEF InOrder, Belongs
<1>2. \A k \in 1 .. n + 1 :
        PutIn(q, n, j, val)[k] = IF k < j THEN q[k] ELSE IF k = j THEN val ELSE q[k - 1]
  BY DEF PutIn
<1>3. \A k \in 1 .. n : q[k] \in Int
  BY <1>0, <1>1
<1>4. LowAt(q, n, i) \in Sample
  BY <1>0, <1>1 DEF LowAt
<1>5. ASSUME i < j
      PROVE  LowAt(q, n, i) <= val /\ LowAt(PutIn(q, n, j, val), n + 1, i) = LowAt(q, n, i)
  BY <1>0, <1>1, <1>2, <1>5 DEF LowAt
<1>6. ASSUME i >= j PROVE val <= LowAt(q, n, i)
  BY <1>0, <1>1, <1>3, <1>6 DEF LowAt
<1>7. ASSUME i = j PROVE LowAt(PutIn(q, n, j, val), n + 1, i) = val
  BY <1>0, <1>2, <1>7 DEF LowAt
<1>8. ASSUME i > j
      PROVE  /\ val <= LowAt(q, n, i - 1)
             /\ LowAt(PutIn(q, n, j, val), n + 1, i) = LowAt(q, n, i - 1)
  <2>1. i \in Int /\ j \in Int /\ j <= i - 1
    BY <1>0, <1>8
  <2>2. CASE i - 1 <= n
    <3>1. i - 1 \in 1 .. n /\ i \in 1 .. n + 1
      BY <1>0, <2>1, <2>2
    <3>2. val < q[i - 1] /\ q[i - 1] \in Int
      BY <1>1, <1>3, <2>1, <3>1
    <3>3. PutIn(q, n, j, val)[i] = q[i - 1]
      BY <1>2, <3>1, <2>1
    <3> QED BY <1>0, <2>2, <3>1, <3>2, <3>3 DEF LowAt
  <2>3. CASE ~(i - 1 <= n)
    BY <1>0, <2>1, <2>3 DEF LowAt
  <2> QED BY <2>2, <2>3
<1> QED BY <1>0, <1>4, <1>5, <1>6, <1>7, <1>8

LEMMA LowKept ==
  ASSUME NEW q, NEW n, InOrder(q, n), NEW val \in Sample, NEW j, Belongs(j, val, q, n),
         NEW three, three = <<LowAt(q, n, 1), LowAt(q, n, 2), LowAt(q, n, 3)>>
  PROVE  LET qq == PutIn(q, n, j, val)
         IN  Inserted(three, val, [i \in 1 .. 3 |-> val < three[i]])
             = <<LowAt(qq, n + 1, 1), LowAt(qq, n + 1, 2), LowAt(qq, n + 1, 3)>>
<1> DEFINE qq == PutIn(q, n, j, val)
           a == LowAt(q, n, 1)
           b == LowAt(q, n, 2)
           c == LowAt(q, n, 3)
           x == LowAt(qq, n + 1, 1)
           y == LowAt(qq, n + 1, 2)
           z == LowAt(qq, n + 1, 3)
<1>0. Sample \subseteq Int /\ j \in Int /\ 1 <= j
  BY MeanAssumption DEF Sample, Belongs, InOrder
<1>1. /\ a \in Sample
      /\ 1 < j => a <= val /\ x = a
      /\ 1 = j => val <= a /\ x = val
  BY LowMoves
<1>2. /\ b \in Sample
      /\ 2 < j => b <= val /\ y = b
      /\ 2 = j => val <= b /\ y = val
      /\ 2 > j => val <= b /\ val <= a /\ y = a
  <2>1. 2 \in 1 .. 3 /\ 2 - 1 = 1
    OBVIOUS
  <2> QED BY <2>1, LowMoves
<1>3. /\ c \in Sample
      /\ 3 < j => c <= val /\ z = c
      /\ 3 = j => val <= c /\ z = val
      /\ 3 > j => val <= c /\ val <= b /\ z = b
  <2>1. 3 \in 1 .. 3 /\ 3 - 1 = 2
    OBVIOUS
  <2> QED BY <2>1, LowMoves
<1>4. a <= b /\ b <= c
  <2>1. \A k \in 1 .. n : q[k] \in Sample
    BY DEF InOrder
  <2>2. a <= b
    BY <2>1, MeanAssumption DEF InOrder, LowAt, Sample
  <2>3. b <= c
    BY <2>1, MeanAssumption DEF InOrder, LowAt, Sample
  <2> QED BY <2>2, <2>3
<1> HIDE DEF a, b, c, x, y, z
<1>5. Inserted(<<a, b, c>>, val, [i \in 1 .. 3 |-> val < <<a, b, c>>[i]]) = <<x, y, z>>
  <2>0. a \in Int /\ b \in Int /\ c \in Int /\ val \in Int
    BY <1>0, <1>1, <1>2, <1>3
  <2>1. (IF ~(val < c) THEN <<a, b, c>>
         ELSE IF ~(val < b) THEN <<a, b, val>>
         ELSE IF ~(val < a) THEN <<a, val, b>> ELSE <<val, a, b>>) = <<x, y, z>>
    <3>1. CASE j = 1
      BY <1>1, <1>2, <1>3, <1>4, <2>0, <3>1
    <3>2. CASE j = 2
      BY <1>1, <1>2, <1>3, <1>4, <2>0, <3>2
    <3>3. CASE j = 3
      BY <1>1, <1>2, <1>3, <1>4, <2>0, <3>3
    <3>4. CASE j > 3
      BY <1>1, <1>2, <1>3, <1>4, <2>0, <1>0, <3>4
    <3> QED BY <1>0, <3>1, <3>2, <3>3, <3>4
  <2> QED BY <2>0, <2>1, InsertedLow
<1> QED BY <1>5 DEF a, b, c, x, y, z

LEMMA HighMoves ==
  ASSUME NEW q, NEW n, InOrder(q, n), NEW val \in Sample, NEW j, Belongs(j, val, q, n),
         NEW i \in 1 .. 3, NEW r, r = n + 2 - j
  PROVE  /\ HighAt(q, n, i) \in Sample
         /\ i < r => val <= HighAt(q, n, i) /\ HighAt(PutIn(q, n, j, val), n + 1, i) = HighAt(q, n, i)
         /\ i = r => HighAt(q, n, i) <= val /\ HighAt(PutIn(q, n, j, val), n + 1, i) = val
         /\ i > r => /\ HighAt(q, n, i) <= val /\ HighAt(q, n, i - 1) <= val
                     /\ HighAt(PutIn(q, n, j, val), n + 1, i) = HighAt(q, n, i - 1)
<1>0. /\ n \in Nat /\ Top \in Nat /\ Sample \subseteq Int /\ j \in 1 .. n + 1
      /\ val \in Int /\ 0 <= val /\ val <= Top /\ 0 \in Sample
  BY MeanAssumption DEF Sample, Belongs, InOrder
<1>1. /\ \A k \in 1 .. n : q[k] \in Sample
      /\ \A k \in 1 .. n : k < j => q[k] <= val
      /\ \A k \in 1 .. n : j <= k => val < q[k]
  BY DEF InOrder, Belongs
<1>2. \A k \in 1 .. n + 1 :
        PutIn(q, n, j, val)[k] = IF k < j THEN q[k] ELSE IF k = j THEN val ELSE q[k - 1]
  BY DEF PutIn
<1>3. \A k \in 1 .. n : q[k] \in Int
  BY <1>0, <1>1
<1>4. HighAt(q, n, i) \in Sample
  BY <1>0, <1>1 DEF HighAt
<1>5. /\ r \in 1 .. n + 1 /\ (n + 1) + 1 - i = n + 2 - i
      /\ i <= n => n + 1 - i \in 1 .. n
      /\ i <= n + 1 => n + 2 - i \in 1 .. n + 1
      /\ (n + 2 - i) - 1 = n + 1 - i /\ n + 1 - (i - 1) = n + 2 - i
  BY <1>0
<1>6. HighAt(PutIn(q, n, j, val), n + 1, i)
      = IF i <= n + 1 THEN PutIn(q, n, j, val)[n + 2 - i] ELSE 0
  BY <1>5 DEF HighAt
<1>7. ASSUME i < r
      PROVE  val <= HighAt(q, n, i) /\ HighAt(PutIn(q, n, j, val), n + 1, i) = HighAt(q, n, i)
  <2>1. i <= n /\ i <= n + 1 /\ n + 1 - i >= j /\ n + 2 - i > j
    BY <1>0, <1>7
  <2>2. PutIn(q, n, j, val)[n + 2 - i] = q[n + 1 - i]
    BY <1>0, <1>2, <1>5, <2>1
  <2>3. val < q[n + 1 - i] /\ q[n + 1 - i] \in Int
    BY <1>1, <1>3, <1>5, <2>1
  <2> QED BY <1>0, <1>6, <2>1, <2>2, <2>3 DEF HighAt
<1>8. ASSUME i >= r PROVE HighAt(q, n, i) <= val
  <2>1. CASE i <= n
    <3>1. n + 1 - i \in 1 .. n /\ n + 1 - i < j
      BY <1>0, <1>5, <1>8, <2>1
    <3> QED BY <1>1, <2>1, <3>1 DEF HighAt
  <2>2. CASE ~(i <= n)
    BY <1>0, <2>2 DEF HighAt
  <2> QED BY <2>1, <2>2
<1>9. ASSUME i = r PROVE HighAt(PutIn(q, n, j, val), n + 1, i) = val
  <2>1. i <= n + 1 /\ n + 2 - i = j
    BY <1>0, <1>9
  <2> QED BY <1>0, <1>2, <1>6, <2>1
<1>10. ASSUME i > r
       PROVE  /\ HighAt(q, n, i - 1) <= val
              /\ HighAt(PutIn(q, n, j, val), n + 1, i) = HighAt(q, n, i - 1)
  <2>1. CASE i <= n + 1
    <3>1. i - 1 <= n /\ n + 2 - i \in 1 .. n /\ n + 2 - i < j
      BY <1>0, <1>10, <2>1
    <3>2. HighAt(q, n, i - 1) = q[n + 2 - i]
      BY <1>5, <3>1 DEF HighAt
    <3>3. PutIn(q, n, j, val)[n + 2 - i] = q[n + 2 - i]
      BY <1>0, <1>2, <1>5, <2>1, <3>1
    <3> QED BY <1>1, <1>6, <2>1, <3>1, <3>2, <3>3
  <2>2. CASE ~(i <= n + 1)
    <3>1. HighAt(q, n, i - 1) = 0
      BY <1>0, <2>2 DEF HighAt
    <3> QED BY <1>0, <1>6, <2>2, <3>1
  <2> QED BY <2>1, <2>2
<1>11. r \in Int /\ i \in Int
  BY <1>5
<1> QED BY <1>4, <1>7, <1>8, <1>9, <1>10, <1>11

LEMMA HighKept ==
  ASSUME NEW q, NEW n, InOrder(q, n), NEW val \in Sample, NEW j, Belongs(j, val, q, n),
         NEW three, three = <<HighAt(q, n, 1), HighAt(q, n, 2), HighAt(q, n, 3)>>
  PROVE  LET qq == PutIn(q, n, j, val)
         IN  Inserted(three, val, [i \in 1 .. 3 |-> val > three[i]])
             = <<HighAt(qq, n + 1, 1), HighAt(qq, n + 1, 2), HighAt(qq, n + 1, 3)>>
<1> DEFINE qq == PutIn(q, n, j, val)
           a == HighAt(q, n, 1)
           b == HighAt(q, n, 2)
           c == HighAt(q, n, 3)
           x == HighAt(qq, n + 1, 1)
           y == HighAt(qq, n + 1, 2)
           z == HighAt(qq, n + 1, 3)
           r == n + 2 - j
<1>0. Sample \subseteq Int /\ r \in Int /\ 1 <= r
  BY MeanAssumption DEF Sample, Belongs, InOrder
<1> HIDE DEF r
<1>a. r = n + 2 - j
  BY DEF r
<1>1. /\ a \in Sample
      /\ 1 < r => val <= a /\ x = a
      /\ 1 = r => a <= val /\ x = val
  BY <1>a, HighMoves
<1>2. /\ b \in Sample
      /\ 2 < r => val <= b /\ y = b
      /\ 2 = r => b <= val /\ y = val
      /\ 2 > r => b <= val /\ a <= val /\ y = a
  <2>1. 2 \in 1 .. 3 /\ 2 - 1 = 1
    OBVIOUS
  <2> QED BY <1>a, <2>1, HighMoves
<1>3. /\ c \in Sample
      /\ 3 < r => val <= c /\ z = c
      /\ 3 = r => c <= val /\ z = val
      /\ 3 > r => c <= val /\ b <= val /\ z = b
  <2>1. 3 \in 1 .. 3 /\ 3 - 1 = 2
    OBVIOUS
  <2> QED BY <1>a, <2>1, HighMoves
<1>4. a >= b /\ b >= c
  <2>1. n \in Nat /\ \A k \in 1 .. n : q[k] \in Sample /\ q[k] \in Int /\ 0 <= q[k]
    BY MeanAssumption DEF InOrder, Sample
  <2>2. a >= b
    <3>1. CASE 2 <= n
      <4>1. n - 1 \in 1 .. n /\ n \in 1 .. n /\ n + 1 - 1 = n /\ n + 1 - 2 = n - 1
        BY <2>1, <3>1
      <4>2. a = q[n] /\ b = q[n - 1]
        BY <2>1, <3>1, <4>1 DEF HighAt
      <4>3. q[n - 1] <= q[n]
        BY <2>1, <4>1 DEF InOrder
      <4> QED BY <2>1, <4>1, <4>2, <4>3
    <3>2. CASE ~(2 <= n)
      <4>1. b = 0 /\ a \in Int /\ 0 <= a
        BY <1>1, <2>1, <3>2, MeanAssumption DEF HighAt, Sample
      <4> QED BY <4>1
    <3> QED BY <3>1, <3>2
  <2>3. b >= c
    <3>1. CASE 3 <= n
      <4>1. n - 1 \in 1 .. n /\ n - 2 \in 1 .. n /\ n + 1 - 2 = n - 1 /\ n + 1 - 3 = n - 2
            /\ n - 2 <= n - 1
        BY <2>1, <3>1
      <4>2. b = q[n - 1] /\ c = q[n - 2]
        BY <2>1, <3>1, <4>1 DEF HighAt
      <4>3. q[n - 2] <= q[n - 1]
        BY <2>1, <4>1 DEF InOrder
      <4> QED BY <2>1, <4>1, <4>2, <4>3
    <3>2. CASE ~(3 <= n)
      <4>1. c = 0 /\ b \in Int /\ 0 <= b
        BY <1>2, <2>1, <3>2, MeanAssumption DEF HighAt, Sample
      <4> QED BY <4>1
    <3> QED BY <3>1, <3>2
  <2> QED BY <2>2, <2>3
<1> HIDE DEF a, b, c, x, y, z
<1>5. Inserted(<<a, b, c>>, val, [i \in 1 .. 3 |-> val > <<a, b, c>>[i]]) = <<x, y, z>>
  <2>0. a \in Int /\ b \in Int /\ c \in Int /\ val \in Int
    BY <1>0, <1>1, <1>2, <1>3
  <2>1. (IF ~(val > c) THEN <<a, b, c>>
         ELSE IF ~(val > b) THEN <<a, b, val>>
         ELSE IF ~(val > a) THEN <<a, val, b>> ELSE <<val, a, b>>) = <<x, y, z>>
    <3>1. CASE r = 1
      BY <1>1, <1>2, <1>3, <1>4, <2>0, <3>1
    <3>2. CASE r = 2
      BY <1>1, <1>2, <1>3, <1>4, <2>0, <3>2
    <3>3. CASE r = 3
      BY <1>1, <1>2, <1>3, <1>4, <2>0, <3>3
    <3>4. CASE r > 3
      BY <1>1, <1>2, <1>3, <1>4, <2>0, <1>0, <3>4
    <3> QED BY <1>0, <3>1, <3>2, <3>3, <3>4
  <2> QED BY <2>0, <2>1, InsertedHigh
<1> QED BY <1>5 DEF a, b, c, x, y, z

-----------------------------------------------------------------------------
(* The trimmed mean *)

\* The variables hold the three least and the three greatest samples so far,
\* and the sum of all.
Kept ==
  \E p, q : /\ Arranges(p, q, samples)
            /\ low = <<LowAt(q, Len(samples), 1), LowAt(q, Len(samples), 2),
                       LowAt(q, Len(samples), 3)>>
            /\ high = <<HighAt(q, Len(samples), 1), HighAt(q, Len(samples), 2),
                        HighAt(q, Len(samples), 3)>>

MeanInv ==
  /\ samples \in Seq(Sample) /\ Len(samples) <= Num
  /\ sumVal = SumWithout(samples, {})
  /\ Kept

LEMMA ArrangedInOrder ==
  ASSUME NEW s \in Seq(Sample), NEW p, NEW q, Arranges(p, q, s)
  PROVE  InOrder(q, Len(s))
BY DEF Arranges, InOrder

LEMMA SamplesInt == Seq(Sample) \subseteq Seq(Int) /\ Sample \subseteq Int
<1>1. Sample \subseteq Int
  BY MeanAssumption DEF Sample
<1>2. ASSUME NEW s \in Seq(Sample) PROVE s \in Seq(Int)
  <2>1. Len(s) \in Nat /\ s = [n \in 1 .. Len(s) |-> s[n]]
    OBVIOUS
  <2>2. \A n \in 1 .. Len(s) : s[n] \in Sample
    OBVIOUS
  <2>3. \A n \in 1 .. Len(s) : s[n] \in Int
    BY <1>1, <2>2
  <2> QED BY <2>1, <2>3
<1> QED BY <1>1, <1>2

LEMMA MeanStart == Init => MeanInv
<1> SUFFICES ASSUME Init PROVE MeanInv
  OBVIOUS
<1>1. /\ samples = <<>> /\ low = <<Top, Top, Top>> /\ high = <<0, 0, 0>> /\ sumVal = 0
      /\ Len(samples) = 0 /\ 1 .. Len(samples) = {}
  BY DEF Init
<1> DEFINE p == [i \in 1 .. 0 |-> i]
           q == [i \in 1 .. 0 |-> 0]
<1>2. Arranges(p, q, samples)
  BY <1>1 DEF Arranges
<1>3. Kept
  BY <1>1, <1>2 DEF Kept, LowAt, HighAt
<1> QED BY <1>1, <1>3, SumEmpty, MeanAssumption DEF MeanInv

LEMMA MeanStep == MeanInv /\ [Next]_vars => MeanInv'
<1> SUFFICES ASSUME MeanInv, [Next]_vars PROVE MeanInv'
  OBVIOUS
<1>1. ASSUME NEW val \in Sample, Take(val) PROVE MeanInv'
  <2> DEFINE n == Len(samples)
  <2>1. /\ n < Num
        /\ samples' = Append(samples, val)
        /\ low' = Inserted(low, val, [i \in 1 .. 3 |-> val < low[i]])
        /\ high' = Inserted(high, val, [i \in 1 .. 3 |-> val > high[i]])
        /\ sumVal' = sumVal + val
    BY <1>1 DEF Take, Sampled
  <2>2. samples \in Seq(Sample) /\ n \in Nat /\ sumVal = SumWithout(samples, {})
    BY DEF MeanInv
  <2>3. PICK p, q : /\ Arranges(p, q, samples)
                    /\ low = <<LowAt(q, n, 1), LowAt(q, n, 2), LowAt(q, n, 3)>>
                    /\ high = <<HighAt(q, n, 1), HighAt(q, n, 2), HighAt(q, n, 3)>>
    BY DEF MeanInv, Kept
  <2>4. InOrder(q, n)
    BY <2>2, <2>3, ArrangedInOrder
  <2>5. PICK j : Belongs(j, val, q, n)
    BY <2>2, <2>3, HasPlace
  <2> DEFINE pp == PutIn(p, n, j, n + 1)
             qq == PutIn(q, n, j, val)
  <2>6. samples' \in Seq(Sample) /\ Len(samples') = n + 1 /\ n + 1 <= Num
    BY <2>1, <2>2, MeanAssumption
  <2>7. Arranges(pp, qq, samples')
    BY <2>1, <2>2, <2>3, <2>5, ArrangedMore
  <2>8. low' = <<LowAt(qq, n + 1, 1), LowAt(qq, n + 1, 2), LowAt(qq, n + 1, 3)>>
    BY <2>1, <2>3, <2>4, <2>5, LowKept
  <2>9. high' = <<HighAt(qq, n + 1, 1), HighAt(qq, n + 1, 2), HighAt(qq, n + 1, 3)>>
    BY <2>1, <2>3, <2>4, <2>5, HighKept
  <2>10. sumVal' = SumWithout(samples', {})
    BY <2>1, <2>2, SumAppend, SamplesInt
  <2> HIDE DEF pp, qq
  <2>11. Kept'
    BY <2>6, <2>7, <2>8, <2>9 DEF Kept
  <2> QED BY <2>6, <2>10, <2>11 DEF MeanInv
<1>2. CASE UNCHANGED vars
  BY <1>2 DEF vars, MeanInv, Kept
<1> QED BY <1>1, <1>2 DEF Next

\* Six different places.
Six(n, a, b, c, d, e, f) ==
  /\ a \in 1 .. n /\ b \in 1 .. n /\ c \in 1 .. n
  /\ d \in 1 .. n /\ e \in 1 .. n /\ f \in 1 .. n
  /\ a \notin {b, c, d, e, f} /\ b \notin {c, d, e, f} /\ c \notin {d, e, f}
  /\ d \notin {e, f} /\ e # f

\* Six places can be taken off one by one.
LEMMA SumLessSix ==
  ASSUME NEW s \in Seq(Int), NEW a, NEW b, NEW c, NEW d, NEW e, NEW f,
         Six(Len(s), a, b, c, d, e, f)
  PROVE  SumWithout(s, {a, b, c} \union {d, e, f})
         = SumWithout(s, {}) - s[a] - s[b] - s[c] - s[d] - s[e] - s[f]
<1> USE DEF Six
<1>0. \A n \in 1 .. Len(s) : s[n] \in Int
  OBVIOUS
<1>1. SumWithout(s, {}) \in Int
  BY SumType
<1>2. SumWithout(s, {a}) = SumWithout(s, {}) - s[a]
  <2>1. {} \union {a} = {a} /\ a \notin {}
    OBVIOUS
  <2> QED BY <2>1, SumLess
<1>3. SumWithout(s, {a, b}) = SumWithout(s, {a}) - s[b]
  <2>1. {a} \union {b} = {a, b} /\ b \notin {a}
    OBVIOUS
  <2> QED BY <2>1, SumLess
<1>4. SumWithout(s, {a, b, c}) = SumWithout(s, {a, b}) - s[c]
  <2>1. {a, b} \union {c} = {a, b, c} /\ c \notin {a, b}
    OBVIOUS
  <2> QED BY <2>1, SumLess
<1>5. SumWithout(s, {a, b, c, d}) = SumWithout(s, {a, b, c}) - s[d]
  <2>1. {a, b, c} \union {d} = {a, b, c, d} /\ d \notin {a, b, c}
    OBVIOUS
  <2> QED BY <2>1, SumLess
<1>6. SumWithout(s, {a, b, c, d, e}) = SumWithout(s, {a, b, c, d}) - s[e]
  <2>1. {a, b, c, d} \union {e} = {a, b, c, d, e} /\ e \notin {a, b, c, d}
    OBVIOUS
  <2> QED BY <2>1, SumLess
<1>7. SumWithout(s, {a, b, c} \union {d, e, f}) = SumWithout(s, {a, b, c, d, e}) - s[f]
  <2>1. {a, b, c, d, e} \union {f} = {a, b, c} \union {d, e, f} /\ f \notin {a, b, c, d, e}
    OBVIOUS
  <2> QED BY <2>1, SumLess
<1>8. /\ s[a] \in Int /\ s[b] \in Int /\ s[c] \in Int
      /\ s[d] \in Int /\ s[e] \in Int /\ s[f] \in Int
  BY <1>0
<1> DEFINE S0 == SumWithout(s, {})
           S1 == SumWithout(s, {a})
           S2 == SumWithout(s, {a, b})
           S3 == SumWithout(s, {a, b, c})
           S4 == SumWithout(s, {a, b, c, d})
           S5 == SumWithout(s, {a, b, c, d, e})
           S6 == SumWithout(s, {a, b, c} \union {d, e, f})
<1>9. /\ S0 \in Int /\ S1 = S0 - s[a] /\ S2 = S1 - s[b] /\ S3 = S2 - s[c]
      /\ S4 = S3 - s[d] /\ S5 = S4 - s[e] /\ S6 = S5 - s[f]
  BY <1>1, <1>2, <1>3, <1>4, <1>5, <1>6, <1>7
<1> HIDE DEF S0, S1, S2, S3, S4, S5, S6
<1>10. S6 \in Int /\ S6 = S0 - s[a] - s[b] - s[c] - s[d] - s[e] - s[f]
  BY <1>8, <1>9
<1> QED BY <1>10 DEF S0, S6

LEMMA Quotient ==
  ASSUME NEW k \in Nat \ {0}, NEW x \in Int, NEW m \in Int
  PROVE  /\ k * m <= x => m <= x \div k
         /\ x <= k * m => x \div k <= m
<1> DEFINE d == x \div k
<1>1. d \in Int /\ k * d <= x /\ x < k * d + k
  OBVIOUS
<1> HIDE DEF d
<1>2. k * (d + 1) = k * d + k
  BY <1>1
<1>3. ASSUME k * m <= x PROVE m <= d
  <2> SUFFICES ASSUME d + 1 <= m PROVE FALSE
    BY <1>1
  <2>1. m - (d + 1) \in Nat /\ k * (m - (d + 1)) \in Nat
    BY <1>1
  <2>2. k * m = k * (d + 1) + k * (m - (d + 1))
    BY <1>1
  <2>3. k * d \in Int /\ k * m \in Int
    BY <1>1
  <2> QED BY <1>1, <1>2, <1>3, <2>1, <2>2, <2>3
<1>4. ASSUME x <= k * m PROVE d <= m
  <2> SUFFICES ASSUME m + 1 <= d PROVE FALSE
    BY <1>1
  <2>1. d - (m + 1) \in Nat /\ k * (d - (m + 1)) \in Nat
    BY <1>1
  <2>2. k * d = k * (m + 1) + k * (d - (m + 1)) /\ k * (m + 1) = k * m + k
    BY <1>1
  <2>3. k * d \in Int /\ k * m \in Int
    BY <1>1
  <2> QED BY <1>1, <1>4, <2>1, <2>2, <2>3
<1> QED BY <1>3, <1>4 DEF d

\* The six places at the two ends of the arrangement are different.
LEMMA SixDistinct ==
  ASSUME NEW p, \A i, j \in 1 .. Num : p[i] = p[j] => i = j
  PROVE  /\ p[1] \notin {p[2], p[3], p[Num - 2], p[Num - 1], p[Num]}
         /\ p[2] \notin {p[3], p[Num - 2], p[Num - 1], p[Num]}
         /\ p[3] \notin {p[Num - 2], p[Num - 1], p[Num]}
         /\ p[Num - 2] \notin {p[Num - 1], p[Num]} /\ p[Num - 1] # p[Num]
<1>1. /\ 1 \in 1 .. Num /\ 2 \in 1 .. Num /\ 3 \in 1 .. Num
      /\ Num - 2 \in 1 .. Num /\ Num - 1 \in 1 .. Num /\ Num \in 1 .. Num
  BY MeanAssumption
<1>2. /\ 1 # Num - 2 /\ 1 # Num - 1 /\ 1 # Num /\ 2 # Num - 2 /\ 2 # Num - 1 /\ 2 # Num
      /\ 3 # Num - 2 /\ 3 # Num - 1 /\ 3 # Num
      /\ Num - 2 # Num - 1 /\ Num - 2 # Num /\ Num - 1 # Num
  BY MeanAssumption
<1>3. /\ p[1] # p[2] /\ p[1] # p[3] /\ p[1] # p[Num - 2] /\ p[1] # p[Num - 1] /\ p[1] # p[Num]
  BY <1>1, <1>2
<1>4. p[2] # p[3] /\ p[2] # p[Num - 2] /\ p[2] # p[Num - 1] /\ p[2] # p[Num]
  BY <1>1, <1>2
<1>5. p[3] # p[Num - 2] /\ p[3] # p[Num - 1] /\ p[3] # p[Num]
  BY <1>1, <1>2
<1>6. p[Num - 2] # p[Num - 1] /\ p[Num - 2] # p[Num] /\ p[Num - 1] # p[Num]
  BY <1>1, <1>2
<1> QED BY <1>3, <1>4, <1>5, <1>6

LEMMA TripleIs ==
  ASSUME NEW a \in Places, NEW b \in Places, NEW c \in Places, a # b, a # c, b # c
  PROVE  {a, b, c} \in Triples
<1>1. ASSUME NEW i, NEW j, {a, b, c} = {i, j} PROVE FALSE
  <2>1. (a = i \/ a = j) /\ (b = i \/ b = j) /\ (c = i \/ c = j)
    BY <1>1
  <2> QED BY <2>1
<1> QED BY <1>1 DEF Triples

LEMMA TripleOf ==
  ASSUME NEW B \in Triples
  PROVE  \E a, b, c \in Places : B = {a, b, c}
BY DEF Triples

\* When all samples are taken, six of them have been taken off the sum.
Trimmed(p, q) ==
  /\ Arranges(p, q, samples)
  /\ avgVal = SumWithout(samples, {p[1], p[2], p[3]} \union {p[Num - 2], p[Num - 1], p[Num]})
              \div (Num - 6)

LEMMA SixOut ==
  ASSUME MeanInv, Done
  PROVE  \E p, q : Trimmed(p, q)
<1>1. /\ samples \in Seq(Int) /\ Len(samples) = Num /\ Num \in Nat /\ Num > 6
      /\ sumVal = SumWithout(samples, {})
  BY SamplesInt, MeanAssumption DEF MeanInv, Done
<1>2. PICK p, q : /\ Arranges(p, q, samples)
                  /\ low = <<LowAt(q, Num, 1), LowAt(q, Num, 2), LowAt(q, Num, 3)>>
                  /\ high = <<HighAt(q, Num, 1), HighAt(q, Num, 2), HighAt(q, Num, 3)>>
  BY DEF MeanInv, Kept, Done
<1>3. /\ 1 \in 1 .. Num /\ 2 \in 1 .. Num /\ 3 \in 1 .. Num
      /\ Num - 2 \in 1 .. Num /\ Num - 1 \in 1 .. Num /\ Num \in 1 .. Num
      /\ Num + 1 - 1 = Num /\ Num + 1 - 2 = Num - 1 /\ Num + 1 - 3 = Num - 2
  BY <1>1
<1>4. /\ low[1] = q[1] /\ low[2] = q[2] /\ low[3] = q[3]
      /\ high[1] = q[Num] /\ high[2] = q[Num - 1] /\ high[3] = q[Num - 2]
  BY <1>1, <1>2, <1>3 DEF LowAt, HighAt
<1>5. /\ \A i \in 1 .. Num : q[i] = samples[p[i]] /\ p[i] \in 1 .. Num
      /\ \A i, j \in 1 .. Num : p[i] = p[j] => i = j
  BY <1>1, <1>2 DEF Arranges
<1> DEFINE a == p[1]
           b == p[2]
           c == p[3]
           d == p[Num - 2]
           e == p[Num - 1]
           f == p[Num]
<1>6. /\ a \in 1 .. Num /\ b \in 1 .. Num /\ c \in 1 .. Num
      /\ d \in 1 .. Num /\ e \in 1 .. Num /\ f \in 1 .. Num
  BY <1>3, <1>5
<1>7. /\ a \notin {b, c, d, e, f} /\ b \notin {c, d, e, f} /\ c \notin {d, e, f}
      /\ d \notin {e, f} /\ e # f
  BY <1>5, SixDistinct
<1>8. /\ q[1] = samples[a] /\ q[2] = samples[b] /\ q[3] = samples[c]
      /\ q[Num - 2] = samples[d] /\ q[Num - 1] = samples[e] /\ q[Num] = samples[f]
  BY <1>3, <1>5
<1> HIDE DEF a, b, c, d, e, f
<1>9. SumWithout(samples, {a, b, c} \union {d, e, f})
      = SumWithout(samples, {}) - samples[a] - samples[b] - samples[c]
                                - samples[d] - samples[e] - samples[f]
  <2>1. Six(Len(samples), a, b, c, d, e, f)
    BY <1>1, <1>6, <1>7 DEF Six
  <2> QED BY <1>1, <2>1, SumLessSix
<1>10. TrimmedSum = SumWithout(samples, {a, b, c} \union {d, e, f})
  BY <1>1, <1>4, <1>8, <1>9 DEF TrimmedSum
<1> QED BY <1>2, <1>10 DEF Trimmed, avgVal, a, b, c, d, e, f

LEMMA MeanIsTrimmed == MeanInv => IsTrimmedMean
<1> SUFFICES ASSUME MeanInv, Done
             PROVE  \E L, G \in Triples :
                      /\ L \cap G = {}
                      /\ \A i \in L, n \in Places \ L : samples[i] <= samples[n]
                      /\ \A i \in G, n \in Places \ G : samples[i] >= samples[n]
                      /\ avgVal = SumWithout(samples, L \union G) \div (Num - 6)
  BY DEF IsTrimmedMean
<1>1. PICK p, q : Trimmed(p, q)
  BY SixOut
<1>2. Num \in Nat /\ Num > 6 /\ Len(samples) = Num /\ Sample \subseteq Int
  BY SamplesInt, MeanAssumption DEF Done
<1>3. /\ \A i \in 1 .. Num : p[i] \in 1 .. Num /\ q[i] = samples[p[i]] /\ q[i] \in Int
      /\ \A i, j \in 1 .. Num : p[i] = p[j] => i = j
      /\ \A n \in 1 .. Num : \E i \in 1 .. Num : p[i] = n
      /\ \A i, j \in 1 .. Num : i <= j => q[i] <= q[j]
  BY <1>1, <1>2 DEF Trimmed, Arranges
<1>4. /\ 1 \in 1 .. Num /\ 2 \in 1 .. Num /\ 3 \in 1 .. Num
      /\ Num - 2 \in 1 .. Num /\ Num - 1 \in 1 .. Num /\ Num \in 1 .. Num
  BY <1>2
<1> DEFINE L == {p[1], p[2], p[3]}
           G == {p[Num - 2], p[Num - 1], p[Num]}
<1>5. L \in Triples /\ G \in Triples
  <2>1. p[1] # p[2] /\ p[1] # p[3] /\ p[2] # p[3]
    BY <1>3, SixDistinct
  <2>2. p[Num - 2] # p[Num - 1] /\ p[Num - 2] # p[Num] /\ p[Num - 1] # p[Num]
    BY <1>3, SixDistinct
  <2>3. L \in Triples
    BY <1>3, <1>4, <2>1, TripleIs DEF Places
  <2>4. G \in Triples
    BY <1>3, <1>4, <2>2, TripleIs DEF Places
  <2> QED BY <2>3, <2>4
<1>6. L \cap G = {}
  BY <1>3, SixDistinct
<1>7. ASSUME NEW i \in L, NEW n \in Places \ L PROVE samples[i] <= samples[n]
  <2>1. PICK k \in 1 .. Num : p[k] = n
    BY <1>3 DEF Places
  <2>2. k # 1 /\ k # 2 /\ k # 3
    BY <2>1
  <2>3. PICK l \in 1 .. 3 : p[l] = i
    OBVIOUS
  <2>4. l \in 1 .. Num /\ l <= k
    BY <1>2, <2>2
  <2> QED BY <1>3, <2>1, <2>3, <2>4
<1>8. ASSUME NEW i \in G, NEW n \in Places \ G PROVE samples[i] >= samples[n]
  <2>1. PICK k \in 1 .. Num : p[k] = n
    BY <1>3 DEF Places
  <2>2. k # Num - 2 /\ k # Num - 1 /\ k # Num
    BY <2>1
  <2>3. PICK l \in Num - 2 .. Num : p[l] = i
    BY <1>2
  <2>4. l \in 1 .. Num /\ k <= l
    BY <1>2, <2>2
  <2>5. q[k] <= q[l] /\ q[k] = samples[n] /\ q[l] = samples[i] /\ q[k] \in Int /\ q[l] \in Int
    BY <1>3, <2>1, <2>3, <2>4
  <2> QED BY <2>5
<1>9. avgVal = SumWithout(samples, L \union G) \div (Num - 6)
  BY <1>1 DEF Trimmed
<1> QED BY <1>5, <1>6, <1>7, <1>8, <1>9

\* The average of the ten that are left lies between the fourth least and the
\* fourth greatest.
LEMMA MeanBetween ==
  ASSUME MeanInv, Done, NEW p, NEW q, Trimmed(p, q)
  PROVE  q[4] <= avgVal /\ avgVal <= q[Num - 3]
<1>1. /\ samples \in Seq(Int) /\ Len(samples) = Num /\ Num \in Nat /\ Num > 6
      /\ Sample \subseteq Int
  BY SamplesInt, MeanAssumption DEF MeanInv, Done
<1>2. /\ \A i \in 1 .. Num : p[i] \in 1 .. Num /\ q[i] = samples[p[i]] /\ q[i] \in Int
      /\ \A i, j \in 1 .. Num : p[i] = p[j] => i = j
      /\ \A n \in 1 .. Num : \E i \in 1 .. Num : p[i] = n
      /\ \A i, j \in 1 .. Num : i <= j => q[i] <= q[j]
  BY <1>1 DEF Trimmed, Arranges
<1>3. /\ 1 \in 1 .. Num /\ 2 \in 1 .. Num /\ 3 \in 1 .. Num /\ 4 \in 1 .. Num
      /\ Num - 3 \in 1 .. Num
      /\ Num - 2 \in 1 .. Num /\ Num - 1 \in 1 .. Num /\ Num \in 1 .. Num
  BY <1>1
<1> DEFINE a == p[1]
           b == p[2]
           c == p[3]
           d == p[Num - 2]
           e == p[Num - 1]
           f == p[Num]
           X == {a, b, c} \union {d, e, f}
<1>4. ASSUME NEW n \in (1 .. Num) \ X PROVE q[4] <= samples[n] /\ samples[n] <= q[Num - 3]
  <2>1. PICK k \in 1 .. Num : p[k] = n
    BY <1>2
  <2>2. k # 1 /\ k # 2 /\ k # 3 /\ k # Num - 2 /\ k # Num - 1 /\ k # Num
    BY <2>1
  <2>3. 4 <= k /\ k <= Num - 3
    BY <1>1, <2>2
  <2> QED BY <1>2, <1>3, <2>1, <2>3
<1>5. /\ a \in 1 .. Num /\ b \in 1 .. Num /\ c \in 1 .. Num
      /\ d \in 1 .. Num /\ e \in 1 .. Num /\ f \in 1 .. Num
  BY <1>2, <1>3
<1>6. /\ a \notin {b, c, d, e, f} /\ b \notin {c, d, e, f} /\ c \notin {d, e, f}
      /\ d \notin {e, f} /\ e # f
  BY <1>2, SixDistinct
<1>7. avgVal = SumWithout(samples, X) \div (Num - 6)
  BY DEF Trimmed
<1> HIDE DEF a, b, c, d, e, f
<1>8. ASSUME NEW m \in Int
      PROVE  LET s == [n \in 1 .. Num |-> m]
             IN  /\ s \in Seq(Int) /\ Len(s) = Num /\ (\A n \in 1 .. Num : s[n] = m)
                 /\ SumWithout(s, X) = (Num - 6) * m
  <2> DEFINE s == [n \in 1 .. Num |-> m]
  <2>1. s \in Seq(Int) /\ Len(s) = Num /\ \A n \in 1 .. Num : s[n] = m
    BY <1>1
  <2>2. SumWithout(s, {}) = Num * m
    BY <1>1, SumConstant
  <2> HIDE DEF s
  <2>3. s[a] = m /\ s[b] = m /\ s[c] = m /\ s[d] = m /\ s[e] = m /\ s[f] = m
    BY <1>5, <2>1
  <2>4. SumWithout(s, X)
        = SumWithout(s, {}) - s[a] - s[b] - s[c] - s[d] - s[e] - s[f]
    <3>1. Six(Len(s), a, b, c, d, e, f)
      BY <1>5, <1>6, <2>1 DEF Six
    <3> QED BY <2>1, <3>1, SumLessSix
  <2> HIDE DEF X
  <2>5. SumWithout(s, X) = Num * m - m - m - m - m - m - m
    BY <2>2, <2>3, <2>4
  <2>6. (Num - 6) * m = Num * m - 6 * m
    BY <1>1
  <2>7. SumWithout(s, X) = (Num - 6) * m
    BY <1>1, <2>5, <2>6
  <2> QED BY <2>1, <2>7 DEF s
<1>9. q[4] \in Int /\ q[Num - 3] \in Int /\ SumWithout(samples, X) \in Int
  <2>1. SumWithout(samples, X) \in Int
    BY <1>1, SumType
  <2> QED BY <1>2, <1>3, <2>1
<1> HIDE DEF X
<1>10. (Num - 6) * q[4] <= SumWithout(samples, X)
  <2> DEFINE s == [n \in 1 .. Num |-> q[4]]
  <2>1. /\ s \in Seq(Int) /\ Len(s) = Num /\ (\A n \in 1 .. Num : s[n] = q[4])
        /\ SumWithout(s, X) = (Num - 6) * q[4]
    BY <1>8, <1>9
  <2> HIDE DEF s
  <2>2. \A n \in (1 .. Len(s)) \ X : s[n] <= samples[n]
    BY <1>4, <2>1
  <2>3. SumWithout(s, X) <= SumWithout(samples, X)
    BY <1>1, <2>1, <2>2, SumAtMost
  <2> QED BY <2>1, <2>3
<1>11. SumWithout(samples, X) <= (Num - 6) * q[Num - 3]
  <2> DEFINE s == [n \in 1 .. Num |-> q[Num - 3]]
  <2>1. /\ s \in Seq(Int) /\ Len(s) = Num /\ (\A n \in 1 .. Num : s[n] = q[Num - 3])
        /\ SumWithout(s, X) = (Num - 6) * q[Num - 3]
    BY <1>8, <1>9
  <2> HIDE DEF s
  <2>2. \A n \in (1 .. Len(samples)) \ X : samples[n] <= s[n]
    BY <1>1, <1>4, <2>1
  <2>3. SumWithout(samples, X) <= SumWithout(s, X)
    BY <1>1, <2>1, <2>2, SumAtMost
  <2> QED BY <2>1, <2>3
<1>12. Num - 6 \in Nat \ {0}
  BY <1>1
<1> QED BY <1>7, <1>9, <1>10, <1>11, <1>12, Quotient

LEMMA MeanIsRobust == MeanInv => Robust
<1> SUFFICES ASSUME MeanInv, Done, NEW B \in Triples
             PROVE  LET good == {samples[n] : n \in Places \ B}
                    IN  /\ \E v \in good : v <= avgVal
                        /\ \E v \in good : avgVal <= v
  BY DEF Robust
<1>1. PICK p, q : Trimmed(p, q)
  BY SixOut
<1>2. Num \in Nat /\ Num > 6 /\ Len(samples) = Num /\ Sample \subseteq Int
  BY SamplesInt, MeanAssumption DEF Done
<1>3. /\ \A i \in 1 .. Num : p[i] \in 1 .. Num /\ q[i] = samples[p[i]] /\ q[i] \in Int
      /\ \A i, j \in 1 .. Num : p[i] = p[j] => i = j
      /\ \A i, j \in 1 .. Num : i <= j => q[i] <= q[j]
  BY <1>1, <1>2 DEF Trimmed, Arranges
<1>4. PICK a \in Places, b \in Places, c \in Places : B = {a, b, c}
  BY TripleOf
<1>5. ASSUME NEW x, NEW y, NEW z, NEW w,
             x # y /\ x # z /\ x # w /\ y # z /\ y # w /\ z # w
      PROVE  x \notin B \/ y \notin B \/ z \notin B \/ w \notin B
  BY <1>4, <1>5
<1>6. q[4] <= avgVal /\ avgVal <= q[Num - 3]
  BY <1>1, MeanBetween
<1>7. avgVal \in Int
  <2>1. samples \in Seq(Int)
    BY SamplesInt DEF MeanInv
  <2> DEFINE X == {p[1], p[2], p[3]} \union {p[Num - 2], p[Num - 1], p[Num]}
  <2>2. SumWithout(samples, X) \in Int /\ avgVal = SumWithout(samples, X) \div (Num - 6)
    BY <1>1, <2>1, SumType DEF Trimmed
  <2> HIDE DEF X
  <2> QED BY <1>2, <2>2
<1>8. \E i \in 1 .. 4 : p[i] \in Places \ B
  <2>1. 1 \in 1 .. Num /\ 2 \in 1 .. Num /\ 3 \in 1 .. Num /\ 4 \in 1 .. Num
    BY <1>2
  <2>2. /\ p[1] # p[2] /\ p[1] # p[3] /\ p[1] # p[4] /\ p[2] # p[3] /\ p[2] # p[4]
        /\ p[3] # p[4]
    BY <1>3, <2>1
  <2>3. p[1] \notin B \/ p[2] \notin B \/ p[3] \notin B \/ p[4] \notin B
    BY <1>5, <2>2
  <2> QED BY <1>3, <2>1, <2>3 DEF Places
<1>9. \E i \in Num - 3 .. Num : p[i] \in Places \ B
  <2>1. Num - 3 \in 1 .. Num /\ Num - 2 \in 1 .. Num /\ Num - 1 \in 1 .. Num /\ Num \in 1 .. Num
    BY <1>2
  <2>2. /\ p[Num] # p[Num - 1] /\ p[Num] # p[Num - 2] /\ p[Num] # p[Num - 3]
        /\ p[Num - 1] # p[Num - 2] /\ p[Num - 1] # p[Num - 3] /\ p[Num - 2] # p[Num - 3]
    <3>1. /\ p[Num] # p[Num - 1] /\ p[Num] # p[Num - 2] /\ p[Num - 1] # p[Num - 2]
      BY <1>3, SixDistinct
    <3>2. Num # Num - 3 /\ Num - 1 # Num - 3 /\ Num - 2 # Num - 3
      BY <1>2
    <3>3. p[Num] # p[Num - 3] /\ p[Num - 1] # p[Num - 3] /\ p[Num - 2] # p[Num - 3]
      BY <1>3, <2>1, <3>2
    <3> QED BY <3>1, <3>3
  <2>3. p[Num] \notin B \/ p[Num - 1] \notin B \/ p[Num - 2] \notin B \/ p[Num - 3] \notin B
    BY <1>5, <2>2
  <2>4. /\ Num \in Num - 3 .. Num /\ Num - 1 \in Num - 3 .. Num
        /\ Num - 2 \in Num - 3 .. Num /\ Num - 3 \in Num - 3 .. Num
    BY <1>2
  <2> QED BY <1>3, <2>1, <2>3, <2>4 DEF Places
<1>10. \E n \in Places \ B : samples[n] <= avgVal
  <2>1. PICK i \in 1 .. 4 : p[i] \in Places \ B
    BY <1>8
  <2>2. i \in 1 .. Num /\ 4 \in 1 .. Num /\ i <= 4
    BY <1>2
  <2>3. q[i] <= q[4] /\ q[i] = samples[p[i]] /\ q[i] \in Int /\ q[4] \in Int
    BY <1>3, <2>2
  <2>4. samples[p[i]] <= avgVal
    BY <1>6, <1>7, <2>3
  <2> QED BY <2>1, <2>4
<1>11. \E n \in Places \ B : avgVal <= samples[n]
  <2>1. PICK i \in Num - 3 .. Num : p[i] \in Places \ B
    BY <1>9
  <2>2. i \in 1 .. Num /\ Num - 3 \in 1 .. Num /\ Num - 3 <= i
    BY <1>2
  <2>3. q[Num - 3] <= q[i] /\ q[i] = samples[p[i]] /\ q[i] \in Int /\ q[Num - 3] \in Int
    BY <1>3, <2>2
  <2>4. avgVal <= samples[p[i]]
    BY <1>6, <1>7, <2>3
  <2> QED BY <2>1, <2>4
<1> QED BY <1>10, <1>11

\* getAvgAdc() keeps the right six samples by insertion: for any number of
\* samples of any size the result is the average without the three least and
\* the three greatest.
THEOREM MeanTrimmed == Spec => []IsTrimmedMean
<1>1. Init => MeanInv
  BY MeanStart
<1>2. MeanInv /\ [Next]_vars => MeanInv'
  BY MeanStep
<1>3. MeanInv => IsTrimmedMean
  BY MeanIsTrimmed
<1> QED BY <1>1, <1>2, <1>3, PTL DEF Spec

\* Any three samples of getAvgAdc() may be wrong, and the average is still within
\* the range of the others; the sum without sign is never below zero.
THEOREM MeanRobust == Spec => []Robust
<1>1. Init => MeanInv
  BY MeanStart
<1>2. MeanInv /\ [Next]_vars => MeanInv'
  BY MeanStep
<1>3. MeanInv => Robust
  BY MeanIsRobust
<1> QED BY <1>1, <1>2, <1>3, PTL DEF Spec

-----------------------------------------------------------------------------
(* The calendar *)

\* The months before each month have these days.
Before == <<0, 31, 59, 90, 120, 151, 181, 212, 243, 273, 304, 334>>

LEMMA DaysBeforeIs == \A m \in 1 .. 12 : DaysBefore[m] = Before[m]
<1> DEFINE Rec(f) ==
      f = [m \in 1 .. 12 |-> IF m = 1 THEN 0 ELSE f[m - 1] + daysInMonth[m - 1]]
           g == [m \in 1 .. 12 |-> Before[m]]
<1>1. Rec(g)
  <2>1. ASSUME NEW m \in 1 .. 12
        PROVE  g[m] = IF m = 1 THEN 0 ELSE g[m - 1] + daysInMonth[m - 1]
    <3>1. m = 1 \/ m = 2 \/ m = 3 \/ m = 4 \/ m = 5 \/ m = 6 \/ m = 7 \/ m = 8
          \/ m = 9 \/ m = 10 \/ m = 11 \/ m = 12
      OBVIOUS
    <3> QED BY <3>1 DEF Before, daysInMonth
  <2>2. g = [m \in 1 .. 12 |-> g[m]]
    OBVIOUS
  <2> HIDE DEF g
  <2> QED BY <2>1, <2>2
<1> DEFINE f == CHOOSE h : Rec(h)
<1>2. Rec(f)
  BY <1>1
<1>3. DaysBefore = f
  BY DEF DaysBefore
<1>4. \A m \in 1 .. 12 : DaysBefore[m] = IF m = 1 THEN 0 ELSE DaysBefore[m - 1] + daysInMonth[m - 1]
  BY <1>2, <1>3
<1>5. /\ DaysBefore[1] = 0
      /\ DaysBefore[2] = DaysBefore[1] + 31 /\ DaysBefore[3] = DaysBefore[2] + 28
      /\ DaysBefore[4] = DaysBefore[3] + 31 /\ DaysBefore[5] = DaysBefore[4] + 30
      /\ DaysBefore[6] = DaysBefore[5] + 31 /\ DaysBefore[7] = DaysBefore[6] + 30
      /\ DaysBefore[8] = DaysBefore[7] + 31 /\ DaysBefore[9] = DaysBefore[8] + 31
      /\ DaysBefore[10] = DaysBefore[9] + 30 /\ DaysBefore[11] = DaysBefore[10] + 31
      /\ DaysBefore[12] = DaysBefore[11] + 30
  BY <1>4 DEF daysInMonth
<1>6. ASSUME NEW m \in 1 .. 12 PROVE DaysBefore[m] = Before[m]
  <2>1. m = 1 \/ m = 2 \/ m = 3 \/ m = 4 \/ m = 5 \/ m = 6 \/ m = 7 \/ m = 8
        \/ m = 9 \/ m = 10 \/ m = 11 \/ m = 12
    OBVIOUS
  <2> QED BY <1>5, <2>1 DEF Before
<1> QED BY <1>6

\* The day a year starts with, without taking years off one by one.
YearDays(y) == 365 * y + ((y + 3) \div 4)

LEMMA YearStartIs == \A y \in 0 .. 100 : YearStart[y] = YearDays(y)
<1> DEFINE Rec(f) ==
      f = [y \in 0 .. 100 |-> IF y = 0 THEN 0 ELSE f[y - 1] + 365 + LeapDay(y - 1)]
           g == [y \in 0 .. 100 |-> YearDays(y)]
<1>1. \A y \in 1 .. 100 : YearDays(y) = YearDays(y - 1) + 365 + LeapDay(y - 1)
  BY DEF YearDays, LeapDay
<1>2. YearDays(0) = 0
  BY DEF YearDays
<1>3. Rec(g)
  <2>1. ASSUME NEW y \in 0 .. 100
        PROVE  g[y] = IF y = 0 THEN 0 ELSE g[y - 1] + 365 + LeapDay(y - 1)
    BY <1>1, <1>2
  <2>2. g = [y \in 0 .. 100 |-> g[y]]
    OBVIOUS
  <2> HIDE DEF g
  <2> QED BY <2>1, <2>2
<1> DEFINE f == CHOOSE h : Rec(h)
<1>4. Rec(f)
  BY <1>3
<1>5. YearStart = f
  BY DEF YearStart
<1>6. \A y \in 0 .. 100 : YearStart[y] = IF y = 0 THEN 0 ELSE YearStart[y - 1] + 365 + LeapDay(y - 1)
  <2> HIDE DEF f
  <2>1. YearStart = [y \in 0 .. 100 |->
                       IF y = 0 THEN 0 ELSE YearStart[y - 1] + 365 + LeapDay(y - 1)]
    BY <1>4, <1>5
  <2> QED BY <2>1
<1> HIDE DEF f
<1> DEFINE Bad == {y \in Nat : y <= 100 /\ YearStart[y] # YearDays(y)}
<1>7. Bad = {}
  <2> SUFFICES ASSUME Bad # {} PROVE FALSE
    OBVIOUS
  <2>1. PICK y \in Bad : \A z \in Bad : y <= z
    BY Least
  <2>2. y \in 1 .. 100
    BY <1>2, <1>6, <2>1
  <2>3. y - 1 \in Nat /\ ~(y - 1 \in Bad)
    BY <2>1, <2>2
  <2>4. YearStart[y - 1] = YearDays(y - 1)
    BY <2>2, <2>3
  <2>5. YearStart[y] = YearStart[y - 1] + 365 + LeapDay(y - 1)
    BY <1>6, <2>2
  <2> QED BY <1>1, <2>1, <2>2, <2>4, <2>5
<1> QED BY <1>7

LEMMA LeapIs ==
  ASSUME NEW y \in Int, 2000 <= y, y <= 2099
  PROVE  Leap(y) <=> (y - 2000) % 4 = 0
<1>1. y % 4 = (y - 2000) % 4
  OBVIOUS
<1>2. y % 100 # 0 \/ y = 2000
  OBVIOUS
<1>3. 2000 % 400 = 0
  OBVIOUS
<1> QED BY <1>1, <1>2, <1>3 DEF Leap

\* A date of the century, and its number counted from the first day.
IsDate(c) ==
  /\ c \in [year : 2000 .. 2099, month : 1 .. 12, day : 1 .. 31]
  /\ c.day <= MonthLength(c.year, c.month)

LeapPassed(y, m) == IF m > 2 /\ (y - 2000) % 4 = 0 THEN 1 ELSE 0

Number(c) ==
  YearDays(c.year - 2000) + Before[c.month] + LeapPassed(c.year, c.month) + (c.day - 1)

MonthCases(m) ==
  \/ m = 1 \/ m = 2 \/ m = 3 \/ m = 4 \/ m = 5 \/ m = 6
  \/ m = 7 \/ m = 8 \/ m = 9 \/ m = 10 \/ m = 11 \/ m = 12

LEMMA MonthTable ==
  /\ Before[1] = 0 /\ Before[2] = 31 /\ Before[3] = 59 /\ Before[4] = 90
  /\ Before[5] = 120 /\ Before[6] = 151 /\ Before[7] = 181 /\ Before[8] = 212
  /\ Before[9] = 243 /\ Before[10] = 273 /\ Before[11] = 304 /\ Before[12] = 334
  /\ daysInMonth[1] = 31 /\ daysInMonth[2] = 28 /\ daysInMonth[3] = 31
  /\ daysInMonth[4] = 30 /\ daysInMonth[5] = 31 /\ daysInMonth[6] = 30
  /\ daysInMonth[7] = 31 /\ daysInMonth[8] = 31 /\ daysInMonth[9] = 30
  /\ daysInMonth[10] = 31 /\ daysInMonth[11] = 30 /\ daysInMonth[12] = 31
  /\ \A m \in 1 .. 12 : MonthCases(m)
BY DEF Before, daysInMonth, MonthCases

LEMMA MonthBounds ==
  ASSUME NEW m \in 1 .. 12
  PROVE  /\ daysInMonth[m] \in Int /\ 28 <= daysInMonth[m] /\ daysInMonth[m] <= 31
         /\ Before[m] \in Int /\ 0 <= Before[m] /\ Before[m] <= 334
         /\ m < 12 => Before[m + 1] = Before[m] + daysInMonth[m]
<1>1. MonthCases(m)
  BY MonthTable
<1>2. CASE m = 1 \/ m = 2 \/ m = 3 \/ m = 4 \/ m = 5 \/ m = 6
  BY <1>2, MonthTable
<1>3. CASE m = 7 \/ m = 8 \/ m = 9 \/ m = 10 \/ m = 11 \/ m = 12
  BY <1>3, MonthTable
<1> QED BY <1>1, <1>2, <1>3 DEF MonthCases

LEMMA MonthsAscend ==
  ASSUME NEW j \in 1 .. 12, NEW k \in 1 .. 12, j <= k
  PROVE  Before[j] <= Before[k]
<1>1. MonthCases(j) /\ MonthCases(k)
  BY MonthTable
<1> QED BY <1>1, MonthTable DEF MonthCases

LEMMA YearsAscend ==
  ASSUME NEW y \in Int, 0 <= y, y <= 99
  PROVE  /\ YearDays(y) \in Int /\ 0 <= YearDays(y) /\ YearDays(y) <= 36160
         /\ YearDays(y + 1) = YearDays(y) + 365 + LeapDay(y)
         /\ LeapDay(y) \in {0, 1}
         /\ \A z \in Int : 0 <= z /\ z < y => YearDays(z + 1) <= YearDays(y)
<1>1. YearDays(y) \in Int /\ 0 <= YearDays(y) /\ YearDays(y) <= 36160
  BY DEF YearDays
<1>2. YearDays(y + 1) = YearDays(y) + 365 + LeapDay(y)
  BY DEF YearDays, LeapDay
<1>3. LeapDay(y) \in {0, 1}
  BY DEF LeapDay
<1>4. ASSUME NEW z \in Int, 0 <= z, z < y PROVE YearDays(z + 1) <= YearDays(y)
  BY <1>4 DEF YearDays
<1> QED BY <1>1, <1>2, <1>3, <1>4

LEMMA date2daysIs ==
  ASSUME NEW y \in Int, 2000 <= y, y <= 2099, NEW m \in 1 .. 12, NEW d \in 1 .. 31
  PROVE  date2days(y, m, d)
         = YearDays(y - 2000) + Before[m] + LeapPassed(y, m) + (d - 1)
<1> DEFINE n == YearDays(y - 2000) + Before[m] + LeapPassed(y, m) + (d - 1)
<1>1. y - 2000 \in Int /\ 0 <= y - 2000 /\ y - 2000 <= 99
  OBVIOUS
<1>2. n \in Int /\ 0 <= n /\ n <= 40000
  <2>1. LeapPassed(y, m) \in {0, 1}
    BY DEF LeapPassed
  <2>2. YearDays(y - 2000) \in Int /\ 0 <= YearDays(y - 2000) /\ YearDays(y - 2000) <= 36160
    BY <1>1, YearsAscend
  <2>3. Before[m] \in Int /\ 0 <= Before[m] /\ Before[m] <= 334
    BY MonthBounds
  <2> QED BY <2>1, <2>2, <2>3
<1>3. n % 2^16 = n
  <2> HIDE DEF n
  <2> QED BY <1>2
<1>4. DaysBefore[m] = Before[m] /\ Before[m] \in Int
  BY DaysBeforeIs, MonthBounds
<1>5. (d + DaysBefore[m] + (IF m > 2 /\ (y - 2000) % 4 = 0 THEN 1 ELSE 0)
         + 365 * (y - 2000) + ((y - 2000) + 3) \div 4 - 1) = n
  BY <1>4 DEF YearDays, LeapPassed
<1> HIDE DEF n
<1>6. date2days(y, m, d) = n % 2^16
  BY <1>5 DEF date2days
<1>7. date2days(y, m, d) = n
  BY <1>3, <1>6
<1> QED BY <1>7 DEF n

LEMMA DateParts ==
  ASSUME NEW c, IsDate(c)
  PROVE  /\ c.year \in Int /\ 2000 <= c.year /\ c.year <= 2099
         /\ c.month \in 1 .. 12 /\ c.day \in 1 .. 31
         /\ c = [year |-> c.year, month |-> c.month, day |-> c.day]
         /\ LeapDay(c.year - 2000) = IF Leap(c.year) THEN 1 ELSE 0
         /\ LeapPassed(c.year, c.month) = IF c.month > 2 THEN LeapDay(c.year - 2000) ELSE 0
         /\ MonthLength(c.year, c.month)
            = daysInMonth[c.month] + (IF c.month = 2 THEN LeapDay(c.year - 2000) ELSE 0)
         /\ c.day <= MonthLength(c.year, c.month)
<1>1. /\ c \in [year : 2000 .. 2099, month : 1 .. 12, day : 1 .. 31]
      /\ c.day <= MonthLength(c.year, c.month)
  BY DEF IsDate
<1>2. /\ c.year \in Int /\ 2000 <= c.year /\ c.year <= 2099
      /\ c.month \in 1 .. 12 /\ c.day \in 1 .. 31
  BY <1>1
<1>3. c = [year |-> c.year, month |-> c.month, day |-> c.day]
  BY <1>1
<1>4. Leap(c.year) <=> (c.year - 2000) % 4 = 0
  BY <1>2, LeapIs
<1>5. LeapDay(c.year - 2000) = IF Leap(c.year) THEN 1 ELSE 0
  BY <1>4 DEF LeapDay
<1>6. LeapPassed(c.year, c.month) = IF c.month > 2 THEN LeapDay(c.year - 2000) ELSE 0
  BY DEF LeapPassed, LeapDay
<1>7. MonthLength(c.year, c.month)
      = daysInMonth[c.month] + (IF c.month = 2 THEN LeapDay(c.year - 2000) ELSE 0)
  BY <1>2, <1>5, MonthTable, MonthBounds DEF MonthLength
<1> QED BY <1>1, <1>2, <1>3, <1>5, <1>6, <1>7

\* Midnight adds one to the number of the date.
LEMMA NextNumber ==
  ASSUME NEW c, IsDate(c), c.year < 2099 \/ c.month < 12 \/ c.day < 31
  PROVE  /\ IsDate(NextDay(c)) /\ Number(NextDay(c)) = Number(c) + 1
         /\ NextDay(c).year # c.year =>
              c.month = 12 /\ c.day = 31 /\ NextDay(c).year = c.year + 1
<1> DEFINE y == c.year
           m == c.month
           d == c.day
           len == MonthLength(y, m)
           leap == LeapDay(y - 2000)
<1>1. /\ y \in Int /\ 2000 <= y /\ y <= 2099 /\ m \in 1 .. 12 /\ d \in 1 .. 31
      /\ c = [year |-> y, month |-> m, day |-> d]
      /\ len = daysInMonth[m] + (IF m = 2 THEN leap ELSE 0) /\ d <= len
      /\ leap = IF Leap(y) THEN 1 ELSE 0
  BY DateParts
<1>2. y - 2000 \in Int /\ 0 <= y - 2000 /\ y - 2000 <= 99
  BY <1>1
<1>3. leap \in {0, 1} /\ YearDays(y - 2000) \in Int
      /\ YearDays(y - 2000 + 1) = YearDays(y - 2000) + 365 + leap
  BY <1>2, YearsAscend
<1>4. \A k \in 1 .. 12 : LeapPassed(y, k) = IF k > 2 THEN leap ELSE 0
  BY DEF LeapPassed, LeapDay
<1>5. Number(c) = YearDays(y - 2000) + Before[m] + LeapPassed(y, m) + (d - 1)
  BY DEF Number
<1>6. daysInMonth[m] \in Int /\ 28 <= daysInMonth[m] /\ daysInMonth[m] <= 31 /\ Before[m] \in Int
  BY <1>1, MonthBounds
<1> HIDE DEF y, m, d, len, leap
<1>7. CASE d < len
  <2> DEFINE r == [year |-> y, month |-> m, day |-> d + 1]
  <2>1. NextDay(c) = r
    <3>1. NextDay(c) = [c EXCEPT !.day = @ + 1]
      BY <1>7 DEF NextDay, len, d, y, m
    <3> QED BY <1>1, <3>1
  <2>2. d + 1 \in 1 .. 31 /\ d + 1 <= len
    BY <1>1, <1>3, <1>6, <1>7, MonthTable
  <2>3. IsDate(r)
    <3>1. y \in 2000 .. 2099
      BY <1>1
    <3> QED BY <1>1, <2>2, <3>1 DEF IsDate, len
  <2>4. Number(r) = YearDays(y - 2000) + Before[m] + LeapPassed(y, m) + ((d + 1) - 1)
    BY DEF Number
  <2>5. LeapPassed(y, m) \in Int
    BY <1>1, <1>3, <1>4
  <2>6. Number(r) = Number(c) + 1
    BY <1>1, <1>3, <1>5, <1>6, <2>4, <2>5
  <2>7. NextDay(c).year = y
    BY <2>1
  <2> QED BY <2>1, <2>3, <2>6, <2>7 DEF y
<1>8. CASE ~(d < len) /\ m < 12
  <2> DEFINE r == [year |-> y, month |-> m + 1, day |-> 1]
  <2>1. NextDay(c) = r
    <3>1. NextDay(c) = [c EXCEPT !.day = 1, !.month = @ + 1]
      BY <1>8 DEF NextDay, len, d, y, m
    <3>2. NextDay(c) = [[year |-> y, month |-> m, day |-> d] EXCEPT !.day = 1, !.month = @ + 1]
      BY <1>1, <3>1
    <3> QED BY <3>2
  <2>2. m + 1 \in 1 .. 12 /\ 1 \in 1 .. 31 /\ d = len
    BY <1>1, <1>3, <1>6, <1>8
  <2>3. 1 <= MonthLength(y, m + 1)
    <3>1. 28 <= daysInMonth[m + 1] /\ daysInMonth[m + 1] \in Int
      BY <2>2, MonthBounds
    <3> QED BY <3>1 DEF MonthLength
  <2>4. IsDate(r)
    <3>1. y \in 2000 .. 2099
      BY <1>1
    <3> QED BY <2>2, <2>3, <3>1 DEF IsDate
  <2>5. Number(r) = YearDays(y - 2000) + Before[m + 1] + LeapPassed(y, m + 1) + (1 - 1)
    BY DEF Number
  <2>6. Before[m + 1] = Before[m] + daysInMonth[m]
    BY <1>1, <1>8, MonthBounds
  <2>7. LeapPassed(y, m) \in Int
        /\ LeapPassed(y, m + 1) = LeapPassed(y, m) + (IF m = 2 THEN leap ELSE 0)
    BY <1>1, <1>3, <1>4, <2>2
  <2>8. (IF m = 2 THEN leap ELSE 0) \in Int
    BY <1>3
  <2>9. Number(r) = Number(c) + 1
    BY <1>1, <1>3, <1>5, <1>6, <2>2, <2>5, <2>6, <2>7, <2>8
  <2>10. NextDay(c).year = y
    BY <2>1
  <2> QED BY <2>1, <2>4, <2>9, <2>10 DEF y
<1>9. CASE ~(d < len) /\ ~(m < 12)
  <2> DEFINE r == [year |-> y + 1, month |-> 1, day |-> 1]
  <2>1. NextDay(c) = r
    BY <1>9 DEF NextDay, len, d, y, m
  <2>2. m = 12 /\ d = 31
    BY <1>1, <1>9, MonthTable
  <2>3. y < 2099
    BY <2>2 DEF y, m, d
  <2>4. 1 <= MonthLength(y + 1, 1) /\ 1 \in 1 .. 12 /\ 1 \in 1 .. 31
    BY MonthTable DEF MonthLength
  <2>5. IsDate(r)
    <3>1. y + 1 \in 2000 .. 2099
      BY <1>1, <2>3
    <3> QED BY <2>4, <3>1 DEF IsDate
  <2>6. Number(r) = YearDays((y + 1) - 2000) + Before[1] + LeapPassed(y + 1, 1) + (1 - 1)
    BY DEF Number
  <2>7. (y + 1) - 2000 = y - 2000 + 1
    BY <1>1
  <2>8. LeapPassed(y + 1, 1) = 0 /\ LeapPassed(y, m) = leap
    BY <1>4, <2>2 DEF LeapPassed
  <2>9. Number(r) = Number(c) + 1
    <3>1. Number(c) = YearDays(y - 2000) + 334 + leap + (31 - 1)
      BY <1>5, <2>2, <2>8, MonthTable
    <3>2. Number(r) = YearDays(y - 2000 + 1) + 0 + 0 + (1 - 1)
      BY <2>6, <2>7, <2>8, MonthTable
    <3> QED BY <1>3, <3>1, <3>2
  <2>10. NextDay(c).year = y + 1
    BY <2>1
  <2> QED BY <2>1, <2>2, <2>5, <2>9, <2>10 DEF y, m, d
<1> QED BY <1>7, <1>8, <1>9

\* Taking years and months off the number gives the date back.
LEMMA DateTimeIs ==
  ASSUME NEW c, IsDate(c)
  PROVE  DateTime(Number(c)) = c
<1> DEFINE n == Number(c)
           y == c.year - 2000
           m == c.month
           d == c.day
           leap == LeapDay(y)
           left == Before[m] + (IF m > 2 THEN leap ELSE 0) + (d - 1)
<1>1. /\ c.year \in Int /\ y \in Int /\ 0 <= y /\ y <= 99 /\ m \in 1 .. 12 /\ d \in 1 .. 31
      /\ c = [year |-> c.year, month |-> m, day |-> d]
      /\ d <= daysInMonth[m] + (IF m = 2 THEN leap ELSE 0)
      /\ LeapPassed(c.year, m) = IF m > 2 THEN leap ELSE 0
  BY DateParts
<1>2. leap \in {0, 1} /\ YearDays(y) \in Int /\ YearDays(y + 1) = YearDays(y) + 365 + leap
  BY <1>1, YearsAscend
<1>3. /\ Before[m] \in Int /\ 0 <= Before[m] /\ Before[m] <= 334
      /\ daysInMonth[m] \in Int
      /\ m < 12 => Before[m + 1] = Before[m] + daysInMonth[m]
      /\ m = 12 => Before[m] = 334 /\ daysInMonth[m] = 31
  BY <1>1, MonthBounds, MonthTable
<1>4. n = YearDays(y) + left
  BY <1>1, <1>2, <1>3 DEF Number
<1>5. left \in Int /\ 0 <= left
  BY <1>1, <1>2, <1>3
<1>6. /\ m < 12 => left < Before[m + 1] + (IF m + 1 > 2 THEN leap ELSE 0)
      /\ Before[m] + (IF m > 2 THEN leap ELSE 0) <= left
  <2>1. CASE m < 12
    <3>1. CASE m = 1
      BY <1>1, <1>2, <1>3, <2>1, <3>1
    <3>2. CASE m = 2
      BY <1>1, <1>2, <1>3, <2>1, <3>2
    <3>3. CASE m > 2
      BY <1>1, <1>2, <1>3, <2>1, <3>3
    <3> QED BY <1>1, <3>1, <3>2, <3>3
  <2>2. CASE ~(m < 12)
    BY <1>1, <1>2, <1>3, <2>2
  <2> QED BY <2>1, <2>2
<1>7. left < 365 + leap
  <2>1. CASE m = 12
    BY <1>1, <1>2, <1>3, <2>1
  <2>2. CASE m < 12
    <3>1. m + 1 \in 1 .. 12 /\ Before[m + 1] <= 334 /\ Before[m + 1] \in Int
      BY <1>1, <2>2, MonthBounds
    <3> QED BY <1>2, <1>5, <1>6, <2>2, <3>1
  <2> QED BY <1>1, <2>1, <2>2
<1> HIDE DEF n, y, m, d, leap, left
<1>8. YearStart[y] = YearDays(y) /\ YearStart[y + 1] = YearDays(y + 1)
  <2>1. y \in 0 .. 100 /\ y + 1 \in 0 .. 100
    BY <1>1
  <2> QED BY <2>1, YearStartIs
<1> DEFINE P(k) == YearStart[k] <= n /\ n < YearStart[k + 1]
<1>9. y \in 0 .. 99 /\ P(y)
  BY <1>1, <1>2, <1>4, <1>5, <1>7, <1>8
<1>10. ASSUME NEW k \in 0 .. 99, P(k) PROVE k = y
  <2>1. /\ k \in Int /\ 0 <= k /\ k <= 99 /\ k \in 0 .. 100 /\ k + 1 \in 0 .. 100
    OBVIOUS
  <2>2. YearDays(k) <= n /\ n < YearDays(k + 1)
    BY <1>10, <2>1, YearStartIs
  <2>3. YearDays(y) <= n /\ n < YearDays(y + 1) /\ n \in Int
    BY <1>2, <1>4, <1>5, <1>8, <1>9
  <2>4. YearDays(k) \in Int /\ YearDays(k + 1) \in Int /\ YearDays(y + 1) \in Int
    BY <2>1, <1>1 DEF YearDays
  <2>5. ~(k < y)
    <3> SUFFICES ASSUME k < y PROVE FALSE
      OBVIOUS
    <3>1. YearDays(k + 1) <= YearDays(y)
      BY <1>1, <2>1, YearsAscend
    <3> QED BY <1>2, <2>2, <2>3, <2>4, <3>1
  <2>6. ~(y < k)
    <3> SUFFICES ASSUME y < k PROVE FALSE
      OBVIOUS
    <3>1. YearDays(y + 1) <= YearDays(k)
      BY <1>1, <2>1, YearsAscend
    <3> QED BY <2>2, <2>3, <2>4, <3>1
  <2> QED BY <1>1, <2>1, <2>5, <2>6
<1>11. (CHOOSE k \in 0 .. 99 : P(k)) = y
  <2> HIDE DEF P
  <2> QED BY <1>9, <1>10
<1>12. n - YearStart[y] = left
  BY <1>2, <1>4, <1>5, <1>8
<1> DEFINE Q(k) == MonthStart(y, k) <= left /\ (k < 12 => left < MonthStart(y, k + 1))
           Start(k) == Before[k] + (IF k > 2 THEN leap ELSE 0)
<1>13. \A k \in 1 .. 12 : MonthStart(y, k) = Start(k)
  BY DaysBeforeIs DEF MonthStart, leap
<1>14. Q(m)
  <2>1. m < 12 => m + 1 \in 1 .. 12
    BY <1>1
  <2> QED BY <1>1, <1>6, <1>13, <2>1
<1>15. ASSUME NEW k \in 1 .. 12, Q(k) PROVE k = m
  <2>1. \A i \in 1 .. 12 : Start(i) \in Int
    BY <1>2, MonthBounds
  <2>2. ASSUME NEW i \in 1 .. 12, NEW j \in 1 .. 12, i <= j PROVE Start(i) <= Start(j)
    <3>1. Before[i] <= Before[j] /\ Before[i] \in Int /\ Before[j] \in Int
      BY <2>2, MonthsAscend, MonthBounds
    <3> QED BY <1>2, <2>2, <3>1
  <2> HIDE DEF Start
  <2>3. ~(k < m)
    <3> SUFFICES ASSUME k < m PROVE FALSE
      OBVIOUS
    <3>1. k < 12 /\ k + 1 \in 1 .. 12 /\ k + 1 <= m
      BY <1>1
    <3>2. left < Start(k + 1) /\ Start(k + 1) <= Start(m) /\ Start(m) <= left
      BY <1>1, <1>13, <1>14, <1>15, <2>2, <3>1
    <3> QED BY <1>1, <1>5, <2>1, <3>1, <3>2
  <2>4. ~(m < k)
    <3> SUFFICES ASSUME m < k PROVE FALSE
      OBVIOUS
    <3>1. m < 12 /\ m + 1 \in 1 .. 12 /\ m + 1 <= k
      BY <1>1
    <3>2. left < Start(m + 1) /\ Start(m + 1) <= Start(k) /\ Start(k) <= left
      BY <1>1, <1>13, <1>14, <1>15, <2>2, <3>1
    <3> QED BY <1>1, <1>5, <2>1, <3>1, <3>2
  <2> QED BY <1>1, <2>3, <2>4
<1>16. (CHOOSE k \in 1 .. 12 : Q(k)) = m
  <2> HIDE DEF Q
  <2> QED BY <1>1, <1>14, <1>15
<1>17. left - MonthStart(y, m) + 1 = d
  <2>1. MonthStart(y, m) = Start(m)
    BY <1>1, <1>13
  <2> QED BY <1>1, <1>2, <1>3, <2>1 DEF left
<1>18. DateTime(n) = [year |-> 2000 + y, month |-> m, day |-> left - MonthStart(y, m) + 1]
  <2> DEFINE Y == CHOOSE k \in 0 .. 99 : P(k)
             M(a, l) == CHOOSE k \in 1 .. 12 : /\ MonthStart(a, k) <= l
                                               /\ k < 12 => l < MonthStart(a, k + 1)
             D(a, l) == [year |-> 2000 + a, month |-> M(a, l),
                         day |-> l - MonthStart(a, M(a, l)) + 1]
  <2>1. DateTime(n) = D(Y, n - YearStart[Y])
    BY Zenon DEF DateTime
  <2>2. M(y, left) = m
    BY <1>16, Zenon
  <2>3. Y = y
    BY <1>11
  <2> HIDE DEF Y, M
  <2>4. DateTime(n) = D(y, left)
    <3> HIDE DEF D
    <3> QED BY <1>12, <2>1, <2>3
  <2> QED BY <2>2, <2>4
<1>19. 2000 + y = c.year
  BY <1>1 DEF y
<1> QED BY <1>1, <1>17, <1>18, <1>19 DEF n

\* The leap years before a year are those its number counts.
LEMMA LeapYears ==
  ASSUME NEW y \in 2000 .. 2099
  PROVE  365 * (y - 2000) + LeapYearsBefore(y) = YearDays(y - 2000)
<1> DEFINE Leaps(k) == {z \in 2000 .. (2000 + k) - 1 : Leap(z)}
           Good(k) == IsFiniteSet(Leaps(k)) /\ Cardinality(Leaps(k)) = (k + 3) \div 4
           Bad == {k \in Nat : k <= 99 /\ ~Good(k)}
<1>1. Bad = {}
  <2> SUFFICES ASSUME Bad # {} PROVE FALSE
    OBVIOUS
  <2>1. PICK k \in Bad : \A z \in Bad : k <= z
    <3> HIDE DEF Good
    <3>1. Bad \in SUBSET Nat
      OBVIOUS
    <3> HIDE DEF Bad
    <3> QED BY <3>1, Least
  <2>2. k # 0
    <3>1. Leaps(0) = {}
      OBVIOUS
    <3>2. Good(0)
      BY <3>1, FS_EmptySet
    <3> HIDE DEF Good
    <3> QED BY <3>2
  <2>3. k \in Nat /\ k - 1 \in Nat /\ k <= 99 /\ ~Good(k)
    <3> HIDE DEF Good
    <3> QED BY <2>2
  <2>4. Good(k - 1)
    <3> HIDE DEF Good
    <3>1. ~(k - 1 \in Bad)
      BY <2>1, <2>3
    <3> QED BY <2>3, <3>1
  <2>5. Leaps(k) = IF Leap(2000 + (k - 1)) THEN Leaps(k - 1) \union {2000 + (k - 1)} ELSE Leaps(k - 1)
    <3>1. 2000 .. (2000 + k) - 1 = (2000 .. (2000 + (k - 1)) - 1) \union {2000 + (k - 1)}
      BY <2>3
    <3> QED BY <3>1
  <2>6. Leap(2000 + (k - 1)) <=> (k - 1) % 4 = 0
    <3>1. /\ 2000 + (k - 1) \in Int /\ 2000 <= 2000 + (k - 1) /\ 2000 + (k - 1) <= 2099
          /\ (2000 + (k - 1)) - 2000 = k - 1
      BY <2>3
    <3> QED BY <3>1, LeapIs
  <2>7. 2000 + (k - 1) \notin Leaps(k - 1)
    BY <2>3
  <2>8. /\ (k - 1) % 4 = 0 => (k + 3) \div 4 = ((k - 1) + 3) \div 4 + 1
        /\ (k - 1) % 4 # 0 => (k + 3) \div 4 = ((k - 1) + 3) \div 4
    BY <2>3
  <2>9. CASE Leap(2000 + (k - 1))
    <3> HIDE DEF Leaps
    <3>1. Leaps(k) = Leaps(k - 1) \union {2000 + (k - 1)}
      BY <2>5, <2>9
    <3>2. IsFiniteSet(Leaps(k)) /\ Cardinality(Leaps(k)) = Cardinality(Leaps(k - 1)) + 1
      BY <2>4, <2>7, <3>1, FS_AddElement
    <3>3. Good(k)
      BY <2>4, <2>6, <2>8, <2>9, <3>2
    <3> QED BY <2>3, <3>3
  <2>10. CASE ~Leap(2000 + (k - 1))
    <3> HIDE DEF Leaps
    <3>1. Leaps(k) = Leaps(k - 1)
      BY <2>5, <2>10
    <3>2. Good(k)
      BY <2>4, <2>6, <2>8, <2>10, <3>1
    <3> QED BY <2>3, <3>2
  <2> QED BY <2>9, <2>10
<1>2. y - 2000 \in Nat /\ y - 2000 <= 99 /\ (2000 + (y - 2000)) - 1 = y - 1
  OBVIOUS
<1>3. Good(y - 2000)
  <2> HIDE DEF Good
  <2> QED BY <1>1, <1>2
<1>4. Leaps(y - 2000) = {z \in 2000 .. y - 1 : Leap(z)}
  BY <1>2
<1> QED BY <1>3, <1>4 DEF YearDays, LeapYearsBefore

-----------------------------------------------------------------------------
(* The registers of the clock chip *)

\* Decimal digits are read back as they were written, also above the leap year
\* bit.
LEMMA Decimal ==
  ASSUME NEW v \in Int, 0 <= v, v <= 99
  PROVE  bcd2bin(bin2bcd(v)) = v /\ Digits(bin2bcd(v)) = v
<1> DEFINE b == v + 6 * (v \div 10)
<1>1. b \in Int /\ 0 <= b /\ b <= 153 /\ b \div 16 = v \div 10 /\ b % 16 = v % 10
  OBVIOUS
<1>2. v = 10 * (v \div 10) + (v % 10)
  OBVIOUS
<1>3. bin2bcd(v) = b
  <2>1. b % 256 = b
    <3> HIDE DEF b
    <3> QED BY <1>1
  <2> QED BY <2>1 DEF bin2bcd
<1>4. b - 6 * (b \div 16) = v
  BY <1>1
<1>5. v % 256 = v
  OBVIOUS
<1> HIDE DEF b
<1> QED BY <1>1, <1>2, <1>3, <1>4, <1>5 DEF bcd2bin, Digits

LEMMA LeapMonth ==
  ASSUME NEW m \in 1 .. 12
  PROVE  bcd2bin(bin2bcd(m) + 32) = m + 20
<1>1. m \in Int /\ 1 <= m /\ m <= 12
  OBVIOUS
<1>2. CASE m < 10
  <2>1. bin2bcd(m) = m
    BY <1>1, <1>2 DEF bin2bcd
  <2>2. (m + 32) \div 16 = 2 /\ (m + 20) % 256 = m + 20 /\ (m + 32) - 6 * 2 = m + 20
    BY <1>1, <1>2
  <2> QED BY <2>1, <2>2 DEF bcd2bin
<1>3. CASE m >= 10
  <2>1. bin2bcd(m) = m + 6
    BY <1>1, <1>3 DEF bin2bcd
  <2>2. /\ ((m + 6) + 32) \div 16 = 3 /\ (m + 20) % 256 = m + 20
        /\ ((m + 6) + 32) - 6 * 3 = m + 20
    BY <1>1, <1>3
  <2> QED BY <2>1, <2>2 DEF bcd2bin
<1> QED BY <1>1, <1>2, <1>3

LEMMA SetDate ==
  ASSUME NEW c, IsDate(c)
  PROVE  Set([day |-> bin2bcd(c.day), month |-> bin2bcd(c.month),
              year |-> bin2bcd(c.year - 2000)]) = c
<1>1. /\ c.year \in Int /\ 2000 <= c.year /\ c.year <= 2099
      /\ c.month \in 1 .. 12 /\ c.day \in 1 .. 31
      /\ c = [year |-> c.year, month |-> c.month, day |-> c.day]
  BY DateParts
<1>2. /\ Digits(bin2bcd(c.day)) = c.day /\ Digits(bin2bcd(c.month)) = c.month
      /\ Digits(bin2bcd(c.year - 2000)) = c.year - 2000
  <2>1. c.day \in Int /\ 0 <= c.day /\ c.day <= 99
    BY <1>1
  <2>2. c.month \in Int /\ 0 <= c.month /\ c.month <= 99
    BY <1>1
  <2>3. c.year - 2000 \in Int /\ 0 <= c.year - 2000 /\ c.year - 2000 <= 99
    BY <1>1
  <2> QED BY <2>1, <2>2, <2>3, Decimal
<1>3. 2000 + (c.year - 2000) = c.year
  BY <1>1
<1> QED BY <1>1, <1>2, <1>3 DEF Set

\* The chip that runs shows the true date, and a chip that was never set, or
\* has lost its battery since, shows the first one.
CalendarInv ==
  /\ IsDate(civil) /\ civil.year <= LastYear
  /\ day = Number(civil)
  /\ running \in BOOLEAN
  /\ running => chip = civil
  /\ ~running => chip = FirstDay

LEMMA CalendarStart == ChipInit => CalendarInv
<1> SUFFICES ASSUME ChipInit PROVE CalendarInv
  OBVIOUS
<1>0. running \in BOOLEAN /\ (running => chip = civil) /\ (~running => chip = FirstDay)
  <2>1. chip = FirstDay /\ running = FALSE
    BY DEF ChipInit
  <2> QED BY <2>1
<1>1. PICK y \in 2000 .. LastYear :
        /\ civil = [FirstDay EXCEPT !.year = y]
        /\ day = 365 * (y - 2000) + LeapYearsBefore(y)
  BY DEF ChipInit
<1>2. y \in 2000 .. 2099 /\ y \in Int /\ y <= LastYear
  BY YearAssumption
<1>3. civil = [year |-> y, month |-> 1, day |-> 1]
  BY <1>1 DEF FirstDay
<1>4. 1 \in 1 .. 12 /\ 1 \in 1 .. 31 /\ 1 <= MonthLength(y, 1)
  BY MonthTable DEF MonthLength
<1>5. IsDate(civil) /\ civil.year <= LastYear
  BY <1>2, <1>3, <1>4 DEF IsDate
<1>6. day = YearDays(y - 2000)
  BY <1>1, <1>2, LeapYears
<1>7. YearDays(y - 2000) \in Int
  BY <1>2 DEF YearDays
<1>8. Number(civil) = YearDays(y - 2000) + 0 + 0 + (1 - 1)
  BY <1>3, MonthTable DEF Number, LeapPassed
<1>9. day = Number(civil)
  BY <1>6, <1>7, <1>8
<1> QED BY <1>0, <1>5, <1>9 DEF CalendarInv

LEMMA CalendarStep == CalendarInv /\ [ChipNext]_chipVars => CalendarInv'
<1> SUFFICES ASSUME CalendarInv, [ChipNext]_chipVars PROVE CalendarInv'
  OBVIOUS
<1>0. IsDate(civil) /\ civil.year <= LastYear /\ LastYear \in Int /\ LastYear <= 2099
  BY YearAssumption DEF CalendarInv
<1>1. CASE Midnight
  <2>1. /\ civil.year < LastYear \/ civil.month < 12 \/ civil.day < 31
        /\ day' = day + 1 /\ civil' = NextDay(civil)
        /\ chip' = (IF running THEN NextDay(chip) ELSE chip) /\ running' = running
    BY <1>1 DEF Midnight
  <2>2. civil.year \in Int
    BY <1>0, DateParts
  <2>3. civil.year < 2099 \/ civil.month < 12 \/ civil.day < 31
    BY <1>0, <2>1, <2>2
  <2>4. /\ IsDate(NextDay(civil)) /\ Number(NextDay(civil)) = Number(civil) + 1
        /\ NextDay(civil).year # civil.year =>
             civil.month = 12 /\ civil.day = 31 /\ NextDay(civil).year = civil.year + 1
    BY <1>0, <2>3, NextNumber
  <2>5. NextDay(civil).year <= LastYear
    <3>1. CASE NextDay(civil).year = civil.year
      BY <1>0, <3>1
    <3>2. CASE NextDay(civil).year # civil.year
      BY <1>0, <2>1, <2>2, <2>4, <3>2
    <3> QED BY <3>1, <3>2
  <2>6. running' => chip' = civil'
    BY <2>1 DEF CalendarInv
  <2>7. ~running' => chip' = FirstDay
    BY <2>1 DEF CalendarInv
  <2>8. running' \in BOOLEAN /\ day' = Number(civil')
    BY <2>1, <2>4 DEF CalendarInv
  <2>9. IsDate(civil') /\ civil'.year <= LastYear
    BY <2>1, <2>4, <2>5
  <2> QED BY <2>6, <2>7, <2>8, <2>9 DEF CalendarInv, IsDate, Number
<1>2. CASE adjust
  <2>1. chip' = civil /\ running' = TRUE /\ day' = day /\ civil' = civil
    BY <1>0, <1>2, SetDate DEF adjust
  <2> QED BY <2>1 DEF CalendarInv, IsDate, Number
<1>3. CASE BatteryLost
  <2>1. chip' = FirstDay /\ running' = FALSE /\ day' = day /\ civil' = civil
    BY <1>3 DEF BatteryLost
  <2>2. running' \in BOOLEAN /\ (running' => chip' = civil') /\ (~running' => chip' = FirstDay)
    BY <2>1
  <2>3. IsDate(civil') /\ civil'.year <= LastYear /\ day' = Number(civil')
    BY <2>1 DEF CalendarInv
  <2> QED BY <2>2, <2>3 DEF CalendarInv, IsDate, Number
<1>4. CASE UNCHANGED chipVars
  BY <1>4 DEF chipVars, CalendarInv, IsDate, Number
<1> QED BY <1>1, <1>2, <1>3, <1>4 DEF ChipNext

LEMMA CalendarInvariant == ChipSpec => []CalendarInv
<1> QED BY CalendarStart, CalendarStep, PTL DEF ChipSpec

\* RTClib's two conversions are right on every day of the century: date2days()
\* numbers the days as the calendar does, and DateTime(t) gives the date back.
THEOREM CalendarRight == ChipSpec => []CalendarAgrees
<1>1. CalendarInv => CalendarAgrees
  <2> SUFFICES ASSUME CalendarInv PROVE CalendarAgrees
    OBVIOUS
  <2>1. IsDate(civil) /\ day = Number(civil)
    BY DEF CalendarInv
  <2>2. /\ civil.year \in Int /\ 2000 <= civil.year /\ civil.year <= 2099
        /\ civil.month \in 1 .. 12 /\ civil.day \in 1 .. 31
    BY <2>1, DateParts
  <2>3. date2days(civil.year, civil.month, civil.day) = Number(civil)
    <3>1. PICK y, m, d : y = civil.year /\ m = civil.month /\ d = civil.day
      OBVIOUS
    <3>2. date2days(y, m, d) = YearDays(y - 2000) + Before[m] + LeapPassed(y, m) + (d - 1)
      BY <2>2, <3>1, date2daysIs
    <3>3. Number(civil) = YearDays(y - 2000) + Before[m] + LeapPassed(y, m) + (d - 1)
      BY <3>1 DEF Number
    <3> QED BY <3>1, <3>2, <3>3
  <2>4. DateTime(Number(civil)) = civil
    BY <2>1, DateTimeIs
  <2> QED BY <2>1, <2>3, <2>4 DEF CalendarAgrees
<1> QED BY <1>1, CalendarInvariant, PTL

\* A chip that stands still shows the year 2000, so that setup() never takes its
\* time for a good one.
THEOREM ClockTrusted == ChipSpec => []TrustsSetClock
<1>1. CalendarInv => TrustsSetClock
  <2> SUFFICES ASSUME CalendarInv, ~running PROVE ~(now.year >= 2017)
    BY DEF TrustsSetClock, CalendarInv
  <2>1. chip = FirstDay
    BY DEF CalendarInv
  <2>2. chip.year - 2000 = 0
    BY <2>1 DEF FirstDay
  <2>3. bcd2bin(bin2bcd(0)) = 0
    BY Decimal
  <2>4. now.year = 2000
    BY <2>2, <2>3 DEF now, Registers
  <2> QED BY <2>4
<1> QED BY <1>1, CalendarInvariant, PTL

\* What now() makes of the registers of a chip that shows a date.
LEMMA NowIs ==
  ASSUME IsDate(chip)
  PROVE  now = [year  |-> chip.year,
                month |-> chip.month + (IF Leap(chip.year) THEN 20 ELSE 0),
                day   |-> chip.day]
<1>1. /\ chip.year \in Int /\ 2000 <= chip.year /\ chip.year <= 2099
      /\ chip.month \in 1 .. 12 /\ chip.day \in 1 .. 31
  BY DateParts
<1>2. bcd2bin(bin2bcd(chip.day)) = chip.day
  <2>1. chip.day \in Int /\ 0 <= chip.day /\ chip.day <= 99
    BY <1>1
  <2> QED BY <2>1, Decimal
<1>3. bcd2bin(bin2bcd(chip.month)) = chip.month /\ bin2bcd(chip.month) \in Int
  <2>1. chip.month \in Int /\ 0 <= chip.month /\ chip.month <= 99
    BY <1>1
  <2>2. bin2bcd(chip.month) \in Int
    BY <2>1 DEF bin2bcd
  <2> QED BY <2>1, <2>2, Decimal
<1>4. bcd2bin(bin2bcd(chip.year - 2000)) = chip.year - 2000
  <2>1. chip.year - 2000 \in Int /\ 0 <= chip.year - 2000 /\ chip.year - 2000 <= 99
    BY <1>1
  <2> QED BY <2>1, Decimal
<1>5. bcd2bin(bin2bcd(chip.month) + (IF Leap(chip.year) THEN 32 ELSE 0))
      = chip.month + (IF Leap(chip.year) THEN 20 ELSE 0)
  <2>1. CASE Leap(chip.year)
    BY <1>1, <2>1, LeapMonth
  <2>2. CASE ~Leap(chip.year)
    <3>1. bin2bcd(chip.month) + 0 = bin2bcd(chip.month) /\ chip.month + 0 = chip.month
      BY <1>1, <1>3
    <3> QED BY <1>3, <2>2, <3>1
  <2> QED BY <2>1, <2>2
<1>6. (chip.year - 2000) + 2000 = chip.year
  BY <1>1
<1> QED BY <1>2, <1>4, <1>5, <1>6 DEF now, Registers

\* Twenty months after a date of a leap year come 607 to 612 days after it.
LEMMA TwentyMonths ==
  ASSUME NEW c, IsDate(c), Leap(c.year)
  PROVE  LET n == mktime([year |-> c.year, month |-> c.month + 20, day |-> c.day]) - Number(c)
         IN  n \in 607 .. 612
<1> DEFINE y == c.year
           m == c.month
           d == c.day
<1>1. /\ y \in Int /\ 2000 <= y /\ y <= 2099 /\ m \in 1 .. 12 /\ d \in 1 .. 31
      /\ LeapDay(y - 2000) = 1
      /\ LeapPassed(y, m) = IF m > 2 THEN LeapDay(y - 2000) ELSE 0
  BY DateParts
<1>2. (y - 2000) % 4 = 0 /\ y <= 2096
  <2>1. (y - 2000) % 4 = 0
    BY <1>1, LeapIs
  <2> QED BY <1>1, <2>1
<1>3. Number(c) = YearDays(y - 2000) + Before[m] + LeapPassed(y, m) + (d - 1)
  BY DEF Number
<1>4. /\ YearDays((y + 1) - 2000) = YearDays(y - 2000) + 366
      /\ YearDays((y + 2) - 2000) = YearDays(y - 2000) + 731
      /\ YearDays(y - 2000) \in Int
  <2> DEFINE x == y - 2000
  <2>1. x \in Int /\ x % 4 = 0 /\ (y + 1) - 2000 = x + 1 /\ (y + 2) - 2000 = x + 2
    BY <1>1, <1>2
  <2> HIDE DEF x
  <2>2. ((x + 1) + 3) \div 4 = (x + 3) \div 4 + 1 /\ ((x + 2) + 3) \div 4 = (x + 3) \div 4 + 1
    BY <2>1
  <2>3. /\ YearDays(x + 1) = YearDays(x) + 366 /\ YearDays(x + 2) = YearDays(x) + 731
        /\ YearDays(x) \in Int
    BY <2>1, <2>2 DEF YearDays
  <2> QED BY <2>1, <2>3 DEF x
<1>5. \A k \in 1 .. 12 : LeapPassed(y + 1, k) = 0 /\ LeapPassed(y + 2, k) = 0
  <2>1. ((y + 1) - 2000) % 4 # 0 /\ ((y + 2) - 2000) % 4 # 0
    BY <1>1, <1>2
  <2> QED BY <2>1 DEF LeapPassed
<1> DEFINE r == [year |-> y, month |-> m + 20, day |-> d]
           yy == y + ((m + 20) - 1) \div 12
           mm == 1 + (((m + 20) - 1) % 12)
<1>6. mktime(r) = date2days(yy, mm, d)
  BY DEF mktime
<1>7. /\ m <= 4 => yy = y + 1 /\ mm = m + 8
      /\ m > 4 => yy = y + 2 /\ mm = m - 4
  BY <1>1
<1> HIDE DEF y, m, d, r, yy, mm
<1>8. CASE m <= 4
  <2>1. /\ yy = y + 1 /\ mm = m + 8 /\ yy \in Int /\ 2000 <= yy /\ yy <= 2099
        /\ mm \in 1 .. 12
    BY <1>1, <1>2, <1>7, <1>8
  <2>2. mktime(r) = YearDays(yy - 2000) + Before[mm] + LeapPassed(yy, mm) + (d - 1)
    BY <1>1, <1>6, <2>1, date2daysIs
  <2>3. mktime(r) = YearDays(y - 2000) + 366 + Before[m + 8] + 0 + (d - 1)
    BY <1>4, <1>5, <2>1, <2>2
  <2>4. m = 1 \/ m = 2 \/ m = 3 \/ m = 4
    BY <1>1, <1>8
  <2>5. mktime(r) - Number(c) \in 607 .. 612
    BY <1>1, <1>3, <1>4, <2>3, <2>4, MonthTable
  <2> QED BY <2>5 DEF r, y, m, d
<1>9. CASE m > 4
  <2>1. /\ yy = y + 2 /\ mm = m - 4 /\ yy \in Int /\ 2000 <= yy /\ yy <= 2099
        /\ mm \in 1 .. 12
    BY <1>1, <1>2, <1>7, <1>9
  <2>2. mktime(r) = YearDays(yy - 2000) + Before[mm] + LeapPassed(yy, mm) + (d - 1)
    BY <1>1, <1>6, <2>1, date2daysIs
  <2>3. mktime(r) = YearDays(y - 2000) + 731 + Before[m - 4] + 0 + (d - 1)
    BY <1>4, <1>5, <2>1, <2>2
  <2>4. m = 5 \/ m = 6 \/ m = 7 \/ m = 8 \/ m = 9 \/ m = 10 \/ m = 11 \/ m = 12
    BY <1>1, <1>9
  <2>5. mktime(r) - Number(c) \in 607 .. 612
    BY <1>1, <1>3, <1>4, <2>3, <2>4, MonthTable
  <2> QED BY <2>5 DEF r, y, m, d
<1> QED BY <1>1, <1>8, <1>9

\* As long as the clock has been set, a reading is stamped with the true day in
\* every year that is no leap year; in a leap year it is twenty months ahead and
\* nothing else is wrong.
THEOREM StampsRight == ChipSpec => []StampRight
<1>1. CalendarInv => StampRight
  <2> SUFFICES ASSUME CalendarInv, running
               PROVE  LET ahead == mktime(now) - day
                      IN  IF Leap(civil.year) THEN ahead \in 607 .. 612 ELSE ahead = 0
    BY DEF StampRight
  <2>1. chip = civil /\ IsDate(civil) /\ IsDate(chip) /\ day = Number(civil)
    BY DEF CalendarInv
  <2>2. now = [year |-> civil.year, month |-> civil.month + (IF Leap(civil.year) THEN 20 ELSE 0),
               day |-> civil.day]
    BY <2>1, NowIs
  <2>3. CASE Leap(civil.year)
    <3>1. now = [year |-> civil.year, month |-> civil.month + 20, day |-> civil.day]
      BY <2>2, <2>3
    <3> QED BY <2>1, <2>3, <3>1, TwentyMonths
  <2>4. CASE ~Leap(civil.year)
    <3>1. /\ civil.year \in Int /\ 2000 <= civil.year /\ civil.year <= 2099
          /\ civil.month \in 1 .. 12 /\ civil.day \in 1 .. 31
      BY <2>1, DateParts
    <3>2. now = [year |-> civil.year, month |-> civil.month, day |-> civil.day]
      BY <2>2, <2>4, <3>1
    <3>3. /\ civil.year + (civil.month - 1) \div 12 = civil.year
          /\ 1 + ((civil.month - 1) % 12) = civil.month
      BY <3>1
    <3>4. mktime(now) = date2days(civil.year, civil.month, civil.day)
      BY <3>2, <3>3 DEF mktime
    <3>5. mktime(now) = Number(civil)
      BY <3>1, <3>4, date2daysIs DEF Number
    <3>6. Number(civil) \in Int
      <4>1. YearDays(civil.year - 2000) \in Int
        BY <3>1 DEF YearDays
      <4>2. Before[civil.month] \in Int
        BY <3>1, MonthBounds
      <4>3. LeapPassed(civil.year, civil.month) \in Int
        BY DEF LeapPassed
      <4> QED BY <3>1, <4>1, <4>2, <4>3 DEF Number
    <3>7. mktime(now) - day = 0
      BY <2>1, <3>5, <3>6
    <3> QED BY <2>4, <3>7
  <2> QED BY <2>3, <2>4
<1> QED BY <1>1, CalendarInvariant, PTL

=============================================================================
