------------------------------ MODULE Induction ------------------------------
(***************************************************************************)
(* Induction over the natural numbers, as a fact about sets of them, and   *)
(* what follows from it for functions that are defined step by step, and   *)
(* for the sums and the remainders that the models compute.                *)
(***************************************************************************)
EXTENDS Integers, Sequences, SequenceTheorems, WellFoundedInduction, TLAPS

\* Of naturals there is always a least one.
LEMMA LeastOfNats ==
    ASSUME NEW S, S \subseteq Nat, S # {}
    PROVE  \E x \in S : \A y \in S : x <= y
<1> DEFINE R == OpToRel(<, Nat)
<1>1. R = {p \in Nat \X Nat : p[1] < p[2]}
  BY DEF OpToRel
<1>2. IsWellFoundedOn(R, Nat)
  BY NatLessThanWellFounded
<1> HIDE DEF R
<1>3. PICK x \in S : \A y \in S : <<y, x>> \notin R
  BY <1>2, WFMin
<1>4. \A y \in S : <<y, x>> \in R \/ x <= y
  BY <1>1
<1> QED
  BY <1>3, <1>4

\* A set of naturals that has 0, and of each of its numbers the next, has all.
LEMMA NatsBySteps ==
    ASSUME NEW S, S \subseteq Nat, 0 \in S, \A n \in S : n + 1 \in S
    PROVE  \A n \in Nat : n \in S
<1> DEFINE T == Nat \ S
<1>1. SUFFICES ASSUME T # {} PROVE FALSE
  OBVIOUS
<1>2. PICK x \in T : \A y \in T : x <= y
  BY <1>1, LeastOfNats
<1>3. x - 1 \in Nat /\ x - 1 \notin S
  OBVIOUS
<1> QED
  BY <1>2, <1>3

\* The same up to a bound.
LEMMA UpToBySteps ==
    ASSUME NEW m \in Nat, NEW S, 0 \in S, \A n \in 0 .. m - 1 : n \in S => n + 1 \in S
    PROVE  \A n \in 0 .. m : n \in S
<1> DEFINE T == {n \in Nat : n <= m => n \in S}
<1>1. 0 \in T /\ \A n \in T : n + 1 \in T
  OBVIOUS
<1>2. \A n \in Nat : n \in T
  <2>1. T \subseteq Nat
    OBVIOUS
  <2> HIDE DEF T
  <2> QED
    BY <1>1, <2>1, NatsBySteps
<1> QED
  BY <1>2

-----------------------------------------------------------------------------
\* What begins with a value, and goes on by a function of the place and of the value
\* before, exists.
Stepwise(f, n, start, step) ==
    f = [k \in 0 .. n |-> IF k = 0 THEN start ELSE step[<<k, f[k - 1]>>]]

LEMMA StepsExist ==
    ASSUME NEW n \in Nat, NEW V, NEW start \in V, NEW step \in [(1 .. n) \X V -> V]
    PROVE  \E f \in [0 .. n -> V] : Stepwise(f, n, start, step)
<1> DEFINE M == {m \in Nat : \E f \in [0 .. m -> V] : m <= n => Stepwise(f, m, start, step)}
<1>1. 0 \in M
  <2> DEFINE f == [k \in 0 .. 0 |-> start]
  <2>1. f \in [0 .. 0 -> V]
    OBVIOUS
  <2>2. Stepwise(f, 0, start, step)
    BY DEF Stepwise
  <2> QED
    BY <2>1, <2>2
<1>2. ASSUME NEW m \in M  PROVE m + 1 \in M
  <2>1. m \in Nat /\ \E f \in [0 .. m -> V] : m <= n => Stepwise(f, m, start, step)
    OBVIOUS
  <2>2. PICK f \in [0 .. m -> V] : m <= n => Stepwise(f, m, start, step)
    BY <2>1
  <2> HIDE DEF M
  <2>3. CASE m + 1 <= n
    <3> DEFINE new == step[<<m + 1, f[m]>>]
               g == [k \in 0 .. m + 1 |-> IF k = m + 1 THEN new ELSE f[k]]
    <3>1. f[m] \in V /\ m + 1 \in 1 .. n
      BY <2>1, <2>3
    <3>2. new \in V
      BY <3>1
    <3> HIDE DEF new
    <3>3. g \in [0 .. m + 1 -> V]
      BY <2>1, <3>2
    <3>4. \A k \in 0 .. m : f[k] = IF k = 0 THEN start ELSE step[<<k, f[k - 1]>>]
      BY <2>1, <2>2, <2>3 DEF Stepwise
    <3>5. ASSUME NEW k \in 0 .. m + 1
          PROVE  g[k] = IF k = 0 THEN start ELSE step[<<k, g[k - 1]>>]
      <4>1. CASE k = m + 1
        <5>1. g[k] = new /\ g[k - 1] = f[m] /\ k # 0
          BY <2>1, <4>1
        <5> QED
          BY <4>1, <5>1 DEF new
      <4>2. CASE k \in 0 .. m
        <5>1. g[k] = f[k] /\ (k # 0 => k - 1 \in 0 .. m + 1 /\ k - 1 # m + 1)
          BY <2>1, <4>2
        <5>2. k # 0 => g[k - 1] = f[k - 1]
          BY <5>1
        <5> HIDE DEF g
        <5> QED
          BY <3>4, <4>2, <5>1, <5>2
      <4> QED
        BY <2>1, <4>1, <4>2
    <3>6. g = [k \in 0 .. m + 1 |-> g[k]]
      OBVIOUS
    <3> HIDE DEF g
    <3>7. Stepwise(g, m + 1, start, step)
      BY <3>5, <3>6 DEF Stepwise
    <3> QED
      BY <2>1, <3>3, <3>7 DEF M
  <2>4. CASE ~(m + 1 <= n)
    <3>1. [k \in 0 .. m + 1 |-> start] \in [0 .. m + 1 -> V]
      OBVIOUS
    <3>2. \E g \in [0 .. m + 1 -> V] : m + 1 <= n => Stepwise(g, m + 1, start, step)
      BY <2>4, <3>1
    <3> QED
      BY <2>1, <3>2 DEF M
  <2> QED
    BY <2>3, <2>4
<1>3. n \in M
  <2>1. M \subseteq Nat
    OBVIOUS
  <2> HIDE DEF M
  <2> QED
    BY <1>1, <1>2, <2>1, NatsBySteps
<1> QED
  BY <1>3

-----------------------------------------------------------------------------
\* The sum of a sequence.
Total(s) ==
    LET upto[k \in 0 .. Len(s)] == IF k = 0 THEN 0 ELSE upto[k - 1] + s[k]
    IN  upto[Len(s)]

Adds(f, s) == f = [k \in 0 .. Len(s) |-> IF k = 0 THEN 0 ELSE f[k - 1] + s[k]]

\* The function that adds exists.
LEMMA TotalIs ==
    ASSUME NEW s \in Seq(Int)
    PROVE  \E f \in [0 .. Len(s) -> Int] : Adds(f, s) /\ Total(s) = f[Len(s)]
<1> DEFINE n == Len(s)
           step == [p \in (1 .. n) \X Int |-> p[2] + s[p[1]]]
           h == CHOOSE f : Adds(f, s)
<1>1. n \in Nat /\ \A k \in 1 .. n : s[k] \in Int
  OBVIOUS
<1>2. step \in [(1 .. n) \X Int -> Int]
  BY <1>1
<1>3. PICK f \in [0 .. n -> Int] : Stepwise(f, n, 0, step)
  <2> HIDE DEF step, n
  <2>1. n \in Nat /\ 0 \in Int
    BY <1>1
  <2> QED
    BY <1>2, <2>1, StepsExist, Zenon
<1>4. \A k \in 1 .. n : step[<<k, f[k - 1]>>] = f[k - 1] + s[k]
  <2> SUFFICES ASSUME NEW k \in 1 .. n  PROVE step[<<k, f[k - 1]>>] = f[k - 1] + s[k]
    OBVIOUS
  <2>1. f[k - 1] \in Int
    <3>1. k - 1 \in 0 .. n
      BY <1>1
    <3> HIDE DEF n
    <3> QED
      BY <1>3, <3>1
  <2>2. <<k, f[k - 1]>> \in (1 .. n) \X Int
    BY <2>1
  <2> QED
    BY <2>2
<1>5. Adds(f, s)
  <2>1. f = [k \in 0 .. n |-> IF k = 0 THEN 0 ELSE step[<<k, f[k - 1]>>]]
    BY <1>3 DEF Stepwise
  <2>2. f = [k \in 0 .. n |-> f[k]] /\ \A k \in 0 .. n : f[k] = IF k = 0 THEN 0 ELSE f[k - 1] + s[k]
    <3> HIDE DEF step
    <3>1. \A k \in 0 .. n : f[k] = IF k = 0 THEN 0 ELSE step[<<k, f[k - 1]>>]
      BY <2>1
    <3>2. \A k \in 0 .. n : k # 0 => k \in 1 .. n
      BY <1>1
    <3> QED
      BY <1>3, <1>4, <3>1, <3>2
  <2> QED
    BY <2>2 DEF Adds
<1>6. Adds(h, s)
  BY <1>5
<1>7. Total(s) = h[n]
  BY DEF Total, Adds
<1>8. h \in [0 .. n -> Int]
  <2>1. h = [k \in 0 .. n |-> IF k = 0 THEN 0 ELSE h[k - 1] + s[k]]
    BY <1>6 DEF Adds
  <2> HIDE DEF h
  <2> DEFINE M == {k \in 0 .. n : h[k] \in Int}
  <2>2. \A k \in 0 .. n : h[k] = IF k = 0 THEN 0 ELSE h[k - 1] + s[k]
    BY <2>1
  <2>3. 0 \in M
    BY <1>1, <2>2
  <2>4. \A k \in 0 .. n - 1 : k \in M => k + 1 \in M
    <3> SUFFICES ASSUME NEW k \in 0 .. n - 1, h[k] \in Int  PROVE h[k + 1] \in Int
      BY <1>1
    <3>1. h[k + 1] = h[k] + s[k + 1] /\ s[k + 1] \in Int
      BY <1>1, <2>2
    <3> QED
      BY <3>1
  <2>5. \A k \in 0 .. n : k \in M
    <3> HIDE DEF M
    <3> QED
      BY <1>1, <2>3, <2>4, UpToBySteps
  <2>6. DOMAIN h = 0 .. n /\ h = [k \in 0 .. n |-> h[k]]
    BY <2>1
  <2> QED
    BY <2>5, <2>6
<1> QED
  BY <1>6, <1>7, <1>8

\* The equations of a function that adds.
LEMMA AddsAt ==
    ASSUME NEW s \in Seq(Int), NEW f, Adds(f, s)
    PROVE  f[0] = 0 /\ \A k \in 1 .. Len(s) : f[k] = f[k - 1] + s[k] /\ s[k] \in Int
<1> DEFINE n == Len(s)
<1>1. n \in Nat /\ \A k \in 1 .. n : s[k] \in Int
  OBVIOUS
<1>2. f = [k \in 0 .. n |-> IF k = 0 THEN 0 ELSE f[k - 1] + s[k]]
  BY DEF Adds
<1> HIDE DEF n
<1>3. \A k \in 0 .. n : f[k] = IF k = 0 THEN 0 ELSE f[k - 1] + s[k]
  BY <1>2
<1>4. f[0] = 0 /\ \A k \in 1 .. n : f[k] = f[k - 1] + s[k]
  BY <1>1, <1>3
<1> QED
  BY <1>1, <1>4 DEF n

LEMMA TotalOfNone == Total(<<>>) = 0
<1>1. <<>> \in Seq(Int) /\ Len(<<>>) = 0
  OBVIOUS
<1>2. PICK f \in [0 .. 0 -> Int] : Adds(f, <<>>) /\ Total(<<>>) = f[0]
  BY <1>1, TotalIs
<1> QED
  BY <1>1, <1>2 DEF Adds

\* Two that add the same, add the same.
Alike(n, d, f, g, c) ==
    /\ f[0] \in Int /\ g[d] = f[0] + c
    /\ \A k \in 1 .. n : \E x \in Int : f[k] = f[k - 1] + x /\ g[k + d] = g[k + d - 1] + x

LEMMA AddsAlike ==
    ASSUME NEW n \in Nat, NEW d \in Nat, NEW f, NEW g, NEW c \in Int, Alike(n, d, f, g, c)
    PROVE  g[n + d] = f[n] + c
<1> DEFINE M == {k \in 0 .. n : f[k] \in Int /\ g[k + d] = f[k] + c}
<1>1. 0 \in M
  BY DEF Alike
<1>2. ASSUME NEW k \in 0 .. n - 1, k \in M  PROVE k + 1 \in M
  <2> DEFINE i == k + 1
             j == k + 1 + d
  <2>1. i \in 1 .. n /\ i \in 0 .. n /\ i - 1 = k /\ i + d = j /\ j - 1 = k + d
    OBVIOUS
  <2>2. f[k] \in Int /\ g[k + d] = f[k] + c
    BY <1>2
  <2> HIDE DEF i, j
  <2>3. PICK x \in Int : f[i] = f[k] + x /\ g[j] = g[k + d] + x
    BY <2>1 DEF Alike
  <2>4. f[i] \in Int /\ g[i + d] = f[i] + c
    BY <2>1, <2>2, <2>3
  <2>5. i \in M
    BY <2>1, <2>4
  <2> QED
    BY <2>5 DEF i
<1>3. \A k \in 0 .. n : k \in M
  <2> HIDE DEF M
  <2> QED
    BY <1>1, <1>2, UpToBySteps
<1>4. n \in M
  BY <1>3
<1> QED
  BY <1>4

LEMMA AddsAfterOne ==
    ASSUME NEW n \in Nat, NEW f, NEW g, NEW c \in Int, Alike(n, 1, f, g, c)
    PROVE  g[n + 1] = f[n] + c
BY AddsAlike

\* One more at the end.
LEMMA TotalOfAppend ==
    ASSUME NEW s \in Seq(Int), NEW x \in Int
    PROVE  Total(Append(s, x)) = Total(s) + x /\ Total(s) \in Int
<1> DEFINE t == Append(s, x)
           n == Len(s)
<1>1. t \in Seq(Int) /\ Len(t) = n + 1 /\ n \in Nat /\ t[n + 1] = x
      /\ \A k \in 1 .. n : s[k] = t[k]
  OBVIOUS
<1> HIDE DEF t
<1>2. PICK f \in [0 .. n -> Int] : Adds(f, s) /\ Total(s) = f[n]
  BY TotalIs
<1>3. PICK g \in [0 .. n + 1 -> Int] : Adds(g, t) /\ Total(t) = g[n + 1]
  BY <1>1, TotalIs
<1>4. f[0] = 0 /\ \A k \in 1 .. n : f[k] = f[k - 1] + s[k] /\ s[k] \in Int
  BY <1>2, AddsAt
<1> DEFINE m == Len(t)
<1>t. g[0] = 0 /\ \A k \in 1 .. m : g[k] = g[k - 1] + t[k] /\ t[k] \in Int
  BY <1>1, <1>3, AddsAt
<1> HIDE DEF n, m
<1>m. m = n + 1 /\ n \in Nat /\ \A k \in 1 .. n : s[k] = t[k]
  BY <1>1 DEF n, m
<1>5. g[n + 0] = f[n] + 0
  <2>1. ASSUME NEW k \in 1 .. n
        PROVE  g[k + 0] = g[k + 0 - 1] + t[k + 0] /\ t[k + 0] = s[k]
    <3>1. k + 0 = k /\ k \in 1 .. m /\ t[k] = s[k]
      BY <1>m
    <3>2. g[k] = g[k - 1] + t[k]
      BY <1>t, <3>1
    <3> QED
      BY <3>1, <3>2
  <2>2. g[0] = f[0] + 0 /\ f[0] \in Int /\ 0 \in Nat /\ 0 \in Int /\ n \in Nat
    BY <1>m, <1>4, <1>t
  <2>3. \A k \in 1 .. n : f[k] = f[k - 1] + s[k] /\ s[k] \in Int
    BY <1>4
  <2>4. Alike(n, 0, f, g, 0)
    BY <2>1, <2>2, <2>3 DEF Alike
  <2>5. n \in Nat /\ 0 \in Nat /\ 0 \in Int
    BY <1>m
  <2> QED
    BY <2>4, <2>5, AddsAlike
<1>6. g[n + 1] = g[n] + x /\ f[n] \in Int
  <2>1. n + 1 \in 1 .. m /\ n + 1 - 1 = n /\ n \in 0 .. n /\ t[n + 1] = x
    BY <1>1, <1>m
  <2>2. g[n + 1] = g[n + 1 - 1] + t[n + 1]
    BY <1>t, <2>1
  <2> QED
    BY <1>2, <2>1, <2>2
<1>7. g[n] = f[n]
  BY <1>1, <1>5, <1>6
<1> QED
  BY <1>2, <1>3, <1>6, <1>7 DEF t

\* Without the first.
LEMMA TotalOfTail ==
    ASSUME NEW s \in Seq(Int), s # <<>>
    PROVE  Total(Tail(s)) = Total(s) - Head(s) /\ Head(s) \in Int
<1> DEFINE t == Tail(s)
           n == Len(t)
<1>1. /\ t \in Seq(Int) /\ Len(s) = n + 1 /\ n \in Nat /\ s[1] = Head(s) /\ Head(s) \in Int
      /\ \A k \in 1 .. n : t[k] = s[k + 1]
  OBVIOUS
<1> HIDE DEF t
<1>2. PICK f \in [0 .. n -> Int] : Adds(f, t) /\ Total(t) = f[n]
  BY <1>1, TotalIs
<1>3. PICK g \in [0 .. n + 1 -> Int] : Adds(g, s) /\ Total(s) = g[n + 1]
  BY <1>1, TotalIs
<1>4. f[0] = 0 /\ \A k \in 1 .. n : f[k] = f[k - 1] + t[k] /\ t[k] \in Int
  BY <1>1, <1>2, AddsAt
<1> DEFINE m == Len(s)
<1>t. g[0] = 0 /\ \A k \in 1 .. m : g[k] = g[k - 1] + s[k] /\ s[k] \in Int
  BY <1>1, <1>3, AddsAt
<1> HIDE DEF n, m
<1>m. m = n + 1 /\ n \in Nat /\ \A k \in 1 .. n : t[k] = s[k + 1]
  BY <1>1 DEF n, m
<1>5. g[1] = f[0] + Head(s)
  <2>1. 1 \in 1 .. m /\ 1 - 1 = 0
    BY <1>m
  <2>2. g[1] = g[1 - 1] + s[1]
    BY <1>t, <2>1
  <2> QED
    BY <1>1, <1>4, <1>t, <2>1, <2>2
<1>6. g[n + 1] = f[n] + Head(s)
  <2>1. ASSUME NEW k \in 1 .. n
        PROVE  g[k + 1] = g[k + 1 - 1] + s[k + 1] /\ s[k + 1] = t[k]
    <3>1. k + 1 \in 1 .. m /\ s[k + 1] = t[k]
      BY <1>m
    <3> QED
      BY <1>t, <3>1
  <2>2. f[0] \in Int /\ 1 \in Nat /\ n \in Nat /\ Head(s) \in Int
    BY <1>1, <1>4, <1>m
  <2>3. \A k \in 1 .. n : f[k] = f[k - 1] + t[k] /\ t[k] \in Int
    BY <1>4
  <2>4. Alike(n, 1, f, g, Head(s))
    BY <1>5, <2>1, <2>2, <2>3 DEF Alike
  <2> DEFINE c == Head(s)
  <2>5. n \in Nat /\ 1 \in Nat /\ c \in Int /\ Alike(n, 1, f, g, c)
    BY <2>2, <2>4
  <2> HIDE DEF c
  <2>6. g[n + 1] = f[n] + c
    BY <2>5, AddsAfterOne
  <2> QED
    BY <2>6 DEF c
<1>7. f[n] \in Int
  BY <1>1, <1>2
<1> QED
  BY <1>1, <1>2, <1>3, <1>6, <1>7 DEF t

\* Of naturals it is a natural.
LEMMA TotalOfNats ==
    ASSUME NEW s \in Seq(Nat)
    PROVE  Total(s) \in Nat
<1> DEFINE n == Len(s)
<1>1. s \in Seq(Int) /\ n \in Nat /\ \A k \in 1 .. n : s[k] \in Nat
  OBVIOUS
<1>2. PICK f \in [0 .. n -> Int] : Adds(f, s) /\ Total(s) = f[n]
  BY <1>1, TotalIs
<1>3. f[0] = 0 /\ \A k \in 1 .. n : f[k] = f[k - 1] + s[k]
  BY <1>1, <1>2, AddsAt
<1> HIDE DEF n
<1> DEFINE M == {k \in 0 .. n : f[k] \in Nat}
<1>4. 0 \in M
  BY <1>1, <1>3
<1>5. ASSUME NEW k \in 0 .. n - 1, k \in M  PROVE k + 1 \in M
  <2>1. k + 1 \in 1 .. n /\ k + 1 - 1 = k
    BY <1>1
  <2>2. f[k + 1] = f[k] + s[k + 1] /\ s[k + 1] \in Nat /\ f[k] \in Nat
    BY <1>1, <1>3, <1>5, <2>1
  <2> QED
    BY <2>1, <2>2
<1>6. \A k \in 0 .. n : k \in M
  <2> HIDE DEF M
  <2> QED
    BY <1>1, <1>4, <1>5, UpToBySteps
<1> QED
  BY <1>1, <1>2, <1>6

\* None of them below m, it is not below as many times m.
LEMMA TotalAtLeast ==
    ASSUME NEW s \in Seq(Int), NEW m \in Int, \A k \in 1 .. Len(s) : s[k] >= m
    PROVE  Total(s) >= Len(s) * m
<1> DEFINE n == Len(s)
<1>1. n \in Nat /\ \A k \in 1 .. n : s[k] \in Int /\ s[k] >= m
  OBVIOUS
<1>2. PICK f \in [0 .. n -> Int] : Adds(f, s) /\ Total(s) = f[n]
  BY TotalIs
<1>3. f[0] = 0 /\ \A k \in 1 .. n : f[k] = f[k - 1] + s[k]
  BY <1>1, <1>2, AddsAt
<1> HIDE DEF n
<1> DEFINE M == {k \in 0 .. n : f[k] >= k * m}
<1>4. 0 \in M
  BY <1>1, <1>3
<1>5. ASSUME NEW k \in 0 .. n - 1, k \in M  PROVE k + 1 \in M
  <2>1. k + 1 \in 1 .. n /\ k + 1 - 1 = k
    BY <1>1
  <2>2. /\ f[k + 1] = f[k] + s[k + 1] /\ s[k + 1] \in Int /\ s[k + 1] >= m
        /\ f[k] \in Int /\ f[k] >= k * m
    BY <1>1, <1>2, <1>3, <1>5, <2>1
  <2>3. (k + 1) * m = k * m + m /\ k * m \in Int
    OBVIOUS
  <2>4. f[k + 1] >= (k + 1) * m
    BY <2>2, <2>3
  <2> QED
    BY <2>1, <2>4
<1>6. \A k \in 0 .. n : k \in M
  <2> HIDE DEF M
  <2> QED
    BY <1>1, <1>4, <1>5, UpToBySteps
<1>7. f[n] >= n * m
  BY <1>1, <1>6
<1> QED
  BY <1>2, <1>7 DEF n

-----------------------------------------------------------------------------
(***************************************************************************)
(* Remainders.                                                             *)
(***************************************************************************)
LEMMA MulBig ==
    ASSUME NEW W \in Nat \ {0}, NEW m \in Int, m >= 1
    PROVE  W * m >= W
<1>1. W * (m - 1) >= 0
  OBVIOUS
<1>2. W * m = W * (m - 1) + W
  OBVIOUS
<1> QED BY <1>1, <1>2

LEMMA SmallMultiple ==
    ASSUME NEW W \in Nat \ {0}, NEW m \in Int, W * m < W, W * m > -W
    PROVE  m = 0
<1>1. CASE m >= 1
  BY <1>1, MulBig
<1>2. CASE m <= -1
  <2>1. W * (-m) >= W
    BY <1>2, MulBig
  <2>2. W * (-m) = -(W * m)
    OBVIOUS
  <2> QED BY <2>1, <2>2
<1> QED BY <1>1, <1>2

LEMMA Division ==
    ASSUME NEW W \in Nat \ {0}, NEW x \in Int
    PROVE  /\ (x % W) \in Int /\ 0 <= (x % W) /\ x % W < W /\ x \div W \in Int
           /\ x = W * (x \div W) + (x % W)
  OBVIOUS

LEMMA SameRest ==
    ASSUME NEW W \in Nat \ {0}, NEW x \in Int, NEW y \in Int, NEW k \in Int, x = y + W * k
    PROVE  x % W = y % W
<1> DEFINE p == x \div W
           q == y \div W
           r == x % W
           s == y % W
<1>1. /\ p \in Int /\ r \in Int /\ q \in Int /\ s \in Int
      /\ x = W * p + r /\ y = W * q + s /\ 0 <= r /\ r < W /\ 0 <= s /\ s < W
  BY Division
<1> HIDE DEF p, q, r, s
<1>2. W * (p - q - k) = s - r
  <2>1. W * (p - q - k) = W * p - W * q - W * k
    BY <1>1
  <2> QED BY <2>1, <1>1
<1>3. p - q - k = 0
  BY <1>1, <1>2, SmallMultiple
<1>4. s = r
  <2>1. W * (p - q - k) = 0
    BY <1>1, <1>3
  <2> QED BY <2>1, <1>1, <1>2
<1> QED BY <1>4 DEF r, s

LEMMA RestOfSum ==
    ASSUME NEW W \in Nat \ {0}, NEW x \in Int, NEW d \in Int
    PROVE  ((x % W) + d) % W = (x + d) % W
<1>1. x % W \in Int /\ x \div W \in Int /\ x = W * (x \div W) + (x % W)
  BY Division
<1>2. x + d = (x % W) + d + W * (x \div W)
  BY <1>1
<1> QED
  <2> DEFINE k == x \div W
             y == (x % W) + d
  <2>1. k \in Int /\ y \in Int /\ x + d \in Int /\ x + d = y + W * k
    BY <1>1, <1>2
  <2> HIDE DEF k, y
  <2>2. (x + d) % W = y % W
    BY <2>1, SameRest
  <2> QED BY <2>2 DEF y
=============================================================================
