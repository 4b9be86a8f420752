--------------------------- MODULE NormalizerProofs ---------------------------
(***************************************************************************)
(* core/Normalizer.cpp for every text, and the window of Composer::commit  *)
(* over it.  canonicalOrder gives the only stable arrangement in which the *)
(* marks of each run ascend; compose works cluster by cluster (a starter   *)
(* with its marks), so toNFC of a text is made of toNFC of its clusters;   *)
(* and a window that holds the last cluster is all that a key can change.  *)
(***************************************************************************)
EXTENDS NormalizedTyping, KeyboardLayoutProofs

-----------------------------------------------------------------------------
(* Recursion and induction over an interval.                               *)

LEMMA InductionOnInterval ==
  ASSUME NEW a \in Int, NEW b \in Int, NEW S, a \in S,
         \A n \in a..(b - 1) : n \in S => n + 1 \in S
  PROVE  a..b \subseteq S
<1> DEFINE N == {n \in Nat : a + n <= b => a + n \in S}
<1>1. 0 \in N
  OBVIOUS
<1>2. ASSUME NEW n \in Nat, n \in N PROVE n + 1 \in N
  <2> SUFFICES ASSUME a + (n + 1) <= b PROVE a + (n + 1) \in S
    OBVIOUS
  <2>1. a + n \in a..(b - 1) /\ a + n \in S
    BY <1>2
  <2>2. (a + n) + 1 \in S
    BY <2>1
  <2> QED BY <2>2
<1>3. Nat \subseteq N
  <2> HIDE DEF N
  <2> QED BY <1>1, <1>2, InductionOnNat
<1>4. ASSUME NEW n \in a..b PROVE n \in S
  <2>1. n - a \in N /\ a + (n - a) = n
    BY <1>3
  <2> QED BY <2>1
<1> QED BY <1>4

\* The equation of a function that is defined from its first value on.
Solves(f, a, b, T, base, F) ==
  /\ f \in [a..b -> T]
  /\ f = [n \in a..b |-> IF n = a THEN base ELSE F[<<n, f[n - 1]>>]]

\* It has a solution with values in T.
LEMMA RecursionExists ==
  ASSUME NEW a \in Int, NEW b \in Int, NEW T, NEW base \in T,
         NEW c \in Int, c = a + 1, NEW F \in [(c..b) \X T -> T]
  PROVE  \E f : Solves(f, a, b, T, base, F)
<1> DEFINE S == {k \in Int : k <= b => \E f : Solves(f, a, k, T, base, F)}
<1>1. a \in S
  <2> DEFINE g == [n \in a..a |-> base]
  <2>1. Solves(g, a, a, T, base, F)
    BY DEF Solves
  <2> QED BY <2>1
<1>2. ASSUME NEW k \in a..(b - 1), k \in S PROVE k + 1 \in S
  <2>1. PICK f : Solves(f, a, k, T, base, F)
    BY <1>2
  <2>2. f \in [a..k -> T] /\ \A n \in a..k : f[n] = IF n = a THEN base ELSE F[<<n, f[n - 1]>>]
    BY <2>1 DEF Solves
  <2> DEFINE g == [n \in a..(k + 1) |-> IF n <= k THEN f[n] ELSE F[<<k + 1, f[k]>>]]
  <2>3. k \in a..k /\ k + 1 \in (a + 1)..b /\ f[k] \in T
    BY <2>2
  <2>4. F[<<k + 1, f[k]>>] \in T
    BY <2>3
  <2>5. g \in [a..(k + 1) -> T]
    BY <2>2, <2>4
  <2>6. \A n \in a..(k + 1) : g[n] = IF n = a THEN base ELSE F[<<n, g[n - 1]>>]
    <3> SUFFICES ASSUME NEW n \in a..(k + 1)
                 PROVE  g[n] = IF n = a THEN base ELSE F[<<n, g[n - 1]>>]
      OBVIOUS
    <3>1. CASE n = a
      <4>1. n \in a..k /\ n <= k
        BY <3>1
      <4>2. f[n] = base
        BY <2>2, <3>1, <4>1
      <4> QED BY <3>1, <4>1, <4>2
    <3>2. CASE n # a /\ n <= k
      <4>1. n \in a..k /\ n - 1 \in a..(k + 1) /\ n - 1 <= k
        BY <3>2
      <4>2. g[n] = f[n] /\ g[n - 1] = f[n - 1]
        BY <3>2, <4>1
      <4> QED BY <2>2, <3>2, <4>1, <4>2
    <3>3. CASE n # a /\ ~ (n <= k)
      <4>1. n = k + 1 /\ n - 1 = k /\ k \in a..(k + 1) /\ k <= k
        BY <3>3
      <4>2. g[n] = F[<<k + 1, f[k]>>] /\ g[k] = f[k]
        BY <3>3, <4>1
      <4> QED BY <3>3, <4>1, <4>2
    <3> QED BY <3>1, <3>2, <3>3
  <2>7. Solves(g, a, k + 1, T, base, F)
    <3>1. g = [n \in a..(k + 1) |-> g[n]]
      OBVIOUS
    <3> HIDE DEF g
    <3> QED BY <2>5, <2>6, <3>1 DEF Solves
  <2> HIDE DEF g
  <2> QED BY <2>7
<1>3. a..b \subseteq S
  <2> HIDE DEF S
  <2> QED BY <1>1, <1>2, InductionOnInterval
<1>4. CASE a <= b
  <2>1. b \in S
    BY <1>3, <1>4
  <2> QED BY <2>1
<1>5. CASE ~ (a <= b)
  <2> DEFINE g == [n \in a..b |-> base]
  <2>1. Solves(g, a, b, T, base, F)
    BY <1>5 DEF Solves
  <2> QED BY <2>1
<1> QED BY <1>4, <1>5

-----------------------------------------------------------------------------
(* Stable rearrangements.                                                  *)

Class(c) == combiningClass(c)

LEMMA ClassType == \A c : Class(c) \in Nat
BY DEF Class, combiningClass

-----------------------------------------------------------------------------
\* The orders into which marks of s may come: those of different runs stay
\* apart, starters stay where they are, and marks of one class keep their order.
StableOrders(s) ==
  {p \in [1..Len(s) -> 1..Len(s)] :
     /\ \A i, j \in 1..Len(s) : p[i] = p[j] => i = j
     /\ \A i, k \in 1..Len(s) : Class(s[k]) = 0 =>
          /\ i < k => p[i] < k
          /\ i = k => p[i] = k
          /\ k < i => k < p[i]
     /\ \A i, j \in 1..Len(s) : i < j /\ Class(s[p[i]]) = Class(s[p[j]]) => p[i] < p[j]}

StableReorderings(s) == {[i \in 1..Len(s) |-> s[p[i]]] : p \in StableOrders(s)}

LEMMA RearrangedIsText ==
  ASSUME NEW X, NEW s \in Seq(X), NEW t \in StableReorderings(s)
  PROVE  t \in Seq(X) /\ Len(t) = Len(s) /\ Len(s) \in Nat
<1>1. PICK p \in StableOrders(s) : t = [i \in 1..Len(s) |-> s[p[i]]]
  BY DEF StableReorderings
<1>2. Len(s) \in Nat /\ p \in [1..Len(s) -> 1..Len(s)]
  BY LenProperties DEF StableOrders
<1>3. \A i \in 1..Len(s) : s[p[i]] \in X
  BY <1>2, ElementOfSeq
<1>4. t \in Seq(X) /\ Len(t) = Len(s)
  BY <1>1, <1>2, <1>3, IsASeq
<1> QED BY <1>2, <1>4

LEMMA TextIsRearranged ==
  ASSUME NEW X, NEW s \in Seq(X)
  PROVE  s \in StableReorderings(s)
<1> DEFINE p == [i \in 1..Len(s) |-> i]
<1>1. Len(s) \in Nat /\ s = [i \in 1..Len(s) |-> s[i]]
  BY LenProperties
<1>2. p \in StableOrders(s)
  BY <1>1 DEF StableOrders
<1>3. \A i \in 1..Len(s) : p[i] = i
  OBVIOUS
<1> HIDE DEF p
<1>4. [i \in 1..Len(s) |-> s[p[i]]] = [i \in 1..Len(s) |-> s[i]]
  BY <1>3
<1> QED BY <1>1, <1>2, <1>4 DEF StableReorderings

\* The starters, and so the runs between them, are where they were.
LEMMA SameStarters ==
  ASSUME NEW X, NEW s \in Seq(X), NEW t \in StableReorderings(s), NEW i \in 1..Len(s)
  PROVE  /\ Class(t[i]) = 0 <=> Class(s[i]) = 0
         /\ Class(s[i]) = 0 => t[i] = s[i]
<1>1. PICK p \in StableOrders(s) : t = [j \in 1..Len(s) |-> s[p[j]]]
  BY DEF StableReorderings
<1>2. t[i] = s[p[i]] /\ p[i] \in 1..Len(s)
  BY <1>1 DEF StableOrders
<1>3. Class(s[i]) = 0 => p[i] = i
  BY DEF StableOrders
<1>4. ASSUME Class(s[p[i]]) = 0 PROVE p[i] = i
  <2>1. p[p[i]] = p[i]
    BY <1>2, <1>4 DEF StableOrders
  <2> QED BY <1>2, <2>1 DEF StableOrders
<1> QED BY <1>2, <1>3, <1>4

\* One comparison among marks only moves the mark of the lower class forward.
LEMMA SwapRearranges ==
  ASSUME NEW X, NEW s \in Seq(X), NEW t \in StableReorderings(s),
         NEW b \in 1..Len(s), b + 1 \in 1..Len(s), Class(s[b]) # 0, Class(s[b + 1]) # 0
  PROVE  /\ SwapAt(t, b) \in StableReorderings(s)
         /\ \A i \in 1..Len(s) : i # b /\ i # b + 1 => SwapAt(t, b)[i] = t[i]
         /\ \/ SwapAt(t, b)[b] = t[b] /\ SwapAt(t, b)[b + 1] = t[b + 1]
            \/ SwapAt(t, b)[b] = t[b + 1] /\ SwapAt(t, b)[b + 1] = t[b]
         /\ Class(SwapAt(t, b)[b]) <= Class(SwapAt(t, b)[b + 1])
<1>1. PICK p \in StableOrders(s) : t = [i \in 1..Len(s) |-> s[p[i]]]
  BY DEF StableReorderings
<1>2. /\ p \in [1..Len(s) -> 1..Len(s)]
      /\ \A i, j \in 1..Len(s) : p[i] = p[j] => i = j
      /\ \A i, k \in 1..Len(s) : Class(s[k]) = 0 =>
           /\ i < k => p[i] < k
           /\ i = k => p[i] = k
           /\ k < i => k < p[i]
      /\ \A i, j \in 1..Len(s) : i < j /\ Class(s[p[i]]) = Class(s[p[j]]) => p[i] < p[j]
  BY DEF StableOrders
<1>3. Len(s) \in Nat /\ DOMAIN t = 1..Len(s) /\ Class(t[b]) \in Nat /\ Class(t[b + 1]) \in Nat
  BY <1>1, LenProperties, ClassType
<1>4. CASE ~ (Class(t[b]) > Class(t[b + 1]))
  <2>1. SwapAt(t, b) = t
    BY <1>4 DEF SwapAt, Class
  <2> QED BY <1>3, <1>4, <2>1
<1>5. CASE Class(t[b]) > Class(t[b + 1])
  <2> DEFINE q == [i \in 1..Len(s) |-> IF i = b THEN p[b + 1] ELSE IF i = b + 1 THEN p[b] ELSE p[i]]
             u == SwapAt(t, b)
  <2>1. u = [t EXCEPT ![b] = t[b + 1], ![b + 1] = t[b]]
    BY <1>5 DEF SwapAt, Class
  <2>2. /\ DOMAIN u = 1..Len(s) /\ u[b] = t[b + 1] /\ u[b + 1] = t[b]
        /\ \A i \in 1..Len(s) : i # b /\ i # b + 1 => u[i] = t[i]
        /\ u = [i \in 1..Len(s) |-> u[i]]
    BY <1>3, <2>1
  <2>3. /\ q \in [1..Len(s) -> 1..Len(s)]
        /\ q[b] = p[b + 1] /\ q[b + 1] = p[b]
        /\ \A i \in 1..Len(s) : i # b /\ i # b + 1 => q[i] = p[i]
    BY <1>2
  <2> HIDE DEF q, u
  <2>4. \A i, j \in 1..Len(s) : q[i] = q[j] => i = j
    BY <1>2, <2>3
  <2>5. ASSUME NEW i \in 1..Len(s), NEW k \in 1..Len(s), Class(s[k]) = 0
        PROVE  (i < k => q[i] < k) /\ (i = k => q[i] = k) /\ (k < i => k < q[i])
    <3>1. k # b /\ k # b + 1
      BY <2>5
    <3>2. /\ b < k <=> b + 1 < k
          /\ k < b <=> k < b + 1
      BY <1>3, <3>1
    <3> QED BY <1>2, <1>3, <2>3, <2>5, <3>1, <3>2
  <2>6. Class(s[p[b + 1]]) < Class(s[p[b]])
    BY <1>1, <1>5
  <2>7. ASSUME NEW i \in 1..Len(s), NEW j \in 1..Len(s), i < j, Class(s[q[i]]) = Class(s[q[j]])
        PROVE  q[i] < q[j]
    <3>1. CASE i = b /\ j = b + 1
      <4>1. Class(s[p[b + 1]]) = Class(s[p[b]])
        BY <2>3, <2>7, <3>1
      <4>2. Class(s[p[b]]) \in Nat
        BY ClassType
      <4> QED BY <2>6, <4>1, <4>2
    <3>2. CASE i = b /\ j # b + 1
      <4>1. b + 1 < j /\ q[i] = p[b + 1] /\ q[j] = p[j]
        BY <1>3, <2>3, <2>7, <3>2
      <4> QED BY <1>2, <2>7, <4>1
    <3>3. CASE i = b + 1
      <4>1. b < j /\ j # b /\ j # b + 1 /\ q[i] = p[b] /\ q[j] = p[j]
        BY <1>3, <2>3, <2>7, <3>3
      <4> QED BY <1>2, <2>7, <4>1
    <3>4. CASE i # b /\ i # b + 1 /\ j = b
      <4>1. i < b + 1 /\ q[i] = p[i] /\ q[j] = p[b + 1]
        BY <1>3, <2>3, <2>7, <3>4
      <4> QED BY <1>2, <2>7, <4>1
    <3>5. CASE i # b /\ i # b + 1 /\ j = b + 1
      <4>1. i < b /\ q[i] = p[i] /\ q[j] = p[b]
        BY <1>3, <2>3, <2>7, <3>5
      <4> QED BY <1>2, <2>7, <4>1
    <3>6. CASE i # b /\ i # b + 1 /\ j # b /\ j # b + 1
      <4>1. q[i] = p[i] /\ q[j] = p[j]
        BY <2>3, <3>6
      <4> QED BY <1>2, <2>7, <4>1
    <3> QED BY <3>1, <3>2, <3>3, <3>4, <3>5, <3>6
  <2>8. q \in StableOrders(s)
    BY <2>3, <2>4, <2>5, <2>7 DEF StableOrders
  <2>9. ASSUME NEW i \in 1..Len(s) PROVE u[i] = s[q[i]]
    BY <1>1, <2>2, <2>3
  <2>10. u = [i \in 1..Len(s) |-> s[q[i]]]
    BY <2>2, <2>9
  <2>11. u \in StableReorderings(s)
    BY <2>8, <2>10 DEF StableReorderings
  <2> QED BY <1>3, <1>5, <2>2, <2>11 DEF u
<1> QED BY <1>3, <1>4, <1>5

-----------------------------------------------------------------------------
(* One pass.                                                               *)

\* The equation of the local function of Pass, and the function.
PassOf(f, t, first, last) == [b \in first..last |-> IF b = first THEN t ELSE SwapAt(f[b - 1], b - 1)]
PassUpto(t, first, last)  == CHOOSE f : f = PassOf(f, t, first, last)

\* What the pass over t has reached at position b: the greatest class so far is
\* at b, and nothing came from behind it.
Passed(s, t, first, b, u) ==
  /\ u \in StableReorderings(s)
  /\ \A i \in 1..Len(s) : i \notin first..b => u[i] = t[i]
  /\ \A i \in first..b : \E k \in first..b : u[i] = t[k]
  /\ \A i \in first..b : Class(u[i]) <= Class(u[b])

LEMMA PassUnfolds ==
  ASSUME NEW X, NEW s \in Seq(X), NEW t \in StableReorderings(s),
         NEW first \in 1..Len(s), NEW last \in first..Len(s), \A i \in first..last : Class(s[i]) # 0
  PROVE  /\ Pass(t, first, last) = PassUpto(t, first, last)[last]
         /\ \A b \in first..last :
              PassUpto(t, first, last)[b] =
                IF b = first THEN t ELSE SwapAt(PassUpto(t, first, last)[b - 1], b - 1)
<1>1. Len(s) \in Nat /\ first \in Int /\ last \in Int
  BY LenProperties
<1> DEFINE R == StableReorderings(s)
           F == [e \in ((first + 1)..last) \X R |-> SwapAt(e[2], e[1] - 1)]
<1>2. \A b \in (first + 1)..last, u \in R : F[<<b, u>>] = SwapAt(u, b - 1)
  OBVIOUS
<1>3. ASSUME NEW b \in (first + 1)..last, NEW u \in R PROVE SwapAt(u, b - 1) \in R
  <2>1. b - 1 \in 1..Len(s) /\ (b - 1) + 1 \in 1..Len(s) /\ Class(s[b - 1]) # 0 /\ Class(s[(b - 1) + 1]) # 0
    BY <1>1
  <2> QED BY <2>1, SwapRearranges
<1>4. \E f : Solves(f, first, last, R, t, F)
  <2> DEFINE second == first + 1
  <2>1. F \in [(second..last) \X R -> R] /\ t \in R
    BY <1>3
  <2>2. second \in Int /\ second = first + 1
    BY <1>1
  <2> HIDE DEF F, R, second
  <2> QED BY <1>1, <2>1, <2>2, RecursionExists
<1> HIDE DEF F, R
<1>5. PICK f \in [first..last -> R] : Solves(f, first, last, R, t, F)
  BY <1>4 DEF Solves
<1>6. f = PassOf(f, t, first, last)
  <2>1. ASSUME NEW b \in first..last
        PROVE  f[b] = IF b = first THEN t ELSE SwapAt(f[b - 1], b - 1)
    <3>1. f[b] = IF b = first THEN t ELSE F[<<b, f[b - 1]>>]
      BY <1>5 DEF Solves
    <3>2. b # first => b \in (first + 1)..last /\ f[b - 1] \in R
      BY <1>1
    <3> QED BY <1>2, <3>1, <3>2
  <2>2. f = [b \in first..last |-> f[b]]
    OBVIOUS
  <2> QED BY <2>1, <2>2 DEF PassOf
<1> DEFINE u == PassUpto(t, first, last)
<1>7. u = PassOf(u, t, first, last)
  BY <1>6 DEF PassUpto
<1>8. Pass(t, first, last) = u[last]
  BY DEF Pass, PassUpto, PassOf
<1> HIDE DEF u
<1>9. \A b \in first..last : u[b] = IF b = first THEN t ELSE SwapAt(u[b - 1], b - 1)
  BY <1>7 DEF PassOf
<1> QED BY <1>8, <1>9 DEF u

LEMMA PassStep ==
  ASSUME NEW X, NEW s \in Seq(X), NEW t \in StableReorderings(s), NEW first \in 1..Len(s),
         NEW b \in first..Len(s), b + 1 \in 1..Len(s), Class(s[b]) # 0, Class(s[b + 1]) # 0,
         NEW u, Passed(s, t, first, b, u)
  PROVE  Passed(s, t, first, b + 1, SwapAt(u, b))
<1> DEFINE v == SwapAt(u, b)
<1>1. /\ u \in StableReorderings(s)
      /\ \A i \in 1..Len(s) : i \notin first..b => u[i] = t[i]
      /\ \A i \in first..b : \E k \in first..b : u[i] = t[k]
      /\ \A i \in first..b : Class(u[i]) <= Class(u[b])
  BY DEF Passed
<1>2. Len(s) \in Nat /\ \A i : Class(u[i]) \in Nat /\ Class(v[i]) \in Nat
  BY LenProperties, ClassType
<1>3. b \in 1..Len(s)
  BY <1>2
<1>4. /\ v \in StableReorderings(s)
      /\ \A i \in 1..Len(s) : i # b /\ i # b + 1 => v[i] = u[i]
      /\ \/ v[b] = u[b] /\ v[b + 1] = u[b + 1]
         \/ v[b] = u[b + 1] /\ v[b + 1] = u[b]
      /\ Class(v[b]) <= Class(v[b + 1])
  BY <1>1, <1>3, SwapRearranges
<1> HIDE DEF v
<1>5. ASSUME NEW i \in 1..Len(s), i \notin first..(b + 1) PROVE v[i] = t[i]
  <2>1. i # b /\ i # b + 1 /\ i \notin first..b
    BY <1>2, <1>5
  <2> QED BY <1>1, <1>4, <2>1
<1>6. u[b + 1] = t[b + 1] /\ b + 1 \in first..(b + 1)
  BY <1>1, <1>2
<1>7. ASSUME NEW i \in first..b PROVE \E k \in first..(b + 1) : u[i] = t[k]
  <2>1. PICK k \in first..b : u[i] = t[k]
    BY <1>1
  <2>2. k \in first..(b + 1)
    BY <1>2
  <2> QED BY <2>1, <2>2
<1>8. ASSUME NEW i \in first..(b + 1) PROVE \E k \in first..(b + 1) : v[i] = t[k]
  <2>1. i \in first..b \/ i = b + 1
    BY <1>2
  <2>2. b \in first..b /\ i \in 1..Len(s)
    BY <1>2
  <2>3. v[i] = u[i] \/ v[i] = u[b] \/ v[i] = u[b + 1]
    BY <1>4, <2>2
  <2>4. CASE v[i] = u[b + 1]
    BY <1>6, <2>4
  <2>5. CASE v[i] = u[b]
    BY <1>7, <2>2, <2>5
  <2>6. CASE v[i] = u[i] /\ i \in first..b
    BY <1>7, <2>6
  <2>7. CASE v[i] = u[i] /\ i = b + 1
    BY <1>6, <2>7
  <2> QED BY <2>1, <2>3, <2>4, <2>5, <2>6, <2>7
<1>9. ASSUME NEW i \in first..(b + 1) PROVE Class(v[i]) <= Class(v[b + 1])
  <2>1. i \in 1..Len(s) /\ (i = b \/ i = b + 1 \/ (i \in first..b /\ i # b /\ i # b + 1))
    BY <1>2, <1>3
  <2>2. CASE i = b \/ i = b + 1
    BY <1>2, <1>4, <2>2
  <2>3. CASE i \in first..b /\ i # b /\ i # b + 1
    <3>1. v[i] = u[i] /\ Class(u[i]) <= Class(u[b])
      BY <1>1, <1>4, <2>1, <2>3
    <3>2. Class(u[b]) <= Class(v[b + 1])
      BY <1>2, <1>4
    <3> QED BY <1>2, <3>1, <3>2
  <2> QED BY <2>1, <2>2, <2>3
<1> QED BY <1>4, <1>5, <1>8, <1>9 DEF Passed, v

LEMMA PassProperties ==
  ASSUME NEW X, NEW s \in Seq(X), NEW t \in StableReorderings(s),
         NEW first \in 1..Len(s), NEW last \in first..Len(s), \A i \in first..last : Class(s[i]) # 0
  PROVE  Passed(s, t, first, last, Pass(t, first, last))
<1> DEFINE u == PassUpto(t, first, last)
           S == {b \in first..last : Passed(s, t, first, b, u[b])}
<1>1. Len(s) \in Nat /\ first \in Int /\ last \in Int /\ first \in first..last /\ last \in first..last
  BY LenProperties
<1>2. /\ Pass(t, first, last) = u[last]
      /\ \A b \in first..last : u[b] = IF b = first THEN t ELSE SwapAt(u[b - 1], b - 1)
  BY PassUnfolds
<1> HIDE DEF u
<1>3. first \in S
  <2>1. u[first] = t
    BY <1>1, <1>2
  <2>2. \A i \in first..first : i = first
    BY <1>1
  <2>3. Class(t[first]) <= Class(t[first])
    BY ClassType
  <2>4. Passed(s, t, first, first, t)
    BY <1>1, <2>2, <2>3 DEF Passed
  <2> QED BY <1>1, <2>1, <2>4
<1>4. ASSUME NEW b \in first..(last - 1), b \in S PROVE b + 1 \in S
  <2>1. /\ b \in first..Len(s) /\ b + 1 \in 1..Len(s) /\ Class(s[b]) # 0 /\ Class(s[b + 1]) # 0
        /\ b + 1 \in first..last /\ b + 1 # first /\ (b + 1) - 1 = b
    BY <1>1
  <2>2. u[b + 1] = SwapAt(u[b], b)
    BY <1>2, <2>1
  <2>3. Passed(s, t, first, b, u[b])
    BY <1>4
  <2>4. Passed(s, t, first, b + 1, SwapAt(u[b], b))
    BY <2>1, <2>3, PassStep
  <2> QED BY <2>1, <2>2, <2>4
<1>5. first..last \subseteq S
  <2> HIDE DEF S
  <2> QED BY <1>1, <1>3, <1>4, InductionOnInterval
<1>6. last \in S
  BY <1>1, <1>5
<1> QED BY <1>2, <1>6

-----------------------------------------------------------------------------
(* The bubble sort.                                                        *)

\* The equation of the local function of BubbleSort, and the function.
SortOf(f, t, first, last) ==
  [n \in 0..(last - first + 1) |-> IF n = 0 THEN t ELSE Pass(f[n - 1], first, last - n + 1)]
SortAfter(t, first, last) == CHOOSE f : f = SortOf(f, t, first, last)

\* After the passes: the marks from position `from` on are where they stay.
Settled(s, t, first, from, last, u) ==
  /\ u \in StableReorderings(s)
  /\ \A i \in 1..Len(s) : i \notin first..last => u[i] = t[i]
  /\ \A j \in from..last : \A i \in first..j : Class(u[i]) <= Class(u[j])

LEMMA SortUnfolds ==
  ASSUME NEW X, NEW s \in Seq(X), NEW t \in StableReorderings(s),
         NEW first \in 1..Len(s), NEW last \in first..Len(s), \A i \in first..last : Class(s[i]) # 0
  PROVE  /\ BubbleSort(t, first, last) = SortAfter(t, first, last)[last - first + 1]
         /\ \A n \in 0..(last - first + 1) :
              SortAfter(t, first, last)[n] =
                IF n = 0 THEN t ELSE Pass(SortAfter(t, first, last)[n - 1], first, last - n + 1)
<1> DEFINE L == last - first + 1
           R == StableReorderings(s)
           F == [e \in (1..L) \X R |-> Pass(e[2], first, last - e[1] + 1)]
<1>1. Len(s) \in Nat /\ first \in Int /\ last \in Int /\ L \in Int
  BY LenProperties
<1>2. \A n \in 1..L, u \in R : F[<<n, u>>] = Pass(u, first, last - n + 1)
  OBVIOUS
<1>3. ASSUME NEW n \in 1..L, NEW u \in R PROVE Pass(u, first, last - n + 1) \in R
  <2>1. last - n + 1 \in first..Len(s) /\ \A i \in first..(last - n + 1) : Class(s[i]) # 0
    BY <1>1
  <2>2. Passed(s, u, first, last - n + 1, Pass(u, first, last - n + 1))
    BY <2>1, PassProperties
  <2> QED BY <2>2 DEF Passed
<1>4. \E f : Solves(f, 0, L, R, t, F)
  <2>1. F \in [(1..L) \X R -> R] /\ t \in R
    BY <1>3
  <2>2. 0 \in Int /\ 1 \in Int /\ 1 = 0 + 1
    OBVIOUS
  <2> HIDE DEF F, R, L
  <2> QED BY <1>1, <2>1, <2>2, RecursionExists
<1> HIDE DEF F, R
<1>5. PICK f \in [0..L -> R] : Solves(f, 0, L, R, t, F)
  BY <1>4 DEF Solves
<1>6. f = SortOf(f, t, first, last)
  <2>1. ASSUME NEW n \in 0..L
        PROVE  f[n] = IF n = 0 THEN t ELSE Pass(f[n - 1], first, last - n + 1)
    <3>1. f[n] = IF n = 0 THEN t ELSE F[<<n, f[n - 1]>>]
      BY <1>5 DEF Solves
    <3>2. n # 0 => n \in 1..L /\ f[n - 1] \in R
      BY <1>1
    <3> QED BY <1>2, <3>1, <3>2
  <2>2. f = [n \in 0..L |-> f[n]]
    OBVIOUS
  <2> QED BY <2>1, <2>2 DEF SortOf
<1> DEFINE u == SortAfter(t, first, last)
<1>7. u = SortOf(u, t, first, last)
  BY <1>6 DEF SortAfter
<1>8. BubbleSort(t, first, last) = u[last - first + 1]
  BY DEF BubbleSort, SortAfter, SortOf
<1> HIDE DEF u
<1>9. \A n \in 0..L : u[n] = IF n = 0 THEN t ELSE Pass(u[n - 1], first, last - n + 1)
  BY <1>7 DEF SortOf
<1> QED BY <1>8, <1>9 DEF u

LEMMA SortStep ==
  ASSUME NEW X, NEW s \in Seq(X), NEW t \in StableReorderings(s), NEW first \in 1..Len(s),
         NEW last \in first..Len(s), NEW m \in first..last,
         NEW u, Settled(s, t, first, m + 1, last, u), NEW v, Passed(s, u, first, m, v)
  PROVE  Settled(s, t, first, m, last, v)
<1>1. Len(s) \in Nat /\ first \in Int /\ last \in Int /\ m \in Int /\ first..last \subseteq 1..Len(s)
  BY LenProperties
<1>2. /\ v \in StableReorderings(s)
      /\ \A i \in 1..Len(s) : i \notin first..m => v[i] = u[i]
      /\ \A i \in first..m : \E k \in first..m : v[i] = u[k]
      /\ \A i \in first..m : Class(v[i]) <= Class(v[m])
  BY DEF Passed
<1>3. /\ \A i \in 1..Len(s) : i \notin first..last => u[i] = t[i]
      /\ \A j \in (m + 1)..last : \A i \in first..j : Class(u[i]) <= Class(u[j])
  BY DEF Settled
<1>4. ASSUME NEW i \in 1..Len(s), i \notin first..last PROVE v[i] = t[i]
  <2>1. i \notin first..m
    BY <1>1, <1>4
  <2> QED BY <1>2, <1>3, <1>4, <2>1
<1>5. ASSUME NEW j \in m..last, NEW i \in first..j PROVE Class(v[i]) <= Class(v[j])
  <2>1. CASE j = m
    BY <1>2, <2>1
  <2>2. CASE j # m
    <3>1. j \in (m + 1)..last /\ j \in 1..Len(s) /\ j \notin first..m
      BY <1>1, <2>2
    <3>2. v[j] = u[j]
      BY <1>2, <3>1
    <3>3. CASE i \in first..m
      <4>1. PICK k \in first..m : v[i] = u[k]
        BY <1>2, <3>3
      <4>2. k \in first..j
        BY <1>1, <3>1
      <4> QED BY <1>3, <3>1, <3>2, <4>1, <4>2
    <3>4. CASE i \notin first..m
      <4>1. i \in 1..Len(s)
        BY <1>1
      <4>2. v[i] = u[i]
        BY <1>2, <3>4, <4>1
      <4> QED BY <1>3, <3>1, <3>2, <4>2
    <3> QED BY <3>3, <3>4
  <2> QED BY <2>1, <2>2
<1> QED BY <1>2, <1>4, <1>5 DEF Settled

\* The bubble sort of a run orders it by class and leaves the rest alone.
LEMMA BubbleSorts ==
  ASSUME NEW X, NEW s \in Seq(X), NEW t \in StableReorderings(s),
         NEW first \in 1..Len(s), NEW last \in first..Len(s), \A i \in first..last : Class(s[i]) # 0
  PROVE  Settled(s, t, first, first, last, BubbleSort(t, first, last))
<1> DEFINE u == SortAfter(t, first, last)
           L == last - first + 1
           S == {n \in 0..L : Settled(s, t, first, last - n + 1, last, u[n])}
<1>1. Len(s) \in Nat /\ first \in Int /\ last \in Int /\ L \in Nat
  BY LenProperties
<1>2. /\ BubbleSort(t, first, last) = u[L]
      /\ \A n \in 0..L : u[n] = IF n = 0 THEN t ELSE Pass(u[n - 1], first, last - n + 1)
  BY SortUnfolds
<1> HIDE DEF u
<1>3. 0 \in S
  <2>1. u[0] = t /\ 0 \in 0..L
    BY <1>1, <1>2
  <2>2. (last - 0 + 1)..last = {}
    BY <1>1
  <2>3. Settled(s, t, first, last - 0 + 1, last, t)
    BY <2>2 DEF Settled
  <2> QED BY <2>1, <2>3
<1>4. ASSUME NEW n \in 0..(L - 1), n \in S PROVE n + 1 \in S
  <2> DEFINE m == last - n
  <2>1. /\ m \in first..last /\ m \in first..Len(s) /\ last - n + 1 = m + 1 /\ last - (n + 1) + 1 = m
        /\ n + 1 \in 0..L /\ n + 1 # 0 /\ (n + 1) - 1 = n /\ \A i \in first..m : Class(s[i]) # 0
    BY <1>1
  <2> HIDE DEF m
  <2>2. Settled(s, t, first, m + 1, last, u[n])
    BY <1>4, <2>1
  <2>3. u[n + 1] = Pass(u[n], first, m)
    BY <1>2, <2>1
  <2>4. u[n] \in StableReorderings(s)
    BY <2>2 DEF Settled
  <2>5. Passed(s, u[n], first, m, u[n + 1])
    BY <2>1, <2>3, <2>4, PassProperties
  <2>6. Settled(s, t, first, m, last, u[n + 1])
    BY <2>1, <2>2, <2>5, SortStep
  <2> QED BY <2>1, <2>6
<1>5. 0..L \subseteq S
  <2> HIDE DEF S, L
  <2> QED BY <1>1, <1>3, <1>4, InductionOnInterval
<1>6. L \in S /\ last - L + 1 = first
  BY <1>1, <1>5
<1> QED BY <1>2, <1>6

-----------------------------------------------------------------------------
(* The runs of marks.                                                      *)

\* The run of marks that ends at position i has one beginning.
LEMMA RunStarts ==
  ASSUME NEW X, NEW s \in Seq(X), NEW i \in 1..Len(s), Class(s[i]) # 0
  PROVE  /\ RunStart(s, i) \in 1..i
         /\ \A k \in RunStart(s, i)..i : Class(s[k]) # 0
         /\ RunStart(s, i) = 1 \/ Class(s[RunStart(s, i) - 1]) = 0
<1> DEFINE Starts(a, k) == /\ \A m \in a..k : Class(s[m]) # 0
                           /\ a = 1 \/ Class(s[a - 1]) = 0
           S == {k \in 1..i : Class(s[k]) # 0 => \E a \in 1..k : Starts(a, k)}
<1>1. Len(s) \in Nat /\ i \in Int /\ i \in 1..i
  BY LenProperties
<1>2. 1 \in S
  <2>1. \A m \in 1..1 : m = 1
    OBVIOUS
  <2>2. Class(s[1]) # 0 => Starts(1, 1)
    BY <2>1
  <2>3. 1 \in 1..1 /\ 1 \in 1..i
    BY <1>1
  <2> HIDE DEF Starts
  <2> QED BY <2>2, <2>3
<1>3. ASSUME NEW k \in 1..(i - 1), k \in S PROVE k + 1 \in S
  <2> SUFFICES ASSUME Class(s[k + 1]) # 0 PROVE \E a \in 1..(k + 1) : Starts(a, k + 1)
    BY <1>1
  <2>1. CASE Class(s[k]) = 0
    <3>1. \A m \in (k + 1)..(k + 1) : m = k + 1
      OBVIOUS
    <3>2. Starts(k + 1, k + 1)
      BY <2>1, <3>1
    <3>3. k + 1 \in 1..(k + 1)
      OBVIOUS
    <3> HIDE DEF Starts
    <3> QED BY <3>2, <3>3
  <2>2. CASE Class(s[k]) # 0
    <3>1. PICK a \in 1..k : Starts(a, k)
      BY <1>3, <2>2
    <3>2. \A m \in a..(k + 1) : m \in a..k \/ m = k + 1
      OBVIOUS
    <3>3. Starts(a, k + 1)
      BY <3>1, <3>2
    <3>4. a \in 1..(k + 1)
      OBVIOUS
    <3> HIDE DEF Starts
    <3> QED BY <3>3, <3>4
  <2> QED BY <2>1, <2>2
<1>4. 1..i \subseteq S
  <2> HIDE DEF S
  <2> QED BY <1>1, <1>2, <1>3, InductionOnInterval
<1>5. \E a \in 1..i : Starts(a, i)
  BY <1>1, <1>4
<1>6. RunStart(s, i) = CHOOSE a \in 1..i : Starts(a, i)
  BY DEF RunStart, Class
<1> QED BY <1>5, <1>6

LEMMA RunStartIsTheOnly ==
  ASSUME NEW X, NEW s \in Seq(X), NEW i \in 1..Len(s), Class(s[i]) # 0,
         NEW a \in 1..i, \A k \in a..i : Class(s[k]) # 0, a = 1 \/ Class(s[a - 1]) = 0
  PROVE  RunStart(s, i) = a
<1> DEFINE b == RunStart(s, i)
<1>1. Len(s) \in Nat /\ i \in Int
  BY LenProperties
<1>2. b \in 1..i /\ (\A k \in b..i : Class(s[k]) # 0) /\ (b = 1 \/ Class(s[b - 1]) = 0)
  BY RunStarts
<1> HIDE DEF b
<1>3. ~ (a < b)
  <2> SUFFICES ASSUME a < b PROVE FALSE
    OBVIOUS
  <2>1. b - 1 \in a..i /\ b # 1
    BY <1>1, <1>2
  <2> QED BY <1>2, <2>1
<1>4. ~ (b < a)
  <2> SUFFICES ASSUME b < a PROVE FALSE
    OBVIOUS
  <2>1. a - 1 \in b..i /\ a # 1
    BY <1>1, <1>2
  <2> QED BY <1>2, <2>1
<1> QED BY <1>1, <1>2, <1>3, <1>4 DEF b

-----------------------------------------------------------------------------
(* The canonical ordering.                                                 *)

\* The equation of the local function of canonicalOrder, and the function.
OrderOf(f, s) ==
  [i \in 0..Len(s) |->
    IF i = 0 THEN s
    ELSE IF EndsRun(s, i) THEN BubbleSort(f[i - 1], RunStart(s, i), i) ELSE f[i - 1]]
OrderUpto(s) == CHOOSE f : f = OrderOf(f, s)

Ascending(u, first, last) == \A j \in first..last : \A i \in first..j : Class(u[i]) <= Class(u[j])

LEMMA RunIsSorted ==
  ASSUME NEW X, NEW s \in Seq(X), NEW i \in 1..Len(s), EndsRun(s, i), NEW t \in StableReorderings(s)
  PROVE  Settled(s, t, RunStart(s, i), RunStart(s, i), i, BubbleSort(t, RunStart(s, i), i))
<1>1. Class(s[i]) # 0
  BY DEF EndsRun, Class
<1>2. Len(s) \in Nat
  BY LenProperties
<1> DEFINE a == RunStart(s, i)
<1>3. a \in 1..i /\ \A k \in a..i : Class(s[k]) # 0
  BY <1>1, RunStarts
<1> HIDE DEF a
<1>4. a \in 1..Len(s) /\ i \in a..Len(s)
  BY <1>2, <1>3
<1>5. Settled(s, t, a, a, i, BubbleSort(t, a, i))
  BY <1>3, <1>4, BubbleSorts
<1> QED BY <1>5 DEF a

LEMMA OrderUnfolds ==
  ASSUME NEW X, NEW s \in Seq(X)
  PROVE  /\ canonicalOrder(s) = OrderUpto(s)[Len(s)]
         /\ \A i \in 0..Len(s) :
              OrderUpto(s)[i] =
                IF i = 0 THEN s
                ELSE IF EndsRun(s, i) THEN BubbleSort(OrderUpto(s)[i - 1], RunStart(s, i), i)
                ELSE OrderUpto(s)[i - 1]
<1> DEFINE L == Len(s)
           R == StableReorderings(s)
           Step(i, u) == IF EndsRun(s, i) THEN BubbleSort(u, RunStart(s, i), i) ELSE u
           F == [e \in (1..L) \X R |-> Step(e[1], e[2])]
<1>1. L \in Nat /\ L \in Int
  BY LenProperties
<1>2. \A i \in 1..L, u \in R : F[<<i, u>>] = Step(i, u)
  OBVIOUS
<1>3. ASSUME NEW i \in 1..L, NEW u \in R PROVE Step(i, u) \in R
  BY RunIsSorted DEF Settled
<1> HIDE DEF Step
<1>4. \E f : Solves(f, 0, L, R, s, F)
  <2>1. F \in [(1..L) \X R -> R] /\ s \in R
    BY <1>3, TextIsRearranged
  <2>2. 0 \in Int /\ 1 \in Int /\ 1 = 0 + 1
    OBVIOUS
  <2> HIDE DEF F, R, L
  <2> QED BY <1>1, <2>1, <2>2, RecursionExists
<1> HIDE DEF F, R
<1>5. PICK f \in [0..L -> R] : Solves(f, 0, L, R, s, F)
  BY <1>4 DEF Solves
<1>6. f = OrderOf(f, s)
  <2>1. ASSUME NEW i \in 0..L
        PROVE  f[i] = IF i = 0 THEN s ELSE Step(i, f[i - 1])
    <3>1. f[i] = IF i = 0 THEN s ELSE F[<<i, f[i - 1]>>]
      BY <1>5 DEF Solves
    <3>2. i # 0 => i \in 1..L /\ f[i - 1] \in R
      BY <1>1
    <3> QED BY <1>2, <3>1, <3>2
  <2>2. f = [i \in 0..L |-> f[i]]
    OBVIOUS
  <2> QED BY <2>1, <2>2 DEF OrderOf, Step
<1> DEFINE u == OrderUpto(s)
<1>7. u = OrderOf(u, s)
  BY <1>6 DEF OrderUpto
<1>8. canonicalOrder(s) = u[Len(s)]
  BY DEF canonicalOrder, OrderUpto, OrderOf
<1> HIDE DEF u
<1>9. \A i \in 0..L : u[i] = IF i = 0 THEN s
                             ELSE IF EndsRun(s, i) THEN BubbleSort(u[i - 1], RunStart(s, i), i)
                             ELSE u[i - 1]
  BY <1>7 DEF OrderOf
<1> QED BY <1>8, <1>9 DEF u

\* Every run of marks is in the order of the classes, and a mark overtook only
\* marks of a higher class of its run.
LEMMA OrderProperties ==
  ASSUME NEW X, NEW s \in Seq(X)
  PROVE  /\ canonicalOrder(s) \in StableReorderings(s)
         /\ \A i \in 1..Len(s) : EndsRun(s, i) => Ascending(canonicalOrder(s), RunStart(s, i), i)
<1> DEFINE u == OrderUpto(s)
           L == Len(s)
           Done(i) == /\ u[i] \in StableReorderings(s)
                      /\ \A b \in 1..i : EndsRun(s, b) => Ascending(u[i], RunStart(s, b), b)
           S == {i \in 0..L : Done(i)}
<1>1. L \in Nat /\ 0 \in 0..L /\ L \in 0..L
  BY LenProperties
<1>2. /\ canonicalOrder(s) = u[L]
      /\ \A i \in 0..L : u[i] = IF i = 0 THEN s
                                ELSE IF EndsRun(s, i) THEN BubbleSort(u[i - 1], RunStart(s, i), i)
                                ELSE u[i - 1]
  BY OrderUnfolds
<1> HIDE DEF u
<1>3. 0 \in S
  BY <1>1, <1>2, TextIsRearranged
<1>4. ASSUME NEW i \in 0..(L - 1), i \in S PROVE i + 1 \in S
  <2>1. i + 1 \in 0..L /\ i + 1 \in 1..L /\ i + 1 # 0 /\ (i + 1) - 1 = i
    BY <1>1
  <2>2. u[i] \in StableReorderings(s) /\ \A b \in 1..i : EndsRun(s, b) => Ascending(u[i], RunStart(s, b), b)
    BY <1>4
  <2>3. CASE ~ EndsRun(s, i + 1)
    <3>1. u[i + 1] = u[i]
      BY <1>2, <2>1, <2>3
    <3>2. \A b \in 1..(i + 1) : b \in 1..i \/ b = i + 1
      BY <2>1
    <3> QED BY <2>1, <2>2, <2>3, <3>1, <3>2
  <2>4. CASE EndsRun(s, i + 1)
    <3> DEFINE a == RunStart(s, i + 1)
    <3>1. u[i + 1] = BubbleSort(u[i], a, i + 1)
      BY <1>2, <2>1, <2>4
    <3>2. Settled(s, u[i], a, a, i + 1, u[i + 1])
      BY <2>1, <2>2, <2>4, <3>1, RunIsSorted
    <3>3. /\ u[i + 1] \in StableReorderings(s)
          /\ \A k \in 1..L : k \notin a..(i + 1) => u[i + 1][k] = u[i][k]
          /\ Ascending(u[i + 1], a, i + 1)
      BY <3>2 DEF Settled, Ascending
    <3>4. a \in 1..(i + 1) /\ \A k \in a..(i + 1) : Class(s[k]) # 0
      BY <2>1, <2>4, RunStarts DEF EndsRun, Class
    <3>5. ASSUME NEW b \in 1..i, EndsRun(s, b) PROVE Ascending(u[i + 1], RunStart(s, b), b)
      <4> DEFINE c == RunStart(s, b)
      <4>1. b \in 1..L /\ b + 1 \in 1..(i + 1) /\ b # L
        BY <1>1
      <4>2. Class(s[b]) # 0 /\ Class(s[b + 1]) = 0
        BY <3>5, <4>1 DEF EndsRun, Class
      <4>3. b < a
        <5>1. b + 1 \notin a..(i + 1)
          BY <3>4, <4>2
        <5> QED BY <3>4, <4>1, <5>1
      <4>4. c \in 1..b
        BY <4>1, <4>2, RunStarts
      <4>5. Ascending(u[i], c, b)
        BY <2>2, <3>5
      <4> HIDE DEF a, c
      <4>6. \A k \in c..b : u[i + 1][k] = u[i][k]
        <5>1. \A k \in c..b : k \in 1..L /\ k \notin a..(i + 1)
          BY <3>4, <4>1, <4>3, <4>4
        <5> QED BY <3>3, <5>1
      <4>7. \A j \in c..b : \A k \in c..j : k \in c..b
        BY <4>1, <4>4
      <4>8. Ascending(u[i + 1], c, b)
        BY <4>5, <4>6, <4>7 DEF Ascending
      <4> QED BY <4>8 DEF c
    <3>6. \A b \in 1..(i + 1) : b \in 1..i \/ b = i + 1
      BY <2>1
    <3> QED BY <2>1, <3>3, <3>5, <3>6
  <2> QED BY <2>3, <2>4
<1>5. 0..L \subseteq S
  <2> HIDE DEF S, L
  <2> QED BY <1>1, <1>3, <1>4, InductionOnInterval
<1>6. Done(L)
  BY <1>1, <1>5
<1> QED BY <1>2, <1>6

-----------------------------------------------------------------------------
(* The rank of a mark.                                                     *)

\* A maximal run of marks.
IsRun(s, first, last) ==
  /\ first \in 1..Len(s) /\ last \in first..Len(s) /\ \A k \in first..last : Class(s[k]) # 0
  /\ first = 1 \/ Class(s[first - 1]) = 0
  /\ last = Len(s) \/ Class(s[last + 1]) = 0

\* An order permutes every run of marks.
LEMMA RunIsPermuted ==
  ASSUME NEW X, NEW s \in Seq(X), NEW p \in StableOrders(s),
         NEW first, NEW last, IsRun(s, first, last)
  PROVE  /\ \A k \in first..last : p[k] \in first..last
         /\ \A i \in first..last : \E j \in first..last : p[j] = i
<1>1. Len(s) \in Nat /\ first \in Int /\ last \in Int
  BY LenProperties DEF IsRun
<1>2. /\ first \in 1..Len(s) /\ last \in first..Len(s) /\ \A k \in first..last : Class(s[k]) # 0
      /\ first = 1 \/ Class(s[first - 1]) = 0
      /\ last = Len(s) \/ Class(s[last + 1]) = 0
  BY DEF IsRun
<1>3. /\ p \in [1..Len(s) -> 1..Len(s)]
      /\ \A k, m \in 1..Len(s) : p[k] = p[m] => k = m
      /\ \A k, m \in 1..Len(s) : Class(s[m]) = 0 =>
           /\ k < m => p[k] < m
           /\ k = m => p[k] = m
           /\ m < k => m < p[k]
      /\ \A k, m \in 1..Len(s) : k < m /\ Class(s[p[k]]) = Class(s[p[m]]) => p[k] < p[m]
  BY DEF StableOrders
<1>4. \A k \in first..last : k \in 1..Len(s)
  BY <1>1, <1>2
<1> DEFINE q == [k \in first..last |-> p[k]]
<1>5. ASSUME NEW k \in first..last PROVE p[k] \in first..last
  <2>0. k \in 1..Len(s) /\ first <= k /\ k <= last
    BY <1>1, <1>4
  <2>1. p[k] \in 1..Len(s) /\ k \in 1..Len(s) /\ first <= k /\ k <= last
    BY <1>3, <2>0
  <2>2. first <= p[k]
    <3>1. CASE first = 1
      BY <2>1, <3>1
    <3>2. CASE first # 1
      <4>1. first - 1 \in 1..Len(s) /\ first - 1 < k /\ Class(s[first - 1]) = 0
        BY <1>1, <1>2, <2>1, <3>2
      <4>2. first - 1 < p[k]
        BY <1>3, <2>1, <4>1
      <4> QED BY <1>1, <2>1, <4>2
    <3> QED BY <3>1, <3>2
  <2>3. p[k] <= last
    <3>1. CASE last = Len(s)
      BY <2>1, <3>1
    <3>2. CASE last # Len(s)
      <4>1. last + 1 \in 1..Len(s) /\ k < last + 1 /\ Class(s[last + 1]) = 0
        BY <1>1, <1>2, <2>1, <3>2
      <4>2. p[k] < last + 1
        BY <1>3, <2>1, <4>1
      <4> QED BY <1>1, <2>1, <4>2
    <3> QED BY <3>1, <3>2
  <2> QED BY <1>1, <2>1, <2>2, <2>3
<1>6. q \in [first..last -> first..last] /\ \A k \in first..last : q[k] = p[k]
  BY <1>5
<1> HIDE DEF q
<1>7. q \in Injection(first..last, first..last)
  <2>1. \A k, m \in first..last : q[k] = q[m] => k = m
    <3> SUFFICES ASSUME NEW k \in first..last, NEW m \in first..last, q[k] = q[m] PROVE k = m
      OBVIOUS
    <3>1. k \in 1..Len(s) /\ m \in 1..Len(s)
      BY <1>4
    <3>2. p[k] = p[m]
      BY <1>6
    <3> QED BY <1>3, <3>1, <3>2
  <2> DEFINE I == first..last
  <2>2. q \in [I -> I] /\ \A k, m \in I : q[k] = q[m] => k = m
    BY <1>6, <2>1
  <2> HIDE DEF I
  <2>3. q \in Injection(I, I)
    BY <2>2 DEF Injection, IsInjective
  <2> QED BY <2>3 DEF I
<1>8. q \in Surjection(first..last, first..last)
  <2> DEFINE I == first..last
  <2>1. IsFiniteSet(I)
    BY <1>1, FS_Interval
  <2> HIDE DEF I
  <2>2. q \in Injection(I, I) => q \in Surjection(I, I)
    BY <2>1, FS_Injection
  <2> QED BY <1>7, <2>2 DEF I
<1> QED BY <1>5, <1>6, <1>8 DEF Surjection

\* If the order sorts the run, it takes each mark to its rank.
LEMMA RankOfSorted ==
  ASSUME NEW X, NEW s \in Seq(X), NEW p \in StableOrders(s),
         NEW first, NEW last, IsRun(s, first, last),
         NEW t, t = [k \in 1..Len(s) |-> s[p[k]]], Ascending(t, first, last), NEW j \in first..last
  PROVE  StableRank(s, <<first, last>>, p[j]) = j
<1>1. Len(s) \in Nat /\ first \in Int /\ last \in Int
  BY LenProperties DEF IsRun
<1>2. /\ first \in 1..Len(s) /\ last \in first..Len(s) /\ \A k \in first..last : Class(s[k]) # 0
      /\ first = 1 \/ Class(s[first - 1]) = 0
      /\ last = Len(s) \/ Class(s[last + 1]) = 0
  BY DEF IsRun
<1>3. /\ p \in [1..Len(s) -> 1..Len(s)]
      /\ \A k, m \in 1..Len(s) : p[k] = p[m] => k = m
      /\ \A k, m \in 1..Len(s) : Class(s[m]) = 0 =>
           /\ k < m => p[k] < m
           /\ k = m => p[k] = m
           /\ m < k => m < p[k]
      /\ \A k, m \in 1..Len(s) : k < m /\ Class(s[p[k]]) = Class(s[p[m]]) => p[k] < p[m]
  BY DEF StableOrders
<1>4. \A k \in first..last : k \in 1..Len(s) /\ t[k] = s[p[k]]
  BY <1>1, <1>2
<1>5. /\ \A k \in first..last : p[k] \in first..last
      /\ \A i \in first..last : \E k \in first..last : p[k] = i
  BY RunIsPermuted
<1> DEFINE i == p[j]
<1>9. p[j] = i /\ i \in first..last /\ i \in Int
  BY <1>1, <1>5
<1> HIDE DEF i
<1> DEFINE lower == {k \in first..last : \/ combiningClass(s[k]) < combiningClass(s[i])
                                         \/ combiningClass(s[k]) = combiningClass(s[i]) /\ k < i}
<1>10. ASSUME NEW k \in first..last PROVE p[k] \in lower <=> k < j
  <2>1. /\ k \in 1..Len(s) /\ j \in 1..Len(s) /\ k \in Int /\ j \in Int
        /\ p[k] \in first..last /\ p[k] \in Int
    <3>1. p[k] \in first..last
      BY <1>5
    <3>2. k \in 1..Len(s) /\ j \in 1..Len(s)
      BY <1>4
    <3>3. k \in Int /\ j \in Int /\ p[k] \in Int
      BY <1>1, <3>1
    <3> QED BY <3>1, <3>2, <3>3
  <2>2. /\ Class(s[p[k]]) \in Nat /\ Class(s[i]) \in Nat
        /\ t[k] = s[p[k]] /\ t[j] = s[i]
    BY <1>4, <1>9, ClassType
  <2>3. p[k] \in lower <=> \/ Class(s[p[k]]) < Class(s[i])
                           \/ Class(s[p[k]]) = Class(s[i]) /\ p[k] < i
    BY <2>1 DEF Class
  <2>4. CASE k < j
    <3>1. k \in first..j
      BY <2>1, <2>4
    <3>2. Class(s[p[k]]) <= Class(s[i])
      BY <2>2, <3>1 DEF Ascending
    <3>3. p[k] # i /\ (Class(s[p[k]]) = Class(s[i]) => p[k] < i)
      BY <1>3, <1>9, <2>1, <2>4
    <3> QED BY <1>9, <2>1, <2>2, <2>3, <2>4, <3>2, <3>3
  <2>5. CASE j < k
    <3>1. j \in first..k
      BY <2>1, <2>5
    <3>2. Class(s[i]) <= Class(s[p[k]])
      BY <2>2, <3>1 DEF Ascending
    <3>3. Class(s[p[k]]) = Class(s[i]) => i < p[k]
      BY <1>3, <1>9, <2>1, <2>5
    <3> QED BY <1>9, <2>1, <2>2, <2>3, <2>5, <3>2, <3>3
  <2>6. CASE k = j
    <3>1. p[k] = i /\ ~ (k < j)
      BY <1>9, <2>1, <2>6
    <3> QED BY <1>1, <2>2, <2>3, <3>1
  <2>7. k < j \/ j < k \/ k = j
    BY <2>1
  <2> QED BY <2>4, <2>5, <2>6, <2>7
<1> DEFINE r == [k \in first..(j - 1) |-> p[k]]
<1>11. Cardinality(lower) = j - first
  <2>1. j \in Int /\ first <= j /\ j <= last
    BY <1>1
  <2>2. \A k \in first..(j - 1) : k \in first..last /\ k < j /\ r[k] = p[k]
    BY <1>1, <2>1
  <2>3. r \in [first..(j - 1) -> lower]
    BY <1>10, <2>2
  <2> HIDE DEF r
  <2>4. r \in Injection(first..(j - 1), lower)
    BY <1>3, <1>4, <2>2, <2>3 DEF Injection, IsInjective
  <2>5. ASSUME NEW m \in lower PROVE \E k \in first..(j - 1) : r[k] = m
    <3>1. m \in first..last
      OBVIOUS
    <3>2. PICK k \in first..last : p[k] = m
      BY <1>5, <3>1
    <3>3. k < j
      BY <1>10, <3>2
    <3>4. k \in first..(j - 1)
      BY <1>1, <2>1, <3>3
    <3> QED BY <2>2, <3>2, <3>4
  <2> HIDE DEF lower
  <2>6. r \in Bijection(first..(j - 1), lower)
    BY <2>3, <2>4, <2>5 DEF Bijection, Surjection
  <2>7. IsFiniteSet(first..(j - 1)) /\ Cardinality(first..(j - 1)) = j - first
    <3> DEFINE e == j - 1
    <3>1. e \in Int /\ (IF first > e THEN 0 ELSE e - first + 1) = j - first
      BY <1>1, <2>1
    <3> HIDE DEF e
    <3>2. IsFiniteSet(first..e) /\ Cardinality(first..e) = j - first
      BY <1>1, <3>1, FS_Interval
    <3> QED BY <3>2 DEF e
  <2>8. ExistsBijection(first..(j - 1), lower)
    BY <2>6 DEF ExistsBijection
  <2> QED BY <2>7, <2>8, FS_Bijection
<1>12. StableRank(s, <<first, last>>, i) = j
  <2>1. StableRank(s, <<first, last>>, i) = first + Cardinality(lower)
    BY DEF StableRank
  <2> HIDE DEF lower
  <2> QED BY <1>1, <1>11, <2>1
<1> QED BY <1>12 DEF i

\* In a rearrangement that is sorted on a run, each mark of the run is at its
\* rank.
LEMMA SortedIsRanked ==
  ASSUME NEW X, NEW s \in Seq(X), NEW t \in StableReorderings(s),
         NEW first, NEW last, IsRun(s, first, last),
         Ascending(t, first, last), NEW i \in first..last
  PROVE  t[StableRank(s, <<first, last>>, i)] = s[i]
<1>1. ASSUME NEW p \in StableOrders(s), t = [k \in 1..Len(s) |-> s[p[k]]]
      PROVE  t[StableRank(s, <<first, last>>, i)] = s[i]
  <2>1. /\ \A k \in first..last : p[k] \in first..last
        /\ \A m \in first..last : \E j \in first..last : p[j] = m
    BY RunIsPermuted
  <2>2. PICK j \in first..last : p[j] = i
    BY <2>1
  <2>3. StableRank(s, <<first, last>>, i) = j
    BY <1>1, <2>2, RankOfSorted
  <2>4. j \in 1..Len(s)
    BY LenProperties DEF IsRun
  <2> QED BY <1>1, <2>2, <2>3, <2>4
<1> QED BY <1>1 DEF StableReorderings

\* Whatever the text, canonicalOrder is a stable sort of each run of marks.
LEMMA OrderSorts ==
  ASSUME NEW X, NEW s \in Seq(X)
  PROVE  /\ Len(canonicalOrder(s)) = Len(s)
         /\ \A run \in MarkRuns(s) : \A i \in run[1]..run[2] :
              canonicalOrder(s)[StableRank(s, run, i)] = s[i]
         /\ \A i \in DOMAIN s : combiningClass(s[i]) = 0 => canonicalOrder(s)[i] = s[i]
<1> DEFINE t == canonicalOrder(s)
<1>1. Len(s) \in Nat /\ DOMAIN s = 1..Len(s)
  BY LenProperties
<1>2. /\ t \in StableReorderings(s)
      /\ \A i \in 1..Len(s) : EndsRun(s, i) => Ascending(t, RunStart(s, i), i)
  BY OrderProperties
<1> HIDE DEF t
<1>3. Len(t) = Len(s)
  BY <1>2, RearrangedIsText
<1>4. \A i \in DOMAIN s : combiningClass(s[i]) = 0 => t[i] = s[i]
  BY <1>1, <1>2, SameStarters DEF Class
<1>5. ASSUME NEW run \in MarkRuns(s), NEW i \in run[1]..run[2]
      PROVE  t[StableRank(s, run, i)] = s[i]
  <2> DEFINE first == run[1]
             last == run[2]
  <2>1. /\ run = <<first, last>> /\ first \in 1..Len(s) /\ last \in 1..Len(s) /\ first <= last
        /\ \A k \in first..last : k \in 1..Len(s) /\ Class(s[k]) # 0
        /\ ~ (first - 1 \in 1..Len(s) /\ Class(s[first - 1]) # 0)
        /\ ~ (last + 1 \in 1..Len(s) /\ Class(s[last + 1]) # 0)
    BY <1>1 DEF MarkRuns, Class
  <2> HIDE DEF first, last
  <2>2. /\ first = 1 \/ Class(s[first - 1]) = 0
        /\ last = Len(s) \/ Class(s[last + 1]) = 0
        /\ last \in first..Len(s) /\ first \in 1..last /\ last \in first..last
    <3>1. first \in Int /\ last \in Int /\ 1 <= first /\ last <= Len(s)
      BY <1>1, <2>1
    <3>2. first # 1 => first - 1 \in 1..Len(s)
      BY <1>1, <2>1, <3>1
    <3>3. last # Len(s) => last + 1 \in 1..Len(s)
      <4> DEFINE L == Len(s)
      <4> HIDE DEF L
      <4>1. L \in Int /\ last \in Int /\ 1 <= last /\ last <= L
        BY <1>1, <2>1, <3>1 DEF L
      <4>2. last # L => last + 1 \in 1..L
        BY ONLY <4>1
      <4> QED BY <4>2 DEF L
    <3>4. last \in first..Len(s) /\ first \in 1..last /\ last \in first..last
      BY <1>1, <2>1, <3>1
    <3> QED BY <2>1, <3>2, <3>3, <3>4
  <2>3. EndsRun(s, last)
    BY <2>1, <2>2 DEF EndsRun, Class
  <2>4. RunStart(s, last) = first
    BY <2>1, <2>2, RunStartIsTheOnly
  <2>5. Ascending(t, first, last)
    BY <1>2, <2>1, <2>3, <2>4
  <2>6. t[StableRank(s, <<first, last>>, i)] = s[i]
    <3>1. i \in first..last
      BY DEF first, last
    <3>2. IsRun(s, first, last)
      BY <2>1, <2>2 DEF IsRun
    <3> QED BY <1>2, <2>5, <3>1, <3>2, SortedIsRanked
  <2> QED BY <2>1, <2>6
<1> QED BY <1>3, <1>4, <1>5 DEF t

-----------------------------------------------------------------------------
(* The canonical order is the only sorted one.                             *)

\* Every run of marks is in the order of the classes.
Ordered(t) ==
  \A i, j \in 1..Len(t) : i < j /\ (\A k \in i..j : Class(t[k]) # 0) => Class(t[i]) <= Class(t[j])

LEMMA MarkHasRun ==
  ASSUME NEW X, NEW s \in Seq(X), NEW k \in 1..Len(s), Class(s[k]) # 0
  PROVE  \E first, last \in 1..Len(s) : IsRun(s, first, last) /\ k \in first..last
<1> DEFINE L == Len(s)
           Ends(m, e) == (\A i \in m..e : Class(s[i]) # 0) /\ (e = L \/ Class(s[e + 1]) = 0)
           S == {n \in 0..(L - 1) : Class(s[L - n]) # 0 => \E e \in (L - n)..L : Ends(L - n, e)}
<1>1. L \in Nat /\ k \in Int /\ 1 <= k /\ k <= L
  BY LenProperties
<1>2. 0 \in S
  <2>1. \A i \in L..L : i = L
    BY <1>1
  <2>2. Class(s[L]) # 0 => Ends(L, L)
    BY <2>1
  <2>3. 0 \in 0..(L - 1) /\ L - 0 = L /\ L \in L..L
    BY <1>1
  <2> HIDE DEF Ends
  <2> QED BY <2>2, <2>3
<1>3. ASSUME NEW n \in 0..((L - 1) - 1), n \in S PROVE n + 1 \in S
  <2> DEFINE m == L - (n + 1)
  <2>1. m \in 1..L /\ m + 1 = L - n /\ m + 1 \in 1..L /\ n + 1 \in 0..(L - 1)
    BY <1>1
  <2> HIDE DEF m
  <2> SUFFICES ASSUME Class(s[m]) # 0 PROVE \E e \in m..L : Ends(m, e)
    BY <2>1 DEF m
  <2>2. CASE Class(s[m + 1]) = 0
    <3>1. \A i \in m..m : i = m
      BY <2>1
    <3>2. Ends(m, m) /\ m \in m..L
      BY <1>1, <2>1, <2>2, <3>1
    <3> HIDE DEF Ends
    <3> QED BY <3>2
  <2>3. CASE Class(s[m + 1]) # 0
    <3>1. PICK e \in (m + 1)..L : Ends(m + 1, e)
      BY <1>3, <2>1, <2>3
    <3>2. e \in m..L /\ \A i \in m..e : i = m \/ i \in (m + 1)..e
      BY <1>1, <2>1
    <3>3. Ends(m, e)
      BY <3>1, <3>2
    <3> HIDE DEF Ends
    <3> QED BY <3>2, <3>3
  <2> QED BY <2>2, <2>3
<1>4. 0..(L - 1) \subseteq S
  <2>1. 0 \in Int /\ L - 1 \in Int
    BY <1>1
  <2> HIDE DEF S
  <2> QED BY <1>2, <1>3, <2>1, InductionOnInterval
<1>5. \E e \in k..L : Ends(k, e)
  <2>1. L - k \in 0..(L - 1) /\ L - (L - k) = k
    BY <1>1
  <2>2. L - k \in S
    <3> HIDE DEF S
    <3> QED BY <1>4, <2>1
  <2> HIDE DEF Ends
  <2> QED BY <2>1, <2>2
<1>6. PICK e \in k..L : Ends(k, e)
  BY <1>5
<1> DEFINE a == RunStart(s, k)
<1>7. a \in 1..k /\ (\A i \in a..k : Class(s[i]) # 0) /\ (a = 1 \/ Class(s[a - 1]) = 0)
  BY RunStarts
<1> HIDE DEF a
<1>8. a \in 1..L /\ e \in a..L /\ k \in a..e /\ e \in 1..L /\ \A i \in a..e : i \in a..k \/ i \in k..e
  BY <1>1, <1>7
<1>9. \A i \in a..e : Class(s[i]) # 0
  BY <1>6, <1>7, <1>8
<1>10. IsRun(s, a, e)
  BY <1>6, <1>7, <1>8, <1>9 DEF IsRun
<1> QED BY <1>8, <1>10

LEMMA OrderedRunsAscend ==
  ASSUME NEW X, NEW s \in Seq(X), NEW t \in StableReorderings(s), Ordered(t),
         NEW first, NEW last, IsRun(s, first, last)
  PROVE  Ascending(t, first, last)
<1>1. /\ Len(s) \in Nat /\ first \in 1..Len(s) /\ last \in first..Len(s)
      /\ \A k \in first..last : Class(s[k]) # 0
  BY LenProperties DEF IsRun
<1>2. Len(t) = Len(s)
  BY RearrangedIsText
<1>3. \A k \in first..last : k \in 1..Len(s) /\ Class(t[k]) # 0
  <2> SUFFICES ASSUME NEW k \in first..last PROVE k \in 1..Len(s) /\ Class(t[k]) # 0
    OBVIOUS
  <2>1. k \in 1..Len(s)
    BY <1>1
  <2> QED BY <1>1, <2>1, SameStarters
<1>4. ASSUME NEW j \in first..last, NEW i \in first..j PROVE Class(t[i]) <= Class(t[j])
  <2>1. CASE i = j
    BY <2>1, ClassType
  <2>2. CASE i # j
    <3>1. i < j /\ i \in first..last /\ \A k \in i..j : k \in first..last
      BY <1>1, <2>2
    <3>2. i \in 1..Len(t) /\ j \in 1..Len(t) /\ \A k \in i..j : Class(t[k]) # 0
      BY <1>2, <1>3, <3>1
    <3> QED BY <3>1, <3>2 DEF Ordered
  <2> QED BY <2>1, <2>2
<1> QED BY <1>4 DEF Ascending

\* A text has one ordered rearrangement.
LEMMA OrderedIsUnique ==
  ASSUME NEW X, NEW s \in Seq(X), NEW t \in StableReorderings(s), Ordered(t),
         NEW v \in StableReorderings(s), Ordered(v)
  PROVE  t = v
<1>1. Len(s) \in Nat
  BY LenProperties
<1>2. ASSUME NEW k \in 1..Len(s) PROVE t[k] = v[k]
  <2>1. CASE Class(s[k]) = 0
    BY <2>1, SameStarters
  <2>2. CASE Class(s[k]) # 0
    <3>1. PICK first, last \in 1..Len(s) : IsRun(s, first, last) /\ k \in first..last
      BY <2>2, MarkHasRun
    <3>2. Ascending(t, first, last) /\ Ascending(v, first, last)
      BY <3>1, OrderedRunsAscend
    <3>3. ASSUME NEW p \in StableOrders(s), t = [i \in 1..Len(s) |-> s[p[i]]]
          PROVE  t[k] = v[k]
      <4>1. StableRank(s, <<first, last>>, p[k]) = k
        BY <3>1, <3>2, <3>3, RankOfSorted
      <4>2. p[k] \in first..last
        BY <3>1, RunIsPermuted
      <4>3. v[StableRank(s, <<first, last>>, p[k])] = s[p[k]]
        BY <3>1, <3>2, <4>2, SortedIsRanked
      <4> QED BY <3>3, <4>1, <4>3
    <3> QED BY <3>3 DEF StableReorderings
  <2> QED BY <2>1, <2>2
<1>3. t = [k \in 1..Len(s) |-> t[k]] /\ v = [k \in 1..Len(s) |-> v[k]]
  BY DEF StableReorderings
<1> QED BY <1>2, <1>3

LEMMA OrderIsOrdered ==
  ASSUME NEW X, NEW s \in Seq(X)
  PROVE  Ordered(canonicalOrder(s))
<1> DEFINE t == canonicalOrder(s)
<1>1. /\ t \in StableReorderings(s)
      /\ \A i \in 1..Len(s) : EndsRun(s, i) => Ascending(t, RunStart(s, i), i)
  BY OrderProperties
<1> HIDE DEF t
<1>2. Len(s) \in Nat /\ Len(t) = Len(s)
  BY <1>1, RearrangedIsText
<1>3. ASSUME NEW i \in 1..Len(s), NEW j \in 1..Len(s), i < j, \A k \in i..j : Class(t[k]) # 0
      PROVE  Class(t[i]) <= Class(t[j])
  <2>1. \A k \in i..j : k \in 1..Len(s) /\ Class(s[k]) # 0
    <3> SUFFICES ASSUME NEW k \in i..j PROVE k \in 1..Len(s) /\ Class(s[k]) # 0
      OBVIOUS
    <3>1. k \in 1..Len(s)
      BY <1>2
    <3> QED BY <1>1, <1>3, <3>1, SameStarters
  <2>2. i \in i..j
    BY <1>2, <1>3
  <2>3. PICK first, last \in 1..Len(s) : IsRun(s, first, last) /\ i \in first..last
    BY <2>1, <2>2, MarkHasRun
  <2>4. /\ first \in 1..last /\ last \in first..Len(s) /\ last \in first..last
        /\ \A k \in first..last : Class(s[k]) # 0
        /\ first = 1 \/ Class(s[first - 1]) = 0
        /\ last = Len(s) \/ Class(s[last + 1]) = 0
    BY <1>2, <2>3 DEF IsRun
  <2>5. j <= last
    <3> SUFFICES ASSUME last < j PROVE FALSE
      BY <1>2, <2>3
    <3>1. last + 1 \in i..j /\ last # Len(s)
      BY <1>2, <2>3
    <3> QED BY <2>1, <2>4, <3>1
  <2>6. j \in first..last /\ i \in first..j
    BY <1>2, <1>3, <2>3, <2>5
  <2>7. EndsRun(s, last) /\ Class(s[last]) # 0
    BY <2>4 DEF EndsRun, Class
  <2>8. RunStart(s, last) = first
    BY <2>3, <2>4, <2>7, RunStartIsTheOnly
  <2> QED BY <1>1, <2>3, <2>6, <2>7, <2>8 DEF Ascending
<1> QED BY <1>2, <1>3 DEF Ordered, t

LEMMA OrderedIsTheOrder ==
  ASSUME NEW X, NEW s \in Seq(X), NEW t \in StableReorderings(s), Ordered(t)
  PROVE  canonicalOrder(s) = t
BY OrderProperties, OrderIsOrdered, OrderedIsUnique

LEMMA OrderKeepsOrdered ==
  ASSUME NEW X, NEW s \in Seq(X), Ordered(s)
  PROVE  canonicalOrder(s) = s
BY TextIsRearranged, OrderedIsTheOrder

-----------------------------------------------------------------------------
(* Rearrangements of rearrangements.                                       *)

LEMMA ReorderTwice ==
  ASSUME NEW X, NEW s \in Seq(X), NEW t \in StableReorderings(s), NEW v \in StableReorderings(t)
  PROVE  v \in StableReorderings(s)
<1>1. t \in Seq(X) /\ Len(t) = Len(s) /\ Len(s) \in Nat
  BY RearrangedIsText
<1>2. PICK p \in StableOrders(s) : t = [k \in 1..Len(s) |-> s[p[k]]]
  BY DEF StableReorderings
<1>3. PICK q \in StableOrders(t) : v = [k \in 1..Len(s) |-> t[q[k]]]
  BY <1>1 DEF StableReorderings
<1>4. /\ p \in [1..Len(s) -> 1..Len(s)]
      /\ \A i, j \in 1..Len(s) : p[i] = p[j] => i = j
      /\ \A i, k \in 1..Len(s) : Class(s[k]) = 0 =>
           /\ i < k => p[i] < k
           /\ i = k => p[i] = k
           /\ k < i => k < p[i]
      /\ \A i, j \in 1..Len(s) : i < j /\ Class(s[p[i]]) = Class(s[p[j]]) => p[i] < p[j]
  BY DEF StableOrders
<1>5. /\ q \in [1..Len(s) -> 1..Len(s)]
      /\ \A i, j \in 1..Len(s) : q[i] = q[j] => i = j
      /\ \A i, k \in 1..Len(s) : Class(t[k]) = 0 =>
           /\ i < k => q[i] < k
           /\ i = k => q[i] = k
           /\ k < i => k < q[i]
      /\ \A i, j \in 1..Len(s) : i < j /\ Class(t[q[i]]) = Class(t[q[j]]) => q[i] < q[j]
  BY <1>1 DEF StableOrders
<1> DEFINE r == [k \in 1..Len(s) |-> p[q[k]]]
<1>6. \A k \in 1..Len(s) : q[k] \in 1..Len(s) /\ r[k] = p[q[k]] /\ t[q[k]] = s[p[q[k]]]
  BY <1>2, <1>5
<1>7. r \in [1..Len(s) -> 1..Len(s)]
  BY <1>4, <1>6
<1> HIDE DEF r
<1>8. \A i, j \in 1..Len(s) : r[i] = r[j] => i = j
  BY <1>4, <1>5, <1>6
<1>9. ASSUME NEW i \in 1..Len(s), NEW k \in 1..Len(s), Class(s[k]) = 0
      PROVE  (i < k => r[i] < k) /\ (i = k => r[i] = k) /\ (k < i => k < r[i])
  <2>1. Class(t[k]) = 0
    BY <1>9, SameStarters
  <2>2. q[i] \in 1..Len(s) /\ r[i] = p[q[i]]
    BY <1>6
  <2>3. (i < k => q[i] < k) /\ (i = k => q[i] = k) /\ (k < i => k < q[i])
    BY <1>5, <2>1
  <2>4. (q[i] < k => p[q[i]] < k) /\ (q[i] = k => p[q[i]] = k) /\ (k < q[i] => k < p[q[i]])
    BY <1>4, <1>9, <2>2
  <2> QED BY <2>2, <2>3, <2>4
<1>10. ASSUME NEW i \in 1..Len(s), NEW j \in 1..Len(s), i < j, Class(s[r[i]]) = Class(s[r[j]])
       PROVE  r[i] < r[j]
  <2>1. q[i] < q[j]
    BY <1>5, <1>6, <1>10
  <2> QED BY <1>4, <1>6, <1>10, <2>1
<1>11. r \in StableOrders(s)
  BY <1>7, <1>8, <1>9, <1>10 DEF StableOrders
<1>12. v = [k \in 1..Len(s) |-> s[r[k]]]
  BY <1>3, <1>6
<1> QED BY <1>11, <1>12 DEF StableReorderings

\* What is rearranged has the same canonical order.
LEMMA ReorderedHasTheOrder ==
  ASSUME NEW X, NEW s \in Seq(X), NEW t \in StableReorderings(s)
  PROVE  canonicalOrder(t) = canonicalOrder(s)
<1>1. t \in Seq(X)
  BY RearrangedIsText
<1>2. canonicalOrder(t) \in StableReorderings(t) /\ Ordered(canonicalOrder(t))
  BY <1>1, OrderProperties, OrderIsOrdered
<1>3. canonicalOrder(t) \in StableReorderings(s)
  BY <1>2, ReorderTwice
<1> QED BY <1>2, <1>3, OrderedIsTheOrder

LEMMA AppendIs ==
  ASSUME NEW X, NEW s \in Seq(X), NEW c
  PROVE  Append(s, c) = [i \in 1..(Len(s) + 1) |-> IF i <= Len(s) THEN s[i] ELSE c]
<1> DEFINE L == Len(s)
           Y == X \cup {c}
           g == [i \in 1..(L + 1) |-> IF i <= L THEN s[i] ELSE c]
<1>1. L \in Nat /\ L + 1 \in Nat /\ s \in Seq(Y) /\ c \in Y
  BY LenProperties, SeqMonotonic
<1>2. /\ Append(s, c) \in Seq(Y) /\ Len(Append(s, c)) = L + 1
      /\ \A i \in 1..L : Append(s, c)[i] = s[i]
      /\ Append(s, c)[L + 1] = c
  BY <1>1, AppendProperties
<1>3. \A i \in 1..(L + 1) : (IF i <= L THEN s[i] ELSE c) \in Y
  BY <1>1, ElementOfSeq
<1>4. g \in Seq(Y) /\ Len(g) = L + 1
  BY <1>1, <1>3, IsASeq
<1>5. \A i \in 1..(L + 1) : g[i] = Append(s, c)[i]
  <2>1. \A i \in 1..(L + 1) : (i \in 1..L /\ i <= L) \/ (i = L + 1 /\ ~ (i <= L))
    BY <1>1
  <2> QED BY <1>2, <2>1
<1> HIDE DEF g, L, Y
<1>6. g = Append(s, c)
  BY <1>2, <1>4, <1>5, SeqEqual
<1> QED BY <1>6 DEF g, L

LEMMA AppendReorders ==
  ASSUME NEW X, NEW s \in Seq(X), NEW t \in StableReorderings(s), NEW c
  PROVE  Append(t, c) \in StableReorderings(Append(s, c))
<1> DEFINE L == Len(s)
           w == Append(s, c)
<1>1. t \in Seq(X) /\ Len(t) = L /\ L \in Nat
  BY RearrangedIsText
<1>2. /\ Len(w) = L + 1 /\ (\A i \in 1..L : w[i] = s[i]) /\ w[L + 1] = c
      /\ Append(t, c) = [i \in 1..(L + 1) |-> IF i <= L THEN t[i] ELSE c]
  <2>1. s \in Seq(X \cup {c}) /\ t \in Seq(X \cup {c}) /\ c \in X \cup {c}
    BY <1>1, SeqMonotonic
  <2>2. Len(w) = L + 1 /\ (\A i \in 1..L : w[i] = s[i]) /\ w[L + 1] = c
    BY <2>1, AppendProperties
  <2>3. Append(t, c) = [i \in 1..(L + 1) |-> IF i <= L THEN t[i] ELSE c]
    BY <1>1, AppendIs
  <2> QED BY <2>2, <2>3
<1>3. PICK p \in StableOrders(s) : t = [k \in 1..L |-> s[p[k]]]
  BY DEF StableReorderings
<1>4. /\ p \in [1..L -> 1..L]
      /\ \A i, j \in 1..L : p[i] = p[j] => i = j
      /\ \A i, k \in 1..L : Class(s[k]) = 0 =>
           /\ i < k => p[i] < k
           /\ i = k => p[i] = k
           /\ k < i => k < p[i]
      /\ \A i, j \in 1..L : i < j /\ Class(s[p[i]]) = Class(s[p[j]]) => p[i] < p[j]
  BY DEF StableOrders
<1> DEFINE q == [i \in 1..(L + 1) |-> IF i <= L THEN p[i] ELSE L + 1]
<1> HIDE DEF L, w
<1>5. \A i \in 1..(L + 1) : (i \in 1..L /\ i <= L) \/ i = L + 1
  BY <1>1
<1>6. /\ \A i \in 1..L : q[i] = p[i] /\ p[i] \in 1..L /\ p[i] < L + 1 /\ i < L + 1 /\ w[p[i]] = s[p[i]]
      /\ q[L + 1] = L + 1
  BY <1>1, <1>2, <1>4
<1>7. q \in [1..(L + 1) -> 1..(L + 1)]
  BY <1>1, <1>4
<1>8. L \in Int /\ ~ (L + 1 < L + 1) /\ \A i \in 1..L : i # L + 1 /\ ~ (L + 1 < i)
  BY <1>1
<1> HIDE DEF q
<1>9. ASSUME NEW i \in 1..(L + 1), NEW j \in 1..(L + 1), q[i] = q[j]
      PROVE  i = j
  <2>1. CASE i \in 1..L /\ j \in 1..L
    BY <1>4, <1>6, <1>9, <2>1
  <2>2. CASE i \in 1..L /\ j = L + 1
    BY <1>6, <1>8, <1>9, <2>2
  <2>3. CASE i = L + 1 /\ j \in 1..L
    BY <1>6, <1>8, <1>9, <2>3
  <2> QED BY <1>5, <2>1, <2>2, <2>3
<1>10. ASSUME NEW i \in 1..(L + 1), NEW k \in 1..(L + 1), Class(w[k]) = 0
       PROVE  (i < k => q[i] < k) /\ (i = k => q[i] = k) /\ (k < i => k < q[i])
  <2>1. CASE k \in 1..L /\ i \in 1..L
    BY <1>2, <1>4, <1>6, <1>10, <2>1
  <2>2. CASE k = L + 1
    BY <1>5, <1>6, <1>8, <2>2
  <2>3. CASE k \in 1..L /\ i = L + 1
    BY <1>6, <1>8, <2>3
  <2> QED BY <1>5, <2>1, <2>2, <2>3
<1>11. ASSUME NEW i \in 1..(L + 1), NEW j \in 1..(L + 1), i < j, Class(w[q[i]]) = Class(w[q[j]])
       PROVE  q[i] < q[j]
  <2>1. CASE i \in 1..L /\ j \in 1..L
    BY <1>4, <1>6, <1>11, <2>1
  <2>2. CASE i \in 1..L /\ j = L + 1
    BY <1>6, <2>2
  <2>3. CASE i = L + 1
    BY <1>5, <1>8, <1>11, <2>3
  <2> QED BY <1>5, <2>1, <2>2, <2>3
<1>12. q \in StableOrders(w)
  BY <1>2, <1>7, <1>9, <1>10, <1>11 DEF StableOrders
<1>13. \A i \in 1..(L + 1) : (IF i <= L THEN t[i] ELSE c) = w[q[i]]
  BY <1>2, <1>3, <1>5, <1>6, <1>8
<1>14. Append(t, c) = [i \in 1..Len(w) |-> w[q[i]]]
  BY <1>2, <1>13
<1> QED BY <1>12, <1>14 DEF StableReorderings, w

\* So the canonical order of a longer text depends on that of the text.
LEMMA OrderOfAppend ==
  ASSUME NEW X, NEW s \in Seq(X), NEW c
  PROVE  canonicalOrder(Append(s, c)) = canonicalOrder(Append(canonicalOrder(s), c))
<1>1. canonicalOrder(s) \in StableReorderings(s)
  BY OrderProperties
<1>2. Append(canonicalOrder(s), c) \in StableReorderings(Append(s, c))
  BY <1>1, AppendReorders
<1>3. Append(s, c) \in Seq(X \cup {c})
  <2>1. s \in Seq(X \cup {c})
    BY SeqMonotonic
  <2> QED BY <2>1, AppendProperties
<1> QED BY <1>2, <1>3, ReorderedHasTheOrder

-----------------------------------------------------------------------------
(* Clusters: a starter with its marks.                                     *)

Codepoints == Alphabet \cup UNION {{t[1], t[2], t[3]} : t \in Compositions}
Texts == Seq(Codepoints)

Starterless(s) == \A k \in 1..Len(s) : Class(s[k]) # 0

Cluster(s) == 1 \in 1..Len(s) /\ Class(s[1]) = 0 /\ \A k \in 2..Len(s) : Class(s[k]) # 0

LEMMA ConcatParts ==
  ASSUME NEW X, NEW x \in Seq(X), NEW y \in Seq(X)
  PROVE  /\ x \o y \in Seq(X) /\ Len(x) \in Nat /\ Len(y) \in Nat
         /\ Len(x \o y) = Len(x) + Len(y)
         /\ \A i \in 1..Len(x) : (x \o y)[i] = x[i]
         /\ \A i \in 1..Len(y) : (x \o y)[Len(x) + i] = y[i]
<1>1. Len(x) \in Nat /\ Len(y) \in Nat
  BY LenProperties
<1>2. /\ x \o y \in Seq(X) /\ Len(x \o y) = Len(x) + Len(y)
      /\ \A i \in 1..(Len(x) + Len(y)) : (x \o y)[i] = IF i <= Len(x) THEN x[i] ELSE y[i - Len(x)]
  BY ConcatProperties
<1>3. \A i \in 1..Len(x) : i \in 1..(Len(x) + Len(y)) /\ i <= Len(x)
  BY <1>1
<1>4. \A i \in 1..Len(y) : /\ Len(x) + i \in 1..(Len(x) + Len(y)) /\ ~ (Len(x) + i <= Len(x))
                           /\ (Len(x) + i) - Len(x) = i
  BY <1>1
<1> QED BY <1>1, <1>2, <1>3, <1>4

\* Every position of a joined text is in one part.
LEMMA PartOf ==
  ASSUME NEW m \in Nat, NEW n \in Nat, NEW i \in 1..(m + n)
  PROVE  i \in 1..m \/ \E k \in 1..n : i = m + k
<1>1. CASE i <= m
  BY <1>1
<1>2. CASE ~ (i <= m)
  <2>1. i - m \in 1..n /\ i = m + (i - m)
    BY <1>2
  <2> QED BY <2>1
<1> QED BY <1>1, <1>2

\* A text without a starter, or one with a last cluster.
LEMMA LastCluster ==
  ASSUME NEW X, NEW s \in Seq(X)
  PROVE  Starterless(s) \/ \E x, y \in Seq(X) : s = x \o y /\ Cluster(y)
<1> DEFINE L == Len(s)
           S == {n \in Nat : L - n \in 1..L /\ Class(s[L - n]) = 0}
<1>1. L \in Nat
  BY LenProperties
<1> SUFFICES ASSUME NEW k \in 1..L, Class(s[k]) = 0
             PROVE  \E x, y \in Seq(X) : s = x \o y /\ Cluster(y)
  BY DEF Starterless
<1>2. L - k \in S
  BY <1>1
<1>3. PICK n \in S : \A m \in S : n <= m
  <2>1. S \subseteq Nat /\ S # {}
    BY <1>2
  <2> HIDE DEF S
  <2> QED BY <2>1, LeastNat
<1> DEFINE a == L - n
           x == SubSeq(s, 1, a - 1)
           y == SubSeq(s, a, L)
<1>4. a \in 1..L /\ Class(s[a]) = 0
  BY <1>3
<1>5. ASSUME NEW i \in (a + 1)..L PROVE Class(s[i]) # 0
  <2>1. i \in 1..L /\ L - i \in Nat /\ L - (L - i) = i /\ ~ (n <= L - i)
    BY <1>1, <1>3, <1>4
  <2>2. L - i \notin S
    BY <1>3, <2>1
  <2> QED BY <2>1, <2>2
<1> HIDE DEF S, a
<1>6. \A i \in 1..L : s[i] \in X
  BY ElementOfSeq
<1>7. x \in Seq(X)
  <2>1. 1 \in Int /\ a - 1 \in Int /\ \A i \in 1..(a - 1) : s[i] \in X
    BY <1>1, <1>4, <1>6
  <2> QED BY <2>1, SubSeqProperties
<1>8. /\ y \in Seq(X) /\ Len(y) = (L - a) + 1
      /\ \A i \in 1..Len(y) : y[i] = s[a + i - 1]
  <2>1. a \in Int /\ L \in Int /\ a <= L /\ \A i \in a..L : s[i] \in X
    BY <1>1, <1>4, <1>6
  <2>2. /\ y \in Seq(X) /\ Len(y) = L - a + 1
        /\ \A i \in 1..(L - a + 1) : y[i] = s[a + i - 1]
    BY <2>1, SubSeqProperties
  <2> QED BY <2>2
<1>9. s = x \o y
  <2>1. 1 \in 1..(L + 1) /\ a - 1 \in (1 - 1)..L /\ L \in (a - 1)..L /\ (a - 1) + 1 = a
    BY <1>1, <1>4
  <2>2. SubSeq(s, 1, a - 1) \o SubSeq(s, (a - 1) + 1, L) = SubSeq(s, 1, L)
    BY <2>1, ConcatAdjacentSubSeq
  <2>3. SubSeq(s, 1, L) = s
    BY SubSeqFull
  <2> QED BY <2>1, <2>2, <2>3
<1>10. Cluster(y)
  <2>1. 1 \in 1..Len(y) /\ a + 1 - 1 = a
    BY <1>1, <1>4, <1>8
  <2>2. \A k_1 \in 2..Len(y) : k_1 \in 1..Len(y) /\ a + k_1 - 1 \in (a + 1)..L
    BY <1>1, <1>4, <1>8
  <2>3. y[1] = s[a] /\ \A i \in 2..Len(y) : y[i] = s[a + i - 1] /\ a + i - 1 \in (a + 1)..L
    BY <1>8, <2>1, <2>2
  <2> HIDE DEF y
  <2> QED BY <1>4, <1>5, <2>1, <2>3 DEF Cluster
<1> QED BY <1>7, <1>8, <1>9, <1>10

\* Induction on the number of clusters.
LEMMA InductionOnClusters ==
  ASSUME NEW X, NEW S, \A s \in Seq(X) : Starterless(s) => s \in S,
         \A x, y \in Seq(X) : x \in S /\ Cluster(y) => x \o y \in S
  PROVE  Seq(X) \subseteq S
<1> DEFINE N == {n \in Nat : \A s \in Seq(X) : Len(s) <= n => s \in S}
<1>1. 0 \in N
  <2> SUFFICES ASSUME NEW s \in Seq(X), Len(s) <= 0 PROVE s \in S
    OBVIOUS
  <2>1. 1..Len(s) = {}
    BY LenProperties
  <2> QED BY <2>1 DEF Starterless
<1>2. ASSUME NEW n \in Nat, n \in N PROVE n + 1 \in N
  <2> SUFFICES ASSUME NEW s \in Seq(X), Len(s) <= n + 1 PROVE s \in S
    OBVIOUS
  <2>1. CASE Starterless(s)
    BY <2>1
  <2>2. ASSUME NEW x \in Seq(X), NEW y \in Seq(X), s = x \o y, Cluster(y) PROVE s \in S
    <3>1. Len(s) = Len(x) + Len(y) /\ Len(x) \in Nat /\ Len(y) \in Nat
      BY <2>2, ConcatParts
    <3>2. 1 \in 1..Len(y)
      BY <2>2 DEF Cluster
    <3>3. Len(x) <= n
      BY <3>1, <3>2
    <3> QED BY <1>2, <2>2, <3>3
  <2>3. Starterless(s) \/ \E x, y \in Seq(X) : s = x \o y /\ Cluster(y)
    BY LastCluster
  <2> QED BY <2>1, <2>2, <2>3
<1>3. Nat \subseteq N
  <2> HIDE DEF N
  <2> QED BY <1>1, <1>2, InductionOnNat
<1>4. ASSUME NEW s \in Seq(X) PROVE s \in S
  <2>1. Len(s) \in N /\ Len(s) <= Len(s)
    BY <1>3, LenProperties
  <2> QED BY <2>1
<1> QED BY <1>4

-----------------------------------------------------------------------------
(* The order of a joined text.                                             *)

LEMMA JoinReorders ==
  ASSUME NEW X, NEW x \in Seq(X), NEW y \in Seq(X),
         NEW u \in StableReorderings(x), NEW v \in StableReorderings(y)
  PROVE  u \o v \in StableReorderings(x \o y)
<1> DEFINE M == Len(x)
           N == Len(y)
           s == x \o y
           t == u \o v
<1>1. /\ u \in Seq(X) /\ v \in Seq(X) /\ Len(u) = M /\ Len(v) = N /\ M \in Nat /\ N \in Nat
  BY RearrangedIsText
<1>2. /\ s \in Seq(X) /\ Len(s) = M + N
      /\ (\A i \in 1..M : s[i] = x[i]) /\ \A i \in 1..N : s[M + i] = y[i]
  BY ConcatParts
<1>3. /\ t \in Seq(X) /\ Len(t) = M + N
      /\ (\A i \in 1..M : t[i] = u[i]) /\ \A i \in 1..N : t[M + i] = v[i]
  <2>1. /\ t \in Seq(X) /\ Len(t) = Len(u) + Len(v)
        /\ (\A i \in 1..Len(u) : t[i] = u[i]) /\ \A i \in 1..Len(v) : t[Len(u) + i] = v[i]
    <3>1. u \in Seq(X) /\ v \in Seq(X)
      BY <1>1
    <3> QED BY <3>1, ConcatParts
  <2> HIDE DEF M, N, t
  <2> QED BY <1>1, <2>1
<1>4. PICK p \in StableOrders(x) : u = [i \in 1..M |-> x[p[i]]]
  BY DEF StableReorderings
<1>5. PICK q \in StableOrders(y) : v = [i \in 1..N |-> y[q[i]]]
  BY DEF StableReorderings
<1>6. /\ p \in [1..M -> 1..M]
      /\ \A i, j \in 1..M : p[i] = p[j] => i = j
      /\ \A i, k \in 1..M : Class(x[k]) = 0 =>
           /\ i < k => p[i] < k
           /\ i = k => p[i] = k
           /\ k < i => k < p[i]
      /\ \A i, j \in 1..M : i < j /\ Class(x[p[i]]) = Class(x[p[j]]) => p[i] < p[j]
  BY DEF StableOrders
<1>7. /\ q \in [1..N -> 1..N]
      /\ \A i, j \in 1..N : q[i] = q[j] => i = j
      /\ \A i, k \in 1..N : Class(y[k]) = 0 =>
           /\ i < k => q[i] < k
           /\ i = k => q[i] = k
           /\ k < i => k < q[i]
      /\ \A i, j \in 1..N : i < j /\ Class(y[q[i]]) = Class(y[q[j]]) => q[i] < q[j]
  BY DEF StableOrders
<1> DEFINE r == [i \in 1..(M + N) |-> IF i <= M THEN p[i] ELSE M + q[i - M]]
<1> HIDE DEF s, t, M, N
<1>8. \A i \in 1..M : i \in 1..(M + N) /\ r[i] = p[i] /\ p[i] \in 1..M /\ p[i] \in 1..(M + N)
  BY <1>1, <1>6
<1>9. ASSUME NEW i \in 1..N
      PROVE  M + i \in 1..(M + N) /\ r[M + i] = M + q[i] /\ q[i] \in 1..N /\ M + q[i] \in 1..(M + N)
  <2>1. M + i \in 1..(M + N) /\ ~ (M + i <= M) /\ (M + i) - M = i /\ q[i] \in 1..N
    BY <1>1, <1>7
  <2>2. r[M + i] = M + q[i]
    BY <2>1
  <2> HIDE DEF r
  <2>3. M + q[i] \in 1..(M + N)
    BY <1>1, <2>1
  <2> QED BY <2>1, <2>2, <2>3
<1>10. r = [i \in 1..(M + N) |-> r[i]]
  OBVIOUS
<1> HIDE DEF r
<1>11. \A i \in 1..(M + N) : i \in 1..M \/ \E k \in 1..N : i = M + k
  BY <1>1, PartOf
<1>12. r \in [1..(M + N) -> 1..(M + N)]
  <2>1. \A i \in 1..(M + N) : r[i] \in 1..(M + N)
    BY <1>8, <1>9, <1>11
  <2> QED BY <1>10, <2>1
<1>13. ASSUME NEW i \in 1..M, NEW k \in 1..N
       PROVE  i < M + k /\ i # M + k /\ ~ (M + k < i) /\ r[i] < M + k /\ i < r[M + k] /\ r[i] # r[M + k]
              /\ r[i] < r[M + k]
  <2>1. r[i] \in 1..M /\ r[M + k] = M + q[k] /\ q[k] \in 1..N
    BY <1>8, <1>9
  <2> QED BY <1>1, <2>1
<1>14. ASSUME NEW i \in 1..N, NEW k \in 1..N
       PROVE  /\ M + i < M + k <=> i < k
              /\ M + i = M + k <=> i = k
              /\ r[M + i] = r[M + k] <=> q[i] = q[k]
              /\ r[M + i] < r[M + k] <=> q[i] < q[k]
              /\ r[M + i] < M + k <=> q[i] < k
              /\ r[M + i] = M + k <=> q[i] = k
              /\ M + k < r[M + i] <=> k < q[i]
  <2>1. r[M + i] = M + q[i] /\ q[i] \in 1..N /\ r[M + k] = M + q[k] /\ q[k] \in 1..N
    BY <1>9
  <2>2. \A a, b \in Int : (M + a < M + b <=> a < b) /\ (M + a = M + b <=> a = b)
    BY <1>1
  <2>3. i \in Int /\ k \in Int /\ q[i] \in Int /\ q[k] \in Int
    BY <2>1
  <2> QED BY <2>1, <2>2, <2>3
<1>15. \A i, j \in 1..(M + N) : r[i] = r[j] => i = j
  BY <1>6, <1>7, <1>8, <1>11, <1>13, <1>14
<1>16. ASSUME NEW i \in 1..(M + N), NEW k \in 1..(M + N), Class(s[k]) = 0
       PROVE  (i < k => r[i] < k) /\ (i = k => r[i] = k) /\ (k < i => k < r[i])
  <2>1. CASE i \in 1..M /\ k \in 1..M
    BY <1>2, <1>6, <1>8, <1>16, <2>1
  <2>2. ASSUME NEW i1 \in 1..N, i = M + i1, k \in 1..M PROVE (i < k => r[i] < k) /\ (i = k => r[i] = k) /\ (k < i => k < r[i])
    BY <1>13, <2>2
  <2>3. ASSUME NEW k1 \in 1..N, k = M + k1, i \in 1..M PROVE (i < k => r[i] < k) /\ (i = k => r[i] = k) /\ (k < i => k < r[i])
    BY <1>13, <2>3
  <2>4. ASSUME NEW i1 \in 1..N, i = M + i1, NEW k1 \in 1..N, k = M + k1 PROVE (i < k => r[i] < k) /\ (i = k => r[i] = k) /\ (k < i => k < r[i])
    <3>1. Class(y[k1]) = 0
      BY <1>2, <1>16, <2>4
    <3>2. (i1 < k1 => q[i1] < k1) /\ (i1 = k1 => q[i1] = k1) /\ (k1 < i1 => k1 < q[i1])
      BY <1>7, <3>1
    <3> QED BY <1>14, <2>4, <3>2
  <2> QED BY <1>11, <2>1, <2>2, <2>3, <2>4
<1>17. ASSUME NEW i \in 1..(M + N), NEW j \in 1..(M + N), i < j, Class(s[r[i]]) = Class(s[r[j]])
       PROVE  r[i] < r[j]
  <2>1. CASE i \in 1..M /\ j \in 1..M
    BY <1>2, <1>6, <1>8, <1>17, <2>1
  <2>2. ASSUME NEW i1 \in 1..N, i = M + i1, j \in 1..M PROVE r[i] < r[j]
    BY <1>13, <1>17, <2>2
  <2>3. ASSUME NEW j1 \in 1..N, j = M + j1, i \in 1..M PROVE r[i] < r[j]
    BY <1>13, <2>3
  <2>4. ASSUME NEW i1 \in 1..N, i = M + i1, NEW j1 \in 1..N, j = M + j1 PROVE r[i] < r[j]
    <3>a. /\ r[M + i1] = M + q[i1] /\ q[i1] \in 1..N
          /\ r[M + j1] = M + q[j1] /\ q[j1] \in 1..N
      BY <1>9
    <3>b. s[M + q[i1]] = y[q[i1]] /\ s[M + q[j1]] = y[q[j1]]
      BY <1>2, <3>a
    <3>c. Class(y[q[i1]]) = Class(y[q[j1]])
      BY <1>17, <2>4, <3>a, <3>b
    <3>d. i1 < j1
      BY <1>14, <1>17, <2>4
    <3>1. Class(y[q[i1]]) = Class(y[q[j1]]) /\ i1 < j1
      BY <3>c, <3>d
    <3>2. q[i1] < q[j1]
      BY <1>7, <3>1
    <3> QED BY <1>14, <2>4, <3>2
  <2> QED BY <1>11, <2>1, <2>2, <2>3, <2>4
<1>18. r \in StableOrders(s)
  BY <1>2, <1>12, <1>15, <1>16, <1>17 DEF StableOrders
<1>19. \A i \in 1..(M + N) : t[i] = s[r[i]]
  <2>1. ASSUME NEW i \in 1..M PROVE t[i] = s[r[i]]
    BY <1>2, <1>3, <1>4, <1>8
  <2>2. ASSUME NEW i \in 1..N PROVE t[M + i] = s[r[M + i]]
    BY <1>2, <1>3, <1>5, <1>9
  <2> QED BY <1>11, <2>1, <2>2
<1>20. t = [i \in 1..(M + N) |-> t[i]]
  BY <1>3, LenProperties
<1>21. t = [i \in 1..Len(s) |-> s[r[i]]]
  BY <1>2, <1>19, <1>20
<1> QED BY <1>18, <1>21 DEF StableReorderings, s, t

\* Before a starter nothing has to be sorted.
LEMMA JoinOrdered ==
  ASSUME NEW X, NEW x \in Seq(X), NEW y \in Seq(X), Ordered(x), Ordered(y), Class(y[1]) = 0
  PROVE  Ordered(x \o y)
<1> DEFINE M == Len(x)
           N == Len(y)
           s == x \o y
<1>1. /\ Len(s) = M + N /\ M \in Nat /\ N \in Nat
      /\ (\A i \in 1..M : s[i] = x[i]) /\ \A i \in 1..N : s[M + i] = y[i]
  BY ConcatParts
<1> HIDE DEF s, M, N
<1>2. SUFFICES ASSUME NEW i \in 1..(M + N), NEW j \in 1..(M + N), i < j, \A k \in i..j : Class(s[k]) # 0
               PROVE  Class(s[i]) <= Class(s[j])
  BY <1>1 DEF Ordered, s
<1>3. CASE j \in 1..M
  <2>1. i \in 1..M /\ \A k \in i..j : k \in 1..M
    BY <1>1, <1>2, <1>3
  <2>2. Class(x[i]) <= Class(x[j])
    BY <1>1, <1>2, <1>3, <2>1 DEF Ordered, M
  <2> QED BY <1>1, <1>3, <2>1, <2>2
<1>4. ASSUME i \in 1..M, NEW k \in 1..N, j = M + k PROVE FALSE
  <2>1. 1 \in 1..N /\ M + 1 \in i..j
    BY <1>1, <1>4
  <2> QED BY <1>1, <1>2, <2>1
<1>5. ASSUME NEW a \in 1..N, i = M + a, NEW b \in 1..N, j = M + b
      PROVE  Class(s[i]) <= Class(s[j])
  <2>1. a < b /\ \A k \in a..b : k \in 1..N /\ M + k \in i..j
    BY <1>1, <1>2, <1>5
  <2>2. \A k \in a..b : Class(y[k]) # 0
    BY <1>1, <1>2, <2>1
  <2>3. Class(y[a]) <= Class(y[b])
    BY <2>1, <2>2 DEF Ordered, N
  <2> QED BY <1>1, <1>5, <2>3
<1> QED BY <1>1, <1>3, <1>4, <1>5, PartOf

LEMMA OrderOfJoin ==
  ASSUME NEW X, NEW x \in Seq(X), NEW y \in Seq(X), 1 \in 1..Len(y), Class(y[1]) = 0
  PROVE  canonicalOrder(x \o y) = canonicalOrder(x) \o canonicalOrder(y)
<1> DEFINE u == canonicalOrder(x)
           v == canonicalOrder(y)
<1>1. u \in StableReorderings(x) /\ v \in StableReorderings(y) /\ Ordered(u) /\ Ordered(v)
  BY OrderProperties, OrderIsOrdered
<1>2. u \in Seq(X) /\ v \in Seq(X) /\ x \o y \in Seq(X)
  BY <1>1, RearrangedIsText, ConcatParts
<1>3. Class(v[1]) = 0
  BY <1>1, SameStarters
<1> HIDE DEF u, v
<1>4. u \o v \in StableReorderings(x \o y) /\ Ordered(u \o v)
  BY <1>1, <1>2, <1>3, JoinReorders, JoinOrdered
<1> QED BY <1>2, <1>4, OrderedIsTheOrder DEF u, v

\* In general what is joined is sorted again.
LEMMA OrderOfOrders ==
  ASSUME NEW X, NEW x \in Seq(X), NEW y \in Seq(X)
  PROVE  canonicalOrder(x \o y) = canonicalOrder(canonicalOrder(x) \o canonicalOrder(y))
<1>1. canonicalOrder(x) \in StableReorderings(x) /\ canonicalOrder(y) \in StableReorderings(y)
  BY OrderProperties
<1>2. canonicalOrder(x) \o canonicalOrder(y) \in StableReorderings(x \o y) /\ x \o y \in Seq(X)
  BY <1>1, JoinReorders, ConcatParts
<1> QED BY <1>2, ReorderedHasTheOrder

-----------------------------------------------------------------------------
(* The composition table.                                                  *)

LEMMA TableFacts ==
  /\ \A t \in Compositions : Class(t[1]) = 0 /\ Class(t[2]) # 0 /\ Class(t[3]) = 0 /\ t[3] # 0
  /\ \A t, v \in Compositions : t[3] # v[1]
  /\ \A t, v \in Compositions : t[1] = v[1] => Class(t[2]) = Class(v[2])
  /\ \A t, v \in Compositions : t[1] = v[1] /\ t[2] = v[2] => t = v
  /\ \A t, v \in Compositions : t[3] = v[3] => t = v
<1>1. \A t \in Compositions : Class(t[1]) = 0 /\ Class(t[2]) # 0 /\ Class(t[3]) = 0
  BY DEF Compositions, Class, combiningClass
<1>2. \A t \in Compositions : t[3] # 0
  BY DEF Compositions
<1>3. \A t, v \in Compositions : t[3] # v[1]
  BY DEF Compositions
<1>4. \A t, v \in Compositions : t[1] = v[1] => Class(t[2]) = Class(v[2])
  BY DEF Compositions, Class, combiningClass
<1>5. \A t, v \in Compositions : t[1] = v[1] /\ t[2] = v[2] => t = v
  BY DEF Compositions
<1>6. \A t, v \in Compositions : t[3] = v[3] => t = v
  BY DEF Compositions
<1> QED BY <1>1, <1>2, <1>3, <1>4, <1>5, <1>6

LEMMA PairOfTable ==
  ASSUME NEW t \in Compositions
  PROVE  composePair(t[1], t[2]) = t[3]
<1> DEFINE hits == {v \in Compositions : v[1] = t[1] /\ v[2] = t[2]}
<1>1. hits = {t}
  BY TableFacts
<1> HIDE DEF hits
<1>2. (CHOOSE v \in hits : TRUE) = t
  BY <1>1
<1>3. composePair(t[1], t[2]) = IF hits = {} THEN 0 ELSE (CHOOSE v \in hits : TRUE)[3]
  BY DEF composePair, hits
<1> QED BY <1>1, <1>2, <1>3

LEMMA PairInTable ==
  ASSUME NEW a, NEW b, composePair(a, b) # 0
  PROVE  \E t \in Compositions : t[1] = a /\ t[2] = b /\ t[3] = composePair(a, b)
<1> DEFINE hits == {v \in Compositions : v[1] = a /\ v[2] = b}
<1>1. composePair(a, b) = IF hits = {} THEN 0 ELSE (CHOOSE v \in hits : TRUE)[3]
  BY DEF composePair
<1>2. PICK t \in hits : composePair(a, b) = t[3]
  <2> HIDE DEF hits
  <2> QED BY <1>1
<1> QED BY <1>2

\* A starter composes with marks of one class only, and a composite with none.
LEMMA PairFacts ==
  ASSUME NEW a, NEW b, composePair(a, b) # 0
  PROVE  /\ Class(a) = 0 /\ Class(b) # 0 /\ Class(composePair(a, b)) = 0
         /\ composePair(a, b) \in Codepoints
         /\ \A c : composePair(composePair(a, b), c) = 0
         /\ \A c : composePair(a, c) # 0 => Class(c) = Class(b)
<1>1. PICK t \in Compositions : t[1] = a /\ t[2] = b /\ t[3] = composePair(a, b)
  BY PairInTable
<1>2. ASSUME NEW c, composePair(composePair(a, b), c) # 0 PROVE FALSE
  <2>1. PICK v \in Compositions : v[1] = composePair(a, b)
    BY <1>2, PairInTable
  <2> QED BY <1>1, <2>1, TableFacts
<1>3. ASSUME NEW c, composePair(a, c) # 0 PROVE Class(c) = Class(b)
  <2>1. PICK v \in Compositions : v[1] = a /\ v[2] = c
    BY <1>3, PairInTable
  <2> QED BY <1>1, <2>1, TableFacts
<1>4. composePair(a, b) \in Codepoints
  BY <1>1 DEF Codepoints
<1> QED BY <1>1, <1>2, <1>3, <1>4, TableFacts

-----------------------------------------------------------------------------
(* The loop of compose.                                                    *)

Fresh == [out |-> <<>>, starter |-> 0, ccc |-> -1]
Accumulators == [out : Texts, starter : Nat, ccc : Int]

\* acc takes the mark c into its last starter.
Absorbs(acc, c) ==
  /\ acc.starter > 0 /\ Class(c) > 0 /\ Class(c) > acc.ccc
  /\ composePair(acc.out[acc.starter], c) # 0

LEMMA AbsorbCases ==
  ASSUME NEW acc \in Accumulators, NEW c \in Codepoints
  PROVE  /\ Absorb(acc, c) \in Accumulators
         /\ Absorbs(acc, c) =>
              Absorb(acc, c) =
                [out |-> [acc.out EXCEPT ![acc.starter] = composePair(acc.out[acc.starter], c)],
                 starter |-> acc.starter, ccc |-> acc.ccc]
         /\ ~ Absorbs(acc, c) /\ Class(c) = 0 =>
              Absorb(acc, c) = [out |-> Append(acc.out, c), starter |-> Len(acc.out) + 1, ccc |-> 0]
         /\ ~ Absorbs(acc, c) /\ Class(c) # 0 =>
              Absorb(acc, c) = [out |-> Append(acc.out, c), starter |-> acc.starter, ccc |-> Class(c)]
<1> DEFINE k == Class(c)
           pair == IF acc.starter > 0 /\ k > 0 /\ k > acc.ccc THEN composePair(acc.out[acc.starter], c) ELSE 0
           out == Append(acc.out, c)
<1>1. Absorb(acc, c) = IF pair # 0 THEN [acc EXCEPT !.out[acc.starter] = pair]
                       ELSE IF k = 0 THEN [out |-> out, starter |-> Len(out), ccc |-> 0]
                       ELSE [acc EXCEPT !.out = out, !.ccc = k]
  BY DEF Absorb, Class
<1>2. pair # 0 <=> Absorbs(acc, c)
  BY DEF Absorbs
<1>3. /\ acc.out \in Texts /\ acc.starter \in Nat /\ acc.ccc \in Int
      /\ acc = [out |-> acc.out, starter |-> acc.starter, ccc |-> acc.ccc]
  BY DEF Accumulators
<1>4. out \in Texts /\ Len(out) = Len(acc.out) + 1 /\ Len(acc.out) \in Nat
  BY <1>3, AppendProperties, LenProperties DEF Texts
<1>5. k \in Nat /\ k \in Int
  BY ClassType
<1>6. CASE Absorbs(acc, c)
  <2>1. pair = composePair(acc.out[acc.starter], c) /\ pair # 0
    BY <1>6 DEF Absorbs
  <2>2. pair \in Codepoints
    BY <2>1, PairFacts
  <2> HIDE DEF pair
  <2>3. Absorb(acc, c) = [out |-> [acc.out EXCEPT ![acc.starter] = pair], starter |-> acc.starter, ccc |-> acc.ccc]
    BY <1>1, <1>3, <2>1
  <2>4. [acc.out EXCEPT ![acc.starter] = pair] \in Texts
    <3>1. acc.out \in [1..Len(acc.out) -> Codepoints]
      BY <1>3, LenProperties DEF Texts
    <3>2. [acc.out EXCEPT ![acc.starter] = pair] \in [1..Len(acc.out) -> Codepoints]
      BY <2>2, <3>1
    <3> QED BY <1>4, <3>2, SeqDef DEF Texts
  <2>5. Absorb(acc, c) \in Accumulators
    BY <1>3, <2>3, <2>4 DEF Accumulators
  <2> QED BY <1>6, <2>1, <2>3, <2>5
<1>7. CASE ~ Absorbs(acc, c) /\ k = 0
  <2>1. pair = 0
    BY <1>2, <1>7
  <2> HIDE DEF pair, k, out
  <2>2. Absorb(acc, c) = [out |-> out, starter |-> Len(acc.out) + 1, ccc |-> 0]
    BY <1>1, <1>4, <1>7, <2>1
  <2>3. Absorb(acc, c) \in Accumulators
    BY <1>4, <2>2 DEF Accumulators
  <2> QED BY <1>7, <2>2, <2>3 DEF k, out
<1>8. CASE ~ Absorbs(acc, c) /\ k # 0
  <2>1. pair = 0
    BY <1>2, <1>8
  <2> HIDE DEF pair, k, out
  <2>2. Absorb(acc, c) = [out |-> out, starter |-> acc.starter, ccc |-> k]
    BY <1>1, <1>3, <1>8, <2>1
  <2>3. Absorb(acc, c) \in Accumulators
    BY <1>3, <1>4, <1>5, <2>2 DEF Accumulators
  <2> QED BY <1>8, <2>2, <2>3 DEF k, out
<1> QED BY <1>6, <1>7, <1>8

\* The equation of the local function of compose, and the function.
ComposeOf(f, s) == [i \in 0..Len(s) |-> IF i = 0 THEN Fresh ELSE Absorb(f[i - 1], s[i])]
ComposeUpto(s) == CHOOSE f : f = ComposeOf(f, s)

LEMMA ComposeUnfolds ==
  ASSUME NEW s \in Texts
  PROVE  /\ compose(s) = ComposeUpto(s)[Len(s)].out
         /\ \A i \in 0..Len(s) : /\ ComposeUpto(s)[i] \in Accumulators
                                 /\ ComposeUpto(s)[i] = IF i = 0 THEN Fresh
                                                        ELSE Absorb(ComposeUpto(s)[i - 1], s[i])
<1> DEFINE L == Len(s)
           R == Accumulators
           F == [e \in (1..L) \X R |-> Absorb(e[2], s[e[1]])]
<1>1. L \in Nat /\ L \in Int
  BY LenProperties DEF Texts
<1>2. \A i \in 1..L, u \in R : F[<<i, u>>] = Absorb(u, s[i])
  OBVIOUS
<1>3. ASSUME NEW i \in 1..L, NEW u \in R PROVE Absorb(u, s[i]) \in R
  BY ElementOfSeq, AbsorbCases DEF Texts
<1>4. \E f : Solves(f, 0, L, R, Fresh, F)
  <2>1. F \in [(1..L) \X R -> R]
    BY <1>3
  <2>2. Fresh \in R
    BY EmptySeq DEF Fresh, Accumulators, Texts
  <2>3. 0 \in Int /\ 1 \in Int /\ 1 = 0 + 1
    OBVIOUS
  <2> HIDE DEF F, R, L
  <2> QED BY <1>1, <2>1, <2>2, <2>3, RecursionExists
<1> HIDE DEF F, R
<1>5. PICK f \in [0..L -> R] : Solves(f, 0, L, R, Fresh, F)
  BY <1>4 DEF Solves
<1>6. f = ComposeOf(f, s)
  <2>1. ASSUME NEW i \in 0..L
        PROVE  f[i] = IF i = 0 THEN Fresh ELSE Absorb(f[i - 1], s[i])
    <3>1. f[i] = IF i = 0 THEN Fresh ELSE F[<<i, f[i - 1]>>]
      BY <1>5 DEF Solves
    <3>2. i # 0 => i \in 1..L /\ f[i - 1] \in R
      BY <1>1
    <3> QED BY <1>2, <3>1, <3>2
  <2>2. f = [i \in 0..L |-> f[i]]
    OBVIOUS
  <2> QED BY <2>1, <2>2 DEF ComposeOf
<1> DEFINE u == ComposeUpto(s)
<1>7. u = ComposeOf(u, s)
  BY <1>6 DEF ComposeUpto
<1>8. compose(s) = u[Len(s)].out
  BY DEF compose, ComposeUpto, ComposeOf, Fresh
<1> HIDE DEF u
<1>9. \A i \in 0..L : u[i] = IF i = 0 THEN Fresh ELSE Absorb(u[i - 1], s[i])
  BY <1>7 DEF ComposeOf
<1> DEFINE S == {i \in 0..L : u[i] \in R}
<1>10. 0 \in S
  <2>1. 0 \in 0..L /\ u[0] = Fresh
    BY <1>1, <1>9
  <2>2. Fresh \in R
    BY EmptySeq DEF Fresh, Accumulators, Texts, R
  <2> QED BY <2>1, <2>2
<1>11. ASSUME NEW i \in 0..(L - 1), i \in S PROVE i + 1 \in S
  <2>1. i + 1 \in 0..L /\ i + 1 \in 1..L /\ i + 1 # 0 /\ (i + 1) - 1 = i
    BY <1>1
  <2>2. u[i + 1] = Absorb(u[i], s[i + 1])
    BY <1>9, <2>1
  <2> QED BY <1>3, <1>11, <2>1, <2>2
<1>12. 0..L \subseteq S
  <2> HIDE DEF S
  <2> QED BY <1>1, <1>10, <1>11, InductionOnInterval
<1>13. \A i \in 0..L : u[i] \in Accumulators
  BY <1>12 DEF R
<1> QED BY <1>8, <1>9, <1>13 DEF u

-----------------------------------------------------------------------------
(* What compose makes of ordered texts.                                    *)

\* The first i codepoints.
Upto(s, i) == [k \in 1..i |-> s[k]]

LEMMA UptoNext ==
  ASSUME NEW s \in Texts, NEW i \in 0..(Len(s) - 1)
  PROVE  /\ Upto(s, i) \in Texts /\ Len(Upto(s, i)) = i
         /\ Append(Upto(s, i), s[i + 1]) = Upto(s, i + 1)
<1>1. Len(s) \in Nat /\ i \in Nat /\ i + 1 \in 1..Len(s)
  BY LenProperties DEF Texts
<1>2. \A k \in 1..i : s[k] \in Codepoints
  <2>1. \A k \in 1..i : k \in 1..Len(s)
    BY <1>1
  <2> QED BY <2>1, ElementOfSeq DEF Texts
<1>3. Upto(s, i) \in Texts /\ Len(Upto(s, i)) = i
  BY <1>1, <1>2, IsASeq DEF Upto, Texts
<1>4. Append(Upto(s, i), s[i + 1]) = [k \in 1..(i + 1) |-> IF k <= i THEN Upto(s, i)[k] ELSE s[i + 1]]
  BY <1>3, AppendIs DEF Texts
<1>5. \A k \in 1..(i + 1) : (IF k <= i THEN Upto(s, i)[k] ELSE s[i + 1]) = s[k]
  <2>1. \A k \in 1..(i + 1) : (k \in 1..i /\ k <= i) \/ (k = i + 1 /\ ~ (k <= i))
    BY <1>1
  <2> QED BY <2>1 DEF Upto
<1>6. Append(Upto(s, i), s[i + 1]) = [k \in 1..(i + 1) |-> s[k]]
  BY <1>4, <1>5
<1> QED BY <1>3, <1>6 DEF Upto

\* No starter is followed by a mark that composes with it and is not blocked.
Composed(u) ==
  \A i, j \in 1..Len(u) :
    (/\ i < j /\ Class(u[i]) = 0
     /\ \A k \in (i + 1)..(j - 1) : Class(u[k]) \in 1..(Class(u[j]) - 1))
    => composePair(u[i], u[j]) = 0

\* The last starter of the first i codepoints, or none.
LastStarter(s, i, st) ==
  st \in 0..i /\ (st = 0 \/ Class(s[st]) = 0) /\ \A k \in (st + 1)..i : Class(s[k]) # 0

\* An ordered text in which nothing composes stays as it is.
LEMMA ComposedStays ==
  ASSUME NEW s \in Texts, Ordered(s), Composed(s)
  PROVE  compose(s) = s
<1> DEFINE L == Len(s)
           u == ComposeUpto(s)
           S == {i \in 0..L : /\ u[i].out = Upto(s, i) /\ LastStarter(s, i, u[i].starter)
                              /\ u[i].ccc = IF i = 0 THEN -1 ELSE Class(s[i])}
<1>1. L \in Nat
  BY LenProperties DEF Texts
<1>2. /\ compose(s) = u[L].out
      /\ \A i \in 0..L : /\ u[i] \in Accumulators
                          /\ u[i] = IF i = 0 THEN Fresh ELSE Absorb(u[i - 1], s[i])
  BY ComposeUnfolds
<1> HIDE DEF u
<1>3. 0 \in S
  <2>1. 0 \in 0..L /\ u[0] = Fresh
    BY <1>1, <1>2
  <2>2. Upto(s, 0) = <<>>
    BY DEF Upto
  <2>3. LastStarter(s, 0, 0)
    BY DEF LastStarter
  <2> QED BY <2>1, <2>2, <2>3 DEF Fresh
<1>4. ASSUME NEW i \in 0..(L - 1), i \in S PROVE i + 1 \in S
  <2> DEFINE acc == u[i]
             c == s[i + 1]
  <2>1. i \in 0..L /\ i \in Nat /\ i + 1 \in 0..L /\ i + 1 \in 1..L /\ i + 1 # 0 /\ (i + 1) - 1 = i
    BY <1>1
  <2>2. u[i + 1] = Absorb(acc, c) /\ acc \in Accumulators
    BY <1>2, <2>1
  <2>3. /\ acc.out = Upto(s, i) /\ LastStarter(s, i, acc.starter)
        /\ acc.ccc = IF i = 0 THEN -1 ELSE Class(s[i])
    BY <1>4
  <2>4. c \in Codepoints
    BY <2>1, ElementOfSeq DEF Texts
  <2>5. Append(acc.out, c) = Upto(s, i + 1) /\ Len(acc.out) = i
    BY <2>3, UptoNext
  <2> HIDE DEF acc, c
  <2>6. ~ Absorbs(acc, c)
    <3> SUFFICES ASSUME Absorbs(acc, c) PROVE FALSE
      OBVIOUS
    <3> DEFINE st == acc.starter
    <3>1. /\ st > 0 /\ Class(c) > 0 /\ Class(c) > acc.ccc /\ composePair(acc.out[st], c) # 0
      BY DEF Absorbs
    <3>2. st \in 1..i /\ Class(s[st]) = 0 /\ \A k \in (st + 1)..i : Class(s[k]) # 0
      BY <2>1, <2>3, <3>1 DEF LastStarter
    <3> HIDE DEF st
    <3>3. i # 0 /\ acc.ccc = Class(s[i]) /\ st \in 1..L /\ st < i + 1 /\ acc.out[st] = s[st]
      BY <2>1, <2>3, <3>2 DEF Upto
    <3>4. ASSUME NEW k \in (st + 1)..((i + 1) - 1) PROVE Class(s[k]) \in 1..(Class(c) - 1)
      <4>1. k \in (st + 1)..i /\ k \in 1..L /\ i \in 1..L /\ (k = i \/ k < i)
        BY <2>1, <3>2
      <4>2. \A m \in k..i : Class(s[m]) # 0
        BY <2>1, <3>2, <4>1
      <4>3. Class(s[k]) <= Class(s[i])
        <5>1. CASE k = i
          BY <5>1, ClassType
        <5>2. CASE k < i
          BY <4>1, <4>2, <5>2 DEF Ordered
        <5> QED BY <4>1, <5>1, <5>2
      <4>4. Class(s[k]) \in Nat /\ Class(s[i]) \in Nat /\ Class(c) \in Nat /\ Class(s[k]) # 0
        BY <3>2, <4>1, ClassType
      <4> QED BY <3>1, <3>3, <4>3, <4>4
    <3>5. composePair(s[st], s[i + 1]) = 0
      BY <2>1, <3>2, <3>3, <3>4 DEF Composed, c
    <3> QED BY <3>1, <3>3, <3>5 DEF c
  <2>7. CASE Class(c) = 0
    <3>1. u[i + 1] = [out |-> Upto(s, i + 1), starter |-> i + 1, ccc |-> 0]
      BY <2>2, <2>4, <2>5, <2>6, <2>7, AbsorbCases
    <3>2. (i + 1) \in 0..(i + 1) /\ ((i + 1) + 1)..(i + 1) = {}
      BY <2>1
    <3>3. LastStarter(s, i + 1, i + 1)
      BY <2>7, <3>2 DEF LastStarter, c
    <3> QED BY <2>1, <2>7, <3>1, <3>3 DEF c
  <2>8. CASE Class(c) # 0
    <3>1. u[i + 1] = [out |-> Upto(s, i + 1), starter |-> acc.starter, ccc |-> Class(c)]
      BY <2>2, <2>4, <2>5, <2>6, <2>8, AbsorbCases
    <3>2. LastStarter(s, i + 1, acc.starter)
      <4>1. acc.starter \in 0..i /\ (acc.starter = 0 \/ Class(s[acc.starter]) = 0)
            /\ \A k \in (acc.starter + 1)..i : Class(s[k]) # 0
        BY <2>3 DEF LastStarter
      <4>2. acc.starter \in 0..(i + 1) /\ \A k \in (acc.starter + 1)..(i + 1) :
              k \in (acc.starter + 1)..i \/ k = i + 1
        BY <2>1, <4>1
      <4> QED BY <2>8, <4>1, <4>2 DEF LastStarter, c
    <3> QED BY <2>1, <3>1, <3>2 DEF c
  <2> QED BY <2>7, <2>8
<1>5. L \in S
  <2>1. 0..L \subseteq S /\ L \in 0..L
    <3> HIDE DEF S
    <3>1. L \in Int /\ 0 \in Int /\ L \in 0..L
      BY <1>1
    <3> QED BY <1>3, <1>4, <3>1, InductionOnInterval
  <2> QED BY <2>1
<1>6. s = Upto(s, L)
  BY LenProperties DEF Upto, Texts
<1> QED BY <1>2, <1>5, <1>6

\* A cluster whose starter takes its mark j.
Takes(s, j) ==
  /\ Cluster(s) /\ j \in 2..Len(s) /\ composePair(s[1], s[j]) # 0
  /\ \A k \in 2..(j - 1) : Class(s[k]) # Class(s[j])

\* The cluster with the starter and its mark j composed.
Taken(s, j) ==
  [i \in 1..(Len(s) - 1) |->
    IF i = 1 THEN composePair(s[1], s[j]) ELSE IF i < j THEN s[i] ELSE s[i + 1]]

LEMMA TakenIsCluster ==
  ASSUME NEW s \in Texts, NEW j, Takes(s, j)
  PROVE  /\ Taken(s, j) \in Texts /\ Len(Taken(s, j)) = Len(s) - 1 /\ Cluster(Taken(s, j))
         /\ Taken(s, j)[1] = composePair(s[1], s[j])
         /\ \A i \in 2..(j - 1) : i \in 1..(Len(s) - 1) /\ Taken(s, j)[i] = s[i]
         /\ \A i \in j..(Len(s) - 1) : i \in 1..(Len(s) - 1) /\ Taken(s, j)[i] = s[i + 1]
<1> DEFINE L == Len(s)
           t == Taken(s, j)
           P == composePair(s[1], s[j])
<1>1. L \in Nat /\ j \in 2..L /\ P # 0 /\ \A k \in 2..L : Class(s[k]) # 0
  BY LenProperties DEF Takes, Cluster, Texts
<1>2. P \in Codepoints /\ Class(P) = 0
  BY <1>1, PairFacts
<1>3. t = [i \in 1..(L - 1) |-> IF i = 1 THEN P ELSE IF i < j THEN s[i] ELSE s[i + 1]]
  BY DEF Taken
<1> HIDE DEF t, P
<1>4. 1 \in 1..(L - 1) /\ t[1] = P
  BY <1>1, <1>3
<1>5. ASSUME NEW i \in 2..(j - 1) PROVE i \in 1..(L - 1) /\ t[i] = s[i] /\ i \in 2..L
  <2>1. i \in 1..(L - 1) /\ i # 1 /\ i < j /\ i \in 2..L
    BY <1>1
  <2> QED BY <1>3, <2>1
<1>6. ASSUME NEW i \in j..(L - 1) PROVE i \in 1..(L - 1) /\ t[i] = s[i + 1] /\ i + 1 \in 2..L
  <2>1. i \in 1..(L - 1) /\ i # 1 /\ ~ (i < j) /\ i + 1 \in 2..L
    BY <1>1
  <2> QED BY <1>3, <2>1
<1>7. \A i \in 1..(L - 1) : i = 1 \/ i \in 2..(j - 1) \/ i \in j..(L - 1)
  BY <1>1
<1>8. \A i \in 2..L : s[i] \in Codepoints
  <2>1. \A i \in 2..L : i \in 1..L
    BY <1>1
  <2> QED BY <2>1, ElementOfSeq DEF Texts
<1>9. \A i \in 1..(L - 1) : t[i] \in Codepoints
  BY <1>2, <1>4, <1>5, <1>6, <1>7, <1>8
<1>10. t \in Texts /\ Len(t) = L - 1
  <2>1. L - 1 \in Nat /\ t = [i \in 1..(L - 1) |-> t[i]]
    BY <1>1, <1>3
  <2> QED BY <1>9, <2>1, IsASeq DEF Texts
<1>11. Cluster(t)
  <2>1. \A k \in 2..(L - 1) : k \in 2..(j - 1) \/ k \in j..(L - 1)
    BY <1>1
  <2>2. \A k \in 2..(L - 1) : Class(t[k]) # 0
    BY <1>1, <1>5, <1>6, <2>1
  <2> QED BY <1>2, <1>4, <1>10, <2>2 DEF Cluster
<1> QED BY <1>4, <1>5, <1>6, <1>10, <1>11 DEF t, P

\* What compose has made of an ordered cluster that takes its mark j.
TakenUpto(s, j, i, acc) ==
  /\ acc.starter = 1
  /\ i < j => acc.out = Upto(s, i) /\ acc.ccc = Class(s[i])
  /\ ~ (i < j) => acc.out = Upto(Taken(s, j), i - 1)

LEMMA ComposeTakes ==
  ASSUME NEW s \in Texts, NEW j, Takes(s, j), Ordered(s)
  PROVE  compose(s) = Taken(s, j)
<1> DEFINE L == Len(s)
           u == ComposeUpto(s)
           t == Taken(s, j)
           P == composePair(s[1], s[j])
           S == {i \in 1..L : TakenUpto(s, j, i, u[i])}
<1>1. /\ L \in Nat /\ j \in 2..L /\ P # 0 /\ Class(s[1]) = 0 /\ \A k \in 2..L : Class(s[k]) # 0
      /\ \A k \in 2..(j - 1) : Class(s[k]) # Class(s[j])
  BY LenProperties DEF Takes, Cluster, Texts
<1>2. /\ compose(s) = u[L].out
      /\ \A i \in 0..L : /\ u[i] \in Accumulators
                          /\ u[i] = IF i = 0 THEN Fresh ELSE Absorb(u[i - 1], s[i])
  BY ComposeUnfolds
<1>3. /\ t \in Texts /\ Len(t) = L - 1 /\ t[1] = P
      /\ \A i \in 2..(j - 1) : i \in 1..(L - 1) /\ t[i] = s[i]
      /\ \A i \in j..(L - 1) : i \in 1..(L - 1) /\ t[i] = s[i + 1]
  BY TakenIsCluster
<1>4. Class(P) = 0 /\ (\A c : composePair(P, c) = 0) /\ \A c : composePair(s[1], c) # 0 => Class(c) = Class(s[j])
  BY <1>1, PairFacts
<1> HIDE DEF u, t, P
<1>5. ASSUME NEW i \in 0..(L - 1)
      PROVE  /\ i + 1 \in 1..L /\ u[i] \in Accumulators /\ s[i + 1] \in Codepoints
             /\ u[i + 1] = Absorb(u[i], s[i + 1])
  <2>1. i \in 0..L /\ i + 1 \in 0..L /\ i + 1 \in 1..L /\ i + 1 # 0 /\ (i + 1) - 1 = i
    BY <1>1
  <2> QED BY <1>2, <2>1, ElementOfSeq DEF Texts
<1>6. 1 \in S
  <2>1. 0 \in 0..(L - 1) /\ 0 \in 0..L /\ 0 + 1 = 1 /\ u[0] = Fresh
    BY <1>1, <1>2
  <2>2. u[1] = Absorb(Fresh, s[1]) /\ Fresh \in Accumulators /\ s[1] \in Codepoints /\ 1 \in 1..L
    BY <1>5, <2>1
  <2>3. ~ Absorbs(Fresh, s[1])
    BY DEF Absorbs, Fresh
  <2>4. u[1] = [out |-> Append(<<>>, s[1]), starter |-> Len(<<>>) + 1, ccc |-> 0]
    BY <1>1, <2>2, <2>3, AbsorbCases DEF Fresh
  <2>5. Append(Upto(s, 0), s[0 + 1]) = Upto(s, 0 + 1) /\ Upto(s, 0) = <<>>
    BY <2>1, UptoNext DEF Upto
  <2>6. u[1].out = Upto(s, 1) /\ u[1].starter = 1 /\ u[1].ccc = 0 /\ 1 < j
    BY <1>1, <2>4, <2>5
  <2> QED BY <1>1, <2>2, <2>6 DEF TakenUpto
<1>7. ASSUME NEW i \in 1..(L - 1), i \in S PROVE i + 1 \in S
  <2> DEFINE acc == u[i]
             c == s[i + 1]
  <2>1. /\ i \in 0..(L - 1) /\ i \in 1..L /\ i + 1 \in 1..L /\ i + 1 \in 2..L
        /\ i \in Int /\ L \in Int /\ j \in Int /\ i >= 1 /\ i <= L - 1
    BY <1>1
  <2>2. /\ acc \in Accumulators /\ c \in Codepoints /\ u[i + 1] = Absorb(acc, c) /\ Class(c) # 0
        /\ Class(c) \in Nat
    BY <1>1, <1>5, <2>1, ClassType
  <2>3. /\ acc.starter = 1
        /\ i < j => acc.out = Upto(s, i) /\ acc.ccc = Class(s[i])
        /\ ~ (i < j) => acc.out = Upto(t, i - 1)
    BY <1>7 DEF TakenUpto, t
  <2> HIDE DEF acc, c
  <2>4. CASE i + 1 < j
    <3>1. i < j /\ i + 1 \in 2..(j - 1) /\ acc.out = Upto(s, i) /\ acc.out[1] = s[1]
      BY <2>1, <2>3, <2>4 DEF Upto
    <3>2. composePair(s[1], c) = 0
      BY <1>1, <1>4, <3>1 DEF c
    <3>3. ~ Absorbs(acc, c)
      BY <2>3, <3>1, <3>2 DEF Absorbs
    <3>4. u[i + 1] = [out |-> Append(acc.out, c), starter |-> acc.starter, ccc |-> Class(c)]
      BY <2>2, <3>3, AbsorbCases
    <3>5. Append(acc.out, c) = Upto(s, i + 1)
      BY <2>1, <3>1, UptoNext DEF c
    <3> QED BY <2>1, <2>3, <2>4, <3>4, <3>5 DEF TakenUpto, c
  <2>5. CASE i + 1 = j
    <3>1. i < j /\ acc.out = Upto(s, i) /\ acc.ccc = Class(s[i]) /\ acc.out[1] = s[1] /\ c = s[j]
      BY <2>1, <2>3, <2>5 DEF Upto, c
    <3>2. Class(c) > acc.ccc
      <4>1. CASE i = 1
        BY <1>1, <2>2, <3>1, <4>1
      <4>2. CASE i # 1
        <5>1. i \in 2..(j - 1) /\ i < i + 1 /\ \A k \in i..(i + 1) : k \in 2..L
          BY <2>1, <2>5, <4>2
        <5>2. Class(s[i]) <= Class(s[i + 1])
          BY <1>1, <2>1, <5>1 DEF Ordered
        <5>3. Class(s[i]) # Class(s[j]) /\ Class(s[i]) \in Nat
          BY <1>1, <5>1, ClassType
        <5> QED BY <2>2, <2>5, <3>1, <5>2, <5>3
      <4> QED BY <4>1, <4>2
    <3>3. Absorbs(acc, c) /\ composePair(acc.out[acc.starter], c) = P
      BY <1>1, <2>2, <2>3, <3>1, <3>2 DEF Absorbs, P
    <3>4. u[i + 1] = [out |-> [acc.out EXCEPT ![acc.starter] = P], starter |-> acc.starter, ccc |-> acc.ccc]
      BY <2>2, <3>3, AbsorbCases
    <3>5. [Upto(s, i) EXCEPT ![1] = P] = Upto(t, i)
      <4>1. Upto(s, i) = [k \in 1..i |-> s[k]] /\ Upto(t, i) = [k \in 1..i |-> t[k]]
        BY DEF Upto
      <4>2. \A k \in 1..i : k = 1 \/ (k # 1 /\ k \in 2..(j - 1))
        BY <2>1, <2>5
      <4>3. \A k \in 1..i : t[k] = IF k = 1 THEN P ELSE s[k]
        BY <1>3, <4>2
      <4>4. [Upto(s, i) EXCEPT ![1] = P] = [k \in 1..i |-> IF k = 1 THEN P ELSE s[k]]
        BY <4>1
      <4> QED BY <4>1, <4>3, <4>4
    <3>6. ~ (i + 1 < j) /\ (i + 1) - 1 = i
      BY <2>1, <2>5
    <3>7. u[i + 1].starter = 1 /\ u[i + 1].out = Upto(t, (i + 1) - 1)
      BY <2>3, <3>1, <3>4, <3>5, <3>6
    <3>8. i + 1 \in 1..L
      BY <2>1
    <3> QED BY <3>6, <3>7, <3>8 DEF TakenUpto, t
  <2>6. CASE j < i + 1
    <3>1. /\ ~ (i < j) /\ ~ (i + 1 < j) /\ (i + 1) - 1 = i /\ (i - 1) + 1 = i
          /\ i - 1 \in 0..(Len(t) - 1) /\ i \in j..(L - 1) /\ 1 \in 1..(i - 1)
      BY <1>1, <1>3, <2>1, <2>6
    <3>2. acc.out = Upto(t, i - 1) /\ acc.out[1] = P /\ c = t[i]
      BY <1>3, <2>3, <3>1 DEF Upto, c
    <3>3. ~ Absorbs(acc, c)
      BY <1>4, <2>3, <3>2 DEF Absorbs
    <3>4. u[i + 1] = [out |-> Append(acc.out, c), starter |-> acc.starter, ccc |-> Class(c)]
      BY <2>2, <3>3, AbsorbCases
    <3>5. Append(acc.out, c) = Upto(t, i)
      <4>1. Append(Upto(t, i - 1), t[(i - 1) + 1]) = Upto(t, (i - 1) + 1)
        BY <1>3, <3>1, UptoNext
      <4> QED BY <3>1, <3>2, <4>1
    <3>6. u[i + 1].starter = 1 /\ u[i + 1].out = Upto(t, (i + 1) - 1)
      BY <2>3, <3>1, <3>4, <3>5
    <3>7. ~ (i + 1 < j) /\ i + 1 \in 1..L
      BY <2>1, <3>1
    <3> QED BY <3>6, <3>7 DEF TakenUpto, t
  <2> QED BY <2>1, <2>4, <2>5, <2>6
<1>8. L \in S
  <2>1. 1..L \subseteq S /\ L \in 1..L
    <3> HIDE DEF S
    <3>1. L \in Int /\ 1 \in Int /\ L \in 1..L
      BY <1>1
    <3> QED BY <1>6, <1>7, <3>1, InductionOnInterval
  <2> QED BY <2>1
<1>9. u[L].out = Upto(t, L - 1)
  <2>1. ~ (L < j)
    BY <1>1
  <2> QED BY <1>8, <2>1 DEF TakenUpto, t
<1>10. t = Upto(t, L - 1)
  BY <1>3, LenProperties DEF Upto, Texts
<1> QED BY <1>2, <1>9, <1>10 DEF t

-----------------------------------------------------------------------------
(* What compose makes of a joined text.                                    *)

\* What has been absorbed into acc after the text O.
Shifted(O, acc) == [out |-> O \o acc.out, starter |-> Len(O) + acc.starter, ccc |-> acc.ccc]

LEMMA AppendToTexts ==
  ASSUME NEW x \in Texts, NEW y \in Texts, NEW c \in Codepoints
  PROVE  Append(x \o y, c) = x \o Append(y, c)
<1>1. <<c>> \in Texts /\ x \o y \in Texts
  BY ConcatProperties DEF Texts
<1>2. Append(x \o y, c) = (x \o y) \o <<c>> /\ Append(y, c) = y \o <<c>>
  BY <1>1, AppendIsConcat DEF Texts
<1>3. (x \o y) \o <<c>> = x \o (y \o <<c>>)
  BY <1>1, ConcatAssociative DEF Texts
<1> QED BY <1>2, <1>3

LEMMA AbsorbShifts ==
  ASSUME NEW O \in Texts, NEW acc \in Accumulators, NEW c \in Codepoints,
         acc.starter \in 1..Len(acc.out)
  PROVE  /\ Absorb(Shifted(O, acc), c) = Shifted(O, Absorb(acc, c))
         /\ Absorb(acc, c).starter \in 1..Len(Absorb(acc, c).out)
<1> DEFINE a == Shifted(O, acc)
           K == Len(O)
           N == Len(acc.out)
           st == acc.starter
<1>1. acc.out \in Texts /\ st \in Nat /\ acc.ccc \in Int
  BY DEF Accumulators
<1>2. /\ O \o acc.out \in Texts /\ K \in Nat /\ N \in Nat /\ Len(O \o acc.out) = K + N
      /\ (\A i \in 1..K : (O \o acc.out)[i] = O[i])
      /\ \A i \in 1..N : (O \o acc.out)[K + i] = acc.out[i]
  BY <1>1, ConcatParts DEF Texts
<1>3. a \in Accumulators
  BY <1>1, <1>2 DEF Accumulators, Shifted
<1>4. /\ a.out = O \o acc.out /\ a.starter = K + st /\ a.ccc = acc.ccc /\ st \in 1..N
      /\ st > 0 /\ K + st > 0
  BY <1>1, <1>2 DEF Shifted
<1>5. a.out[a.starter] = acc.out[st]
  BY <1>2, <1>4
<1> HIDE DEF a, K, N, st
<1>6. Absorbs(a, c) <=> Absorbs(acc, c)
  BY <1>4, <1>5 DEF Absorbs, st
<1>7. Append(O \o acc.out, c) = O \o Append(acc.out, c)
  BY <1>1, AppendToTexts
<1>8. Append(acc.out, c) \in Texts /\ Len(Append(acc.out, c)) = N + 1
  BY <1>1, AppendProperties DEF Texts, N
<1>9. CASE Absorbs(acc, c)
  <2> DEFINE P == composePair(acc.out[st], c)
             w == [acc.out EXCEPT ![st] = P]
             W == [(O \o acc.out) EXCEPT ![K + st] = P]
  <2>1. P \in Codepoints
    BY <1>9, PairFacts DEF Absorbs, st
  <2>2. Absorb(acc, c) = [out |-> w, starter |-> st, ccc |-> acc.ccc]
    BY <1>9, AbsorbCases DEF st
  <2>3. Absorb(a, c) = [out |-> W, starter |-> K + st, ccc |-> acc.ccc]
    BY <1>3, <1>4, <1>5, <1>6, <1>9, AbsorbCases
  <2> HIDE DEF P
  <2>4. w \in Texts /\ Len(w) = N /\ \A i \in 1..N : w[i] = IF i = st THEN P ELSE acc.out[i]
    BY <1>1, <1>4, <2>1, ExceptSeq DEF Texts, N
  <2>5. K + st \in 1..(K + N)
    BY <1>2, <1>4
  <2>6. /\ W \in Texts /\ Len(W) = K + N
        /\ \A i \in 1..(K + N) : W[i] = IF i = K + st THEN P ELSE (O \o acc.out)[i]
    <3> DEFINE J == O \o acc.out
    <3>1. J \in Seq(Codepoints) /\ Len(J) = K + N /\ K + st \in 1..Len(J)
      BY <1>2, <2>5 DEF Texts
    <3> HIDE DEF J
    <3>2. /\ [J EXCEPT ![K + st] = P] \in Seq(Codepoints) /\ Len([J EXCEPT ![K + st] = P]) = Len(J)
          /\ \A i \in 1..Len(J) : [J EXCEPT ![K + st] = P][i] = IF i = K + st THEN P ELSE J[i]
      BY <2>1, <3>1, ExceptSeq
    <3> QED BY <3>1, <3>2 DEF J, Texts
  <2> HIDE DEF w, W
  <2>7. /\ O \o w \in Texts /\ Len(O \o w) = K + N
        /\ (\A i \in 1..K : (O \o w)[i] = O[i])
        /\ \A i \in 1..N : (O \o w)[K + i] = w[i]
    <3>1. O \in Seq(Codepoints) /\ w \in Seq(Codepoints)
      BY <2>4 DEF Texts
    <3>2. /\ O \o w \in Seq(Codepoints) /\ Len(O \o w) = Len(O) + Len(w)
          /\ (\A i \in 1..Len(O) : (O \o w)[i] = O[i])
          /\ \A i \in 1..Len(w) : (O \o w)[Len(O) + i] = w[i]
      BY <3>1, ConcatParts
    <3> QED BY <2>4, <3>2 DEF Texts, K
  <2>8. ASSUME NEW i \in 1..(K + N) PROVE W[i] = (O \o w)[i]
    <3>1. ASSUME i \in 1..K PROVE W[i] = (O \o w)[i]
      <4>1. i # K + st
        BY <1>2, <1>4, <3>1
      <4> QED BY <1>2, <2>6, <2>7, <3>1, <4>1
    <3>2. ASSUME NEW k \in 1..N, i = K + k PROVE W[i] = (O \o w)[i]
      <4>1. i = K + st <=> k = st
        BY <1>2, <1>4, <3>2
      <4>2. W[i] = IF k = st THEN P ELSE (O \o acc.out)[K + k]
        BY <2>6, <3>2, <4>1
      <4>3. (O \o w)[i] = w[k]
        BY <2>7, <3>2
      <4>4. CASE k = st
        BY <2>4, <4>2, <4>3, <4>4
      <4>5. CASE k # st
        BY <1>2, <2>4, <4>2, <4>3, <4>5
      <4> QED BY <4>4, <4>5
    <3> QED BY <1>2, <3>1, <3>2, PartOf
  <2>9. W = O \o w
    BY <2>6, <2>7, <2>8, SeqEqual DEF Texts
  <2> QED BY <1>4, <2>2, <2>3, <2>4, <2>9 DEF Shifted, a, K
<1>10. CASE ~ Absorbs(acc, c) /\ Class(c) = 0
  <2>1. Absorb(acc, c) = [out |-> Append(acc.out, c), starter |-> N + 1, ccc |-> 0]
    BY <1>10, AbsorbCases DEF N
  <2>2. Absorb(a, c) = [out |-> Append(O \o acc.out, c), starter |-> (K + N) + 1, ccc |-> 0]
    <3>1. ~ Absorbs(a, c)
      BY <1>6, <1>10
    <3>2. Absorb(a, c) = [out |-> Append(a.out, c), starter |-> Len(a.out) + 1, ccc |-> 0]
      BY <1>3, <1>10, <3>1, AbsorbCases
    <3> QED BY <1>2, <1>4, <3>2
  <2>3. (K + N) + 1 = K + (N + 1) /\ N + 1 \in 1..(N + 1)
    BY <1>2
  <2> DEFINE v == Append(acc.out, c)
             r == Absorb(acc, c)
  <2> HIDE DEF v, r
  <2>4. r.out = v /\ r.starter = N + 1 /\ r.ccc = 0 /\ Len(v) = N + 1
    BY <1>8, <2>1 DEF r, v
  <2>5. Shifted(O, r) = [out |-> O \o v, starter |-> K + (N + 1), ccc |-> 0]
    BY <2>4 DEF Shifted, K
  <2>6. Absorb(a, c) = [out |-> O \o v, starter |-> K + (N + 1), ccc |-> 0]
    BY <1>7, <2>2, <2>3 DEF v
  <2>7. r.starter \in 1..Len(r.out)
    BY <2>3, <2>4
  <2> QED BY <2>5, <2>6, <2>7 DEF r, a
<1>11. CASE ~ Absorbs(acc, c) /\ Class(c) # 0
  <2>1. Absorb(acc, c) = [out |-> Append(acc.out, c), starter |-> st, ccc |-> Class(c)]
    BY <1>11, AbsorbCases DEF st
  <2>2. Absorb(a, c) = [out |-> Append(O \o acc.out, c), starter |-> K + st, ccc |-> Class(c)]
    BY <1>3, <1>4, <1>6, <1>11, AbsorbCases
  <2>3. st \in 1..(N + 1)
    BY <1>2, <1>4
  <2> QED BY <1>7, <1>8, <2>1, <2>2, <2>3 DEF Shifted, a, K
<1> QED BY <1>9, <1>10, <1>11 DEF a

LEMMA ComposeOfJoin ==
  ASSUME NEW x \in Texts, NEW y \in Texts, 1 \in 1..Len(y), Class(y[1]) = 0
  PROVE  compose(x \o y) = compose(x) \o compose(y)
<1> DEFINE M == Len(x)
           N == Len(y)
           s == x \o y
           f == ComposeUpto(s)
           g == ComposeUpto(x)
           h == ComposeUpto(y)
           O == compose(x)
<1>1. /\ s \in Texts /\ M \in Nat /\ N \in Nat /\ Len(s) = M + N
      /\ (\A i \in 1..M : s[i] = x[i]) /\ \A i \in 1..N : s[M + i] = y[i]
  BY ConcatParts DEF Texts
<1>2. /\ compose(s) = f[M + N].out
      /\ \A i \in 0..(M + N) : f[i] \in Accumulators /\ f[i] = IF i = 0 THEN Fresh ELSE Absorb(f[i - 1], s[i])
  BY <1>1, ComposeUnfolds
<1>3. /\ O = g[M].out
      /\ \A i \in 0..M : g[i] \in Accumulators /\ g[i] = IF i = 0 THEN Fresh ELSE Absorb(g[i - 1], x[i])
  BY ComposeUnfolds
<1>4. /\ compose(y) = h[N].out
      /\ \A i \in 0..N : h[i] \in Accumulators /\ h[i] = IF i = 0 THEN Fresh ELSE Absorb(h[i - 1], y[i])
  BY ComposeUnfolds
<1> HIDE DEF f, g, h, s, O, M, N
<1>5. O \in Texts /\ g[M] \in Accumulators
  <2>1. M \in 0..M
    BY <1>1
  <2> QED BY <1>3, <2>1 DEF Accumulators
<1>6. f[M] = g[M]
  <2> DEFINE S == {i \in 0..M : f[i] = g[i]}
  <2>1. 0 \in S
    <3>1. 0 \in 0..M /\ 0 \in 0..(M + N)
      BY <1>1
    <3> QED BY <1>2, <1>3, <3>1
  <2>2. ASSUME NEW i \in 0..(M - 1), i \in S PROVE i + 1 \in S
    <3>1. /\ i + 1 \in 0..M /\ i + 1 \in 1..M /\ i + 1 \in 0..(M + N) /\ i + 1 # 0 /\ (i + 1) - 1 = i
      BY <1>1
    <3> QED BY <1>1, <1>2, <1>3, <2>2, <3>1
  <2>3. 0..M \subseteq S /\ M \in 0..M
    <3> HIDE DEF S
    <3>1. 0 \in Int /\ M \in Int /\ M \in 0..M
      BY <1>1
    <3> QED BY <2>1, <2>2, <3>1, InductionOnInterval
  <2> QED BY <2>3
<1> DEFINE S == {i \in 1..N : f[M + i] = Shifted(O, h[i]) /\ h[i].starter \in 1..Len(h[i].out)}
<1>7. 1 \in S
  <2>1. /\ 0 \in 0..N /\ 1 \in 0..N /\ 1 \in 1..N /\ M + 1 \in 0..(M + N) /\ M + 1 # 0
        /\ (M + 1) - 1 = M /\ M \in 0..(M + N)
    BY <1>1 DEF N
  <2>2. h[1] = Absorb(Fresh, y[1]) /\ f[M + 1] = Absorb(f[M], y[1]) /\ Fresh \in Accumulators
    <3>1. h[0] = Fresh /\ h[0] \in Accumulators
      BY <1>4, <2>1
    <3> QED BY <1>1, <1>2, <1>4, <2>1, <3>1
  <2>3. y[1] \in Codepoints
    BY ElementOfSeq DEF Texts
  <2>4. ~ Absorbs(Fresh, y[1]) /\ ~ Absorbs(f[M], y[1])
    BY DEF Absorbs
  <2>5. h[1] = [out |-> Append(<<>>, y[1]), starter |-> Len(<<>>) + 1, ccc |-> 0]
    BY <2>2, <2>3, <2>4, AbsorbCases DEF Fresh
  <2>6. f[M + 1] = [out |-> Append(O, y[1]), starter |-> Len(O) + 1, ccc |-> 0]
    BY <1>3, <1>5, <1>6, <2>2, <2>3, <2>4, AbsorbCases
  <2>7. Append(O, y[1]) = O \o Append(<<>>, y[1])
    <3>1. <<>> \in Texts /\ O \o <<>> = O
      BY <1>5, EmptySeq, ConcatEmptySeq DEF Texts
    <3>2. Append(O \o <<>>, y[1]) = O \o Append(<<>>, y[1])
      BY <1>5, <2>3, <3>1, AppendToTexts
    <3> QED BY <3>1, <3>2
  <2>8. Len(Append(<<>>, y[1])) = 1 /\ Len(<<>>) + 1 = 1
    OBVIOUS
  <2> DEFINE v == Append(<<>>, y[1])
             r == h[1]
  <2> HIDE DEF v, r
  <2>9. r.out = v /\ r.starter = 1 /\ r.ccc = 0 /\ Len(v) = 1
    BY <2>5, <2>8 DEF r, v
  <2>10. Shifted(O, r) = [out |-> O \o v, starter |-> Len(O) + 1, ccc |-> 0]
    BY <2>9 DEF Shifted
  <2>11. f[M + 1] = Shifted(O, r) /\ r.starter \in 1..Len(r.out)
    BY <2>6, <2>7, <2>9, <2>10 DEF v
  <2> QED BY <2>1, <2>11 DEF r
<1>8. ASSUME NEW i \in 1..(N - 1), i \in S PROVE i + 1 \in S
  <2>1. /\ i \in 0..N /\ i + 1 \in 1..N /\ i + 1 \in 0..N /\ i + 1 # 0 /\ (i + 1) - 1 = i
        /\ M + (i + 1) \in 0..(M + N) /\ M + (i + 1) # 0 /\ (M + (i + 1)) - 1 = M + i
    BY <1>1
  <2>2. y[i + 1] \in Codepoints
    BY <2>1, ElementOfSeq DEF Texts, N
  <2>3. h[i + 1] = Absorb(h[i], y[i + 1]) /\ h[i] \in Accumulators
    BY <1>4, <2>1
  <2>4. f[M + (i + 1)] = Absorb(f[M + i], y[i + 1])
    BY <1>1, <1>2, <2>1
  <2>5. f[M + i] = Shifted(O, h[i]) /\ h[i].starter \in 1..Len(h[i].out)
    BY <1>8
  <2>6. /\ Absorb(Shifted(O, h[i]), y[i + 1]) = Shifted(O, Absorb(h[i], y[i + 1]))
        /\ Absorb(h[i], y[i + 1]).starter \in 1..Len(Absorb(h[i], y[i + 1]).out)
    BY <1>5, <2>2, <2>3, <2>5, AbsorbShifts
  <2>7. f[M + (i + 1)] = Shifted(O, h[i + 1]) /\ h[i + 1].starter \in 1..Len(h[i + 1].out)
    BY <2>3, <2>4, <2>5, <2>6
  <2> QED BY <2>1, <2>7
<1>9. N \in S
  <2>1. N \in 1..N /\ N \in Int /\ 1 \in Int
    BY <1>1 DEF N
  <2>2. 1..N \subseteq S
    <3> HIDE DEF S
    <3> QED BY <1>7, <1>8, <2>1, InductionOnInterval
  <2> QED BY <2>1, <2>2
<1> QED BY <1>2, <1>4, <1>9 DEF Shifted, s, O

LEMMA NfcOfJoin ==
  ASSUME NEW x \in Texts, NEW y \in Texts, 1 \in 1..Len(y), Class(y[1]) = 0
  PROVE  toNFC(x \o y) = toNFC(x) \o toNFC(y)
<1> DEFINE u == canonicalOrder(x)
           v == canonicalOrder(y)
<1>1. canonicalOrder(x \o y) = u \o v
  BY OrderOfJoin DEF Texts
<1>2. u \in StableReorderings(x) /\ v \in StableReorderings(y)
  BY OrderProperties DEF Texts
<1>3. u \in Texts /\ v \in Texts /\ Len(v) = Len(y)
  BY <1>2, RearrangedIsText DEF Texts
<1>4. Class(v[1]) = 0
  BY <1>2, SameStarters DEF Texts
<1> HIDE DEF u, v
<1>5. compose(u \o v) = compose(u) \o compose(v)
  BY <1>3, <1>4, ComposeOfJoin
<1> QED BY <1>1, <1>5 DEF toNFC, u, v

-----------------------------------------------------------------------------
(* The normal form of a cluster.                                           *)

\* An order of a cluster permutes its marks.
LEMMA ClusterOrders ==
  ASSUME NEW X, NEW s \in Seq(X), Cluster(s), NEW p \in StableOrders(s)
  PROVE  /\ Len(s) \in Nat /\ p \in [1..Len(s) -> 1..Len(s)] /\ p[1] = 1
         /\ \A k \in 2..Len(s) : p[k] \in 2..Len(s)
         /\ \A m \in 2..Len(s) : \E k \in 2..Len(s) : p[k] = m
         /\ \A i, k \in 1..Len(s) : p[i] = p[k] => i = k
         /\ \A i, k \in 1..Len(s) : i < k /\ Class(s[p[i]]) = Class(s[p[k]]) => p[i] < p[k]
<1> DEFINE L == Len(s)
<1>1. L \in Nat /\ 1 \in 1..L /\ Class(s[1]) = 0 /\ \A k \in 2..L : Class(s[k]) # 0
  BY LenProperties DEF Cluster
<1>2. /\ p \in [1..L -> 1..L]
      /\ \A i, k \in 1..L : p[i] = p[k] => i = k
      /\ \A i, k \in 1..L : Class(s[k]) = 0 => (i = k => p[i] = k)
      /\ \A i, k \in 1..L : i < k /\ Class(s[p[i]]) = Class(s[p[k]]) => p[i] < p[k]
  BY DEF StableOrders
<1>3. p[1] = 1
  BY <1>1, <1>2
<1>4. CASE L = 1
  <2>1. 2..L = {}
    BY <1>4
  <2> QED BY <1>1, <1>2, <1>3, <2>1
<1>5. CASE L # 1
  <2>1. 2 \in 1..L /\ L \in 2..L /\ 2 - 1 = 1
    <3>1. L \in Nat /\ 1 <= L /\ L # 1
      BY <1>1, <1>5
    <3> HIDE DEF L
    <3> QED BY <3>1
  <2>2. IsRun(s, 2, L)
    BY <1>1, <2>1 DEF IsRun
  <2>3. /\ \A k \in 2..L : p[k] \in 2..L
        /\ \A i \in 2..L : \E j \in 2..L : p[j] = i
    BY <2>2, RunIsPermuted
  <2> QED BY <1>1, <1>2, <1>3, <2>3
<1> QED BY <1>4, <1>5

LEMMA ReorderedCluster ==
  ASSUME NEW X, NEW s \in Seq(X), Cluster(s), NEW t \in StableReorderings(s)
  PROVE  t \in Seq(X) /\ Len(t) = Len(s) /\ Cluster(t) /\ t[1] = s[1]
<1>1. t \in Seq(X) /\ Len(t) = Len(s) /\ Len(s) \in Nat
  BY RearrangedIsText
<1>2. 1 \in 1..Len(s) /\ Class(s[1]) = 0 /\ \A k \in 2..Len(s) : Class(s[k]) # 0
  BY DEF Cluster
<1>3. t[1] = s[1]
  BY <1>2, SameStarters
<1>4. ASSUME NEW k \in 2..Len(s) PROVE Class(t[k]) # 0
  <2>1. k \in 1..Len(s)
    BY <1>1
  <2> QED BY <1>2, <2>1, SameStarters
<1> QED BY <1>1, <1>2, <1>3, <1>4 DEF Cluster

Permuted(t, s, p) == t = [i \in 1..Len(s) |-> s[p[i]]]

\* A rearranged cluster takes the same mark, wherever it now stands.
LEMMA TakenReorders ==
  ASSUME NEW s \in Texts, NEW j, Takes(s, j), NEW p \in StableOrders(s),
         NEW t, Permuted(t, s, p), NEW h \in 2..Len(s), p[h] = j
  PROVE  Takes(t, h) /\ Taken(t, h) \in StableReorderings(Taken(s, j))
<1> DEFINE L == Len(s)
           w == Taken(s, j)
           v == Taken(t, h)
<1>1. /\ Cluster(s) /\ j \in 2..L /\ composePair(s[1], s[j]) # 0
      /\ \A k \in 2..(j - 1) : Class(s[k]) # Class(s[j])
  BY DEF Takes
<1>2. /\ L \in Nat /\ p \in [1..L -> 1..L] /\ p[1] = 1
      /\ \A k \in 2..L : p[k] \in 2..L
      /\ \A i, k \in 1..L : p[i] = p[k] => i = k
      /\ \A i, k \in 1..L : i < k /\ Class(s[p[i]]) = Class(s[p[k]]) => p[i] < p[k]
  BY <1>1, ClusterOrders DEF Texts
<1>3. t \in Texts /\ Len(t) = L /\ Cluster(t) /\ t[1] = s[1]
  <2>1. t \in StableReorderings(s)
    BY DEF StableReorderings, Permuted
  <2> QED BY <1>1, <2>1, ReorderedCluster DEF Texts
<1>4. \A i \in 1..L : t[i] = s[p[i]]
  BY DEF Permuted
<1>5. t[h] = s[j] /\ h \in 1..L /\ j \in 1..L
  BY <1>1, <1>2, <1>4
<1>6. Takes(t, h)
  <2>1. ASSUME NEW k \in 2..(h - 1), Class(t[k]) = Class(t[h]) PROVE FALSE
    <3>1. k \in 2..L /\ k \in 1..L /\ k < h
      BY <1>2
    <3>2. p[k] < j /\ p[k] \in 2..L
      BY <1>2, <1>4, <1>5, <2>1, <3>1
    <3>3. p[k] \in 2..(j - 1)
      BY <1>1, <1>2, <3>2
    <3> QED BY <1>1, <1>4, <1>5, <2>1, <3>1, <3>3
  <2> QED BY <1>1, <1>3, <1>5, <2>1 DEF Takes
<1>7. /\ w \in Texts /\ Len(w) = L - 1 /\ Cluster(w) /\ w[1] = composePair(s[1], s[j])
      /\ \A i \in 2..(j - 1) : w[i] = s[i]
      /\ \A i \in j..(L - 1) : w[i] = s[i + 1]
  BY TakenIsCluster
<1>8. /\ v \in Texts /\ Len(v) = L - 1 /\ v[1] = composePair(s[1], s[j])
      /\ \A i \in 2..(h - 1) : v[i] = t[i]
      /\ \A i \in h..(L - 1) : v[i] = t[i + 1]
  <2>1. composePair(t[1], t[h]) = composePair(s[1], s[j])
    BY <1>3, <1>5
  <2>2. /\ v \in Texts /\ Len(v) = Len(t) - 1 /\ v[1] = composePair(t[1], t[h])
        /\ \A i \in 2..(h - 1) : v[i] = t[i]
        /\ \A i \in h..(Len(t) - 1) : v[i] = t[i + 1]
    <3>1. t \in Texts
      BY <1>3
    <3> QED BY <1>6, <3>1, TakenIsCluster
  <2> QED BY <1>3, <2>1, <2>2
<1> HIDE DEF w, v
<1> DEFINE up == [i \in 1..(L - 1) |-> IF i < h THEN i ELSE i + 1]
           down == [m \in (1..L) \ {j} |-> IF m < j THEN m ELSE m - 1]
<1>9. \A i \in 1..(L - 1) : up[i] \in 1..L /\ up[i] # h /\ (i = 1 => up[i] = 1) /\ (i # 1 => up[i] \in 2..L)
  BY <1>2
<1>10. \A i, k \in 1..(L - 1) : (i < k <=> up[i] < up[k]) /\ (up[i] = up[k] => i = k)
  BY <1>2
<1>11. \A m \in (1..L) \ {j} : down[m] \in 1..(L - 1) /\ (m = 1 => down[m] = 1) /\ (m # 1 => 1 < down[m])
  BY <1>1, <1>2
<1>12. \A m, n \in (1..L) \ {j} : (m < n <=> down[m] < down[n]) /\ (down[m] = down[n] => m = n)
  BY <1>1, <1>2
<1>13. ASSUME NEW i \in 1..(L - 1), i # 1 PROVE v[i] = t[up[i]]
  <2>1. CASE i < h
    <3>1. i \in 2..(h - 1) /\ up[i] = i
      BY <1>13, <2>1
    <3> QED BY <1>8, <3>1
  <2>2. CASE ~ (i < h)
    <3>1. i \in h..(L - 1) /\ up[i] = i + 1
      BY <1>13, <2>2
    <3> QED BY <1>8, <3>1
  <2> QED BY <2>1, <2>2
<1>14. ASSUME NEW m \in (1..L) \ {j}, m # 1 PROVE w[down[m]] = s[m]
  <2>1. CASE m < j
    <3>1. m \in 2..(j - 1) /\ down[m] = m
      BY <1>1, <1>14, <2>1
    <3> QED BY <1>7, <3>1
  <2>2. CASE ~ (m < j)
    <3>1. m - 1 \in j..(L - 1) /\ down[m] = m - 1 /\ (m - 1) + 1 = m
      BY <1>1, <1>2, <1>14, <2>2
    <3> QED BY <1>7, <3>1
  <2> QED BY <2>1, <2>2
<1> HIDE DEF up, down, L
<1> DEFINE q == [i \in 1..(L - 1) |-> down[p[up[i]]]]
<1>15. ASSUME NEW i \in 1..(L - 1)
       PROVE  /\ p[up[i]] \in (1..L) \ {j} /\ q[i] = down[p[up[i]]] /\ q[i] \in 1..(L - 1)
              /\ (i = 1 => q[i] = 1) /\ (i # 1 => 1 < q[i] /\ p[up[i]] # 1)
  <2>1. up[i] \in 1..L /\ up[i] # h /\ h \in 1..L
    BY <1>5, <1>9
  <2>2. p[up[i]] \in (1..L) \ {j}
    BY <1>2, <2>1
  <2>3. i = 1 => p[up[i]] = 1
    BY <1>2, <1>9
  <2>4. i # 1 => p[up[i]] \in 2..L
    BY <1>2, <1>9
  <2>5. i # 1 => p[up[i]] # 1
    BY <2>4
  <2>6. q[i] = down[p[up[i]]]
    OBVIOUS
  <2> HIDE DEF q
  <2> QED BY <1>11, <2>2, <2>3, <2>5, <2>6
<1>16. q \in [1..(L - 1) -> 1..(L - 1)]
  <2>1. \A i \in 1..(L - 1) : down[p[up[i]]] \in 1..(L - 1)
    BY <1>15
  <2> QED BY <2>1
<1> HIDE DEF q
<1>17. ASSUME NEW i \in 1..(L - 1), NEW k \in 1..(L - 1), q[i] = q[k] PROVE i = k
  <2>1. p[up[i]] = p[up[k]]
    BY <1>12, <1>15, <1>17
  <2>2. up[i] \in 1..L /\ up[k] \in 1..L
    BY <1>9
  <2>3. up[i] = up[k]
    BY <1>2, <2>1, <2>2
  <2> QED BY <1>10, <2>3
<1>18. ASSUME NEW i \in 1..(L - 1), i # 1 PROVE w[q[i]] = s[p[up[i]]] /\ v[i] = w[q[i]]
  <2>1. w[q[i]] = s[p[up[i]]]
    BY <1>14, <1>15, <1>18
  <2>2. v[i] = s[p[up[i]]]
    BY <1>4, <1>9, <1>13, <1>18 DEF L
  <2> QED BY <2>1, <2>2
<1>19. \A k \in 1..(L - 1) : (k = 1 => Class(w[k]) = 0) /\ (k # 1 => Class(w[k]) # 0)
  <2>1. \A k \in 1..(L - 1) : k = 1 \/ k \in 2..(L - 1)
    BY <1>2 DEF L
  <2> QED BY <1>7, <2>1 DEF Cluster
<1>20. ASSUME NEW i \in 1..(L - 1), NEW k \in 1..(L - 1), i < k, Class(w[q[i]]) = Class(w[q[k]])
       PROVE  q[i] < q[k]
  <2>1. k # 1 /\ (i # 1 => k # 1)
    BY <1>20
  <2>2. CASE i = 1
    BY <1>15, <2>1, <2>2
  <2>3. CASE i # 1
    <3>1. Class(s[p[up[i]]]) = Class(s[p[up[k]]])
      BY <1>18, <1>20, <2>1, <2>3
    <3>2. up[i] < up[k] /\ up[i] \in 1..L /\ up[k] \in 1..L
      BY <1>9, <1>10, <1>20
    <3>3. p[up[i]] < p[up[k]]
      BY <1>2, <3>1, <3>2
    <3> QED BY <1>12, <1>15, <3>3
  <2> QED BY <2>2, <2>3
<1>21. ASSUME NEW i \in 1..(L - 1), NEW k \in 1..(L - 1), Class(w[k]) = 0
       PROVE  (i < k => q[i] < k) /\ (i = k => q[i] = k) /\ (k < i => k < q[i])
  <2>1. k = 1 /\ ~ (i < 1) /\ (1 < i => i # 1)
    BY <1>19, <1>21
  <2> QED BY <1>15, <2>1
<1>22. q \in StableOrders(w)
  BY <1>7, <1>16, <1>17, <1>20, <1>21 DEF StableOrders
<1>23. v = [i \in 1..Len(w) |-> w[q[i]]]
  <2>1. \A i \in 1..(L - 1) : v[i] = w[q[i]]
    BY <1>7, <1>8, <1>15, <1>18
  <2>2. v = [i \in 1..(L - 1) |-> v[i]]
    BY <1>8, LenProperties DEF Texts
  <2> QED BY <1>7, <2>1, <2>2
<1>24. v \in StableReorderings(w)
  BY <1>22, <1>23 DEF StableReorderings
<1> QED BY <1>6, <1>24 DEF v, w

LEMMA TakenOrdered ==
  ASSUME NEW s \in Texts, NEW j, Takes(s, j), Ordered(s)
  PROVE  Ordered(Taken(s, j))
<1> DEFINE L == Len(s)
           w == Taken(s, j)
<1>1. L \in Nat /\ j \in 2..L /\ Cluster(s)
  BY LenProperties DEF Takes, Texts
<1>2. /\ Len(w) = L - 1 /\ Cluster(w)
      /\ \A i \in 2..(j - 1) : w[i] = s[i]
      /\ \A i \in j..(L - 1) : w[i] = s[i + 1]
  BY TakenIsCluster
<1> HIDE DEF w
<1> DEFINE up == [i \in 1..(L - 1) |-> IF i < j THEN i ELSE i + 1]
<1>3. ASSUME NEW i \in 2..(L - 1) PROVE w[i] = s[up[i]] /\ up[i] \in 2..L
  <2>1. CASE i < j
    <3>1. i \in 2..(j - 1) /\ up[i] = i /\ i \in 2..L
      BY <1>1, <2>1
    <3> QED BY <1>2, <3>1
  <2>2. CASE ~ (i < j)
    <3>1. i \in j..(L - 1) /\ up[i] = i + 1 /\ i + 1 \in 2..L
      BY <1>1, <2>2
    <3> QED BY <1>2, <3>1
  <2> QED BY <2>1, <2>2
<1>4. \A i, k \in 1..(L - 1) : i < k => up[i] < up[k]
  BY <1>1
<1> HIDE DEF up
<1>5. SUFFICES ASSUME NEW i \in 1..(L - 1), NEW k \in 1..(L - 1), i < k, \A m \in i..k : Class(w[m]) # 0
               PROVE  Class(w[i]) <= Class(w[k])
  BY <1>2 DEF Ordered, w
<1>6. i # 1
  <2>1. i \in i..k
    BY <1>1, <1>5
  <2> QED BY <1>2, <1>5, <2>1 DEF Cluster
<1>7. i \in 2..(L - 1) /\ k \in 2..(L - 1)
  BY <1>1, <1>5, <1>6
<1>8. up[i] < up[k] /\ up[i] \in 2..L /\ up[k] \in 2..L /\ w[i] = s[up[i]] /\ w[k] = s[up[k]]
  BY <1>3, <1>4, <1>5, <1>7
<1>9. \A m \in up[i]..up[k] : m \in 2..L
  BY <1>1, <1>8
<1>10. up[i] \in 1..L /\ up[k] \in 1..L
  BY <1>1, <1>8
<1> QED BY <1>1, <1>8, <1>9, <1>10 DEF Ordered, Cluster

LEMMA NfcOfTaken ==
  ASSUME NEW s \in Texts, NEW j, Takes(s, j)
  PROVE  /\ toNFC(s) = canonicalOrder(Taken(s, j))
         /\ Ordered(toNFC(s)) /\ toNFC(s)[1] = composePair(s[1], s[j])
         /\ Cluster(toNFC(s)) /\ Len(toNFC(s)) = Len(s) - 1 /\ toNFC(s) \in Texts
<1> DEFINE t == canonicalOrder(s)
           w == Taken(s, j)
<1>1. t \in StableReorderings(s) /\ Ordered(t)
  BY OrderProperties, OrderIsOrdered DEF Texts
<1>2. t \in Texts /\ Cluster(s) /\ j \in 2..Len(s)
  BY <1>1, RearrangedIsText DEF Texts, Takes
<1> HIDE DEF t
<1>3. PICK p \in StableOrders(s) : t = [i \in 1..Len(s) |-> s[p[i]]]
  BY <1>1 DEF StableReorderings
<1>4. PICK h \in 2..Len(s) : p[h] = j
  <2>1. \A m \in 2..Len(s) : \E k \in 2..Len(s) : p[k] = m
    BY <1>2, ClusterOrders DEF Texts
  <2> QED BY <1>2, <2>1
<1>5. Takes(t, h) /\ Taken(t, h) \in StableReorderings(w)
  BY <1>3, <1>4, TakenReorders DEF Permuted
<1>6. compose(t) = Taken(t, h) /\ Ordered(Taken(t, h))
  BY <1>1, <1>2, <1>5, ComposeTakes, TakenOrdered
<1>7. w \in Texts /\ Len(w) = Len(s) - 1 /\ Cluster(w) /\ w[1] = composePair(s[1], s[j])
  BY TakenIsCluster
<1> HIDE DEF w
<1>8. canonicalOrder(w) = Taken(t, h)
  BY <1>5, <1>6, <1>7, OrderedIsTheOrder DEF Texts
<1>9. toNFC(s) = Taken(t, h)
  BY <1>6 DEF toNFC, t
<1>10. /\ Taken(t, h) \in Texts /\ Len(Taken(t, h)) = Len(w)
       /\ Cluster(Taken(t, h)) /\ Taken(t, h)[1] = w[1]
  BY <1>5, <1>7, ReorderedCluster DEF Texts
<1> QED BY <1>6, <1>7, <1>8, <1>9, <1>10 DEF w

LEMMA NfcOfUntaken ==
  ASSUME NEW s \in Texts, Cluster(s), \A j : ~ Takes(s, j)
  PROVE  toNFC(s) = canonicalOrder(s) /\ Composed(canonicalOrder(s))
<1> DEFINE t == canonicalOrder(s)
           L == Len(s)
<1>1. t \in StableReorderings(s) /\ Ordered(t)
  BY OrderProperties, OrderIsOrdered DEF Texts
<1>2. t \in Texts /\ Len(t) = L /\ Cluster(t) /\ t[1] = s[1]
  BY <1>1, ReorderedCluster DEF Texts
<1> HIDE DEF t
<1>3. PICK p \in StableOrders(s) : t = [i \in 1..Len(s) |-> s[p[i]]]
  BY <1>1 DEF StableReorderings
<1>4. /\ L \in Nat /\ p \in [1..L -> 1..L]
      /\ \A k \in 2..L : p[k] \in 2..L
      /\ \A m \in 2..L : \E k \in 2..L : p[k] = m
      /\ \A i, k \in 1..L : i < k /\ Class(s[p[i]]) = Class(s[p[k]]) => p[i] < p[k]
  BY ClusterOrders DEF Texts
<1>5. \A i \in 1..L : t[i] = s[p[i]]
  BY <1>3
<1>6. ASSUME NEW i \in 1..L, NEW j \in 1..L, i < j, Class(t[i]) = 0,
             \A k \in (i + 1)..(j - 1) : Class(t[k]) \in 1..(Class(t[j]) - 1),
             composePair(t[i], t[j]) # 0
      PROVE  FALSE
  <2>1. i = 1
    <3>1. i \in 2..L => Class(t[i]) # 0
      BY <1>2 DEF Cluster
    <3> QED BY <1>4, <1>6, <3>1
  <2>2. j \in 2..L /\ p[j] \in 2..L
    BY <1>4, <1>6, <2>1
  <2>3. composePair(s[1], s[p[j]]) # 0
    BY <1>2, <1>5, <1>6, <2>1
  <2>4. PICK m \in 2..(p[j] - 1) : Class(s[m]) = Class(s[p[j]])
    BY <2>2, <2>3 DEF Takes
  <2>5. m \in 2..L /\ m < p[j] /\ m \in Int /\ p[j] \in Int
    <3>1. L \in Nat /\ p[j] \in 2..L /\ m \in 2..(p[j] - 1)
      BY <1>4, <2>2
    <3> HIDE DEF L
    <3> QED BY <3>1
  <2>6. PICK k \in 2..L : p[k] = m
    BY <1>4, <2>5
  <2>7. k \in 1..L /\ Class(t[k]) = Class(t[j])
    <3>1. k \in 1..L
      BY <1>4
    <3> QED BY <1>5, <1>6, <2>4, <2>6, <3>1
  <2>8. CASE k < j
    <3>1. k \in (i + 1)..(j - 1)
      BY <1>4, <2>1, <2>8
    <3>2. Class(t[j]) \in Nat
      BY ClassType
    <3> QED BY <1>6, <2>7, <3>1, <3>2
  <2>9. CASE k = j
    BY <1>4, <2>2, <2>5, <2>6, <2>9
  <2>10. CASE j < k
    <3>1. p[j] < m
      BY <1>4, <1>5, <2>4, <2>6, <2>7, <2>10
    <3> QED BY <1>4, <2>2, <2>5, <3>1
  <2> QED BY <1>4, <2>8, <2>9, <2>10
<1>7. Composed(t)
  BY <1>2, <1>6 DEF Composed
<1>8. compose(t) = t
  BY <1>1, <1>2, <1>7, ComposedStays
<1> QED BY <1>7, <1>8 DEF toNFC, t

LEMMA NfcOfMarks ==
  ASSUME NEW s \in Texts, Starterless(s)
  PROVE  /\ toNFC(s) = canonicalOrder(s) /\ Composed(canonicalOrder(s))
         /\ Starterless(canonicalOrder(s)) /\ Len(canonicalOrder(s)) = Len(s)
<1> DEFINE t == canonicalOrder(s)
<1>1. t \in StableReorderings(s) /\ Ordered(t)
  BY OrderProperties, OrderIsOrdered DEF Texts
<1>2. t \in Texts /\ Len(t) = Len(s)
  BY <1>1, RearrangedIsText DEF Texts
<1> HIDE DEF t
<1>3. \A i \in 1..Len(t) : Class(t[i]) # 0
  BY <1>1, <1>2, SameStarters DEF Starterless, Texts
<1>4. Composed(t)
  BY <1>3 DEF Composed
<1>5. compose(t) = t
  BY <1>1, <1>2, <1>4, ComposedStays
<1> QED BY <1>2, <1>3, <1>4, <1>5 DEF toNFC, t, Starterless

-----------------------------------------------------------------------------
(* The normal form of a text.                                              *)

\* A text that toNFC leaves as it is.
Normal(u) == Ordered(u) /\ Composed(u)

LEMMA NormalStays ==
  ASSUME NEW u \in Texts, Normal(u)
  PROVE  toNFC(u) = u
<1>1. canonicalOrder(u) = u
  BY OrderKeepsOrdered DEF Normal, Texts
<1>2. compose(u) = u
  BY ComposedStays DEF Normal
<1> QED BY <1>1, <1>2 DEF toNFC

LEMMA JoinNormal ==
  ASSUME NEW x \in Texts, NEW y \in Texts, Normal(x), Normal(y), 1 \in 1..Len(y), Class(y[1]) = 0
  PROVE  Normal(x \o y)
<1> DEFINE M == Len(x)
           N == Len(y)
           s == x \o y
<1>1. /\ Len(s) = M + N /\ M \in Nat /\ N \in Nat
      /\ (\A i \in 1..M : s[i] = x[i]) /\ \A i \in 1..N : s[M + i] = y[i]
  BY ConcatParts DEF Texts
<1>2. Ordered(s)
  BY JoinOrdered DEF Normal, Texts
<1> HIDE DEF s, M, N
<1>3. ASSUME NEW i \in 1..(M + N), NEW j \in 1..(M + N), i < j, Class(s[i]) = 0,
             \A k \in (i + 1)..(j - 1) : Class(s[k]) \in 1..(Class(s[j]) - 1)
      PROVE  composePair(s[i], s[j]) = 0
  <2>1. CASE j \in 1..M
    <3>1. i \in 1..M /\ \A k \in (i + 1)..(j - 1) : k \in 1..M
      BY <1>1, <1>3, <2>1
    <3>2. s[i] = x[i] /\ s[j] = x[j] /\ \A k \in (i + 1)..(j - 1) : s[k] = x[k]
      BY <1>1, <2>1, <3>1
    <3> QED BY <1>3, <2>1, <3>1, <3>2 DEF Normal, Composed, M
  <2>2. ASSUME i \in 1..M, NEW k \in 1..N, j = M + k PROVE composePair(s[i], s[j]) = 0
    <3>1. CASE k = 1
      <4>1. Class(s[j]) = 0
        BY <1>1, <2>2, <3>1
      <4> QED BY <4>1, PairFacts
    <3>2. CASE k # 1
      <4>1. M + 1 \in (i + 1)..(j - 1) /\ 1 \in 1..N
        BY <1>1, <2>2, <3>2 DEF N
      <4>2. Class(s[M + 1]) = 0 /\ Class(s[j]) \in Nat
        BY <1>1, <4>1, ClassType
      <4> QED BY <1>3, <4>1, <4>2
    <3> QED BY <3>1, <3>2
  <2>3. ASSUME NEW a \in 1..N, i = M + a, NEW b \in 1..N, j = M + b
        PROVE  composePair(s[i], s[j]) = 0
    <3>1. a < b /\ \A k \in (a + 1)..(b - 1) : k \in 1..N /\ M + k \in (i + 1)..(j - 1)
      BY <1>1, <1>3, <2>3
    <3>2. s[i] = y[a] /\ s[j] = y[b] /\ \A k \in (a + 1)..(b - 1) : s[M + k] = y[k]
      BY <1>1, <2>3, <3>1
    <3>3. \A k \in (a + 1)..(b - 1) : Class(y[k]) \in 1..(Class(y[b]) - 1)
      BY <1>3, <3>1, <3>2
    <3> QED BY <1>3, <3>1, <3>2, <3>3 DEF Normal, Composed, N
  <2>4. ASSUME NEW a \in 1..N, i = M + a, j \in 1..M PROVE FALSE
    BY <1>1, <1>3, <2>4
  <2> QED BY <1>1, <2>1, <2>2, <2>3, <2>4, PartOf
<1>4. Composed(s)
  BY <1>1, <1>3 DEF Composed
<1> QED BY <1>2, <1>4 DEF Normal, s

LEMMA PartsNormal ==
  ASSUME NEW x \in Texts, NEW y \in Texts, Normal(x \o y)
  PROVE  Normal(x) /\ Normal(y)
<1> DEFINE M == Len(x)
           N == Len(y)
           s == x \o y
<1>1. /\ Len(s) = M + N /\ M \in Nat /\ N \in Nat
      /\ (\A i \in 1..M : s[i] = x[i]) /\ \A i \in 1..N : s[M + i] = y[i]
  BY ConcatParts DEF Texts
<1>2. /\ \A i, j \in 1..(M + N) :
           i < j /\ (\A k \in i..j : Class(s[k]) # 0) => Class(s[i]) <= Class(s[j])
      /\ \A i, j \in 1..(M + N) :
           (/\ i < j /\ Class(s[i]) = 0
            /\ \A k \in (i + 1)..(j - 1) : Class(s[k]) \in 1..(Class(s[j]) - 1))
           => composePair(s[i], s[j]) = 0
  BY <1>1 DEF Normal, Ordered, Composed
<1> HIDE DEF s, M, N
<1>3. ASSUME NEW i \in 1..M, NEW j \in 1..M, i < j
      PROVE  /\ (\A k \in i..j : Class(x[k]) # 0) => Class(x[i]) <= Class(x[j])
             /\ (/\ Class(x[i]) = 0
                 /\ \A k \in (i + 1)..(j - 1) : Class(x[k]) \in 1..(Class(x[j]) - 1))
                => composePair(x[i], x[j]) = 0
  <2>1. /\ i \in 1..(M + N) /\ j \in 1..(M + N) /\ (\A k \in i..j : k \in 1..M)
        /\ \A k \in (i + 1)..(j - 1) : k \in 1..M
    BY <1>1
  <2>2. /\ s[i] = x[i] /\ s[j] = x[j] /\ (\A k \in i..j : s[k] = x[k])
        /\ \A k \in (i + 1)..(j - 1) : s[k] = x[k]
    BY <1>1, <2>1
  <2>3. (\A k \in i..j : Class(x[k]) # 0) => Class(x[i]) <= Class(x[j])
    BY <1>2, <1>3, <2>1, <2>2
  <2>4. (/\ Class(x[i]) = 0
         /\ \A k \in (i + 1)..(j - 1) : Class(x[k]) \in 1..(Class(x[j]) - 1))
        => composePair(x[i], x[j]) = 0
    BY <1>2, <1>3, <2>1, <2>2
  <2> QED BY <2>3, <2>4
<1>4. ASSUME NEW i \in 1..N, NEW j \in 1..N, i < j
      PROVE  /\ (\A k \in i..j : Class(y[k]) # 0) => Class(y[i]) <= Class(y[j])
             /\ (/\ Class(y[i]) = 0
                 /\ \A k \in (i + 1)..(j - 1) : Class(y[k]) \in 1..(Class(y[j]) - 1))
                => composePair(y[i], y[j]) = 0
  <2>1. M + i \in 1..(M + N) /\ M + j \in 1..(M + N) /\ M + i < M + j
    BY <1>1, <1>4
  <2>2. s[M + i] = y[i] /\ s[M + j] = y[j]
    BY <1>1
  <2>3. ASSUME NEW k \in (M + i)..(M + j) PROVE k - M \in i..j /\ s[k] = y[k - M]
    <3>1. k - M \in i..j /\ k - M \in 1..N /\ M + (k - M) = k
      BY <1>1
    <3> QED BY <1>1, <3>1
  <2>4. ASSUME NEW k \in ((M + i) + 1)..((M + j) - 1)
        PROVE  k - M \in (i + 1)..(j - 1) /\ s[k] = y[k - M]
    <3>1. k - M \in (i + 1)..(j - 1) /\ k - M \in 1..N /\ M + (k - M) = k
      BY <1>1
    <3> QED BY <1>1, <3>1
  <2>5. (\A k \in i..j : Class(y[k]) # 0) => Class(y[i]) <= Class(y[j])
    BY <1>2, <2>1, <2>2, <2>3
  <2>6. (/\ Class(y[i]) = 0
         /\ \A k \in (i + 1)..(j - 1) : Class(y[k]) \in 1..(Class(y[j]) - 1))
        => composePair(y[i], y[j]) = 0
    BY <1>2, <2>1, <2>2, <2>4
  <2> QED BY <2>5, <2>6
<1>5. Ordered(x) /\ Composed(x)
  BY <1>3 DEF Ordered, Composed, M
<1>6. Ordered(y) /\ Composed(y)
  BY <1>4 DEF Ordered, Composed, N
<1> QED BY <1>5, <1>6 DEF Normal

LEMMA NfcOfCluster ==
  ASSUME NEW s \in Texts, Cluster(s)
  PROVE  /\ toNFC(s) \in Texts /\ Cluster(toNFC(s)) /\ Normal(toNFC(s))
         /\ Len(toNFC(s)) \in (Len(s) - 1)..Len(s)
<1>1. Len(s) \in Nat
  BY LenProperties DEF Texts
<1>2. ASSUME NEW j, Takes(s, j)
      PROVE  /\ toNFC(s) \in Texts /\ Cluster(toNFC(s)) /\ Normal(toNFC(s))
             /\ Len(toNFC(s)) \in (Len(s) - 1)..Len(s)
  <2> DEFINE u == toNFC(s)
  <2>1. /\ u \in Texts /\ Cluster(u) /\ Ordered(u) /\ Len(u) = Len(s) - 1
        /\ u[1] = composePair(s[1], s[j])
    BY <1>2, NfcOfTaken
  <2> HIDE DEF u
  <2>2. Composed(u)
    <3> SUFFICES ASSUME NEW i \in 1..Len(u), NEW k \in 1..Len(u), i < k, Class(u[i]) = 0
                 PROVE  composePair(u[i], u[k]) = 0
      BY DEF Composed
    <3>1. i = 1
      <4>1. i \in 2..Len(u) => Class(u[i]) # 0
        BY <2>1 DEF Cluster
      <4>2. i = 1 \/ i \in 2..Len(u)
        BY <1>1, <2>1
      <4> QED BY <4>1, <4>2
    <3>2. composePair(s[1], s[j]) # 0
      BY <1>2 DEF Takes
    <3> QED BY <2>1, <3>1, <3>2, PairFacts
  <2>3. Len(u) \in (Len(s) - 1)..Len(s)
    BY <1>1, <2>1
  <2> QED BY <2>1, <2>2, <2>3 DEF Normal, u
<1>3. CASE \A j : ~ Takes(s, j)
  <2> DEFINE u == canonicalOrder(s)
  <2>1. toNFC(s) = u /\ Composed(u)
    BY <1>3, NfcOfUntaken
  <2>2. u \in StableReorderings(s) /\ Ordered(u)
    BY OrderProperties, OrderIsOrdered DEF Texts
  <2> HIDE DEF u
  <2>3. u \in Texts /\ Len(u) = Len(s) /\ Cluster(u)
    BY <2>2, ReorderedCluster DEF Texts
  <2>4. Len(u) \in (Len(s) - 1)..Len(s)
    BY <1>1, <2>3
  <2> QED BY <2>1, <2>2, <2>3, <2>4 DEF Normal
<1> QED BY <1>2, <1>3

\* toNFC gives a normal form.
LEMMA NfcIsNormal ==
  ASSUME NEW s \in Texts
  PROVE  toNFC(s) \in Texts /\ Normal(toNFC(s))
<1> DEFINE S == {t \in Texts : toNFC(t) \in Texts /\ Normal(toNFC(t))}
<1>1. ASSUME NEW t \in Texts, Starterless(t) PROVE t \in S
  <2>1. toNFC(t) = canonicalOrder(t) /\ Composed(canonicalOrder(t))
    BY <1>1, NfcOfMarks
  <2>2. canonicalOrder(t) \in StableReorderings(t) /\ Ordered(canonicalOrder(t))
    BY OrderProperties, OrderIsOrdered DEF Texts
  <2>3. canonicalOrder(t) \in Texts
    BY <2>2, RearrangedIsText DEF Texts
  <2> QED BY <2>1, <2>2, <2>3 DEF Normal
<1>2. ASSUME NEW x \in Texts, NEW y \in Texts, x \in S, Cluster(y) PROVE x \o y \in S
  <2> DEFINE u == toNFC(x)
             v == toNFC(y)
  <2>1. 1 \in 1..Len(y) /\ Class(y[1]) = 0
    BY <1>2 DEF Cluster
  <2>2. toNFC(x \o y) = u \o v
    BY <2>1, NfcOfJoin
  <2>3. v \in Texts /\ Normal(v) /\ Cluster(v) /\ u \in Texts /\ Normal(u)
    BY <1>2, NfcOfCluster
  <2> HIDE DEF u, v
  <2>4. 1 \in 1..Len(v) /\ Class(v[1]) = 0
    BY <2>3 DEF Cluster
  <2>5. u \o v \in Texts /\ Normal(u \o v)
    BY <2>3, <2>4, JoinNormal, ConcatProperties DEF Texts
  <2>6. x \o y \in Texts
    BY ConcatProperties DEF Texts
  <2> QED BY <2>2, <2>5, <2>6
<1>3. Texts \subseteq S
  <2> HIDE DEF S
  <2> QED BY <1>1, <1>2, InductionOnClusters DEF Texts
<1> QED BY <1>3

-----------------------------------------------------------------------------
(* The normal form of a longer text.                                       *)

LEMMA AppendText ==
  ASSUME NEW s \in Texts, NEW c \in Codepoints
  PROVE  /\ Append(s, c) \in Texts /\ Len(Append(s, c)) = Len(s) + 1 /\ Len(s) \in Nat
         /\ \A i \in 1..Len(s) : Append(s, c)[i] = s[i]
         /\ Append(s, c)[Len(s) + 1] = c
BY AppendProperties, LenProperties DEF Texts

LEMMA LongerCluster ==
  ASSUME NEW s \in Texts, Cluster(s), NEW c \in Codepoints, Class(c) # 0
  PROVE  Cluster(Append(s, c)) /\ Append(s, c)[1] = s[1]
<1> DEFINE w == Append(s, c)
<1>1. /\ Len(w) = Len(s) + 1 /\ Len(s) \in Nat
      /\ (\A i \in 1..Len(s) : w[i] = s[i]) /\ w[Len(s) + 1] = c
  BY AppendText
<1>2. 1 \in 1..Len(s) /\ Class(s[1]) = 0 /\ \A k \in 2..Len(s) : Class(s[k]) # 0
  BY DEF Cluster
<1> HIDE DEF w
<1>3. 1 \in 1..(Len(s) + 1) /\ \A k \in 2..(Len(s) + 1) : (k \in 2..Len(s) /\ k \in 1..Len(s)) \/ k = Len(s) + 1
  BY <1>1
<1>4. \A k \in 2..(Len(s) + 1) : Class(w[k]) # 0
  BY <1>1, <1>2, <1>3
<1> QED BY <1>1, <1>2, <1>3, <1>4 DEF Cluster, w

LEMMA LongerTaken ==
  ASSUME NEW s \in Texts, NEW j, Takes(s, j), NEW c \in Codepoints, Class(c) # 0
  PROVE  Takes(Append(s, c), j) /\ Taken(Append(s, c), j) = Append(Taken(s, j), c)
<1> DEFINE w == Append(s, c)
           L == Len(s)
           v == Taken(s, j)
           P == composePair(s[1], s[j])
<1>1. /\ Cluster(s) /\ j \in 2..L /\ P # 0
      /\ \A k \in 2..(j - 1) : Class(s[k]) # Class(s[j])
  BY DEF Takes
<1>2. /\ Len(w) = L + 1 /\ L \in Nat /\ w \in Texts
      /\ (\A i \in 1..L : w[i] = s[i]) /\ w[L + 1] = c
  BY AppendText
<1>3. Cluster(w) /\ w[1] = s[1]
  BY <1>1, LongerCluster
<1>4. v \in Texts /\ Len(v) = L - 1
  BY TakenIsCluster
<1>5. Append(v, c) = [i \in 1..((L - 1) + 1) |-> IF i <= L - 1 THEN v[i] ELSE c]
  BY <1>4, AppendIs DEF Texts
<1>6. v = [i \in 1..(L - 1) |-> IF i = 1 THEN P ELSE IF i < j THEN s[i] ELSE s[i + 1]]
  BY DEF Taken
<1>7. Taken(w, j) = [i \in 1..(Len(w) - 1) |->
                      IF i = 1 THEN composePair(w[1], w[j]) ELSE IF i < j THEN w[i] ELSE w[i + 1]]
  BY DEF Taken
<1> HIDE DEF w, L, v, P
<1>8. j \in 1..L /\ w[j] = s[j] /\ composePair(w[1], w[j]) = P /\ j \in 2..(L + 1)
  <2>1. j \in 1..L /\ j \in 2..(L + 1)
    BY <1>1, <1>2
  <2> QED BY <1>2, <1>3, <2>1 DEF P
<1>9. \A k \in 2..(j - 1) : Class(w[k]) # Class(w[j])
  <2>1. \A k \in 2..(j - 1) : k \in 1..L
    BY <1>1, <1>2
  <2> QED BY <1>1, <1>2, <1>8, <2>1
<1>10. Takes(w, j)
  BY <1>1, <1>2, <1>3, <1>8, <1>9 DEF Takes
<1>11. ASSUME NEW i \in 1..L
       PROVE  (IF i = 1 THEN P ELSE IF i < j THEN w[i] ELSE w[i + 1]) = IF i <= L - 1 THEN v[i] ELSE c
  <2>1. CASE i <= L - 1
    <3>1. i \in 1..(L - 1) /\ i + 1 \in 1..L /\ i \in 1..L
      BY <1>2, <2>1
    <3>2. v[i] = IF i = 1 THEN P ELSE IF i < j THEN s[i] ELSE s[i + 1]
      BY <1>6, <3>1
    <3>3. w[i] = s[i] /\ w[i + 1] = s[i + 1]
      BY <1>2, <3>1
    <3> QED BY <2>1, <3>2, <3>3
  <2>2. CASE ~ (i <= L - 1)
    <3>1. i # 1 /\ ~ (i < j) /\ i + 1 = L + 1
      BY <1>1, <1>2, <2>2
    <3> QED BY <1>2, <2>2, <3>1
  <2> QED BY <2>1, <2>2
<1>12. (L - 1) + 1 = L /\ Len(w) - 1 = L
  BY <1>2
<1>13. Taken(w, j) = [i \in 1..L |-> IF i = 1 THEN P ELSE IF i < j THEN w[i] ELSE w[i + 1]]
  BY <1>7, <1>8, <1>12
<1>14. Append(v, c) = [i \in 1..L |-> IF i <= L - 1 THEN v[i] ELSE c]
  BY <1>5, <1>12
<1>15. Taken(w, j) = Append(v, c)
  BY <1>11, <1>13, <1>14
<1> QED BY <1>10, <1>15 DEF w, v

\* A mark after a cluster finds what it needs in the normal form of the cluster.
LEMMA MarkAfterCluster ==
  ASSUME NEW s \in Texts, Cluster(s), NEW c \in Codepoints, Class(c) # 0
  PROVE  toNFC(Append(toNFC(s), c)) = toNFC(Append(s, c))
<1>1. ASSUME NEW j, Takes(s, j) PROVE toNFC(Append(toNFC(s), c)) = toNFC(Append(s, c))
  <2> DEFINE u == toNFC(s)
             v == Taken(s, j)
  <2>1. /\ u = canonicalOrder(v) /\ u \in Texts /\ Cluster(u) /\ u[1] = composePair(s[1], s[j])
    BY <1>1, NfcOfTaken
  <2>2. v \in Texts
    BY <1>1, TakenIsCluster
  <2>3. Takes(Append(s, c), j) /\ Taken(Append(s, c), j) = Append(v, c)
    BY <1>1, LongerTaken
  <2>4. Append(s, c) \in Texts /\ Append(u, c) \in Texts
    BY <2>1, AppendText
  <2>5. toNFC(Append(s, c)) = canonicalOrder(Append(v, c))
    BY <2>3, <2>4, NfcOfTaken
  <2> HIDE DEF u, v
  <2>6. canonicalOrder(Append(v, c)) = canonicalOrder(Append(u, c))
    BY <2>1, <2>2, OrderOfAppend DEF Texts
  <2>7. Cluster(Append(u, c)) /\ Append(u, c)[1] = u[1]
    BY <2>1, LongerCluster
  <2>8. \A k : ~ Takes(Append(u, c), k)
    <3>1. composePair(s[1], s[j]) # 0
      BY <1>1 DEF Takes
    <3>2. \A b : composePair(u[1], b) = 0
      BY <2>1, <3>1, PairFacts
    <3> QED BY <2>7, <3>2 DEF Takes
  <2>9. toNFC(Append(u, c)) = canonicalOrder(Append(u, c))
    BY <2>4, <2>7, <2>8, NfcOfUntaken
  <2> QED BY <2>5, <2>6, <2>9 DEF u
<1>2. CASE \A j : ~ Takes(s, j)
  <2>1. toNFC(s) = canonicalOrder(s)
    BY <1>2, NfcOfUntaken
  <2>2. canonicalOrder(Append(s, c)) = canonicalOrder(Append(canonicalOrder(s), c))
    BY OrderOfAppend DEF Texts
  <2> QED BY <2>1, <2>2 DEF toNFC
<1> QED BY <1>1, <1>2

LEMMA StarterIsNormal ==
  ASSUME NEW c \in Codepoints, Class(c) = 0
  PROVE  <<c>> \in Texts /\ Len(<<c>>) = 1 /\ <<c>>[1] = c /\ toNFC(<<c>>) = <<c>>
<1>1. <<c>> \in Texts /\ Len(<<c>>) = 1 /\ <<c>>[1] = c
  BY DEF Texts
<1>2. \A i, j \in 1..1 : ~ (i < j)
  OBVIOUS
<1>3. Normal(<<c>>)
  BY <1>1, <1>2 DEF Normal, Ordered, Composed
<1> QED BY <1>1, <1>3, NormalStays

LEMMA NfcWithStarter ==
  ASSUME NEW s \in Texts, NEW c \in Codepoints, Class(c) = 0
  PROVE  toNFC(Append(s, c)) = Append(toNFC(s), c)
<1>1. <<c>> \in Texts /\ 1 \in 1..Len(<<c>>) /\ Class(<<c>>[1]) = 0 /\ toNFC(<<c>>) = <<c>>
  BY StarterIsNormal
<1>2. Append(s, c) = s \o <<c>>
  BY AppendIsConcat DEF Texts
<1>3. toNFC(s \o <<c>>) = toNFC(s) \o toNFC(<<c>>)
  BY <1>1, NfcOfJoin
<1>4. toNFC(s) \in Texts
  BY NfcIsNormal
<1>5. Append(toNFC(s), c) = toNFC(s) \o <<c>>
  BY <1>4, AppendIsConcat DEF Texts
<1> QED BY <1>1, <1>2, <1>3, <1>5

\* After a text in normal form only the last cluster changes.
LEMMA NfcAfterNormal ==
  ASSUME NEW x \in Texts, Normal(x), NEW y \in Texts, 1 \in 1..Len(y), Class(y[1]) = 0, NEW c \in Codepoints
  PROVE  toNFC(Append(x \o y, c)) = x \o toNFC(Append(y, c))
<1>1. Append(x \o y, c) = x \o Append(y, c)
  BY AppendToTexts
<1> DEFINE w == Append(y, c)
<1>2. w \in Texts /\ 1 \in 1..Len(w) /\ w[1] = y[1]
  BY AppendText
<1> HIDE DEF w
<1>3. toNFC(x \o w) = toNFC(x) \o toNFC(w)
  BY <1>2, NfcOfJoin
<1>4. toNFC(x) = x
  BY NormalStays
<1> QED BY <1>1, <1>3, <1>4 DEF w

\* What is typed may be normalised at any time before.
LEMMA NfcOfAppend ==
  ASSUME NEW s \in Texts, NEW c \in Codepoints
  PROVE  toNFC(Append(toNFC(s), c)) = toNFC(Append(s, c))
<1>1. toNFC(s) \in Texts /\ Normal(toNFC(s))
  BY NfcIsNormal
<1>2. CASE Class(c) = 0
  <2>1. toNFC(Append(toNFC(s), c)) = Append(toNFC(toNFC(s)), c)
    BY <1>1, <1>2, NfcWithStarter
  <2>2. toNFC(Append(s, c)) = Append(toNFC(s), c)
    BY <1>2, NfcWithStarter
  <2>3. toNFC(toNFC(s)) = toNFC(s)
    BY <1>1, NormalStays
  <2> QED BY <2>1, <2>2, <2>3
<1>3. CASE Class(c) # 0 /\ Starterless(s)
  <2>1. toNFC(s) = canonicalOrder(s)
    BY <1>3, NfcOfMarks
  <2>2. canonicalOrder(Append(s, c)) = canonicalOrder(Append(canonicalOrder(s), c))
    BY OrderOfAppend DEF Texts
  <2> QED BY <2>1, <2>2 DEF toNFC
<1>4. ASSUME Class(c) # 0, NEW x \in Texts, NEW y \in Texts, s = x \o y, Cluster(y)
      PROVE  toNFC(Append(toNFC(s), c)) = toNFC(Append(s, c))
  <2> DEFINE u == toNFC(x)
             v == toNFC(y)
             w == Append(y, c)
  <2>1. 1 \in 1..Len(y) /\ Class(y[1]) = 0
    BY <1>4 DEF Cluster
  <2>2. toNFC(s) = u \o v
    BY <1>4, <2>1, NfcOfJoin
  <2>3. u \in Texts /\ Normal(u) /\ v \in Texts /\ Cluster(v)
    BY <1>4, NfcIsNormal, NfcOfCluster
  <2>4. toNFC(Append(v, c)) = toNFC(w)
    BY <1>4, MarkAfterCluster
  <2>5. w \in Texts /\ 1 \in 1..Len(w) /\ w[1] = y[1]
    BY <2>1, AppendText
  <2>6. Append(s, c) = x \o w
    BY <1>4, AppendToTexts
  <2>7. toNFC(x \o w) = u \o toNFC(w)
    BY <2>1, <2>5, NfcOfJoin
  <2> HIDE DEF u, v, w
  <2>8. 1 \in 1..Len(v) /\ Class(v[1]) = 0
    BY <2>3 DEF Cluster
  <2>9. toNFC(Append(u \o v, c)) = u \o toNFC(Append(v, c))
    BY <2>3, <2>8, NfcAfterNormal
  <2> QED BY <2>2, <2>4, <2>6, <2>7, <2>9
<1>5. Starterless(s) \/ \E x, y \in Texts : s = x \o y /\ Cluster(y)
  BY LastCluster DEF Texts
<1> QED BY <1>2, <1>3, <1>4, <1>5

-----------------------------------------------------------------------------
(* Canonical decomposition.                                                *)

LEMMA PiecesAre ==
  ASSUME NEW cp \in Codepoints
  PROVE  /\ Pieces(cp) \in Texts
         /\ \/ Pieces(cp) = <<cp>> /\ \A t \in Compositions : t[3] # cp
            \/ \E t \in Compositions : t[3] = cp /\ Pieces(cp) = <<t[1], t[2]>>
<1> DEFINE pairs == {t \in Compositions : t[3] = cp}
           t == CHOOSE t \in pairs : TRUE
<1>1. Pieces(cp) = IF pairs = {} THEN <<cp>> ELSE <<t[1], t[2]>>
  BY DEF Pieces
<1> HIDE DEF t
<1>2. CASE pairs = {}
  <2>1. Pieces(cp) = <<cp>>
    BY <1>1, <1>2
  <2>2. <<cp>> \in Texts
    BY DEF Texts
  <2> QED BY <1>2, <2>1, <2>2
<1>3. CASE pairs # {}
  <2>1. t \in pairs
    <3> HIDE DEF pairs
    <3> QED BY <1>3 DEF t
  <2>2. t \in Compositions /\ t[3] = cp
    BY <2>1
  <2>3. t[1] \in Codepoints /\ t[2] \in Codepoints
    BY <2>2 DEF Codepoints
  <2>4. <<t[1], t[2]>> \in Texts
    BY <2>3 DEF Texts
  <2> HIDE DEF pairs
  <2> QED BY <1>1, <1>3, <2>2, <2>4
<1> QED BY <1>2, <1>3

LEMMA PiecesOfMark ==
  ASSUME NEW cp \in Codepoints, Class(cp) # 0
  PROVE  Pieces(cp) = <<cp>>
BY PiecesAre, TableFacts

LEMMA PiecesOfPair ==
  ASSUME NEW a \in Codepoints, NEW b, composePair(a, b) # 0
  PROVE  Pieces(composePair(a, b)) = <<a, b>> /\ Pieces(a) = <<a>>
<1>1. PICK t \in Compositions : t[1] = a /\ t[2] = b /\ t[3] = composePair(a, b)
  BY PairInTable
<1>2. composePair(a, b) \in Codepoints
  BY PairFacts
<1>3. Pieces(composePair(a, b)) = <<a, b>>
  <2>1. PICK v \in Compositions : v[3] = composePair(a, b) /\ Pieces(composePair(a, b)) = <<v[1], v[2]>>
    BY <1>1, <1>2, PiecesAre
  <2>2. v = t
    BY <1>1, <2>1, TableFacts
  <2> QED BY <1>1, <2>1, <2>2
<1>4. Pieces(a) = <<a>>
  <2>1. \A v \in Compositions : v[3] # a
    BY <1>1, TableFacts
  <2> QED BY <2>1, PiecesAre
<1> QED BY <1>3, <1>4

\* The equation of the local function of Decompose, and the function.
DecomposeOf(f, s) == [i \in 0..Len(s) |-> IF i = 0 THEN <<>> ELSE f[i - 1] \o Pieces(s[i])]
DecomposeUpto(s) == CHOOSE f : f = DecomposeOf(f, s)

LEMMA DecomposeUnfolds ==
  ASSUME NEW s \in Texts
  PROVE  /\ Decompose(s) = DecomposeUpto(s)[Len(s)]
         /\ \A i \in 0..Len(s) : /\ DecomposeUpto(s)[i] \in Texts
                                 /\ DecomposeUpto(s)[i] = IF i = 0 THEN <<>>
                                                          ELSE DecomposeUpto(s)[i - 1] \o Pieces(s[i])
<1> DEFINE L == Len(s)
           R == Texts
           F == [e \in (1..L) \X R |-> e[2] \o Pieces(s[e[1]])]
<1>1. L \in Nat /\ L \in Int /\ <<>> \in R
  BY LenProperties, EmptySeq DEF Texts
<1>2. \A i \in 1..L, u \in R : F[<<i, u>>] = u \o Pieces(s[i])
  OBVIOUS
<1>3. ASSUME NEW i \in 1..L, NEW u \in R PROVE u \o Pieces(s[i]) \in R
  <2>1. s[i] \in Codepoints
    BY ElementOfSeq DEF Texts
  <2>2. Pieces(s[i]) \in Texts
    BY <2>1, PiecesAre
  <2> QED BY <2>2, ConcatProperties DEF Texts
<1>4. \E f : Solves(f, 0, L, R, <<>>, F)
  <2>1. F \in [(1..L) \X R -> R]
    BY <1>3
  <2>2. 0 \in Int /\ 1 \in Int /\ 1 = 0 + 1
    OBVIOUS
  <2> HIDE DEF F, R, L
  <2> QED BY <1>1, <2>1, <2>2, RecursionExists
<1> HIDE DEF F, R
<1>5. PICK f \in [0..L -> R] : Solves(f, 0, L, R, <<>>, F)
  BY <1>4 DEF Solves
<1>6. f = DecomposeOf(f, s)
  <2>1. ASSUME NEW i \in 0..L
        PROVE  f[i] = IF i = 0 THEN <<>> ELSE f[i - 1] \o Pieces(s[i])
    <3>1. f[i] = IF i = 0 THEN <<>> ELSE F[<<i, f[i - 1]>>]
      BY <1>5 DEF Solves
    <3>2. i # 0 => i \in 1..L /\ f[i - 1] \in R
      BY <1>1
    <3> QED BY <1>2, <3>1, <3>2
  <2>2. f = [i \in 0..L |-> f[i]]
    OBVIOUS
  <2> QED BY <2>1, <2>2 DEF DecomposeOf
<1> DEFINE u == DecomposeUpto(s)
<1>7. u = DecomposeOf(u, s)
  BY <1>6 DEF DecomposeUpto
<1>8. Decompose(s) = u[Len(s)]
  BY DEF Decompose, DecomposeUpto, DecomposeOf
<1> HIDE DEF u
<1>9. \A i \in 0..L : u[i] = IF i = 0 THEN <<>> ELSE u[i - 1] \o Pieces(s[i])
  BY <1>7 DEF DecomposeOf
<1> DEFINE S == {i \in 0..L : u[i] \in R}
<1>10. 0 \in S
  <2>1. 0 \in 0..L /\ u[0] = <<>>
    BY <1>1, <1>9
  <2> QED BY <1>1, <2>1
<1>11. ASSUME NEW i \in 0..(L - 1), i \in S PROVE i + 1 \in S
  <2>1. i + 1 \in 0..L /\ i + 1 \in 1..L /\ i + 1 # 0 /\ (i + 1) - 1 = i
    BY <1>1
  <2>2. u[i + 1] = u[i] \o Pieces(s[i + 1])
    BY <1>9, <2>1
  <2> QED BY <1>3, <1>11, <2>1, <2>2
<1>12. 0..L \subseteq S
  <2>1. 0 \in Int /\ L \in Int
    BY <1>1
  <2> HIDE DEF S, L
  <2> QED BY <1>10, <1>11, <2>1, InductionOnInterval
<1>13. \A i \in 0..L : u[i] \in Texts
  BY <1>12 DEF R
<1> QED BY <1>8, <1>9, <1>13 DEF u

LEMMA DecomposeType ==
  ASSUME NEW s \in Texts
  PROVE  Decompose(s) \in Texts
<1>1. Len(s) \in 0..Len(s)
  BY LenProperties DEF Texts
<1> QED BY <1>1, DecomposeUnfolds

LEMMA DecomposeOfJoin ==
  ASSUME NEW x \in Texts, NEW y \in Texts
  PROVE  Decompose(x \o y) = Decompose(x) \o Decompose(y)
<1> DEFINE M == Len(x)
           N == Len(y)
           s == x \o y
           f == DecomposeUpto(s)
           g == DecomposeUpto(x)
           h == DecomposeUpto(y)
           D == Decompose(x)
<1>1. /\ s \in Texts /\ M \in Nat /\ N \in Nat /\ Len(s) = M + N
      /\ (\A i \in 1..M : s[i] = x[i]) /\ \A i \in 1..N : s[M + i] = y[i]
  BY ConcatParts DEF Texts
<1>2. /\ Decompose(s) = f[M + N]
      /\ \A i \in 0..(M + N) : f[i] = IF i = 0 THEN <<>> ELSE f[i - 1] \o Pieces(s[i])
  BY <1>1, DecomposeUnfolds
<1>3. /\ D = g[M]
      /\ \A i \in 0..M : g[i] = IF i = 0 THEN <<>> ELSE g[i - 1] \o Pieces(x[i])
  BY DecomposeUnfolds
<1>4. /\ Decompose(y) = h[N]
      /\ \A i \in 0..N : h[i] \in Texts /\ h[i] = IF i = 0 THEN <<>> ELSE h[i - 1] \o Pieces(y[i])
  BY DecomposeUnfolds
<1>5. D \in Texts
  BY DecomposeType
<1> HIDE DEF f, g, h, s, D, M, N
<1>6. f[M] = g[M]
  <2> DEFINE S == {i \in 0..M : f[i] = g[i]}
  <2>1. 0 \in S
    <3>1. 0 \in 0..M /\ 0 \in 0..(M + N)
      BY <1>1
    <3> QED BY <1>2, <1>3, <3>1
  <2>2. ASSUME NEW i \in 0..(M - 1), i \in S PROVE i + 1 \in S
    <3>1. /\ i + 1 \in 0..M /\ i + 1 \in 1..M /\ i + 1 \in 0..(M + N) /\ i + 1 # 0 /\ (i + 1) - 1 = i
      BY <1>1
    <3> QED BY <1>1, <1>2, <1>3, <2>2, <3>1
  <2>3. 0..M \subseteq S /\ M \in 0..M
    <3> HIDE DEF S
    <3>1. 0 \in Int /\ M \in Int /\ M \in 0..M
      BY <1>1
    <3> QED BY <2>1, <2>2, <3>1, InductionOnInterval
  <2> QED BY <2>3
<1> DEFINE S == {i \in 0..N : f[M + i] = D \o h[i]}
<1>7. 0 \in S
  <2>1. 0 \in 0..N /\ M + 0 = M /\ h[0] = <<>>
    BY <1>1, <1>4
  <2>2. D \o <<>> = D
    BY <1>5, ConcatEmptySeq DEF Texts
  <2> QED BY <1>3, <1>6, <2>1, <2>2
<1>8. ASSUME NEW i \in 0..(N - 1), i \in S PROVE i + 1 \in S
  <2>1. /\ i \in 0..N /\ i + 1 \in 1..N /\ i + 1 \in 0..N /\ i + 1 # 0 /\ (i + 1) - 1 = i
        /\ M + (i + 1) \in 0..(M + N) /\ M + (i + 1) # 0 /\ (M + (i + 1)) - 1 = M + i
    BY <1>1
  <2> DEFINE c == Pieces(y[i + 1])
  <2>2. c \in Texts
    <3>1. y[i + 1] \in Codepoints
      BY <2>1, ElementOfSeq DEF Texts, N
    <3> QED BY <3>1, PiecesAre
  <2>3. h[i + 1] = h[i] \o c /\ h[i] \in Texts
    BY <1>4, <2>1
  <2>4. f[M + (i + 1)] = f[M + i] \o c
    BY <1>1, <1>2, <2>1
  <2> HIDE DEF c
  <2>5. f[M + i] = D \o h[i]
    BY <1>8
  <2>6. (D \o h[i]) \o c = D \o (h[i] \o c)
    <3>1. D \in Seq(Codepoints) /\ h[i] \in Seq(Codepoints) /\ c \in Seq(Codepoints)
      BY <1>5, <2>2, <2>3 DEF Texts
    <3> DEFINE v == h[i]
    <3>2. v \in Seq(Codepoints)
      BY <3>1
    <3> HIDE DEF v
    <3>3. (D \o v) \o c = D \o (v \o c)
      BY <3>1, <3>2, ConcatAssociative
    <3> QED BY <3>3 DEF v
  <2> QED BY <2>1, <2>3, <2>4, <2>5, <2>6
<1>9. N \in S
  <2>1. N \in 0..N /\ N \in Int /\ 0 \in Int
    BY <1>1
  <2>2. 0..N \subseteq S
    <3> HIDE DEF S
    <3> QED BY <1>7, <1>8, <2>1, InductionOnInterval
  <2> QED BY <2>1, <2>2
<1> QED BY <1>2, <1>4, <1>9 DEF s, D

LEMMA DecomposeMarks ==
  ASSUME NEW s \in Texts, Starterless(s)
  PROVE  Decompose(s) = s
<1> DEFINE L == Len(s)
           f == DecomposeUpto(s)
           S == {i \in 0..L : f[i] = Upto(s, i)}
<1>1. L \in Nat
  BY LenProperties DEF Texts
<1>2. /\ Decompose(s) = f[L]
      /\ \A i \in 0..L : f[i] = IF i = 0 THEN <<>> ELSE f[i - 1] \o Pieces(s[i])
  BY DecomposeUnfolds
<1> HIDE DEF f
<1>3. 0 \in S
  <2>1. 0 \in 0..L /\ f[0] = <<>>
    BY <1>1, <1>2
  <2>2. Upto(s, 0) = <<>>
    BY DEF Upto
  <2> QED BY <2>1, <2>2
<1>4. ASSUME NEW i \in 0..(L - 1), i \in S PROVE i + 1 \in S
  <2>1. i + 1 \in 0..L /\ i + 1 \in 1..L /\ i + 1 # 0 /\ (i + 1) - 1 = i
    BY <1>1
  <2>2. s[i + 1] \in Codepoints /\ Class(s[i + 1]) # 0
    BY <2>1, ElementOfSeq DEF Texts, Starterless
  <2>3. f[i + 1] = Upto(s, i) \o <<s[i + 1]>>
    BY <1>2, <1>4, <2>1, <2>2, PiecesOfMark
  <2>4. Upto(s, i) \in Texts /\ Append(Upto(s, i), s[i + 1]) = Upto(s, i + 1)
    BY UptoNext
  <2>5. Append(Upto(s, i), s[i + 1]) = Upto(s, i) \o <<s[i + 1]>>
    BY <2>2, <2>4, AppendIsConcat DEF Texts
  <2> QED BY <2>1, <2>3, <2>4, <2>5
<1>5. L \in S
  <2>1. L \in 0..L /\ L \in Int /\ 0 \in Int
    BY <1>1
  <2>2. 0..L \subseteq S
    <3> HIDE DEF S
    <3> QED BY <1>3, <1>4, <2>1, InductionOnInterval
  <2> QED BY <2>1, <2>2
<1>6. s = Upto(s, L)
  BY LenProperties DEF Upto, Texts
<1> QED BY <1>2, <1>5, <1>6

-----------------------------------------------------------------------------
(* The decomposition of a cluster.                                         *)

\* The marks of a cluster.
Marks(s) == [i \in 1..(Len(s) - 1) |-> s[i + 1]]

LEMMA MarksOfCluster ==
  ASSUME NEW s \in Texts, Cluster(s)
  PROVE  /\ Marks(s) \in Texts /\ Len(Marks(s)) = Len(s) - 1 /\ Starterless(Marks(s))
         /\ s[1] \in Codepoints /\ s = <<s[1]>> \o Marks(s)
<1> DEFINE L == Len(s)
           m == Marks(s)
<1>1. /\ L \in Nat /\ 1 \in 1..L /\ L - 1 \in Nat /\ \A k \in 2..L : Class(s[k]) # 0
  BY LenProperties DEF Cluster, Texts
<1>2. \A i \in 1..(L - 1) : i + 1 \in 1..L /\ i + 1 \in 2..L
  BY <1>1
<1>3. \A i \in 1..L : s[i] \in Codepoints
  BY ElementOfSeq DEF Texts
<1>4. m \in Texts /\ Len(m) = L - 1
  <2>1. \A i \in 1..(L - 1) : s[i + 1] \in Codepoints
    BY <1>2, <1>3
  <2> QED BY <1>1, <2>1, IsASeq DEF Marks, Texts
<1>5. \A i \in 1..(L - 1) : m[i] = s[i + 1]
  BY DEF Marks
<1> HIDE DEF m
<1>6. Starterless(m)
  BY <1>1, <1>2, <1>4, <1>5 DEF Starterless
<1> DEFINE a == <<s[1]>>
<1>7. a \in Texts /\ Len(a) = 1 /\ a[1] = s[1] /\ s[1] \in Codepoints
  BY <1>1, <1>3 DEF Texts
<1> HIDE DEF a
<1>8. /\ a \o m \in Texts /\ Len(a \o m) = 1 + (L - 1) /\ (\A i \in 1..1 : (a \o m)[i] = a[i])
      /\ \A i \in 1..(L - 1) : (a \o m)[1 + i] = m[i]
  <2>1. /\ a \o m \in Seq(Codepoints) /\ Len(a \o m) = Len(a) + Len(m)
        /\ (\A i \in 1..Len(a) : (a \o m)[i] = a[i])
        /\ \A i \in 1..Len(m) : (a \o m)[Len(a) + i] = m[i]
    <3>1. a \in Seq(Codepoints) /\ m \in Seq(Codepoints)
      BY <1>4, <1>7 DEF Texts
    <3> QED BY <3>1, ConcatParts
  <2> QED BY <1>4, <1>7, <2>1 DEF Texts
<1>9. ASSUME NEW i \in 1..L PROVE s[i] = (a \o m)[i]
  <2>1. CASE i = 1
    BY <1>7, <1>8, <2>1
  <2>2. CASE i # 1
    <3>1. i - 1 \in 1..(L - 1) /\ 1 + (i - 1) = i /\ (i - 1) + 1 = i
      BY <1>1, <2>2
    <3> QED BY <1>5, <1>8, <3>1
  <2> QED BY <2>1, <2>2
<1>10. Len(a \o m) = L
  BY <1>1, <1>8
<1>11. s = a \o m
  BY <1>8, <1>9, <1>10, SeqEqual DEF Texts
<1> QED BY <1>4, <1>6, <1>7, <1>11 DEF m, a

LEMMA DecomposeOne ==
  ASSUME NEW c \in Codepoints
  PROVE  <<c>> \in Texts /\ Decompose(<<c>>) = Pieces(c)
<1> DEFINE s == <<c>>
           f == DecomposeUpto(s)
<1>1. s \in Texts /\ Len(s) = 1 /\ s[1] = c
  BY DEF Texts
<1> HIDE DEF s
<1>2. /\ Decompose(s) = f[1]
      /\ \A i \in 0..1 : f[i] = IF i = 0 THEN <<>> ELSE f[i - 1] \o Pieces(s[i])
  BY <1>1, DecomposeUnfolds
<1> HIDE DEF f
<1>3. f[0] = <<>> /\ f[1] = f[1 - 1] \o Pieces(s[1]) /\ 1 - 1 = 0
  <2>1. 0 \in 0..1 /\ 1 \in 0..1 /\ 1 # 0 /\ 1 - 1 = 0
    OBVIOUS
  <2>2. f[0] = <<>>
    BY <1>2, <2>1
  <2>3. f[1] = f[1 - 1] \o Pieces(s[1])
    BY <1>2, <2>1
  <2> QED BY <2>1, <2>2, <2>3
<1>4. f[1] = <<>> \o Pieces(c)
  BY <1>1, <1>3
<1>5. <<>> \o Pieces(c) = Pieces(c)
  BY PiecesAre, ConcatEmptySeq DEF Texts
<1> QED BY <1>1, <1>2, <1>4, <1>5 DEF s

LEMMA DecomposeCluster ==
  ASSUME NEW s \in Texts, Cluster(s)
  PROVE  Decompose(s) = Pieces(s[1]) \o Marks(s)
<1>1. /\ Marks(s) \in Texts /\ Starterless(Marks(s))
      /\ s[1] \in Codepoints /\ s = <<s[1]>> \o Marks(s)
  BY MarksOfCluster
<1>2. <<s[1]>> \in Texts /\ Decompose(<<s[1]>>) = Pieces(s[1])
  BY <1>1, DecomposeOne
<1>3. Decompose(<<s[1]>> \o Marks(s)) = Decompose(<<s[1]>>) \o Decompose(Marks(s))
  BY <1>1, <1>2, DecomposeOfJoin
<1>4. Decompose(Marks(s)) = Marks(s)
  BY <1>1, DecomposeMarks
<1> QED BY <1>1, <1>2, <1>3, <1>4

LEMMA MarksReorder ==
  ASSUME NEW s \in Texts, Cluster(s), NEW t \in StableReorderings(s)
  PROVE  Marks(t) \in StableReorderings(Marks(s))
<1> DEFINE L == Len(s)
           m == Marks(s)
           n == Marks(t)
<1>1. PICK p \in StableOrders(s) : t = [i \in 1..L |-> s[p[i]]]
  BY DEF StableReorderings
<1>2. /\ L \in Nat /\ p \in [1..L -> 1..L]
      /\ \A k \in 2..L : p[k] \in 2..L
      /\ \A i, k \in 1..L : p[i] = p[k] => i = k
      /\ \A i, k \in 1..L : i < k /\ Class(s[p[i]]) = Class(s[p[k]]) => p[i] < p[k]
  BY ClusterOrders DEF Texts
<1>3. t \in Texts /\ Len(t) = L /\ Cluster(t)
  BY ReorderedCluster DEF Texts
<1>4. m \in Texts /\ Len(m) = L - 1 /\ Starterless(m) /\ n = [i \in 1..(L - 1) |-> t[i + 1]]
  BY <1>3, MarksOfCluster DEF Marks
<1>5. \A i \in 1..(L - 1) : m[i] = s[i + 1]
  BY DEF Marks
<1> HIDE DEF L, m, n
<1> DEFINE q == [i \in 1..(L - 1) |-> p[i + 1] - 1]
<1>6. ASSUME NEW i \in 1..(L - 1)
      PROVE  /\ i + 1 \in 1..L /\ p[i + 1] \in Int /\ q[i] = p[i + 1] - 1 /\ q[i] \in 1..(L - 1)
             /\ m[q[i]] = s[p[i + 1]] /\ t[i + 1] = s[p[i + 1]]
  <2>1. i + 1 \in 1..L /\ i + 1 \in 2..L
    BY <1>2
  <2>2. p[i + 1] \in 2..L
    BY <1>2, <2>1
  <2>3. q[i] = p[i + 1] - 1
    OBVIOUS
  <2> HIDE DEF q
  <2>4. q[i] \in 1..(L - 1) /\ q[i] + 1 = p[i + 1] /\ p[i + 1] \in Int
    <3>1. L \in Nat /\ p[i + 1] \in 2..L
      BY <1>2, <2>2
    <3> QED BY <2>3, <3>1
  <2> QED BY <1>1, <1>5, <2>1, <2>3, <2>4
<1>7. q \in [1..(L - 1) -> 1..(L - 1)]
  <2>1. \A i \in 1..(L - 1) : p[i + 1] - 1 \in 1..(L - 1)
    BY <1>6
  <2> QED BY <2>1
<1> HIDE DEF q
<1>8. ASSUME NEW i \in 1..(L - 1), NEW k \in 1..(L - 1)
      PROVE  /\ q[i] = q[k] => i = k
             /\ i < k /\ Class(m[q[i]]) = Class(m[q[k]]) => q[i] < q[k]
  <2>1. /\ i + 1 \in 1..L /\ k + 1 \in 1..L /\ i \in Int /\ k \in Int
        /\ p[i + 1] \in Int /\ p[k + 1] \in Int
        /\ q[i] = p[i + 1] - 1 /\ q[k] = p[k + 1] - 1
        /\ m[q[i]] = s[p[i + 1]] /\ m[q[k]] = s[p[k + 1]]
    BY <1>6
  <2>2. /\ p[i + 1] = p[k + 1] => i + 1 = k + 1
        /\ i + 1 < k + 1 /\ Class(s[p[i + 1]]) = Class(s[p[k + 1]]) => p[i + 1] < p[k + 1]
    BY <1>2, <2>1
  <2> QED BY <2>1, <2>2
<1>9. \A k \in 1..(L - 1) : Class(m[k]) # 0
  BY <1>4 DEF Starterless
<1>10. q \in StableOrders(m)
  BY <1>4, <1>7, <1>8, <1>9 DEF StableOrders
<1>11. n = [i \in 1..Len(m) |-> m[q[i]]]
  BY <1>4, <1>6
<1>12. n \in StableReorderings(m)
  BY <1>10, <1>11 DEF StableReorderings
<1> QED BY <1>12 DEF m, n

\* Rearranging a cluster rearranges its decomposition.
LEMMA DecompositionReorders ==
  ASSUME NEW s \in Texts, Cluster(s), NEW t \in StableReorderings(s)
  PROVE  Decompose(t) \in StableReorderings(Decompose(s))
<1>1. t \in Texts /\ Cluster(t) /\ t[1] = s[1]
  BY ReorderedCluster DEF Texts
<1>2. Decompose(s) = Pieces(s[1]) \o Marks(s) /\ Decompose(t) = Pieces(s[1]) \o Marks(t)
  BY <1>1, DecomposeCluster
<1>3. Marks(s) \in Texts /\ s[1] \in Codepoints /\ Marks(t) \in StableReorderings(Marks(s))
  BY MarksOfCluster, MarksReorder
<1>4. Pieces(s[1]) \in Texts
  BY <1>3, PiecesAre
<1>5. Pieces(s[1]) \in StableReorderings(Pieces(s[1]))
  BY <1>4, TextIsRearranged DEF Texts
<1> QED BY <1>2, <1>3, <1>4, <1>5, JoinReorders DEF Texts

\* Decomposing what a cluster has taken puts the mark back behind the starter.
LEMMA DecomposeTaken ==
  ASSUME NEW s \in Texts, NEW j, Takes(s, j)
  PROVE  Decompose(Taken(s, j)) \in StableReorderings(s)
<1> DEFINE L == Len(s)
           w == Taken(s, j)
           P == composePair(s[1], s[j])
           head == <<s[1], s[j]>>
           z == head \o Marks(w)
<1>1. /\ L \in Nat /\ Cluster(s) /\ j \in 2..L /\ P # 0
      /\ \A k \in 2..(j - 1) : Class(s[k]) # Class(s[j])
  BY LenProperties DEF Takes, Texts
<1>2. /\ w \in Texts /\ Len(w) = L - 1 /\ Cluster(w) /\ w[1] = P
      /\ \A i \in 2..(j - 1) : w[i] = s[i]
      /\ \A i \in j..(L - 1) : w[i] = s[i + 1]
  BY TakenIsCluster
<1>3. s[1] \in Codepoints /\ s[j] \in Codepoints /\ Class(s[1]) = 0 /\ \A k \in 2..L : Class(s[k]) # 0
  <2>1. 1 \in 1..L /\ j \in 1..L
    BY <1>1
  <2>2. s[1] \in Codepoints /\ s[j] \in Codepoints
    BY <2>1, ElementOfSeq DEF Texts
  <2> QED BY <1>1, <2>2 DEF Cluster
<1>4. Decompose(w) = z
  <2>1. Pieces(P) = head
    BY <1>1, <1>3, PiecesOfPair
  <2> QED BY <1>2, <2>1, DecomposeCluster
<1>5. Marks(w) \in Texts /\ Len(Marks(w)) = L - 2 /\ \A i \in 1..(L - 2) : Marks(w)[i] = w[i + 1]
  <2>1. Marks(w) \in Texts /\ Len(Marks(w)) = (L - 1) - 1
    BY <1>2, MarksOfCluster
  <2>2. (L - 1) - 1 = L - 2
    BY <1>1
  <2>3. Marks(w) = [i \in 1..(L - 2) |-> w[i + 1]]
    BY <1>2, <2>2 DEF Marks
  <2> QED BY <2>1, <2>2, <2>3
<1>6. head \in Texts /\ Len(head) = 2 /\ head[1] = s[1] /\ head[2] = s[j]
  BY <1>3 DEF Texts
<1> HIDE DEF w, P, head
<1> DEFINE m == Marks(w)
<1> HIDE DEF m
<1>7. /\ z \in Texts /\ Len(z) = L /\ z[1] = s[1] /\ z[2] = s[j]
      /\ \A i \in 1..(L - 2) : z[2 + i] = w[i + 1]
  <2>1. head \in Seq(Codepoints) /\ m \in Seq(Codepoints) /\ Len(m) = L - 2
    BY <1>5, <1>6 DEF Texts, m
  <2>2. /\ head \o m \in Seq(Codepoints) /\ Len(head \o m) = Len(head) + Len(m)
        /\ (\A i \in 1..Len(head) : (head \o m)[i] = head[i])
        /\ \A i \in 1..Len(m) : (head \o m)[Len(head) + i] = m[i]
    <3>1. head \in Seq(Codepoints) /\ m \in Seq(Codepoints)
      BY <2>1
    <3> QED BY <3>1, ConcatParts
  <2>3. 1 \in 1..2 /\ 2 \in 1..2 /\ 2 + (L - 2) = L
    BY <1>1
  <2>4. \A i \in 1..(L - 2) : m[i] = w[i + 1]
    BY <1>5 DEF m
  <2>5. z = head \o m
    BY DEF m
  <2> HIDE DEF z
  <2> QED BY <1>6, <2>1, <2>2, <2>3, <2>4, <2>5 DEF Texts
<1> HIDE DEF z, L
<1> DEFINE q == [i \in 1..L |-> IF i = 1 THEN 1 ELSE IF i = 2 THEN j ELSE IF i <= j THEN i - 1 ELSE i]
<1>8. /\ 1 \in 1..L /\ 2 \in 1..L /\ q[1] = 1 /\ q[2] = j
      /\ \A i \in 3..j : i \in 1..L /\ q[i] = i - 1
      /\ \A i \in (j + 1)..L : i \in 1..L /\ q[i] = i
  BY <1>1
<1>9. \A i \in 1..L : i = 1 \/ i = 2 \/ i \in 3..j \/ i \in (j + 1)..L
  BY <1>1
<1>10. q \in [1..L -> 1..L] /\ \A i \in 1..L : i # 1 => q[i] \in 2..L
  BY <1>1
<1>11. \A i, k \in 1..L : q[i] = q[k] => i = k
  BY <1>1
<1>12. \A i, k \in 1..L : i < k => q[i] < q[k] \/ (i = 2 /\ k \in 3..j)
  BY <1>1
<1> HIDE DEF q
<1>13. ASSUME NEW i \in 1..L, NEW k \in 1..L, i < k, Class(s[q[i]]) = Class(s[q[k]])
       PROVE  q[i] < q[k]
  <2> SUFFICES ASSUME i = 2, k \in 3..j PROVE FALSE
    BY <1>12, <1>13
  <2>1. q[i] = j /\ q[k] = k - 1 /\ k - 1 \in 2..(j - 1)
    BY <1>1, <1>8
  <2> QED BY <1>1, <1>13, <2>1
<1>14. ASSUME NEW i \in 1..L, NEW k \in 1..L, Class(s[k]) = 0
       PROVE  (i < k => q[i] < k) /\ (i = k => q[i] = k) /\ (k < i => k < q[i])
  <2>1. k = 1
    <3>1. k = 1 \/ k \in 2..L
      BY <1>1
    <3> QED BY <1>3, <1>14, <3>1 DEF L
  <2>2. ~ (i < 1) /\ (1 < i => q[i] \in 2..L)
    BY <1>10
  <2> QED BY <1>8, <2>1, <2>2
<1>15. q \in StableOrders(s)
  BY <1>10, <1>11, <1>13, <1>14 DEF StableOrders, L
<1>16. ASSUME NEW i \in 1..L PROVE z[i] = s[q[i]]
  <2>1. CASE i = 1
    BY <1>7, <1>8, <2>1
  <2>2. CASE i = 2
    BY <1>7, <1>8, <2>2
  <2>3. CASE i \in 3..j
    <3>1. i - 2 \in 1..(L - 2) /\ 2 + (i - 2) = i /\ (i - 2) + 1 = i - 1 /\ i - 1 \in 2..(j - 1)
      BY <1>1, <2>3
    <3>2. z[i] = w[i - 1]
      BY <1>7, <3>1
    <3> QED BY <1>2, <1>8, <2>3, <3>1, <3>2
  <2>4. CASE i \in (j + 1)..L
    <3>1. i - 2 \in 1..(L - 2) /\ 2 + (i - 2) = i /\ (i - 2) + 1 = i - 1 /\ i - 1 \in j..(L - 1)
          /\ (i - 1) + 1 = i
      BY <1>1, <2>4
    <3>2. z[i] = w[i - 1]
      BY <1>7, <3>1
    <3> QED BY <1>2, <1>8, <2>4, <3>1, <3>2 DEF L
  <2> QED BY <1>9, <2>1, <2>2, <2>3, <2>4
<1>17. z = [i \in 1..L |-> z[i]]
  BY <1>7, LenProperties DEF Texts
<1>18. z = [i \in 1..L |-> s[q[i]]]
  BY <1>16, <1>17
<1> QED BY <1>4, <1>15, <1>18 DEF StableReorderings, w, L

\* Two texts are canonically equivalent.
Equivalent(s, t) == canonicalOrder(Decompose(s)) = canonicalOrder(Decompose(t))

LEMMA ClusterKeepsMeaning ==
  ASSUME NEW s \in Texts, Cluster(s)
  PROVE  Equivalent(toNFC(s), s)
<1>1. Decompose(s) \in Texts
  BY DecomposeType
<1>2. ASSUME NEW j, Takes(s, j) PROVE Equivalent(toNFC(s), s)
  <2> DEFINE w == Taken(s, j)
             u == canonicalOrder(w)
  <2>1. toNFC(s) = u
    BY <1>2, NfcOfTaken
  <2>2. w \in Texts /\ Cluster(w)
    BY <1>2, TakenIsCluster
  <2>3. u \in StableReorderings(w)
    BY <2>2, OrderProperties DEF Texts
  <2>4. Decompose(w) \in StableReorderings(s)
    BY <1>2, DecomposeTaken
  <2> HIDE DEF w, u
  <2>5. Decompose(u) \in StableReorderings(Decompose(w)) /\ Decompose(w) \in Texts
    BY <2>2, <2>3, DecompositionReorders, DecomposeType
  <2>6. canonicalOrder(Decompose(u)) = canonicalOrder(Decompose(w))
    BY <2>5, ReorderedHasTheOrder DEF Texts
  <2>7. canonicalOrder(Decompose(w)) = canonicalOrder(s)
    BY <2>4, ReorderedHasTheOrder DEF Texts
  <2>8. Decompose(s) = s
    <3>1. s[1] \in Codepoints /\ s = <<s[1]>> \o Marks(s)
      BY MarksOfCluster
    <3>2. Pieces(s[1]) = <<s[1]>>
      BY <1>2, <3>1, PiecesOfPair DEF Takes
    <3> QED BY <3>1, <3>2, DecomposeCluster
  <2> QED BY <2>1, <2>6, <2>7, <2>8 DEF Equivalent
<1>3. CASE \A j : ~ Takes(s, j)
  <2> DEFINE u == canonicalOrder(s)
  <2>1. toNFC(s) = u
    BY <1>3, NfcOfUntaken
  <2>2. u \in StableReorderings(s)
    BY OrderProperties DEF Texts
  <2> HIDE DEF u
  <2>3. Decompose(u) \in StableReorderings(Decompose(s))
    BY <2>2, DecompositionReorders
  <2>4. canonicalOrder(Decompose(u)) = canonicalOrder(Decompose(s))
    BY <1>1, <2>3, ReorderedHasTheOrder DEF Texts
  <2> QED BY <2>1, <2>4 DEF Equivalent
<1> QED BY <1>2, <1>3

\* The normal form of a text is equivalent to it.
LEMMA NfcKeepsMeaning ==
  ASSUME NEW s \in Texts
  PROVE  Equivalent(toNFC(s), s)
<1> DEFINE S == {t \in Texts : Equivalent(toNFC(t), t)}
<1>1. ASSUME NEW t \in Texts, Starterless(t) PROVE t \in S
  <2> DEFINE u == canonicalOrder(t)
  <2>1. toNFC(t) = u /\ Starterless(u)
    BY <1>1, NfcOfMarks
  <2>2. u \in StableReorderings(t)
    BY OrderProperties DEF Texts
  <2> HIDE DEF u
  <2>3. u \in Texts /\ canonicalOrder(u) = canonicalOrder(t)
    BY <2>2, RearrangedIsText, ReorderedHasTheOrder DEF Texts
  <2>4. Decompose(u) = u /\ Decompose(t) = t
    BY <1>1, <2>1, <2>3, DecomposeMarks
  <2> QED BY <2>1, <2>3, <2>4 DEF Equivalent
<1>2. ASSUME NEW x \in Texts, NEW y \in Texts, x \in S, Cluster(y) PROVE x \o y \in S
  <2> DEFINE u == toNFC(x)
             v == toNFC(y)
  <2>1. 1 \in 1..Len(y) /\ Class(y[1]) = 0
    BY <1>2 DEF Cluster
  <2>2. toNFC(x \o y) = u \o v
    BY <2>1, NfcOfJoin
  <2>3. u \in Texts /\ v \in Texts
    BY NfcIsNormal
  <2>4. Equivalent(u, x) /\ Equivalent(v, y)
    BY <1>2, ClusterKeepsMeaning
  <2> HIDE DEF u, v
  <2>5. /\ Decompose(u) \in Texts /\ Decompose(v) \in Texts
        /\ Decompose(x) \in Texts /\ Decompose(y) \in Texts
    BY <2>3, DecomposeType
  <2>6. Decompose(u \o v) = Decompose(u) \o Decompose(v) /\ Decompose(x \o y) = Decompose(x) \o Decompose(y)
    BY <2>3, DecomposeOfJoin
  <2> DEFINE a == Decompose(u)
             b == Decompose(v)
             c == Decompose(x)
             d == Decompose(y)
  <2>7. canonicalOrder(a) = canonicalOrder(c) /\ canonicalOrder(b) = canonicalOrder(d)
    BY <2>4 DEF Equivalent
  <2> HIDE DEF a, b, c, d
  <2>8. canonicalOrder(a \o b) = canonicalOrder(canonicalOrder(a) \o canonicalOrder(b))
    BY <2>5, OrderOfOrders DEF Texts, a, b
  <2>9. canonicalOrder(c \o d) = canonicalOrder(canonicalOrder(c) \o canonicalOrder(d))
    BY <2>5, OrderOfOrders DEF Texts, c, d
  <2>10. canonicalOrder(a \o b) = canonicalOrder(c \o d)
    BY <2>7, <2>8, <2>9
  <2>11. x \o y \in Texts
    BY ConcatProperties DEF Texts
  <2>12. Equivalent(u \o v, x \o y)
    BY <2>6, <2>10 DEF Equivalent, a, b, c, d
  <2> QED BY <2>2, <2>11, <2>12
<1>3. Texts \subseteq S
  <2> HIDE DEF S
  <2> QED BY <1>1, <1>2, InductionOnClusters DEF Texts
<1> QED BY <1>3

-----------------------------------------------------------------------------
(* How long runs of marks are.                                             *)

FitsWindow(s) == \A first, last : IsRun(s, first, last) => last - first < KWindow

LEMMA RunsAre ==
  ASSUME NEW X, raw \in Seq(X)
  PROVE  RunsFitWindow <=> FitsWindow(raw)
<1>1. Len(raw) \in Nat /\ DOMAIN raw = 1..Len(raw)
  BY LenProperties
<1>2. ASSUME NEW first, NEW last PROVE <<first, last>> \in MarkRuns(raw) <=> IsRun(raw, first, last)
  <2>1. CASE ~ (first \in 1..Len(raw) /\ last \in 1..Len(raw) /\ first <= last)
    <3>1. ~ (<<first, last>> \in MarkRuns(raw))
      BY <1>1, <2>1 DEF MarkRuns
    <3>2. ~ IsRun(raw, first, last)
      BY <1>1, <2>1 DEF IsRun
    <3> QED BY <3>1, <3>2
  <2>2. CASE first \in 1..Len(raw) /\ last \in 1..Len(raw) /\ first <= last
    <3> DEFINE L == Len(raw)
    <3>a. L \in Nat /\ first \in 1..L /\ last \in 1..L /\ first <= last
      BY <1>1, <2>2
    <3> HIDE DEF L
    <3>b. last \in first..L /\ \A i \in first..last : i \in 1..L
      BY <3>a
    <3>c. (first - 1 \in 1..L) <=> (first # 1)
      BY <3>a
    <3>d. (last + 1 \in 1..L) <=> (last # L)
      BY <3>a
    <3>1. /\ last \in first..Len(raw) /\ \A i \in first..last : i \in 1..Len(raw)
          /\ (first - 1 \in 1..Len(raw)) <=> (first # 1)
          /\ (last + 1 \in 1..Len(raw)) <=> (last # Len(raw))
      BY <3>b, <3>c, <3>d DEF L
    <3>2. <<first, last>> \in MarkRuns(raw) <=>
            /\ \A i \in first..last : i \in 1..Len(raw) /\ combiningClass(raw[i]) # 0
            /\ ~ (first - 1 \in 1..Len(raw) /\ combiningClass(raw[first - 1]) # 0)
            /\ ~ (last + 1 \in 1..Len(raw) /\ combiningClass(raw[last + 1]) # 0)
      BY <1>1, <2>2 DEF MarkRuns
    <3> QED BY <2>2, <3>1, <3>2 DEF IsRun, Class
  <2> QED BY <2>1, <2>2
<1>3. \A run \in MarkRuns(raw) : run = <<run[1], run[2]>>
  BY DEF MarkRuns
<1>4. ASSUME RunsFitWindow PROVE FitsWindow(raw)
  <2> SUFFICES ASSUME NEW first, NEW last, IsRun(raw, first, last) PROVE last - first < KWindow
    BY DEF FitsWindow
  <2>1. <<first, last>> \in MarkRuns(raw)
    BY <1>2
  <2> QED BY <1>4, <2>1 DEF RunsFitWindow
<1>5. ASSUME FitsWindow(raw) PROVE RunsFitWindow
  BY <1>2, <1>3, <1>5 DEF FitsWindow, RunsFitWindow
<1> QED BY <1>4, <1>5

\* The runs of a text only grow.
LEMMA FitsBefore ==
  ASSUME NEW s \in Texts, NEW c \in Codepoints, FitsWindow(Append(s, c))
  PROVE  FitsWindow(s)
<1> DEFINE w == Append(s, c)
           L == Len(s)
<1>1. Len(w) = L + 1 /\ L \in Nat /\ (\A i \in 1..L : w[i] = s[i]) /\ w[L + 1] = c
  BY AppendText
<1> HIDE DEF w
<1> SUFFICES ASSUME NEW first, NEW last, IsRun(s, first, last) PROVE last - first < KWindow
  BY DEF FitsWindow
<1>2. /\ first \in 1..L /\ last \in first..L /\ \A k \in first..last : Class(s[k]) # 0
      /\ first = 1 \/ Class(s[first - 1]) = 0
      /\ last = L \/ Class(s[last + 1]) = 0
  BY DEF IsRun
<1> HIDE DEF L
<1>3. /\ first \in 1..(L + 1) /\ last \in first..(L + 1) /\ last + 1 \in first..(L + 1)
      /\ (\A k \in first..last : k \in 1..L) /\ (\A k \in first..(last + 1) : k \in first..last \/ k = last + 1)
      /\ (first = 1 \/ first - 1 \in 1..L) /\ (last = L \/ last + 1 \in 1..L)
      /\ first \in Int /\ last \in Int
  BY <1>1, <1>2
<1>4. (\A k \in first..last : Class(w[k]) # 0) /\ (first = 1 \/ Class(w[first - 1]) = 0)
  BY <1>1, <1>2, <1>3
<1>5. CASE last = L /\ Class(c) # 0
  <2>1. IsRun(w, first, last + 1)
    BY <1>1, <1>3, <1>4, <1>5 DEF IsRun
  <2>2. (last + 1) - first < KWindow
    BY <2>1 DEF FitsWindow, w
  <2> QED BY <1>3, <2>2, TypingAssumption
<1>6. CASE ~ (last = L /\ Class(c) # 0)
  <2>1. Class(w[last + 1]) = 0
    BY <1>1, <1>2, <1>3, <1>6
  <2>2. IsRun(w, first, last)
    BY <1>1, <1>3, <1>4, <2>1 DEF IsRun
  <2> QED BY <2>2 DEF FitsWindow, w
<1> QED BY <1>5, <1>6

\* The last n codepoints are marks.
TrailingMarks(s, n) == n \in 0..Len(s) /\ \A k \in ((Len(s) - n) + 1)..Len(s) : Class(s[k]) # 0

\* A mark that fits follows fewer marks than the window holds.
LEMMA FitsTrailing ==
  ASSUME NEW s \in Texts, NEW c \in Codepoints, Class(c) # 0, FitsWindow(Append(s, c)),
         NEW n, TrailingMarks(s, n)
  PROVE  n < KWindow
<1> DEFINE w == Append(s, c)
           L == Len(s)
<1>1. w \in Texts /\ Len(w) = L + 1 /\ L \in Nat /\ (\A i \in 1..L : w[i] = s[i]) /\ w[L + 1] = c
  BY AppendText
<1>2. n \in 0..L /\ \A k \in ((L - n) + 1)..L : Class(s[k]) # 0
  BY DEF TrailingMarks
<1> HIDE DEF w, L
<1>3. L + 1 \in 1..Len(w) /\ Class(w[L + 1]) # 0
  BY <1>1
<1>4. PICK first, last \in 1..Len(w) : IsRun(w, first, last) /\ L + 1 \in first..last
  BY <1>1, <1>3, MarkHasRun DEF Texts
<1>5. last = L + 1 /\ first \in 1..(L + 1)
  BY <1>1, <1>4
<1>6. first <= (L - n) + 1
  <2> SUFFICES ASSUME ~ (first <= (L - n) + 1) PROVE FALSE
    OBVIOUS
  <2>1. first # 1 /\ first - 1 \in ((L - n) + 1)..L /\ first - 1 \in 1..L
    BY <1>1, <1>2, <1>5
  <2>2. Class(w[first - 1]) # 0
    BY <1>1, <1>2, <2>1
  <2> QED BY <1>4, <2>1, <2>2 DEF IsRun
<1>7. last - first < KWindow
  BY <1>4 DEF FitsWindow, w
<1> QED BY <1>1, <1>2, <1>5, <1>6, <1>7, TypingAssumption

\* Marks at the end of a normal form come from marks at the end of the text.
LEMMA TrailingKept ==
  ASSUME NEW s \in Texts, NEW n, TrailingMarks(toNFC(s), n)
  PROVE  TrailingMarks(s, n)
<1>1. Starterless(s) \/ \E x, y \in Texts : s = x \o y /\ Cluster(y)
  BY LastCluster DEF Texts
<1>2. CASE Starterless(s)
  <2>1. Len(toNFC(s)) = Len(s) /\ Len(s) \in Nat
    BY <1>2, NfcOfMarks, LenProperties DEF Texts
  <2>2. n \in 0..Len(s)
    BY <2>1 DEF TrailingMarks
  <2>3. \A k \in ((Len(s) - n) + 1)..Len(s) : k \in 1..Len(s)
    BY <2>1, <2>2
  <2> QED BY <1>2, <2>2, <2>3 DEF TrailingMarks, Starterless
<1>3. ASSUME NEW x \in Texts, NEW y \in Texts, s = x \o y, Cluster(y)
      PROVE  TrailingMarks(s, n)
  <2> DEFINE u == toNFC(x)
             v == toNFC(y)
             K == Len(u)
             N == Len(v)
             M == Len(x)
             R == Len(y)
  <2>1. 1 \in 1..R /\ Class(y[1]) = 0 /\ \A k \in 2..R : Class(y[k]) # 0
    BY <1>3 DEF Cluster
  <2>2. toNFC(s) = u \o v
    BY <1>3, <2>1, NfcOfJoin
  <2>3. u \in Texts /\ v \in Texts /\ Cluster(v) /\ N \in (R - 1)..R
    BY <1>3, NfcIsNormal, NfcOfCluster
  <2>4. /\ Len(s) = M + R /\ M \in Nat /\ R \in Nat
        /\ \A i \in 1..R : s[M + i] = y[i]
    BY <1>3, ConcatParts DEF Texts
  <2> HIDE DEF u, v
  <2>5. /\ Len(u \o v) = K + N /\ K \in Nat /\ N \in Nat
        /\ \A i \in 1..N : (u \o v)[K + i] = v[i]
    BY <2>3, ConcatParts DEF Texts
  <2>6. 1 \in 1..N /\ Class(v[1]) = 0
    BY <2>3 DEF Cluster
  <2>7. n \in 0..(K + N) /\ \A k \in (((K + N) - n) + 1)..(K + N) : Class((u \o v)[k]) # 0
    BY <2>2, <2>5 DEF TrailingMarks
  <2> HIDE DEF K, N, M, R
  <2>8. n < N
    <3> SUFFICES ASSUME ~ (n < N) PROVE FALSE
      OBVIOUS
    <3>1. K + 1 \in (((K + N) - n) + 1)..(K + N)
      BY <2>5, <2>6, <2>7
    <3> QED BY <2>5, <2>6, <2>7, <3>1
  <2>9. n \in 0..(M + R) /\ \A k \in (((M + R) - n) + 1)..(M + R) : k - M \in 2..R /\ k - M \in 1..R /\ M + (k - M) = k
    BY <2>3, <2>4, <2>5, <2>7, <2>8
  <2>10. ASSUME NEW k \in (((M + R) - n) + 1)..(M + R) PROVE Class(s[k]) # 0
    <3> DEFINE h == k - M
    <3>1. h \in 2..R /\ h \in 1..R /\ M + h = k
      BY <2>9
    <3> HIDE DEF h
    <3>2. s[k] = y[h]
      BY <2>4, <3>1
    <3>3. Class(y[h]) # 0
      BY <2>1, <3>1
    <3> QED BY <3>2, <3>3
  <2> QED BY <2>4, <2>9, <2>10 DEF TrailingMarks
<1> QED BY <1>1, <1>2, <1>3

\* A mark may fall into a starter, but what was normal never gets shorter.
LEMMA NeverShorter ==
  ASSUME NEW s \in Texts, Normal(s), NEW c \in Codepoints
  PROVE  toNFC(Append(s, c)) \in Texts /\ Len(toNFC(Append(s, c))) \in Len(s)..(Len(s) + 1)
<1>1. Append(s, c) \in Texts /\ Len(Append(s, c)) = Len(s) + 1 /\ Len(s) \in Nat
  BY AppendText
<1>2. toNFC(Append(s, c)) \in Texts
  BY <1>1, NfcIsNormal
<1>3. CASE Class(c) = 0
  <2>1. toNFC(Append(s, c)) = Append(s, c)
    BY <1>3, NfcWithStarter, NormalStays
  <2>2. Len(s) + 1 \in Len(s)..(Len(s) + 1)
    BY <1>1
  <2> QED BY <1>1, <1>2, <2>1, <2>2
<1>4. CASE Class(c) # 0 /\ Starterless(s)
  <2> DEFINE w == Append(s, c)
  <2>1. /\ w \in Texts /\ Len(w) = Len(s) + 1 /\ (\A i \in 1..Len(s) : w[i] = s[i]) /\ w[Len(s) + 1] = c
    BY AppendText
  <2> HIDE DEF w
  <2>2. \A i \in 1..(Len(s) + 1) : i \in 1..Len(s) \/ i = Len(s) + 1
    BY <1>1
  <2>3. Starterless(w)
    BY <1>4, <2>1, <2>2 DEF Starterless
  <2>4. Len(toNFC(w)) = Len(s) + 1
    BY <2>1, <2>3, NfcOfMarks
  <2>5. Len(s) + 1 \in Len(s)..(Len(s) + 1)
    BY <1>1
  <2> QED BY <1>2, <2>4, <2>5 DEF w
<1>5. ASSUME Class(c) # 0, NEW x \in Texts, NEW y \in Texts, s = x \o y, Cluster(y)
      PROVE  Len(toNFC(Append(s, c))) \in Len(s)..(Len(s) + 1)
  <2> DEFINE w == Append(y, c)
             v == toNFC(w)
  <2>1. w \in Texts /\ Len(w) = Len(y) + 1 /\ Cluster(w)
    BY <1>5, AppendText, LongerCluster
  <2>2. v \in Texts /\ Len(v) \in (Len(w) - 1)..Len(w)
    BY <2>1, NfcOfCluster
  <2>3. Normal(x) /\ 1 \in 1..Len(y) /\ Class(y[1]) = 0
    BY <1>5, PartsNormal DEF Cluster
  <2>4. toNFC(Append(x \o y, c)) = x \o v
    BY <2>3, NfcAfterNormal
  <2> HIDE DEF w, v
  <2>5. Len(x \o v) = Len(x) + Len(v) /\ Len(x) \in Nat /\ Len(v) \in Nat
    BY <2>2, ConcatParts DEF Texts
  <2>6. Len(s) = Len(x) + Len(y) /\ Len(y) \in Nat
    BY <1>5, ConcatParts DEF Texts
  <2>7. Len(x) + Len(v) \in Len(s)..(Len(s) + 1)
    BY <2>1, <2>2, <2>5, <2>6
  <2> QED BY <1>5, <2>4, <2>5, <2>7
<1>6. Starterless(s) \/ \E x, y \in Texts : s = x \o y /\ Cluster(y)
  BY LastCluster DEF Texts
<1> QED BY <1>2, <1>3, <1>4, <1>5, <1>6

-----------------------------------------------------------------------------
(* The typed text.                                                         *)

LEMMA RawIsText ==
  ASSUME raw \in Seq(Alphabet), [Next]_vars
  PROVE  raw' \in Seq(Alphabet)
<1>1. ASSUME NEW cp \in Alphabet, Type(cp) PROVE raw' \in Seq(Alphabet)
  BY <1>1, AppendProperties DEF Type
<1>2. CASE UNCHANGED vars
  BY <1>2 DEF vars
<1> QED BY <1>1, <1>2 DEF Next

\* canonicalOrder puts every mark of what was typed where a stable sort of its
\* run by combining class puts it, and leaves the starters where they are.
THEOREM OrderIsSorted == Spec => []OrderIsStableSort
<1>1. Init => raw \in Seq(Alphabet)
  BY EmptySeq DEF Init
<1>2. raw \in Seq(Alphabet) /\ [Next]_vars => (raw \in Seq(Alphabet))'
  BY RawIsText
<1>3. raw \in Seq(Alphabet) => OrderIsStableSort
  BY OrderSorts DEF OrderIsStableSort
<1> QED BY <1>1, <1>2, <1>3, PTL DEF Spec

-----------------------------------------------------------------------------
(* The window.                                                             *)

\* The text on screen is the normal form of what was typed, and codepoints
\* leave the window only while the window is full.
Windowed ==
  FitsWindow(raw) => /\ shown = toNFC(raw)
                     /\ older # <<>> => Len(window) = KWindow

TypingInv == raw \in Seq(Alphabet) /\ older \in Texts /\ window \in Texts /\ Windowed

LEMMA RawInTexts ==
  ASSUME raw \in Seq(Alphabet)
  PROVE  raw \in Texts
BY SeqMonotonic DEF Texts, Codepoints

LEMMA EmptyIsNormal == <<>> \in Texts /\ <<>> \o <<>> = <<>> /\ toNFC(<<>>) = <<>>
<1>1. <<>> \in Texts /\ Len(<<>>) = 0
  BY EmptySeq DEF Texts
<1>2. \A i : ~ (i \in 1..0)
  OBVIOUS
<1>3. Normal(<<>>)
  BY <1>1, <1>2 DEF Normal, Ordered, Composed
<1>4. <<>> \o <<>> = <<>>
  BY <1>1, ConcatEmptySeq DEF Texts
<1> QED BY <1>1, <1>3, <1>4, NormalStays

LEMMA JoinIsText ==
  ASSUME NEW x \in Texts, NEW y \in Texts
  PROVE  x \o y \in Texts
BY ConcatProperties DEF Texts

LEMMA JoinAssociates ==
  ASSUME NEW x \in Texts, NEW y \in Texts, NEW z \in Texts
  PROVE  (x \o y) \o z = x \o (y \o z)
BY ConcatAssociative DEF Texts

\* A text falls into two parts at any place.
LEMMA Split ==
  ASSUME NEW s \in Texts, NEW n \in 0..Len(s)
  PROVE  /\ SubSeq(s, 1, n) \in Texts /\ SubSeq(s, n + 1, Len(s)) \in Texts
         /\ SubSeq(s, 1, n) \o SubSeq(s, n + 1, Len(s)) = s
         /\ Len(SubSeq(s, n + 1, Len(s))) = Len(s) - n
         /\ n = 0 => SubSeq(s, 1, n) = <<>>
<1> DEFINE L == Len(s)
<1>1. L \in Nat /\ \A i \in 1..L : s[i] \in Codepoints
  BY LenProperties, ElementOfSeq DEF Texts
<1> HIDE DEF L
<1>2. n \in 0..L
  BY DEF L
<1>3. /\ 1 \in 1..(L + 1) /\ n \in 0..L /\ n \in (1 - 1)..L /\ L \in n..L /\ 1 \in Int /\ n \in Int
      /\ n + 1 \in Int /\ L \in Int
      /\ (\A i \in 1..n : i \in 1..L) /\ (\A i \in (n + 1)..L : i \in 1..L)
  BY <1>1, <1>2
<1>4. SubSeq(s, 1, n) \in Seq(Codepoints)
  BY <1>1, <1>3, SubSeqProperties
<1>5. /\ SubSeq(s, n + 1, L) \in Seq(Codepoints)
      /\ Len(SubSeq(s, n + 1, L)) = IF n + 1 <= L THEN L - (n + 1) + 1 ELSE 0
  BY <1>1, <1>3, SubSeqProperties
<1>6. (IF n + 1 <= L THEN L - (n + 1) + 1 ELSE 0) = L - n
  BY <1>1, <1>2
<1>7. SubSeq(s, 1, n) \o SubSeq(s, n + 1, L) = SubSeq(s, 1, L)
  BY <1>3, ConcatAdjacentSubSeq DEF Texts, L
<1>8. SubSeq(s, 1, L) = s
  BY SubSeqFull DEF Texts, L
<1>9. n = 0 => SubSeq(s, 1, n) = <<>>
  BY SubSeqEmpty
<1>10. Len(SubSeq(s, n + 1, L)) = L - n
  BY <1>5, <1>6
<1>11. SubSeq(s, 1, n) \in Texts /\ SubSeq(s, n + 1, L) \in Texts
  BY <1>4, <1>5 DEF Texts
<1>12. SubSeq(s, 1, n) \o SubSeq(s, n + 1, L) = s
  BY <1>7, <1>8
<1> QED BY <1>9, <1>10, <1>11, <1>12 DEF L

\* A key changes nothing before the last cluster of a normal form.
LEMMA TailIsEnough ==
  ASSUME NEW o \in Texts, NEW x \in Texts, NEW y \in Texts, Normal(o \o (x \o y)), Cluster(y),
         NEW c \in Codepoints
  PROVE  toNFC(Append(o \o (x \o y), c)) = o \o toNFC(Append(x \o y, c))
<1> DEFINE v == toNFC(Append(y, c))
<1>1. 1 \in 1..Len(y) /\ Class(y[1]) = 0
  BY DEF Cluster
<1>2. o \o (x \o y) = (o \o x) \o y /\ o \o x \in Texts /\ x \o y \in Texts
  <2>1. o \o (x \o y) = (o \o x) \o y
    BY JoinAssociates
  <2>2. o \o x \in Texts /\ x \o y \in Texts
    BY JoinIsText
  <2> QED BY <2>1, <2>2
<1>3. Normal(x)
  BY <1>2, PartsNormal
<1>4. Normal(o \o x)
  BY <1>2, PartsNormal
<1>5. toNFC(Append(x \o y, c)) = x \o v
  BY <1>1, <1>3, NfcAfterNormal
<1>6. toNFC(Append((o \o x) \o y, c)) = (o \o x) \o v
  BY <1>1, <1>2, <1>4, NfcAfterNormal
<1>7. v \in Texts
  BY AppendText, NfcIsNormal
<1> HIDE DEF v
<1>8. (o \o x) \o v = o \o (x \o v)
  <2>1. o \in Texts /\ x \in Texts /\ v \in Texts
    BY <1>7
  <2> QED BY ONLY <2>1, JoinAssociates
<1> QED BY <1>2, <1>5, <1>6, <1>8 DEF v

\* Where the normal form of what was typed ends in a window of its own, a key
\* changes nothing before that window.
LEMMA WindowIsEnough ==
  ASSUME NEW s \in Texts, NEW c \in Codepoints, FitsWindow(Append(s, c)),
         NEW o \in Texts, NEW w \in Texts, o \o w = toNFC(s),
         o # <<>> => Len(w) = KWindow
  PROVE  o \o toNFC(Append(w, c)) = toNFC(Append(s, c))
<1>1. toNFC(s) \in Texts /\ Normal(o \o w) /\ o \o w \in Texts
  BY NfcIsNormal
<1>2. Normal(o) /\ Normal(w)
  BY <1>1, PartsNormal
<1>3. toNFC(Append(o \o w, c)) = toNFC(Append(s, c))
  BY NfcOfAppend
<1>4. toNFC(Append(w, c)) \in Texts
  BY <1>2, NeverShorter
<1>5. CASE o = <<>>
  <2>1. o \o w = w
    BY <1>5, ConcatEmptySeq DEF Texts
  <2>2. o \o toNFC(Append(w, c)) = toNFC(Append(w, c))
    BY <1>4, <1>5, ConcatEmptySeq DEF Texts
  <2> QED BY <1>3, <2>1, <2>2
<1>6. CASE Class(c) = 0
  <2>1. toNFC(Append(w, c)) = Append(w, c)
    BY <1>2, <1>6, NfcWithStarter, NormalStays
  <2>2. toNFC(Append(o \o w, c)) = Append(o \o w, c)
    BY <1>1, <1>6, NfcWithStarter, NormalStays
  <2>3. Append(o \o w, c) = o \o Append(w, c)
    BY AppendToTexts
  <2> QED BY <1>3, <2>1, <2>2, <2>3
<1>7. ASSUME o # <<>>, Class(c) # 0
      PROVE  o \o toNFC(Append(w, c)) = toNFC(Append(s, c))
  <2>1. ~ Starterless(w)
    <3> SUFFICES ASSUME Starterless(w) PROVE FALSE
      OBVIOUS
    <3> DEFINE K == Len(o)
               t == o \o w
    <3>1. Len(t) = K + Len(w) /\ K \in Nat /\ \A i \in 1..Len(w) : t[K + i] = w[i]
      BY ConcatParts DEF Texts
    <3>2. Len(w) = KWindow /\ KWindow \in Nat
      BY <1>7, TypingAssumption
    <3> HIDE DEF K, t
    <3>3. KWindow \in 0..Len(t)
      BY <3>1, <3>2
    <3>4. ASSUME NEW k \in ((Len(t) - KWindow) + 1)..Len(t) PROVE Class(t[k]) # 0
      <4> DEFINE h == k - K
      <4>1. h \in 1..Len(w) /\ K + h = k
        BY <3>1, <3>2
      <4> HIDE DEF h
      <4>2. t[k] = w[h]
        BY <3>1, <4>1
      <4> QED BY <4>1, <4>2 DEF Starterless
    <3>5. TrailingMarks(toNFC(s), KWindow)
      BY <3>3, <3>4 DEF TrailingMarks, t
    <3>6. KWindow < KWindow
      BY <1>7, <3>5, TrailingKept, FitsTrailing
    <3> QED BY <3>2, <3>6
  <2>2. PICK x \in Texts, y \in Texts : w = x \o y /\ Cluster(y)
    BY <2>1, LastCluster DEF Texts
  <2>3. toNFC(Append(o \o (x \o y), c)) = o \o toNFC(Append(x \o y, c))
    <3>1. Normal(o \o (x \o y))
      BY <1>1, <2>2
    <3> QED BY ONLY <2>2, <3>1, TailIsEnough
  <2> QED BY <1>3, <2>2, <2>3
<1> QED BY <1>5, <1>6, <1>7

LEMMA TypingHoldsFirst == Init => TypingInv
BY EmptySeq, EmptyIsNormal DEF Init, TypingInv, Windowed, shown, Texts

LEMMA TypingKept ==
  ASSUME TypingInv, [Next]_vars
  PROVE  TypingInv'
<1>1. raw \in Texts /\ older \in Texts /\ window \in Texts /\ raw \in Seq(Alphabet) /\ Windowed
  BY RawInTexts DEF TypingInv
<1>2. (raw \in Seq(Alphabet))'
  BY RawIsText DEF TypingInv
<1>3. ASSUME NEW c \in Alphabet, Type(c) PROVE TypingInv'
  <2> DEFINE p == toNFC(Append(window, c))
             cut == Cut(p)
             L == Len(p)
             a == SubSeq(p, 1, cut)
             b == SubSeq(p, cut + 1, L)
  <2>1. raw' = Append(raw, c) /\ older' = older \o a /\ window' = b
    BY <1>3 DEF Type
  <2>2. c \in Codepoints
    BY DEF Codepoints
  <2>3. p \in Texts
    BY <1>1, <2>2, AppendText, NfcIsNormal
  <2>4. L \in Nat /\ KWindow \in Nat
    BY <2>3, LenProperties, TypingAssumption DEF Texts
  <2>5. cut \in 0..L /\ (L > KWindow => L - cut = KWindow) /\ (~ (L > KWindow) => cut = 0)
    BY <2>4 DEF Cut
  <2> HIDE DEF p, cut
  <2>6. a \in Texts /\ b \in Texts /\ a \o b = p /\ Len(b) = L - cut /\ (cut = 0 => a = <<>>)
    BY <2>3, <2>5, Split
  <2> HIDE DEF a, b, L
  <2>7. older \o a \in Texts /\ (older \o a) \o b = older \o p
    <3>1. older \o a \in Texts
      BY <1>1, <2>6, JoinIsText
    <3>2. (older \o a) \o b = older \o (a \o b)
      BY <1>1, <2>6, JoinAssociates
    <3> QED BY <2>6, <3>1, <3>2
  <2>8. older' \in Texts /\ window' \in Texts
    BY <2>1, <2>6, <2>7
  <2>9. ASSUME FitsWindow(raw')
        PROVE  older' \o window' = toNFC(raw') /\ (older' # <<>> => Len(window') = KWindow)
    <3>1. FitsWindow(Append(raw, c))
      BY <2>1, <2>9
    <3>2. FitsWindow(raw)
      BY <1>1, <2>2, <3>1, FitsBefore
    <3>3. older \o window = toNFC(raw) /\ (older # <<>> => Len(window) = KWindow)
      BY <1>1, <3>2 DEF Windowed, shown
    <3>4. older \o p = toNFC(Append(raw, c))
      BY <1>1, <2>2, <3>1, <3>3, WindowIsEnough DEF p
    <3>5. older' \o window' = toNFC(raw')
      BY <2>1, <2>7, <3>4
    <3>6. CASE L > KWindow
      BY <2>1, <2>5, <2>6, <3>5, <3>6
    <3>7. CASE ~ (L > KWindow)
      <4>1. cut = 0 /\ a = <<>> /\ Len(b) = L
        BY <2>4, <2>5, <2>6, <3>7
      <4>2. older' = older
        BY <1>1, <2>1, <4>1, ConcatEmptySeq DEF Texts
      <4>3. ASSUME older # <<>> PROVE L = KWindow
        <5>1. Normal(older \o window)
          BY <1>1, <3>3, NfcIsNormal
        <5>2. Normal(window)
          BY <1>1, <5>1, PartsNormal
        <5>3. L \in Len(window)..(Len(window) + 1)
          BY <1>1, <2>2, <5>2, NeverShorter DEF p, L
        <5>4. Len(window) = KWindow
          BY <3>3, <4>3
        <5> QED BY <2>4, <3>7, <5>3, <5>4
      <4> QED BY <2>1, <3>5, <4>1, <4>2, <4>3
    <3> QED BY <3>6, <3>7
  <2> QED BY <1>2, <2>8, <2>9 DEF TypingInv, Windowed, shown
<1>4. CASE UNCHANGED vars
  BY <1>4 DEF vars, TypingInv, Windowed, shown
<1> QED BY <1>3, <1>4 DEF Next

LEMMA ShownIsNormal ==
  ASSUME TypingInv, RunsFitWindow
  PROVE  raw \in Texts /\ shown = toNFC(raw)
<1>1. raw \in Texts /\ raw \in Seq(Alphabet) /\ Windowed
  BY RawInTexts DEF TypingInv
<1>2. FitsWindow(raw)
  BY <1>1, RunsAre
<1> QED BY <1>1, <1>2 DEF Windowed

\* Renormalising the last KWindow codepoints after every key shows the normal
\* form of everything typed, as long as no letter carries more marks than the
\* window holds: commit of Composer.cpp need not read further back.
THEOREM IncrementalNormalizes == Spec => []IncrementalIsBatch
<1>1. Init => TypingInv
  BY TypingHoldsFirst
<1>2. TypingInv /\ [Next]_vars => TypingInv'
  BY TypingKept
<1>3. TypingInv => IncrementalIsBatch
  BY ShownIsNormal DEF IncrementalIsBatch
<1> QED BY <1>1, <1>2, <1>3, PTL DEF Spec

\* No starter on screen is followed by a mark that composes with it and is not
\* blocked: what toNFC leaves apart, however the keys were pressed, has no
\* composite in the table.
THEOREM NothingLeftToCompose == Spec => []FullyComposed
<1>1. Init => TypingInv
  BY TypingHoldsFirst
<1>2. TypingInv /\ [Next]_vars => TypingInv'
  BY TypingKept
<1>3. ASSUME TypingInv PROVE FullyComposed
  <2> SUFFICES ASSUME RunsFitWindow,
                      NEW i \in DOMAIN shown, NEW j \in DOMAIN shown,
                      i < j /\ combiningClass(shown[i]) = 0,
                      \A k \in (i + 1)..(j - 1) :
                        combiningClass(shown[k]) \in 1..(combiningClass(shown[j]) - 1)
               PROVE  composePair(shown[i], shown[j]) = 0
    BY DEF FullyComposed
  <2>1. shown \in Texts /\ Composed(shown)
    BY <1>3, ShownIsNormal, NfcIsNormal DEF Normal
  <2>2. i \in 1..Len(shown) /\ j \in 1..Len(shown)
    BY <2>1, LenProperties DEF Texts
  <2> QED BY <2>1, <2>2 DEF Composed, Class
<1> QED BY <1>1, <1>2, <1>3, PTL DEF Spec

\* The text on screen is canonically equivalent to what was typed: composition
\* and reordering lose no mark and move none across another of its class.
THEOREM EquivalenceIsKept == Spec => []ShownIsEquivalent
<1>1. Init => TypingInv
  BY TypingHoldsFirst
<1>2. TypingInv /\ [Next]_vars => TypingInv'
  BY TypingKept
<1>3. TypingInv => ShownIsEquivalent
  BY ShownIsNormal, NfcKeepsMeaning DEF ShownIsEquivalent, Equivalent
<1> QED BY <1>1, <1>2, <1>3, PTL DEF Spec

=============================================================================
