------------------------ MODULE KeyboardLayoutProofs ------------------------
(***************************************************************************)
(* What the lookups and the compose indexes of KeyboardLayout compute, for *)
(* every layout, and the facts about numbers and sequences that the other  *)
(* proofs share.                                                           *)
(***************************************************************************)
EXTENDS KeyboardLayout, SequenceTheorems, FiniteSetTheorems, WellFoundedInduction, TLAPS

-----------------------------------------------------------------------------
(* Numbers and induction.                                                  *)

\* A non-empty set of naturals has a least element: what the CHOOSEs of
\* commonPrefix and matchLigature, two loops that stop at the first hit, pick.
LEMMA LeastNat ==
  ASSUME NEW S, S \subseteq Nat, S # {}
  PROVE  \E n \in S : \A m \in S : n <= m
<1>1. PICK n \in S : \A m \in S : <<m, n>> \notin OpToRel(<, Nat)
  BY WFMin, NatLessThanWellFounded
<1>2. \A m \in S : ~ (m < n)
  BY <1>1 DEF OpToRel
<1> QED BY <1>2

\* Induction, with the set of the numbers that have the property for the
\* property itself.
LEMMA InductionOnNat ==
  ASSUME NEW S, 0 \in S, \A n \in Nat : n \in S => n + 1 \in S
  PROVE  Nat \subseteq S
<1> DEFINE C == Nat \ S
<1> SUFFICES ASSUME C # {} PROVE FALSE
  OBVIOUS
<1>1. PICK n \in C : \A m \in C : n <= m
  <2> HIDE DEF C
  <2>1. C \subseteq Nat
    BY DEF C
  <2> QED BY <2>1, LeastNat
<1>2. n \in Nat /\ n # 0
  OBVIOUS
<1>3. n - 1 \in Nat /\ n - 1 \notin C /\ (n - 1) + 1 = n
  BY <1>1, <1>2
<1> QED BY <1>3

\* Induction on the length of a sequence.
LEMMA InductionOnSeq ==
  ASSUME NEW X, NEW S, <<>> \in S, \A s \in Seq(X), x \in X : s \in S => Append(s, x) \in S
  PROVE  Seq(X) \subseteq S
<1> DEFINE N == {n \in Nat : \A s \in Seq(X) : Len(s) = n => s \in S}
<1>1. 0 \in N
  BY EmptySeq
<1>2. ASSUME NEW n \in Nat, n \in N PROVE n + 1 \in N
  <2> SUFFICES ASSUME NEW s \in Seq(X), Len(s) = n + 1 PROVE s \in S
    OBVIOUS
  <2> DEFINE f == SubSeq(s, 1, n)
  <2>1. \A i \in 1..n : s[i] \in X
    BY ElementOfSeq
  <2>2. /\ f \in Seq(X) /\ Len(f) = n
        /\ \A i \in 1..n : f[i] = s[i]
    <3>1. /\ f \in Seq(X)
          /\ Len(f) = IF 1 <= n THEN n - 1 + 1 ELSE 0
          /\ \A i \in 1..(n - 1 + 1) : f[i] = s[1 + i - 1]
      BY <2>1, SubSeqProperties
    <3> QED BY <3>1
  <2>3. s[n + 1] \in X
    BY ElementOfSeq
  <2> HIDE DEF f
  <2>4. Append(f, s[n + 1]) = s
    <3>1. /\ Append(f, s[n + 1]) \in Seq(X) /\ Len(Append(f, s[n + 1])) = n + 1
          /\ \A i \in 1..n : Append(f, s[n + 1])[i] = f[i]
          /\ Append(f, s[n + 1])[n + 1] = s[n + 1]
      BY <2>2, <2>3, AppendProperties
    <3>2. \A i \in 1..(n + 1) : Append(f, s[n + 1])[i] = s[i]
      BY <2>2, <3>1
    <3> QED BY <3>1, <3>2, SeqEqual
  <2>5. f \in S
    BY <1>2, <2>2
  <2> QED BY <2>2, <2>3, <2>4, <2>5
<1>3. Nat \subseteq N
  <2> HIDE DEF N
  <2> QED BY <1>1, <1>2, InductionOnNat
<1>4. ASSUME NEW s \in Seq(X) PROVE s \in S
  <2>1. Len(s) \in N
    BY <1>3, LenProperties
  <2> QED BY <2>1
<1> QED BY <1>4

-----------------------------------------------------------------------------
(* Parts of sequences.                                                     *)

\* The prefix of a text of any length.
LEMMA PrefixType ==
  ASSUME NEW S, NEW s \in Seq(S), NEW n \in Int, n <= Len(s)
  PROVE  /\ SubSeq(s, 1, n) \in Seq(S)
         /\ Len(SubSeq(s, 1, n)) = IF 1 <= n THEN n ELSE 0
         /\ \A i \in 1..n : SubSeq(s, 1, n)[i] = s[i]
<1>1. \A i \in 1..n : s[i] \in S
  BY ElementOfSeq, LenProperties
<1>2. /\ SubSeq(s, 1, n) \in Seq(S)
      /\ Len(SubSeq(s, 1, n)) = IF 1 <= n THEN n - 1 + 1 ELSE 0
      /\ \A i \in 1..(n - 1 + 1) : SubSeq(s, 1, n)[i] = s[1 + i - 1]
  BY <1>1, SubSeqProperties
<1> QED BY <1>2

\* A text without its last element.
LEMMA FrontType ==
  ASSUME NEW S, NEW s \in Seq(S), NEW n \in Nat, n >= 1, Len(s) = n
  PROVE  /\ Len(SubSeq(s, 1, n - 1)) = n - 1
         /\ \A i \in 1..(n - 1) : SubSeq(s, 1, n - 1)[i] = s[i]
<1>1. n - 1 \in Int /\ n - 1 <= Len(s)
  OBVIOUS
<1>2. /\ Len(SubSeq(s, 1, n - 1)) = IF 1 <= n - 1 THEN n - 1 ELSE 0
      /\ \A i \in 1..(n - 1) : SubSeq(s, 1, n - 1)[i] = s[i]
  BY <1>1, PrefixType
<1> QED BY <1>2

\* The rest of a text from a position on.
LEMMA SuffixType ==
  ASSUME NEW S, NEW s \in Seq(S), NEW n \in 0..Len(s)
  PROVE  /\ SubSeq(s, n + 1, Len(s)) \in Seq(S)
         /\ Len(SubSeq(s, n + 1, Len(s))) = Len(s) - n
         /\ \A i \in 1..(Len(s) - n) : SubSeq(s, n + 1, Len(s))[i] = s[n + i]
<1>1. Len(s) \in Nat /\ \A i \in (n + 1)..Len(s) : s[i] \in S
  BY ElementOfSeq, LenProperties
<1>2. /\ SubSeq(s, n + 1, Len(s)) \in Seq(S)
      /\ Len(SubSeq(s, n + 1, Len(s))) = IF n + 1 <= Len(s) THEN Len(s) - (n + 1) + 1 ELSE 0
      /\ \A i \in 1..(Len(s) - (n + 1) + 1) : SubSeq(s, n + 1, Len(s))[i] = s[n + 1 + i - 1]
  BY <1>1, SubSeqProperties
<1> QED BY <1>1, <1>2

\* The tail of a tail is a tail.
LEMMA TailOfTail ==
  ASSUME NEW S, NEW r \in Seq(S), NEW s \in Seq(S), NEW t \in Seq(S),
         IsTail(r, s), IsTail(s, t)
  PROVE  IsTail(r, t)
<1>1. Len(r) \in Nat /\ Len(s) \in Nat /\ Len(t) \in Nat
  BY LenProperties
<1>2. \A i \in 1..Len(r) : r[i] = t[Len(t) - Len(r) + i]
  <2> SUFFICES ASSUME NEW i \in 1..Len(r) PROVE r[i] = t[Len(t) - Len(r) + i]
    OBVIOUS
  <2>1. r[i] = s[Len(s) - Len(r) + i]
    BY DEF IsTail
  <2>2. Len(s) - Len(r) + i \in 1..Len(s)
    BY <1>1 DEF IsTail
  <2>3. s[Len(s) - Len(r) + i] = t[Len(t) - Len(s) + (Len(s) - Len(r) + i)]
    BY <2>2 DEF IsTail
  <2> QED BY <1>1, <2>1, <2>3
<1> QED BY <1>1, <1>2 DEF IsTail

-----------------------------------------------------------------------------
(* Kept, the loop that skips entries.                                      *)

\* The equation of its local function, for the first N entries.
KeptOf(f, list, S, N) ==
  [n \in 0..N |-> IF n = 0 THEN <<>>
                  ELSE IF n \in S THEN Append(f[n - 1], list[n]) ELSE f[n - 1]]

\* The local function.
KeptUpto(list, S) == CHOOSE f : f = KeptOf(f, list, S, Len(list))

\* The equation has a solution ...
LEMMA KeptExists ==
  ASSUME NEW list, NEW S, NEW N \in Nat
  PROVE  \E f : f = KeptOf(f, list, S, N)
<1> DEFINE step(prev, n) == IF n \in S THEN Append(prev, list[n]) ELSE prev
           Rec(f, k)     == [n \in 0..k |-> IF n = 0 THEN <<>> ELSE step(f[n - 1], n)]
           T             == {k \in Nat : \E f : f = Rec(f, k)}
<1>1. 0 \in T
  <2> DEFINE g == [n \in 0..0 |-> <<>>]
  <2>1. g = Rec(g, 0)
    OBVIOUS
  <2> QED BY <2>1
<1>2. ASSUME NEW k \in Nat, k \in T PROVE k + 1 \in T
  <2>1. PICK f : f = Rec(f, k)
    BY <1>2
  <2> DEFINE g == [n \in 0..(k + 1) |-> IF n <= k THEN f[n] ELSE step(f[k], k + 1)]
  <2> HIDE DEF step
  <2>2. \A n \in 0..k : f[n] = IF n = 0 THEN <<>> ELSE step(f[n - 1], n)
    BY <2>1
  <2>3. \A n \in 0..(k + 1) : g[n] = IF n = 0 THEN <<>> ELSE step(g[n - 1], n)
    <3> SUFFICES ASSUME NEW n \in 0..(k + 1)
                 PROVE  g[n] = IF n = 0 THEN <<>> ELSE step(g[n - 1], n)
      OBVIOUS
    <3>1. CASE n = 0
      BY <2>2, <3>1
    <3>2. CASE n \in 1..k
      <4>1. n \in 0..k /\ n \in 0..(k + 1) /\ n - 1 \in 0..(k + 1) /\ n - 1 <= k /\ n <= k /\ n # 0
        BY <3>2
      <4>2. g[n] = f[n] /\ g[n - 1] = f[n - 1]
        BY <4>1
      <4> QED BY <2>2, <4>1, <4>2
    <3>3. CASE n = k + 1
      <4>1. n \in 0..(k + 1) /\ k \in 0..(k + 1) /\ n - 1 = k /\ ~ (n <= k) /\ n # 0
        BY <3>3
      <4>2. g[n] = step(f[k], k + 1) /\ g[k] = f[k]
        BY <4>1
      <4> QED BY <3>3, <4>1, <4>2
    <3> QED BY <3>1, <3>2, <3>3
  <2>4. g = Rec(g, k + 1)
    <3>1. g = [n \in 0..(k + 1) |-> g[n]]
      OBVIOUS
    <3> HIDE DEF g
    <3> QED BY <2>3, <3>1
  <2> HIDE DEF g
  <2> QED BY <2>4
<1>3. Nat \subseteq T
  <2> HIDE DEF T
  <2> QED BY <1>1, <1>2, InductionOnNat
<1> QED BY <1>3 DEF KeptOf

\* ... and the local function is one.
LEMMA KeptUnfolds ==
  ASSUME NEW list, NEW S, Len(list) \in Nat
  PROVE  /\ Kept(list, S) = KeptUpto(list, S)[Len(list)]
         /\ KeptUpto(list, S)[0] = <<>>
         /\ \A n \in 1..Len(list) :
              KeptUpto(list, S)[n] = IF n \in S THEN Append(KeptUpto(list, S)[n - 1], list[n])
                                     ELSE KeptUpto(list, S)[n - 1]
<1> DEFINE u == KeptUpto(list, S)
<1>1. \E f : f = KeptOf(f, list, S, Len(list))
  BY KeptExists
<1>2. u = KeptOf(u, list, S, Len(list))
  BY <1>1 DEF KeptUpto
<1>3. Kept(list, S) = u[Len(list)]
  BY DEF Kept, KeptOf, KeptUpto
<1> HIDE DEF u
<1>4. /\ u[0] = <<>>
      /\ \A n \in 1..Len(list) : u[n] = IF n \in S THEN Append(u[n - 1], list[n]) ELSE u[n - 1]
  <2>1. \A n \in 0..Len(list) : u[n] = IF n = 0 THEN <<>>
                                     ELSE IF n \in S THEN Append(u[n - 1], list[n]) ELSE u[n - 1]
    BY <1>2 DEF KeptOf
  <2>2. u[0] = <<>>
    BY <2>1
  <2>3. ASSUME NEW n \in 1..Len(list)
        PROVE  u[n] = IF n \in S THEN Append(u[n - 1], list[n]) ELSE u[n - 1]
    <3>1. n \in 0..Len(list) /\ n # 0
      OBVIOUS
    <3> QED BY <2>1, <3>1
  <2> QED BY <2>2, <2>3
<1> QED BY <1>3, <1>4 DEF u

\* What is kept is every entry at a position of S and no other.
EntriesAt(list, S) == {list[i] : i \in DOMAIN list \cap S}

LEMMA KeptEntries ==
  ASSUME NEW X, NEW list \in Seq(X), NEW S
  PROVE  /\ Kept(list, S) \in Seq(EntriesAt(list, S))
         /\ \A i \in DOMAIN list \cap S : \E j \in DOMAIN Kept(list, S) : Kept(list, S)[j] = list[i]
<1> DEFINE u      == KeptUpto(list, S)
           N      == Len(list)
           D(n)   == {i \in 1..n : i \in S}
           Y      == EntriesAt(list, S)
           Good(n) == /\ \A i \in D(n) : \E j \in DOMAIN u[n] : u[n][j] = list[i]
                      /\ u[n] \in Seq(Y)
           T      == {n \in Nat : n <= N => Good(n)}
<1>1. N \in Nat /\ DOMAIN list = 1..N
  BY LenProperties
<1>2. /\ Kept(list, S) = u[N] /\ u[0] = <<>>
      /\ \A n \in 1..N : u[n] = IF n \in S THEN Append(u[n - 1], list[n]) ELSE u[n - 1]
  <2>1. Len(list) \in Nat
    BY <1>1
  <2> QED BY <2>1, KeptUnfolds
<1> HIDE DEF u, N, Y
<1>3. 0 \in T
  <2>1. u[0] = <<>> /\ D(0) = {} /\ DOMAIN <<>> = {} /\ <<>> \in Seq(Y)
    BY <1>2
  <2> QED BY <2>1
<1>4. ASSUME NEW n \in Nat, n \in T PROVE n + 1 \in T
  <2> SUFFICES ASSUME n + 1 <= N PROVE Good(n + 1)
    OBVIOUS
  <2>1. n + 1 \in 1..N /\ (n + 1) - 1 = n /\ n <= N
    BY <1>1
  <2>2. Good(n)
    BY <1>4, <2>1
  <2>3. u[n + 1] = IF n + 1 \in S THEN Append(u[n], list[n + 1]) ELSE u[n]
    BY <1>2, <2>1
  <2>4. CASE n + 1 \notin S
    <3>1. D(n + 1) = D(n)
      BY <2>4
    <3>2. u[n + 1] = u[n]
      BY <2>3, <2>4
    <3> HIDE DEF D
    <3> QED BY <2>2, <3>1, <3>2
  <2>5. CASE n + 1 \in S
    <3> DEFINE a == u[n]
               b == Append(a, list[n + 1])
    <3>1. D(n + 1) = D(n) \cup {n + 1}
      BY <2>5
    <3>2. list[n + 1] \in Y
      BY <1>1, <2>1, <2>5 DEF Y, EntriesAt
    <3>3. /\ b \in Seq(Y) /\ Len(b) = Len(a) + 1 /\ Len(a) \in Nat
          /\ DOMAIN b = 1..(Len(a) + 1) /\ DOMAIN a = 1..Len(a)
          /\ \A j \in 1..Len(a) : b[j] = a[j]
          /\ b[Len(a) + 1] = list[n + 1]
      BY <2>2, <3>2, AppendProperties, LenProperties
    <3>4. u[n + 1] = b
      BY <2>3, <2>5
    <3>5. \A i \in D(n) : \E j \in DOMAIN a : a[j] = list[i]
      BY <2>2
    <3> HIDE DEF b, a, D
    <3>6. \A i \in D(n + 1) : \E j \in DOMAIN b : b[j] = list[i]
      <4> SUFFICES ASSUME NEW i \in D(n + 1) PROVE \E j \in DOMAIN b : b[j] = list[i]
        OBVIOUS
      <4>1. CASE i = n + 1
        BY <3>3, <4>1
      <4>2. CASE i \in D(n)
        BY <3>3, <3>5, <4>2
      <4> QED BY <3>1, <4>1, <4>2
    <3> QED BY <3>3, <3>4, <3>6
  <2> QED BY <2>4, <2>5
<1>5. Nat \subseteq T
  <2> HIDE DEF T
  <2> QED BY <1>3, <1>4, InductionOnNat
<1>6. Good(N) /\ D(N) = DOMAIN list \cap S
  BY <1>1, <1>5
<1> QED BY <1>2, <1>6 DEF Y

\* What is kept of a list without repetitions has none.
Distinct(list) == \A i, j \in DOMAIN list : list[i] = list[j] => i = j

LEMMA KeptDistinct ==
  ASSUME NEW X, NEW list \in Seq(X), NEW S, Distinct(list)
  PROVE  Distinct(Kept(list, S))
<1> DEFINE u    == KeptUpto(list, S)
           N    == Len(list)
           Y(n) == {list[i] : i \in 1..n}
           T    == {n \in Nat : n <= N => u[n] \in Seq(Y(n)) /\ Distinct(u[n])}
<1>1. N \in Nat /\ DOMAIN list = 1..N
  BY LenProperties
<1>2. /\ Kept(list, S) = u[N] /\ u[0] = <<>>
      /\ \A n \in 1..N : u[n] = IF n \in S THEN Append(u[n - 1], list[n]) ELSE u[n - 1]
  <2>1. Len(list) \in Nat
    BY <1>1
  <2> QED BY <2>1, KeptUnfolds
<1> HIDE DEF u, N
<1>3. 0 \in T
  <2>1. <<>> \in Seq(Y(0)) /\ DOMAIN <<>> = {}
    OBVIOUS
  <2> QED BY <1>2, <2>1 DEF Distinct
<1>4. ASSUME NEW n \in Nat, n \in T PROVE n + 1 \in T
  <2> SUFFICES ASSUME n + 1 <= N
               PROVE  u[n + 1] \in Seq(Y(n + 1)) /\ Distinct(u[n + 1])
    OBVIOUS
  <2>1. n + 1 \in 1..N /\ (n + 1) - 1 = n /\ n <= N
    BY <1>1
  <2>2. u[n] \in Seq(Y(n)) /\ Distinct(u[n])
    BY <1>4, <2>1
  <2>3. Y(n) \subseteq Y(n + 1) /\ list[n + 1] \in Y(n + 1)
    BY <2>1
  <2>4. list[n + 1] \notin Y(n)
    <3> SUFFICES ASSUME NEW i \in 1..n, list[n + 1] = list[i] PROVE FALSE
      OBVIOUS
    <3>1. i \in DOMAIN list /\ n + 1 \in DOMAIN list /\ i # n + 1
      BY <1>1, <2>1
    <3> QED BY <3>1 DEF Distinct
  <2> HIDE DEF Y
  <2> DEFINE a == u[n]
             b == Append(a, list[n + 1])
  <2>5. a \in Seq(Y(n + 1))
    BY <2>2, <2>3, SeqMonotonic
  <2>6. CASE n + 1 \notin S
    <3>1. u[n + 1] = u[n]
      BY <1>2, <2>1, <2>6
    <3> QED BY <2>2, <2>5, <3>1
  <2>7. CASE n + 1 \in S
    <3>1. u[n + 1] = b
      BY <1>2, <2>1, <2>7
    <3>2. /\ Len(a) \in Nat /\ DOMAIN a = 1..Len(a) /\ \A i \in 1..Len(a) : a[i] \in Y(n)
      BY <2>2, LenProperties, ElementOfSeq
    <3> HIDE DEF a
    <3>3. /\ b \in Seq(Y(n + 1)) /\ DOMAIN b = 1..(Len(a) + 1)
          /\ \A i \in 1..Len(a) : b[i] = a[i]
          /\ b[Len(a) + 1] = list[n + 1]
      BY <2>3, <2>5, AppendProperties, LenProperties
    <3> HIDE DEF b
    <3>4. Distinct(b)
      <4> SUFFICES ASSUME NEW i \in DOMAIN b, NEW j \in DOMAIN b, b[i] = b[j] PROVE i = j
        BY DEF Distinct
      <4>1. CASE i = Len(a) + 1 \/ j = Len(a) + 1
        BY <2>4, <3>2, <3>3, <4>1
      <4>2. CASE i # Len(a) + 1 /\ j # Len(a) + 1
        <5>1. i \in DOMAIN a /\ j \in DOMAIN a /\ a[i] = a[j]
          BY <3>2, <3>3, <4>2
        <5> QED BY <2>2, <5>1 DEF Distinct, a
      <4> QED BY <4>1, <4>2
    <3> QED BY <3>1, <3>3, <3>4
  <2> QED BY <2>6, <2>7
<1>5. Nat \subseteq T
  <2> HIDE DEF T
  <2> QED BY <1>3, <1>4, InductionOnNat
<1>6. Distinct(u[N])
  <2>1. N \in T
    <3> HIDE DEF T
    <3> QED BY <1>1, <1>5
  <2> QED BY <1>1, <2>1
<1> QED BY <1>2, <1>6

\* A list none of whose entries is skipped stays as it is.
LEMMA KeptAll ==
  ASSUME NEW X, NEW list \in Seq(X), NEW S, DOMAIN list \subseteq S
  PROVE  Kept(list, S) = list
<1> DEFINE u == KeptUpto(list, S)
           N == Len(list)
           T == {n \in Nat : n <= N => u[n] = SubSeq(list, 1, n)}
<1>1. N \in Nat /\ DOMAIN list = 1..N
  BY LenProperties
<1>2. /\ Kept(list, S) = u[N] /\ u[0] = <<>>
      /\ \A n \in 1..N : u[n] = IF n \in S THEN Append(u[n - 1], list[n]) ELSE u[n - 1]
  <2>1. Len(list) \in Nat
    BY <1>1
  <2> QED BY <2>1, KeptUnfolds
<1> HIDE DEF u, N
<1>3. 0 \in T
  <2>1. SubSeq(list, 1, 0) = <<>>
    BY SubSeqEmpty
  <2> QED BY <1>2, <2>1
<1>4. ASSUME NEW n \in Nat, n \in T PROVE n + 1 \in T
  <2> SUFFICES ASSUME n + 1 <= N PROVE u[n + 1] = SubSeq(list, 1, n + 1)
    OBVIOUS
  <2>1. n + 1 \in 1..N /\ n + 1 \in S /\ (n + 1) - 1 = n /\ n <= N /\ list[n + 1] \in X
    BY <1>1, ElementOfSeq DEF N
  <2> DEFINE p == SubSeq(list, 1, n)
             q == SubSeq(list, 1, n + 1)
  <2>2. u[n + 1] = Append(p, list[n + 1])
    BY <1>2, <1>4, <2>1
  <2>3. /\ p \in Seq(X) /\ Len(p) = n /\ \A i \in 1..n : p[i] = list[i]
        /\ q \in Seq(X) /\ Len(q) = n + 1 /\ \A i \in 1..(n + 1) : q[i] = list[i]
    <3>1. n \in Int /\ n + 1 \in Int /\ n <= Len(list) /\ n + 1 <= Len(list)
      BY <1>1, <2>1 DEF N
    <3>2. /\ p \in Seq(X) /\ Len(p) = (IF 1 <= n THEN n ELSE 0) /\ \A i \in 1..n : p[i] = list[i]
      BY <3>1, PrefixType
    <3>3. /\ q \in Seq(X) /\ Len(q) = (IF 1 <= n + 1 THEN n + 1 ELSE 0)
          /\ \A i \in 1..(n + 1) : q[i] = list[i]
      BY <3>1, PrefixType
    <3> HIDE DEF p, q
    <3> QED BY <3>2, <3>3
  <2> HIDE DEF p, q
  <2> DEFINE a == Append(p, list[n + 1])
  <2>4. /\ a \in Seq(X) /\ Len(a) = n + 1 /\ a[n + 1] = list[n + 1]
        /\ \A i \in 1..n : a[i] = p[i]
    BY <2>1, <2>3, AppendProperties
  <2> HIDE DEF a
  <2>5. \A i \in 1..(n + 1) : a[i] = q[i]
    BY <2>3, <2>4
  <2>6. a = q
    BY <2>3, <2>4, <2>5, SeqEqual
  <2> QED BY <2>2, <2>6 DEF a, q
<1>5. Nat \subseteq T
  <2> HIDE DEF T
  <2> QED BY <1>3, <1>4, InductionOnNat
<1>6. u[N] = SubSeq(list, 1, N)
  BY <1>1, <1>5
<1> QED BY <1>2, <1>6, SubSeqFull DEF N

-----------------------------------------------------------------------------
(* Orders, the rearrangements of a list.                                   *)

\* The rearrangements of a set of positions, and a list rearranged by one.
Rearrangements(D)      == {f \in [D -> D] : \A i, j \in D : f[i] = f[j] => i = j}
Rearranged(list, f, D) == [i \in D |-> list[f[i]]]

LEMMA OrdersAre ==
  ASSUME NEW list
  PROVE  \A o : o \in Orders(list) <=> \E f \in Rearrangements(DOMAIN list) :
                                          o = Rearranged(list, f, DOMAIN list)
BY DEF Orders, Rearrangements, Rearranged

\* A rearrangement of n positions reaches each of them.
LEMMA PositionsCovered ==
  ASSUME NEW n \in Nat, NEW f \in Rearrangements(1..n), NEW t \in 1..n
  PROVE  \E i \in 1..n : f[i] = t
<1> SUFFICES ASSUME \A i \in 1..n : f[i] # t PROVE FALSE
  OBVIOUS
<1> DEFINE D == 1..n
           T == D \ {t}
<1>1. IsFiniteSet(D) /\ Cardinality(D) = n
  <2>1. IsFiniteSet(1..n) /\ Cardinality(1..n) = IF 1 > n THEN 0 ELSE n - 1 + 1
    BY FS_Interval
  <2>2. n >= 1
    OBVIOUS
  <2> QED BY <2>1, <2>2
<1>2. IsFiniteSet(T) /\ Cardinality(T) = Cardinality(D) - 1
  BY <1>1, FS_RemoveElement
<1>3. f \in [D -> T] /\ \A i, j \in D : f[i] = f[j] => i = j
  BY DEF Rearrangements
<1>4. Cardinality(T) < Cardinality(D)
  BY <1>1, <1>2
<1>5. \E x, y \in D : x # y /\ f[x] = f[y]
  <2> HIDE DEF D, T
  <2> QED BY <1>1, <1>2, <1>3, <1>4, FS_PigeonHole, Zenon
<1> QED BY <1>3, <1>5

\* A rearranged list has the entries of the list and no other ...
LEMMA OrdersEntries ==
  ASSUME NEW X, NEW list \in Seq(X), NEW o \in Orders(list)
  PROVE  /\ o \in Seq(X) /\ DOMAIN o = DOMAIN list
         /\ \A i \in DOMAIN o : \E j \in DOMAIN list : o[i] = list[j]
         /\ \A j \in DOMAIN list : \E i \in DOMAIN o : o[i] = list[j]
<1> DEFINE n == Len(list)
<1>1. n \in Nat /\ DOMAIN list = 1..n
  BY LenProperties
<1> HIDE DEF n
<1>2. PICK f \in Rearrangements(1..n) : o = Rearranged(list, f, 1..n)
  BY <1>1, OrdersAre
<1>3. o = [i \in 1..n |-> list[f[i]]]
  BY <1>2 DEF Rearranged
<1>4. \A i \in 1..n : f[i] \in 1..n /\ list[f[i]] \in X
  BY <1>1, ElementOfSeq DEF n, Rearrangements
<1>5. o \in Seq(X)
  BY <1>1, <1>3, <1>4, IsASeq
<1>6. \A j \in 1..n : \E i \in 1..n : f[i] = j
  BY <1>1, PositionsCovered
<1> QED BY <1>1, <1>3, <1>4, <1>5, <1>6

\* ... and the same rearrangements as the list.
LEMMA OrdersOfOrder ==
  ASSUME NEW X, NEW list \in Seq(X), NEW o \in Orders(list)
  PROVE  Orders(o) = Orders(list)
<1> DEFINE n == Len(list)
           D == 1..n
           R == Rearrangements(D)
<1>1. n \in Nat /\ DOMAIN list = D
  BY LenProperties
<1> HIDE DEF n
<1>2. PICK f \in R : o = Rearranged(list, f, D)
  BY <1>1, OrdersAre
<1>3. \A j \in D : \E i \in D : f[i] = j
  BY <1>1, PositionsCovered
<1> HIDE DEF D
<1>4. DOMAIN o = D
  BY <1>2 DEF Rearranged
<1>5. f \in [D -> D] /\ \A i, j \in D : f[i] = f[j] => i = j
  BY DEF Rearrangements
<1>6. PICK g \in R : \A j \in D : f[g[j]] = j
  <2> DEFINE h == [j \in D |-> CHOOSE i \in D : f[i] = j]
  <2>1. h \in [D -> D] /\ \A j \in D : f[h[j]] = j
    BY <1>3
  <2> HIDE DEF h
  <2>2. h \in R
    BY <2>1 DEF Rearrangements
  <2> QED BY <2>1, <2>2
<1>7. /\ \A p : p \in Orders(list) <=> \E h \in R : p = Rearranged(list, h, D)
      /\ \A p : p \in Orders(o) <=> \E h \in R : p = Rearranged(o, h, D)
  BY <1>1, <1>4, OrdersAre
\* Rearrangements compose.
<1>8. ASSUME NEW a \in R, NEW b \in R PROVE Rearranged(a, b, D) \in R
  BY DEF Rearrangements, Rearranged
<1>9. ASSUME NEW h \in R
      PROVE  /\ Rearranged(o, h, D) = Rearranged(list, Rearranged(f, h, D), D)
             /\ Rearranged(list, h, D) = Rearranged(o, Rearranged(g, h, D), D)
  <2>1. \A i \in D : h[i] \in D /\ g[h[i]] \in D
    BY <1>6 DEF Rearrangements
  <2> QED BY <1>2, <1>6, <2>1 DEF Rearranged
<1> HIDE DEF R
<1>10. \A p : p \in Orders(o) => p \in Orders(list)
  BY <1>2, <1>7, <1>8, <1>9
<1>11. \A p : p \in Orders(list) => p \in Orders(o)
  BY <1>6, <1>7, <1>8, <1>9
<1> QED BY <1>10, <1>11

-----------------------------------------------------------------------------
(* addComposes, the recursion over a list of compose sequences.            *)

\* The equation of its local function, for the first N sequences.
AfterEach(f, lay, seqs, N) ==
  [n \in 0..N |-> IF n = 0 THEN lay ELSE addCompose(f[n - 1], seqs[n])]

\* ... has a solution.
LEMMA AfterEachExists ==
  ASSUME NEW lay, NEW seqs, NEW N \in Nat
  PROVE  \E f : f = AfterEach(f, lay, seqs, N)
<1> USE DEF AfterEach
<1> DEFINE Rec(f, k) == AfterEach(f, lay, seqs, k)
           S == {k \in Nat : \E f : f = Rec(f, k)}
<1>1. 0 \in S
  <2> DEFINE g == [n \in 0..0 |-> lay]
  <2>1. g = Rec(g, 0)
    OBVIOUS
  <2> QED BY <2>1
<1>2. ASSUME NEW k \in Nat, k \in S PROVE k + 1 \in S
  <2>1. PICK f : f = Rec(f, k)
    BY <1>2
  <2> DEFINE g == [n \in 0..(k + 1) |-> IF n <= k THEN f[n] ELSE addCompose(f[k], seqs[k + 1])]
  <2>2. \A n \in 0..k : f[n] = IF n = 0 THEN lay ELSE addCompose(f[n - 1], seqs[n])
    BY <2>1
  <2>3. \A n \in 0..(k + 1) : g[n] = IF n = 0 THEN lay ELSE addCompose(g[n - 1], seqs[n])
    <3> SUFFICES ASSUME NEW n \in 0..(k + 1)
                 PROVE  g[n] = IF n = 0 THEN lay ELSE addCompose(g[n - 1], seqs[n])
      OBVIOUS
    <3>1. CASE n = 0
      BY <2>2, <3>1
    <3>2. CASE n \in 1..k
      <4>1. n \in 0..k /\ n \in 0..(k + 1) /\ n - 1 \in 0..(k + 1) /\ n - 1 <= k /\ n <= k /\ n # 0
        BY <3>2
      <4>2. g[n] = f[n] /\ g[n - 1] = f[n - 1]
        BY <4>1
      <4> QED BY <2>2, <4>1, <4>2
    <3>3. CASE n = k + 1
      <4>1. n \in 0..(k + 1) /\ k \in 0..(k + 1) /\ n - 1 = k /\ ~ (n <= k) /\ n # 0
        BY <3>3
      <4>2. g[n] = addCompose(f[k], seqs[k + 1]) /\ g[k] = f[k]
        BY <4>1
      <4> QED BY <3>3, <4>1, <4>2
    <3> QED BY <3>1, <3>2, <3>3
  <2>4. g = Rec(g, k + 1)
    <3>1. g = [n \in 0..(k + 1) |-> g[n]]
      OBVIOUS
    <3> HIDE DEF g
    <3> QED BY <2>3, <3>1
  <2> HIDE DEF g
  <2> QED BY <2>4
<1>3. Nat \subseteq S
  <2> HIDE DEF S
  <2> QED BY <1>1, <1>2, InductionOnNat
<1> QED BY <1>3

\* The local function satisfies it.
LEMMA AddComposesUnfolds ==
  ASSUME NEW lay, NEW s, Len(s) \in Nat
  PROVE  LET u == CHOOSE f : f = AfterEach(f, lay, s, Len(s))
         IN  /\ addComposes(lay, s) = u[Len(s)]
             /\ \A n \in 0..Len(s) : u[n] = IF n = 0 THEN lay ELSE addCompose(u[n - 1], s[n])
<1> DEFINE u == CHOOSE f : f = AfterEach(f, lay, s, Len(s))
<1>1. \E f : f = AfterEach(f, lay, s, Len(s))
  BY AfterEachExists
<1>2. u = AfterEach(u, lay, s, Len(s))
  BY <1>1
<1>3. addComposes(lay, s) = u[Len(s)]
  BY DEF addComposes, AfterEach
<1> HIDE DEF u
<1>4. \A n \in 0..Len(s) : u[n] = IF n = 0 THEN lay ELSE addCompose(u[n - 1], s[n])
  BY <1>2 DEF AfterEach
<1> QED BY <1>3, <1>4 DEF u

\* The empty list changes nothing ...
LEMMA AddComposesEmpty ==
  ASSUME NEW lay
  PROVE  addComposes(lay, <<>>) = lay
<1> DEFINE u == CHOOSE f : f = AfterEach(f, lay, <<>>, Len(<<>>))
<1>1. Len(<<>>) = 0 /\ 0 \in 0..Len(<<>>)
  OBVIOUS
<1>2. /\ addComposes(lay, <<>>) = u[Len(<<>>)]
      /\ \A n \in 0..Len(<<>>) : u[n] = IF n = 0 THEN lay ELSE addCompose(u[n - 1], <<>>[n])
  BY <1>1, AddComposesUnfolds
<1> HIDE DEF u
<1> QED BY <1>1, <1>2

\* ... and one more sequence is one more addCompose.
LEMMA AddComposesAppend ==
  ASSUME NEW lay, NEW X, NEW seqs \in Seq(X), NEW c \in X
  PROVE  addComposes(lay, Append(seqs, c)) = addCompose(addComposes(lay, seqs), c)
<1> DEFINE upto(s) == CHOOSE f : f = AfterEach(f, lay, s, Len(s))
<1>1. ASSUME NEW s, Len(s) \in Nat
      PROVE  /\ addComposes(lay, s) = upto(s)[Len(s)]
             /\ \A n \in 0..Len(s) : upto(s)[n] = IF n = 0 THEN lay ELSE addCompose(upto(s)[n - 1], s[n])
  BY <1>1, AddComposesUnfolds
<1> DEFINE t == Append(seqs, c)
           N == Len(seqs)
<1>3. /\ N \in Nat /\ Len(t) = N + 1 /\ t[N + 1] = c
      /\ \A i \in 1..N : t[i] = seqs[i]
  BY LenProperties, AppendProperties
<1> HIDE DEF upto, t, N
<1>4. \A n \in 0..N : upto(t)[n] = upto(seqs)[n]
  <2> DEFINE S == {n \in Nat : n <= N => upto(t)[n] = upto(seqs)[n]}
  <2>1. /\ \A n \in 0..(N + 1) : upto(t)[n] = IF n = 0 THEN lay ELSE addCompose(upto(t)[n - 1], t[n])
        /\ \A n \in 0..N : upto(seqs)[n] = IF n = 0 THEN lay ELSE addCompose(upto(seqs)[n - 1], seqs[n])
    <3>1. Len(t) \in Nat /\ Len(t) = N + 1 /\ Len(seqs) \in Nat /\ Len(seqs) = N
      BY <1>3 DEF N
    <3>2. /\ \A n \in 0..Len(t) : upto(t)[n] = IF n = 0 THEN lay ELSE addCompose(upto(t)[n - 1], t[n])
          /\ \A n \in 0..Len(seqs) :
               upto(seqs)[n] = IF n = 0 THEN lay ELSE addCompose(upto(seqs)[n - 1], seqs[n])
      BY <1>1, <3>1, Zenon
    <3> QED BY <3>1, <3>2, Zenon
  <2>2. 0 \in S
    BY <1>3, <2>1
  <2>3. ASSUME NEW n \in Nat, n \in S PROVE n + 1 \in S
    <3> SUFFICES ASSUME n + 1 <= N PROVE upto(t)[n + 1] = upto(seqs)[n + 1]
      OBVIOUS
    <3>1. n + 1 \in 0..(N + 1) /\ n + 1 \in 0..N /\ n + 1 \in 1..N /\ n + 1 # 0
          /\ (n + 1) - 1 = n /\ n <= N
      BY <1>3
    <3>2. upto(t)[n] = upto(seqs)[n] /\ t[n + 1] = seqs[n + 1]
      BY <1>3, <2>3, <3>1
    <3>3. upto(t)[n + 1] = addCompose(upto(t)[n], t[n + 1])
      BY <2>1, <3>1
    <3>4. upto(seqs)[n + 1] = addCompose(upto(seqs)[n], seqs[n + 1])
      BY <2>1, <3>1
    <3> QED BY <3>2, <3>3, <3>4
  <2>4. Nat \subseteq S
    <3> HIDE DEF S
    <3> QED BY <2>2, <2>3, InductionOnNat
  <2> QED BY <2>4
<1>5. addComposes(lay, t) = addCompose(addComposes(lay, seqs), c)
  <2>1. Len(seqs) \in Nat /\ Len(t) \in Nat
    BY <1>3 DEF N
  <2>2. addComposes(lay, t) = upto(t)[N + 1] /\ addComposes(lay, seqs) = upto(seqs)[N]
    BY <1>1, <1>3, <2>1 DEF N
  <2>3. /\ N + 1 \in 0..Len(t) /\ N + 1 # 0 /\ (N + 1) - 1 = N /\ N \in 0..N
    BY <1>3
  <2>4. upto(t)[N + 1] = addCompose(upto(t)[N], c)
    BY <1>1, <1>3, <2>1, <2>3
  <2> QED BY <1>4, <2>2, <2>3, <2>4
<1> QED BY <1>5 DEF t

-----------------------------------------------------------------------------
(* addCompose keeps the indexes true of the list.                          *)

IndexFields == {"compose", "composeExact", "composePrefix", "composeMaxLen"}

\* The compose sequences over code, with an output among outputs.
Sequences(code, outputs) == [keys : Seq(code), output : outputs]

\* The indexes are true of the list: the exact sequences, of which the last
\* definition counts, the proper prefixes, and a bound of their lengths.
ExactIsList(lay) ==
  /\ DOMAIN lay.composeExact = {lay.compose[i].keys : i \in DOMAIN lay.compose} \ {<<>>}
  /\ \A k \in DOMAIN lay.composeExact : \E i \in DOMAIN lay.compose :
       /\ lay.compose[i].keys = k /\ lay.compose[i].output = lay.composeExact[k]
       /\ \A j \in DOMAIN lay.compose : lay.compose[j].keys = k => j <= i

PrefixesOf(s) == {SubSeq(s, 1, n) : n \in 1..(Len(s) - 1)}

PrefixIsList(lay) ==
  lay.composePrefix = UNION {PrefixesOf(lay.compose[i].keys) : i \in DOMAIN lay.compose}

MaxLenBounds(lay) ==
  /\ lay.composeMaxLen \in Nat
  /\ \A i \in DOMAIN lay.compose : Len(lay.compose[i].keys) <= lay.composeMaxLen

Indexed(lay, code, outputs) ==
  /\ IndexFields \subseteq DOMAIN lay
  /\ lay.compose \in Seq(Sequences(code, outputs))
  /\ ExactIsList(lay) /\ PrefixIsList(lay) /\ MaxLenBounds(lay)

\* The fields of a layout after addCompose: only the indexes change.
LEMMA AddComposeFields ==
  ASSUME NEW lay, IndexFields \subseteq DOMAIN lay, NEW c
  PROVE  LET after == addCompose(lay, c)
         IN  /\ DOMAIN after = DOMAIN lay
             /\ \A field \in DOMAIN lay \ IndexFields : after[field] = lay[field]
             /\ after.compose = Append(lay.compose, c)
             /\ c.keys = <<>> => /\ after.composeExact = lay.composeExact
                                 /\ after.composePrefix = lay.composePrefix
                                 /\ after.composeMaxLen = lay.composeMaxLen
             /\ c.keys # <<>> =>
                  /\ after.composeExact = [k \in DOMAIN lay.composeExact \cup {c.keys} |->
                                             IF k = c.keys THEN c.output ELSE lay.composeExact[k]]
                  /\ after.composePrefix =
                       lay.composePrefix \cup {SubSeq(c.keys, 1, i) : i \in 1..(Len(c.keys) - 1)}
                  /\ after.composeMaxLen =
                       IF Len(c.keys) > lay.composeMaxLen THEN Len(c.keys) ELSE lay.composeMaxLen
<1>1. CASE c.keys = <<>>
  BY <1>1 DEF addCompose, IndexFields
<1>2. CASE c.keys # <<>>
  BY <1>2 DEF addCompose, IndexFields
<1> QED BY <1>1, <1>2

LEMMA AddComposeKeeps ==
  ASSUME NEW lay, IndexFields \subseteq DOMAIN lay, NEW c
  PROVE  /\ DOMAIN addCompose(lay, c) = DOMAIN lay
         /\ addCompose(lay, c).compose = Append(lay.compose, c)
         /\ \A field \in DOMAIN lay \ IndexFields : addCompose(lay, c)[field] = lay[field]
BY DEF addCompose, IndexFields

LEMMA AddComposeIndexed ==
  ASSUME NEW code, NEW outputs, NEW lay, Indexed(lay, code, outputs),
         NEW c \in Sequences(code, outputs)
  PROVE  Indexed(addCompose(lay, c), code, outputs)
<1> DEFINE after == addCompose(lay, c)
           old   == lay.compose
           new   == after.compose
           N     == Len(old)
<1>1. /\ IndexFields \subseteq DOMAIN lay /\ old \in Seq(Sequences(code, outputs))
      /\ ExactIsList(lay) /\ PrefixIsList(lay) /\ MaxLenBounds(lay)
  BY DEF Indexed
<1>2. /\ DOMAIN after = DOMAIN lay
      /\ new = Append(old, c)
      /\ c.keys = <<>> => /\ after.composeExact = lay.composeExact
                          /\ after.composePrefix = lay.composePrefix
                          /\ after.composeMaxLen = lay.composeMaxLen
      /\ c.keys # <<>> =>
           /\ after.composeExact = [k \in DOMAIN lay.composeExact \cup {c.keys} |->
                                      IF k = c.keys THEN c.output ELSE lay.composeExact[k]]
           /\ after.composePrefix =
                lay.composePrefix \cup {SubSeq(c.keys, 1, i) : i \in 1..(Len(c.keys) - 1)}
           /\ after.composeMaxLen =
                IF Len(c.keys) > lay.composeMaxLen THEN Len(c.keys) ELSE lay.composeMaxLen
  BY <1>1, AddComposeFields
<1> HIDE DEF after, old, new
<1>3. /\ N \in Nat /\ DOMAIN old = 1..N /\ DOMAIN new = 1..(N + 1)
      /\ new \in Seq(Sequences(code, outputs)) /\ new[N + 1] = c
      /\ \A i \in 1..N : new[i] = old[i]
  <2>1. N \in Nat /\ DOMAIN old = 1..N
    BY <1>1, LenProperties
  <2>2. /\ new \in Seq(Sequences(code, outputs)) /\ Len(new) = N + 1
        /\ new[N + 1] = c /\ \A i \in 1..N : new[i] = old[i]
    BY <1>1, <1>2, AppendProperties
  <2>3. DOMAIN new = 1..Len(new)
    BY <2>2, LenProperties
  <2> QED BY <2>1, <2>2, <2>3
<1>4. c.keys \in Seq(code) /\ Len(c.keys) \in Nat
  BY LenProperties DEF Sequences
<1> HIDE DEF N
<1>5. ExactIsList(after)
  <2>1. {new[i].keys : i \in DOMAIN new} = {old[i].keys : i \in DOMAIN old} \cup {c.keys}
    BY <1>3
  <2>2. DOMAIN after.composeExact = {new[i].keys : i \in DOMAIN new} \ {<<>>}
    BY <1>1, <1>2, <2>1 DEF ExactIsList, old
  <2> SUFFICES ASSUME NEW k \in DOMAIN after.composeExact
               PROVE  \E i \in DOMAIN new :
                        /\ new[i].keys = k /\ new[i].output = after.composeExact[k]
                        /\ \A j \in DOMAIN new : new[j].keys = k => j <= i
    BY <2>2 DEF ExactIsList, new
  <2>3. CASE k = c.keys
    <3>1. c.keys # <<>>
      BY <2>2, <2>3
    <3>2. after.composeExact[k] = c.output
      BY <1>2, <2>3, <3>1
    <3>3. N + 1 \in DOMAIN new /\ \A j \in DOMAIN new : j <= N + 1
      BY <1>3
    <3> QED BY <1>3, <2>3, <3>2, <3>3
  <2>4. CASE k # c.keys
    <3>1. k \in DOMAIN lay.composeExact /\ after.composeExact[k] = lay.composeExact[k]
      BY <1>2, <2>4
    <3>2. PICK i \in DOMAIN old : /\ old[i].keys = k /\ old[i].output = lay.composeExact[k]
                                  /\ \A j \in DOMAIN old : old[j].keys = k => j <= i
      BY <1>1, <3>1 DEF ExactIsList, old
    <3>3. i \in DOMAIN new /\ new[i] = old[i]
      BY <1>3, <3>2
    <3>4. ASSUME NEW j \in DOMAIN new, new[j].keys = k PROVE j <= i
      <4>1. j # N + 1
        BY <1>3, <2>4, <3>4
      <4>2. j \in DOMAIN old /\ new[j] = old[j]
        BY <1>3, <4>1
      <4> QED BY <3>2, <3>4, <4>2
    <3> QED BY <3>1, <3>2, <3>3, <3>4
  <2> QED BY <2>3, <2>4
<1>6. PrefixIsList(after)
  <2>1. UNION {PrefixesOf(new[i].keys) : i \in DOMAIN new} =
          (UNION {PrefixesOf(old[i].keys) : i \in DOMAIN old}) \cup PrefixesOf(c.keys)
    BY <1>3
  <2>2. c.keys = <<>> => PrefixesOf(c.keys) = {}
    BY DEF PrefixesOf
  <2>3. after.composePrefix = lay.composePrefix \cup PrefixesOf(c.keys)
    BY <1>2, <2>2 DEF PrefixesOf
  <2> QED BY <1>1, <2>1, <2>3 DEF PrefixIsList, old, new
<1>7. MaxLenBounds(after)
  <2>1. /\ lay.composeMaxLen \in Nat
        /\ \A i \in DOMAIN old : Len(old[i].keys) <= lay.composeMaxLen
    BY <1>1 DEF MaxLenBounds, old
  <2>2. \A i \in DOMAIN old : Len(old[i].keys) \in Nat
    <3> SUFFICES ASSUME NEW i \in DOMAIN old PROVE Len(old[i].keys) \in Nat
      OBVIOUS
    <3>1. old[i] \in Sequences(code, outputs)
      BY <1>1, <1>3, ElementOfSeq DEF N
    <3> QED BY <3>1, LenProperties DEF Sequences
  <2>3. after.composeMaxLen \in Nat /\ lay.composeMaxLen <= after.composeMaxLen
        /\ Len(c.keys) <= after.composeMaxLen
    <3>1. CASE c.keys = <<>>
      BY <1>2, <2>1, <3>1
    <3>2. CASE c.keys # <<>>
      BY <1>2, <1>4, <2>1, <3>2
    <3> QED BY <3>1, <3>2
  <2>4. \A i \in DOMAIN new : Len(new[i].keys) <= after.composeMaxLen
    <3> SUFFICES ASSUME NEW i \in DOMAIN new PROVE Len(new[i].keys) <= after.composeMaxLen
      OBVIOUS
    <3>1. CASE i = N + 1
      BY <1>3, <2>3, <3>1
    <3>2. CASE i # N + 1
      <4>1. i \in DOMAIN old /\ new[i] = old[i]
        BY <1>3, <3>2
      <4>2. Len(old[i].keys) <= lay.composeMaxLen /\ Len(old[i].keys) \in Nat
        BY <2>1, <2>2, <4>1
      <4> QED BY <2>1, <2>3, <4>1, <4>2
    <3> QED BY <3>1, <3>2
  <2> QED BY <2>3, <2>4 DEF MaxLenBounds, new
<1> QED BY <1>1, <1>2, <1>3, <1>5, <1>6, <1>7 DEF Indexed, after, new

\* From a layout without compose sequences, as clearCompose leaves it and the
\* parser begins with, addComposes indexes the whole list and nothing else.
NoSequences(lay) ==
  /\ lay.compose = <<>> /\ DOMAIN lay.composeExact = {}
  /\ lay.composePrefix = {} /\ lay.composeMaxLen = 0

LEMMA AddComposesIndexed ==
  ASSUME NEW code, NEW outputs, NEW lay, IndexFields \subseteq DOMAIN lay, NoSequences(lay),
         NEW seqs \in Seq(Sequences(code, outputs))
  PROVE  LET all == addComposes(lay, seqs)
         IN  /\ Indexed(all, code, outputs) /\ all.compose = seqs
             /\ DOMAIN all = DOMAIN lay
             /\ \A field \in DOMAIN lay \ IndexFields : all[field] = lay[field]
<1> DEFINE X       == Sequences(code, outputs)
           Good(s) == LET all == addComposes(lay, s)
                      IN  /\ Indexed(all, code, outputs) /\ all.compose = s
                          /\ DOMAIN all = DOMAIN lay
                          /\ \A field \in DOMAIN lay \ IndexFields : all[field] = lay[field]
           S       == {s \in Seq(X) : Good(s)}
<1>1. <<>> \in S
  <2>1. <<>> \in Seq(X) /\ addComposes(lay, <<>>) = lay
    BY AddComposesEmpty
  <2>2. Indexed(lay, code, outputs)
    BY <2>1 DEF NoSequences, Indexed, ExactIsList, PrefixIsList, MaxLenBounds
  <2> QED BY <2>1, <2>2 DEF NoSequences
<1>2. ASSUME NEW s \in Seq(X), NEW c \in X, s \in S PROVE Append(s, c) \in S
  <2> DEFINE before == addComposes(lay, s)
             after  == addCompose(before, c)
  <2>1. addComposes(lay, Append(s, c)) = after
    BY AddComposesAppend
  <2>2. /\ Indexed(before, code, outputs) /\ before.compose = s
        /\ DOMAIN before = DOMAIN lay
        /\ \A field \in DOMAIN lay \ IndexFields : before[field] = lay[field]
    BY <1>2
  <2>3. Indexed(after, code, outputs)
    BY <2>2, AddComposeIndexed
  <2>4. /\ DOMAIN after = DOMAIN before /\ after.compose = Append(before.compose, c)
        /\ \A field \in DOMAIN before \ IndexFields : after[field] = before[field]
    <3>1. IndexFields \subseteq DOMAIN before
      BY <2>2
    <3> HIDE DEF before
    <3> QED BY <3>1, AddComposeKeeps DEF after
  <2> HIDE DEF before, after
  <2>5. Append(s, c) \in Seq(X)
    BY AppendProperties
  <2> QED BY <2>1, <2>2, <2>3, <2>4, <2>5
<1>3. Seq(X) \subseteq S
  <2> HIDE DEF S
  <2> QED BY <1>1, <1>2, InductionOnSeq
<1> QED BY <1>3

\* What the Composer assumes of the compose indexes holds of true ones.
LEMMA IndexedIsComposable ==
  ASSUME NEW code, NEW outputs, NEW lay, Indexed(lay, code, outputs)
  PROVE  /\ lay.composeMaxLen \in Nat
         /\ \A k \in DOMAIN lay.composeExact : lay.composeExact[k] \in outputs
         /\ \A p \in lay.composePrefix :
              /\ p \in Seq(code) /\ p # <<>>
              /\ Len(p) = 1 \/ SubSeq(p, 1, Len(p) - 1) \in lay.composePrefix
<1>1. /\ lay.compose \in Seq(Sequences(code, outputs))
      /\ ExactIsList(lay) /\ PrefixIsList(lay) /\ MaxLenBounds(lay)
  BY DEF Indexed
<1>2. ASSUME NEW i \in DOMAIN lay.compose PROVE lay.compose[i] \in Sequences(code, outputs)
  BY <1>1, LenProperties, ElementOfSeq
<1>3. \A k \in DOMAIN lay.composeExact : lay.composeExact[k] \in outputs
  BY <1>1, <1>2 DEF ExactIsList, Sequences
<1>4. ASSUME NEW p \in lay.composePrefix
      PROVE  /\ p \in Seq(code) /\ p # <<>>
             /\ Len(p) = 1 \/ SubSeq(p, 1, Len(p) - 1) \in lay.composePrefix
  <2>1. PICK i \in DOMAIN lay.compose : p \in PrefixesOf(lay.compose[i].keys)
    BY <1>1 DEF PrefixIsList
  <2> DEFINE s == lay.compose[i].keys
  <2>2. s \in Seq(code)
    BY <1>2 DEF Sequences
  <2>3. PICK n \in 1..(Len(s) - 1) : p = SubSeq(s, 1, n)
    BY <2>1 DEF PrefixesOf
  <2> HIDE DEF s
  <2>4. Len(s) \in Nat /\ n \in 0..Len(s) /\ n \in Nat
    BY <2>2, <2>3, LenProperties
  <2>5. p \in Seq(code) /\ Len(p) = n
    <3>1. \A k \in 1..n : s[k] \in code
      BY <2>2, <2>4, ElementOfSeq
    <3> QED BY <2>3, <2>4, <3>1, SubSeqProperties
  <2>6. p # <<>>
    BY <2>3, <2>5
  <2>7. ASSUME n # 1 PROVE SubSeq(p, 1, n - 1) \in PrefixesOf(s)
    <3>1. /\ 1 \in 1..Len(s) /\ n \in 1..Len(s) /\ 1 \in 1..(n - 1 + 1)
          /\ n - 1 \in 1..(n - 1 + 1) /\ 1 + 1 - 1 = 1 /\ 1 + (n - 1) - 1 = n - 1
      BY <2>3, <2>4, <2>7
    <3>2. SubSeq(SubSeq(s, 1, n), 1, n - 1) = SubSeq(s, 1, n - 1)
      BY <2>2, <3>1, SubSeqOfSubSeq
    <3>3. n - 1 \in 1..(Len(s) - 1)
      BY <2>3, <2>4, <2>7
    <3> QED BY <2>3, <3>2, <3>3 DEF PrefixesOf
  <2> QED BY <1>1, <2>5, <2>6, <2>7 DEF PrefixIsList, s
<1> QED BY <1>1, <1>3, <1>4 DEF MaxLenBounds

\* composeLookup on true indexes is a scan of the list for the whole buffer,
\* then for a longer sequence that begins with it.
LEMMA LookupOfIndexed ==
  ASSUME NEW code, NEW outputs, NEW lay, Indexed(lay, code, outputs), NEW buffer \in Seq(code)
  PROVE  LET begins(i) == /\ Len(buffer) <= Len(lay.compose[i].keys)
                          /\ buffer = SubSeq(lay.compose[i].keys, 1, Len(buffer))
         IN  composeLookup(lay, buffer) =
               IF buffer # <<>> /\ \E i \in DOMAIN lay.compose : lay.compose[i].keys = buffer
               THEN "Exact"
               ELSE IF \E i \in DOMAIN lay.compose : begins(i) THEN "Prefix" ELSE "None"
<1> DEFINE keys(i)   == lay.compose[i].keys
           begins(i) == Len(buffer) <= Len(keys(i)) /\ buffer = SubSeq(keys(i), 1, Len(buffer))
           I         == DOMAIN lay.compose
<1>1. /\ lay.compose \in Seq(Sequences(code, outputs))
      /\ ExactIsList(lay) /\ PrefixIsList(lay) /\ MaxLenBounds(lay)
  BY DEF Indexed
<1>2. ASSUME NEW i \in I
      PROVE  keys(i) \in Seq(code) /\ Len(keys(i)) \in Nat /\ Len(keys(i)) <= lay.composeMaxLen
  <2>1. lay.compose[i] \in Sequences(code, outputs)
    BY <1>1, LenProperties, ElementOfSeq
  <2> QED BY <1>1, <2>1, LenProperties DEF Sequences, MaxLenBounds
<1>3. Len(buffer) \in Nat /\ lay.composeMaxLen \in Nat /\ (buffer # <<>> => Len(buffer) # 0)
  BY <1>1, EmptySeq, LenProperties DEF MaxLenBounds
<1>4. CASE buffer = <<>>
  <2>1. composeLookup(lay, buffer) = IF lay.compose = <<>> THEN "None" ELSE "Prefix"
    BY <1>4 DEF composeLookup
  <2>2. \A i \in I : begins(i)
    <3> SUFFICES ASSUME NEW i \in I PROVE begins(i)
      OBVIOUS
    <3>1. Len(buffer) = 0 /\ Len(keys(i)) \in Nat
      BY <1>2, <1>4
    <3>2. SubSeq(keys(i), 1, 0) = <<>>
      BY SubSeqEmpty
    <3> QED BY <1>4, <3>1, <3>2
  <2>3. I = {} <=> lay.compose = <<>>
    <3>1. I = 1..Len(lay.compose) /\ Len(lay.compose) \in Nat
      BY <1>1, LenProperties
    <3>2. lay.compose # <<>> => Len(lay.compose) # 0
      BY <1>1, EmptySeq
    <3> QED BY <3>1, <3>2
  <2> HIDE DEF begins, I
  <2>4. composeLookup(lay, buffer) = IF \E i \in I : begins(i) THEN "Prefix" ELSE "None"
    BY <2>1, <2>2, <2>3
  <2> QED BY <1>4, <2>4 DEF begins, I
<1>5. CASE buffer # <<>>
  <2>1. buffer \in DOMAIN lay.composeExact <=> \E i \in I : keys(i) = buffer
    BY <1>1, <1>5 DEF ExactIsList
  <2>2. ASSUME ~ \E i \in I : keys(i) = buffer
        PROVE  buffer \in lay.composePrefix <=> \E i \in I : begins(i)
    <3>1. ASSUME NEW i \in I PROVE buffer \in PrefixesOf(keys(i)) <=> begins(i)
      <4> DEFINE s == keys(i)
      <4>1. s \in Seq(code) /\ Len(s) \in Nat /\ s # buffer
        BY <1>2, <2>2, <3>1
      <4> HIDE DEF s
      <4>2. ASSUME NEW n \in 1..(Len(s) - 1), buffer = SubSeq(s, 1, n)
            PROVE  Len(buffer) = n
        <5>1. \A k \in 1..n : s[k] \in code
          BY <4>1, ElementOfSeq
        <5> QED BY <4>1, <4>2, <5>1, SubSeqProperties
      <4>3. Len(buffer) = Len(s) => buffer # SubSeq(s, 1, Len(buffer))
        BY <4>1, SubSeqFull
      <4>4. buffer \in PrefixesOf(s)
              <=> Len(buffer) \in 1..(Len(s) - 1) /\ buffer = SubSeq(s, 1, Len(buffer))
        BY <4>2 DEF PrefixesOf
      <4>5. begins(i) <=> Len(buffer) <= Len(s) /\ buffer = SubSeq(s, 1, Len(buffer))
        BY DEF s
      <4> HIDE DEF begins
      <4>6. buffer \in PrefixesOf(s) <=> begins(i)
        BY <1>3, <1>5, <4>1, <4>3, <4>4, <4>5
      <4> QED BY <4>6 DEF s
    <3>2. buffer \in lay.composePrefix <=> \E i \in I : buffer \in PrefixesOf(keys(i))
      BY <1>1 DEF PrefixIsList
    <3> HIDE DEF begins
    <3> QED BY <3>1, <3>2
  <2>3. (\E i \in I : keys(i) = buffer \/ begins(i)) => Len(buffer) <= lay.composeMaxLen
    BY <1>2, <1>3
  <2> HIDE DEF begins, keys, I
  <2>4. composeLookup(lay, buffer) =
          IF \E i \in I : keys(i) = buffer THEN "Exact"
          ELSE IF \E i \in I : begins(i) THEN "Prefix" ELSE "None"
    <3>1. CASE Len(buffer) > lay.composeMaxLen
      BY <1>3, <1>5, <2>3, <3>1 DEF composeLookup
    <3>2. CASE ~ (Len(buffer) > lay.composeMaxLen)
      BY <1>3, <1>5, <2>1, <2>2, <3>2 DEF composeLookup
    <3> QED BY <3>1, <3>2
  <2> QED BY <1>5, <2>4 DEF begins, keys, I
<1> QED BY <1>4, <1>5

-----------------------------------------------------------------------------
(* The other lookups.                                                      *)

\* The first match of a list that is sorted longest first is a longest match.
LEMMA FirstMatchIsLongest ==
  ASSUME NEW lay, NEW X, NEW Y, lay.ligatures \in Seq([sequence : Seq(X), result : Y]),
         SortedLongestFirst(lay.ligatures), NEW s, NEW i \in Matches(lay, s)
  PROVE  Len(matchLigature(lay, s).sequence) >= Len(lay.ligatures[i].sequence)
<1> DEFINE ligs == lay.ligatures
           M    == Matches(lay, s)
           m    == CHOOSE k \in M : \A j \in M : k <= j
<1>1. DOMAIN ligs = 1..Len(ligs) /\ Len(ligs) \in Nat
  BY LenProperties
<1>2. M \subseteq DOMAIN ligs
  BY DEF Matches
<1>3. m \in M /\ m <= i
  <2>1. M \subseteq Nat /\ M # {}
    BY <1>1, <1>2
  <2>2. \E k \in M : \A j \in M : k <= j
    <3> HIDE DEF M
    <3> QED BY <2>1, LeastNat
  <2> QED BY <2>2
<1>4. matchLigature(lay, s) = ligs[m]
  BY DEF matchLigature
<1> HIDE DEF M, m
<1>5. m \in DOMAIN ligs /\ i \in DOMAIN ligs
  BY <1>2, <1>3 DEF M
<1>6. Len(ligs[m].sequence) \in Nat /\ Len(ligs[i].sequence) \in Nat
  <2>1. ligs[m] \in [sequence : Seq(X), result : Y] /\ ligs[i] \in [sequence : Seq(X), result : Y]
    BY <1>1, <1>5, ElementOfSeq
  <2> QED BY <2>1, LenProperties
<1>7. CASE m = i
  BY <1>4, <1>6, <1>7
<1>8. CASE m < i
  BY <1>4, <1>5, <1>8 DEF SortedLongestFirst
<1> QED BY <1>1, <1>3, <1>5, <1>7, <1>8

\* Caps Lock: nothing for a key that is not a cased letter or a layout that
\* ignores it, else Shift or its inversion.
LEMMA CapsIsShift ==
  ASSUME NEW lay, lay.capsMode \in CapsMode,
         NEW vk \in DOMAIN lay.keys, lay.keys[vk].cased \in BOOLEAN,
         NEW shift \in BOOLEAN, NEW altgr \in BOOLEAN
  PROVE  LET of(s, caps) == resolve(lay, [vk |-> vk, shift |-> s, altgr |-> altgr, caps |-> caps])
         IN  of(shift, TRUE) =
               IF ~(lay.keys[vk].cased /\ isLetter(vk)) THEN of(shift, FALSE)
               ELSE CASE lay.capsMode = "Ignore"       -> of(shift, FALSE)
                      [] lay.capsMode = "ShiftLetters" -> of(TRUE, FALSE)
                      [] lay.capsMode = "Invert"       -> of(~shift, FALSE)
<1> DEFINE cased   == lay.keys[vk].cased /\ isLetter(vk)
           at(lvl) == lay.keys[vk].levels[lvl]
           \* The action, by the shift that counts.
           pick(s) == CASE altgr /\ s   -> OrElse(at("ShiftAltGr"), OrElse(at("AltGr"), at("Base")))
                        [] altgr /\ ~s  -> OrElse(at("AltGr"), at("Base"))
                        [] ~altgr /\ s  -> IF cased THEN OrElse(at("Shift"), at("Base")) ELSE at("Shift")
                        [] ~altgr /\ ~s -> at("Base")
           of(s, caps) == resolve(lay, [vk |-> vk, shift |-> s, altgr |-> altgr, caps |-> caps])
           eff(s, caps) == EffectiveShift(lay, cased, s, caps)
<1>1. \A s, caps \in BOOLEAN : of(s, caps) = pick(eff(s, caps))
  BY DEF resolve
<1>2. cased \in BOOLEAN
  OBVIOUS
<1> HIDE DEF cased, pick, of
<1>3. \A s \in BOOLEAN : eff(s, FALSE) = s
  BY <1>2 DEF EffectiveShift
<1>4. eff(shift, TRUE) =
        IF ~cased THEN shift
        ELSE CASE lay.capsMode = "Ignore"       -> shift
               [] lay.capsMode = "ShiftLetters" -> TRUE
               [] lay.capsMode = "Invert"       -> ~shift
  BY <1>2 DEF EffectiveShift, CapsMode
<1> HIDE DEF eff
<1>5. of(shift, TRUE) =
        IF ~cased THEN of(shift, FALSE)
        ELSE CASE lay.capsMode = "Ignore"       -> of(shift, FALSE)
               [] lay.capsMode = "ShiftLetters" -> of(TRUE, FALSE)
               [] lay.capsMode = "Invert"       -> of(~shift, FALSE)
  <2>1. \A s, caps \in BOOLEAN : of(s, caps) = pick(eff(s, caps))
    BY <1>1
  <2>2. TRUE \in BOOLEAN /\ FALSE \in BOOLEAN /\ (~shift) \in BOOLEAN
    OBVIOUS
  <2>3. /\ of(shift, FALSE) = pick(shift) /\ of(TRUE, FALSE) = pick(TRUE)
        /\ of(~shift, FALSE) = pick(~shift)
    BY <1>3, <2>1, <2>2
  <2>4. of(shift, TRUE) = pick(eff(shift, TRUE))
    BY <2>1
  <2>5. CASE ~cased
    BY <1>4, <2>3, <2>4, <2>5
  <2>6. CASE cased /\ lay.capsMode = "Ignore"
    BY <1>4, <2>3, <2>4, <2>6
  <2>7. CASE cased /\ lay.capsMode = "ShiftLetters"
    BY <1>4, <2>3, <2>4, <2>7
  <2>8. CASE cased /\ lay.capsMode = "Invert"
    BY <1>4, <2>3, <2>4, <2>8
  <2> QED BY <1>2, <2>5, <2>6, <2>7, <2>8 DEF CapsMode
<1> QED BY <1>5 DEF of, cased
=============================================================================
