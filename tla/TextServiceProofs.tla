------------------------- MODULE TextServiceProofs -------------------------
(***************************************************************************)
(* Theorems about TextService for every layout, normaliser, event set and  *)
(* set of wide codepoints: types, and the window as the tail of a text     *)
(* that is counted in UTF-16 code units.                                   *)
(***************************************************************************)
EXTENDS TextService, ComposerProofs

Cells     == Code \cup {Foreign, Trail}
CodeUnits == Code \cup {Trail}

-----------------------------------------------------------------------------
(* Utf16, the encoding of a text.                                          *)

\* The equation of its local function, for the first N codepoints.
UnitsAfter(f, s, N) == [n \in 0..N |-> IF n = 0 THEN <<>> ELSE f[n - 1] \o Units(s[n])]

\* ... has a solution.
LEMMA UnitsAfterExists ==
  ASSUME NEW s, NEW N \in Nat
  PROVE  \E f : f = UnitsAfter(f, s, N)
<1> DEFINE S == {k \in Nat : \E f : f = UnitsAfter(f, s, k)}
<1>1. 0 \in S
  <2> DEFINE g == [n \in 0..0 |-> <<>>]
  <2>1. g = UnitsAfter(g, s, 0)
    BY DEF UnitsAfter
  <2> QED BY <2>1
<1>2. ASSUME NEW k \in Nat, k \in S PROVE k + 1 \in S
  <2>1. PICK f : f = UnitsAfter(f, s, k)
    BY <1>2
  <2> DEFINE last == f[k] \o Units(s[k + 1])
  <2> HIDE DEF last
  <2> DEFINE g == [n \in 0..(k + 1) |-> IF n <= k THEN f[n] ELSE last]
  <2>2. \A n \in 0..k : f[n] = IF n = 0 THEN <<>> ELSE f[n - 1] \o Units(s[n])
    BY <2>1 DEF UnitsAfter
  <2>3. \A n \in 0..(k + 1) : g[n] = IF n = 0 THEN <<>> ELSE g[n - 1] \o Units(s[n])
    <3> SUFFICES ASSUME NEW n \in 0..(k + 1)
                 PROVE  g[n] = IF n = 0 THEN <<>> ELSE g[n - 1] \o Units(s[n])
      OBVIOUS
    <3>1. CASE n = 0
      BY <2>2, <3>1
    <3>2. CASE n \in 1..k
      <4>1. n \in 0..k /\ n \in 0..(k + 1) /\ n - 1 \in 0..(k + 1) /\ n - 1 <= k /\ n <= k /\ n # 0
        BY <3>2
      <4>2. g[n] = f[n] /\ g[n - 1] = f[n - 1]
        BY <4>1
      <4> QED BY <2>2, <4>1, <4>2
    <3>3. CASE n = k + 1
      <4>1. n \in 0..(k + 1) /\ k \in 0..(k + 1) /\ n - 1 = k /\ ~ (n <= k) /\ n # 0
        BY <3>3
      <4>2. g[n] = last /\ g[k] = f[k]
        BY <4>1
      <4> QED BY <3>3, <4>1, <4>2 DEF last
    <3> QED BY <3>1, <3>2, <3>3
  <2>4. g = UnitsAfter(g, s, k + 1)
    <3>1. g = [n \in 0..(k + 1) |-> g[n]]
      OBVIOUS
    <3> HIDE DEF g
    <3> QED BY <2>3, <3>1 DEF UnitsAfter
  <2> HIDE DEF g
  <2> QED BY <2>4
<1>3. Nat \subseteq S
  <2> HIDE DEF S
  <2> QED BY <1>1, <1>2, InductionOnNat
<1> QED BY <1>3

\* The local function satisfies it.
LEMMA Utf16Unfolds ==
  ASSUME NEW s, Len(s) \in Nat
  PROVE  LET u == CHOOSE f : f = UnitsAfter(f, s, Len(s))
         IN  /\ Utf16(s) = u[Len(s)]
             /\ \A n \in 0..Len(s) : u[n] = IF n = 0 THEN <<>> ELSE u[n - 1] \o Units(s[n])
<1> DEFINE u == CHOOSE f : f = UnitsAfter(f, s, Len(s))
<1>1. \E f : f = UnitsAfter(f, s, Len(s))
  BY UnitsAfterExists
<1>2. u = UnitsAfter(u, s, Len(s))
  BY <1>1
<1>3. Utf16(s) = u[Len(s)]
  BY DEF Utf16, UnitsAfter
<1> HIDE DEF u
<1>4. \A n \in 0..Len(s) : u[n] = IF n = 0 THEN <<>> ELSE u[n - 1] \o Units(s[n])
  BY <1>2 DEF UnitsAfter
<1> QED BY <1>3, <1>4 DEF u

\* The empty text has no units ...
LEMMA Utf16Empty == Utf16(<<>>) = <<>>
<1> DEFINE u == CHOOSE f : f = UnitsAfter(f, <<>>, Len(<<>>))
<1>1. Len(<<>>) = 0 /\ 0 \in 0..Len(<<>>)
  OBVIOUS
<1>2. /\ Utf16(<<>>) = u[Len(<<>>)]
      /\ \A n \in 0..Len(<<>>) : u[n] = IF n = 0 THEN <<>> ELSE u[n - 1] \o Units(<<>>[n])
  BY <1>1, Utf16Unfolds
<1> HIDE DEF u
<1> QED BY <1>1, <1>2

\* ... and one more codepoint adds its own.
LEMMA Utf16Append ==
  ASSUME NEW s \in Seq(Code), NEW c \in Code
  PROVE  Utf16(Append(s, c)) = Utf16(s) \o Units(c)
<1> DEFINE upto(r) == CHOOSE f : f = UnitsAfter(f, r, Len(r))
<1>1. ASSUME NEW r, Len(r) \in Nat
      PROVE  /\ Utf16(r) = upto(r)[Len(r)]
             /\ \A n \in 0..Len(r) : upto(r)[n] = IF n = 0 THEN <<>> ELSE upto(r)[n - 1] \o Units(r[n])
  BY <1>1, Utf16Unfolds
<1> DEFINE t == Append(s, c)
           N == Len(s)
<1>2. /\ N \in Nat /\ Len(t) = N + 1 /\ t[N + 1] = c
      /\ \A i \in 1..N : t[i] = s[i]
  BY LenProperties, AppendProperties
<1> HIDE DEF upto, t, N
<1>3. \A n \in 0..N : upto(t)[n] = upto(s)[n]
  <2> DEFINE S == {n \in Nat : n <= N => upto(t)[n] = upto(s)[n]}
  <2>1. /\ \A n \in 0..(N + 1) : upto(t)[n] = IF n = 0 THEN <<>> ELSE upto(t)[n - 1] \o Units(t[n])
        /\ \A n \in 0..N : upto(s)[n] = IF n = 0 THEN <<>> ELSE upto(s)[n - 1] \o Units(s[n])
    BY <1>1, <1>2 DEF N
  <2>2. 0 \in S
    BY <1>2, <2>1
  <2>3. ASSUME NEW n \in Nat, n \in S PROVE n + 1 \in S
    <3> SUFFICES ASSUME n + 1 <= N PROVE upto(t)[n + 1] = upto(s)[n + 1]
      OBVIOUS
    <3>1. n + 1 \in 0..(N + 1) /\ n + 1 \in 0..N /\ n + 1 \in 1..N /\ n + 1 # 0
          /\ (n + 1) - 1 = n /\ n <= N
      BY <1>2
    <3>2. upto(t)[n] = upto(s)[n] /\ t[n + 1] = s[n + 1]
      BY <1>2, <2>3, <3>1
    <3>3. upto(t)[n + 1] = upto(t)[n] \o Units(t[n + 1])
      BY <2>1, <3>1
    <3>4. upto(s)[n + 1] = upto(s)[n] \o Units(s[n + 1])
      BY <2>1, <3>1
    <3> QED BY <3>2, <3>3, <3>4
  <2>4. Nat \subseteq S
    <3> HIDE DEF S
    <3> QED BY <2>2, <2>3, InductionOnNat
  <2> QED BY <2>4
<1>4. Len(s) \in Nat /\ Len(t) \in Nat
  BY <1>2 DEF N
<1>5. Utf16(t) = upto(t)[N + 1] /\ Utf16(s) = upto(s)[N]
  BY <1>1, <1>2, <1>4 DEF N
<1>6. N + 1 \in 0..Len(t) /\ N + 1 # 0 /\ (N + 1) - 1 = N /\ N \in 0..N
  BY <1>2
<1>7. upto(t)[N + 1] = upto(t)[N] \o Units(c)
  BY <1>1, <1>2, <1>4, <1>6
<1> QED BY <1>3, <1>5, <1>6, <1>7 DEF t

LEMMA UnitsType ==
  ASSUME NEW c \in Code
  PROVE  /\ Units(c) \in Seq(CodeUnits)
         /\ c \notin Wide => Units(c) = <<c>>
<1>1. <<c>> \in Seq(CodeUnits) /\ <<c, Trail>> \in Seq(CodeUnits)
  BY DEF CodeUnits
<1> QED BY <1>1 DEF Units

\* The units of a text are codepoints and trailing units, never foreign.
LEMMA Utf16Type ==
  ASSUME NEW s \in Seq(Code)
  PROVE  Utf16(s) \in Seq(CodeUnits)
<1> DEFINE S == {r \in Seq(Code) : Utf16(r) \in Seq(CodeUnits)}
<1>1. <<>> \in S
  <2>1. <<>> \in Seq(Code) /\ <<>> \in Seq(CodeUnits)
    OBVIOUS
  <2> QED BY <2>1, Utf16Empty
<1>2. ASSUME NEW r \in Seq(Code), NEW c \in Code, r \in S PROVE Append(r, c) \in S
  <2>1. Append(r, c) \in Seq(Code) /\ Utf16(Append(r, c)) = Utf16(r) \o Units(c)
    BY AppendProperties, Utf16Append
  <2>2. Utf16(r) \o Units(c) \in Seq(CodeUnits)
    BY <1>2, UnitsType, ConcatProperties
  <2> QED BY <2>1, <2>2
<1>3. Seq(Code) \subseteq S
  <2> HIDE DEF S
  <2> QED BY <1>1, <1>2, InductionOnSeq
<1> QED BY <1>3

\* Each codepoint has at least one unit.
LEMMA Utf16Long ==
  ASSUME NEW s \in Seq(Code)
  PROVE  Len(s) <= Len(Utf16(s))
<1> DEFINE S == {r \in Seq(Code) : Len(r) <= Len(Utf16(r))}
<1>1. <<>> \in S
  <2>1. <<>> \in Seq(Code)
    OBVIOUS
  <2> QED BY <2>1, Utf16Empty
<1>2. ASSUME NEW r \in Seq(Code), NEW c \in Code, r \in S PROVE Append(r, c) \in S
  <2>1. /\ Append(r, c) \in Seq(Code) /\ Len(Append(r, c)) = Len(r) + 1
        /\ Utf16(Append(r, c)) = Utf16(r) \o Units(c)
    BY AppendProperties, Utf16Append
  <2>2. Units(c) \in Seq(CodeUnits) /\ Len(Units(c)) >= 1 /\ Len(Units(c)) \in Nat
    <3>1. Units(c) \in Seq(CodeUnits)
      BY UnitsType
    <3>2. Len(<<c>>) = 1 /\ Len(<<c, Trail>>) = 2
      OBVIOUS
    <3> QED BY <3>1, <3>2 DEF Units
  <2>3. Len(Utf16(r) \o Units(c)) = Len(Utf16(r)) + Len(Units(c))
    BY <2>2, Utf16Type, ConcatProperties
  <2>4. Len(r) \in Nat /\ Len(Utf16(r)) \in Nat /\ Len(r) <= Len(Utf16(r))
    BY <1>2, Utf16Type, LenProperties
  <2> QED BY <2>1, <2>2, <2>3, <2>4
<1>3. Seq(Code) \subseteq S
  <2> HIDE DEF S
  <2> QED BY <1>1, <1>2, InductionOnSeq
<1> QED BY <1>3

\* The units of two texts in a row are their units in a row.
LEMMA Utf16Concat ==
  ASSUME NEW s \in Seq(Code), NEW t \in Seq(Code)
  PROVE  Utf16(s \o t) = Utf16(s) \o Utf16(t)
<1> DEFINE S == {r \in Seq(Code) : Utf16(s \o r) = Utf16(s) \o Utf16(r)}
<1>0. Utf16(s) \in Seq(CodeUnits)
  BY Utf16Type
<1>1. <<>> \in S
  <2>1. s \o <<>> = s /\ Utf16(s) \o <<>> = Utf16(s)
    BY <1>0, ConcatEmptySeq
  <2>2. <<>> \in Seq(Code) /\ Utf16(<<>>) = <<>>
    BY Utf16Empty
  <2>3. Utf16(s \o <<>>) = Utf16(s) \o Utf16(<<>>)
    BY <2>1, <2>2, Zenon
  <2> QED BY <2>2, <2>3
<1>2. ASSUME NEW r \in Seq(Code), NEW c \in Code, r \in S PROVE Append(r, c) \in S
  <2>1. Append(r, c) \in Seq(Code) /\ Append(r, c) = r \o <<c>> /\ <<c>> \in Seq(Code)
    BY AppendProperties, AppendIsConcat
  <2>2. s \o Append(r, c) = Append(s \o r, c) /\ s \o r \in Seq(Code)
    <3>1. s \o r \in Seq(Code)
      BY ConcatProperties
    <3>2. (s \o r) \o <<c>> = s \o (r \o <<c>>)
      BY <2>1, ConcatAssociative
    <3>3. Append(s \o r, c) = (s \o r) \o <<c>>
      BY <3>1, AppendIsConcat
    <3> QED BY <2>1, <3>1, <3>2, <3>3
  <2>3. Utf16(s \o Append(r, c)) = (Utf16(s) \o Utf16(r)) \o Units(c)
    BY <1>2, <2>2, Utf16Append
  <2>4. Utf16(r) \in Seq(CodeUnits) /\ Units(c) \in Seq(CodeUnits)
    BY Utf16Type, UnitsType
  <2>5. (Utf16(s) \o Utf16(r)) \o Units(c) = Utf16(s) \o (Utf16(r) \o Units(c))
    BY <1>0, <2>4, ConcatAssociative
  <2>6. Utf16(Append(r, c)) = Utf16(r) \o Units(c)
    BY Utf16Append
  <2> QED BY <2>1, <2>3, <2>5, <2>6
<1>3. Seq(Code) \subseteq S
  <2> HIDE DEF S
  <2> QED BY <1>1, <1>2, InductionOnSeq
<1> QED BY <1>3

\* A text without wide codepoints is its own encoding.
LEMMA Utf16Narrow ==
  ASSUME NEW s \in Seq(Code), \A i \in 1..Len(s) : s[i] \notin Wide
  PROVE  Utf16(s) = s
<1> DEFINE narrow(r) == \A i \in 1..Len(r) : r[i] \notin Wide
           S == {r \in Seq(Code) : narrow(r) => Utf16(r) = r}
<1>1. <<>> \in S
  BY Utf16Empty
<1>2. ASSUME NEW r \in Seq(Code), NEW c \in Code, r \in S PROVE Append(r, c) \in S
  <2>1. Append(r, c) \in Seq(Code) /\ Append(r, c) = r \o <<c>>
    BY AppendProperties, AppendIsConcat
  <2>2. /\ Len(r) \in Nat /\ Len(Append(r, c)) = Len(r) + 1
        /\ \A i \in 1..Len(r) : Append(r, c)[i] = r[i]
        /\ Append(r, c)[Len(r) + 1] = c
    BY LenProperties, AppendProperties
  <2>3. ASSUME narrow(Append(r, c)) PROVE Utf16(Append(r, c)) = Append(r, c)
    <3>1. c \notin Wide /\ narrow(r)
      BY <2>2, <2>3
    <3>2. Utf16(r) = r /\ Units(c) = <<c>>
      BY <1>2, <3>1, UnitsType
    <3> QED BY <2>1, <3>2, Utf16Append
  <2> QED BY <2>1, <2>3
<1>3. Seq(Code) \subseteq S
  <2> HIDE DEF S
  <2> QED BY <1>1, <1>2, InductionOnSeq
<1> QED BY <1>3

-----------------------------------------------------------------------------
(* Tails and deletions as concatenations.                                  *)

\* Whatever ends in s is something followed by s.
LEMMA TailSplits ==
  ASSUME NEW X, NEW s \in Seq(X), NEW t \in Seq(X), IsTail(s, t)
  PROVE  \E front \in Seq(X) : t = front \o s
<1> DEFINE n     == Len(t) - Len(s)
           front == SubSeq(t, 1, n)
<1>1. Len(s) \in Nat /\ Len(t) \in Nat /\ Len(s) <= Len(t)
      /\ \A i \in 1..Len(s) : s[i] = t[n + i]
  BY LenProperties DEF IsTail
<1>2. n \in Nat /\ n <= Len(t) /\ Len(t) = n + Len(s)
  BY <1>1
<1> HIDE DEF n
<1>3. front \in Seq(X) /\ Len(front) = n /\ \A i \in 1..n : front[i] = t[i]
  BY <1>2, PrefixType
<1> HIDE DEF front
<1>4. /\ front \o s \in Seq(X) /\ Len(front \o s) = n + Len(s)
      /\ \A i \in 1..(n + Len(s)) : (front \o s)[i] = IF i <= n THEN front[i] ELSE s[i - n]
  BY <1>3, ConcatProperties
<1>5. ASSUME NEW i \in 1..Len(t) PROVE t[i] = (front \o s)[i]
  <2>1. CASE i <= n
    BY <1>2, <1>3, <1>4, <2>1
  <2>2. CASE ~ (i <= n)
    <3>1. i - n \in 1..Len(s) /\ n + (i - n) = i
      BY <1>1, <1>2, <2>2
    <3> QED BY <1>1, <1>2, <1>4, <2>2, <3>1
  <2> QED BY <2>1, <2>2
<1>6. t = front \o s
  BY <1>2, <1>4, <1>5, SeqEqual
<1> QED BY <1>3, <1>6

\* ... and the other way round.
LEMMA ConcatEndsIn ==
  ASSUME NEW X, NEW front \in Seq(X), NEW s \in Seq(X)
  PROVE  IsTail(s, front \o s)
<1>1. Len(front) \in Nat /\ Len(s) \in Nat
  BY LenProperties
<1>2. /\ Len(front \o s) = Len(front) + Len(s)
      /\ \A i \in 1..(Len(front) + Len(s)) :
           (front \o s)[i] = IF i <= Len(front) THEN front[i] ELSE s[i - Len(front)]
  BY ConcatProperties
<1>3. \A i \in 1..Len(s) : (front \o s)[Len(front) + i] = s[i]
  <2> SUFFICES ASSUME NEW i \in 1..Len(s) PROVE (front \o s)[Len(front) + i] = s[i]
    OBVIOUS
  <2>1. Len(front) + i \in 1..(Len(front) + Len(s)) /\ ~ (Len(front) + i <= Len(front))
        /\ Len(front) + i - Len(front) = i
    BY <1>1
  <2> QED BY <1>2, <2>1
<1> QED BY <1>1, <1>2, <1>3 DEF IsTail

\* Deleting as many as the last part has leaves the first part.
LEMMA ChopLastPart ==
  ASSUME NEW X, NEW front \in Seq(X), NEW s \in Seq(X)
  PROVE  Chop(front \o s, Len(s)) = front
<1> DEFINE d == front \o s
<1>1. Len(front) \in Nat /\ Len(s) \in Nat
  BY LenProperties
<1>2. /\ d \in Seq(X) /\ Len(d) = Len(front) + Len(s)
      /\ \A i \in 1..(Len(front) + Len(s)) : d[i] = IF i <= Len(front) THEN front[i] ELSE s[i - Len(front)]
  BY ConcatProperties
<1> HIDE DEF d
<1>3. /\ Chop(d, Len(s)) \in Seq(X)
      /\ Len(Chop(d, Len(s))) = IF Len(s) < Len(d) THEN Len(d) - Len(s) ELSE 0
      /\ \A i \in 1..Len(Chop(d, Len(s))) : Chop(d, Len(s))[i] = d[i]
  BY <1>1, <1>2, ChopProperties
<1>4. Len(Chop(d, Len(s))) = Len(front)
  BY <1>1, <1>2, <1>3
<1>5. \A i \in 1..Len(front) : Chop(d, Len(s))[i] = front[i]
  BY <1>1, <1>2, <1>3, <1>4
<1>6. Chop(d, Len(s)) = front
  BY <1>3, <1>4, <1>5, SeqEqual
<1> QED BY <1>6 DEF d

-----------------------------------------------------------------------------
(* The edit session.                                                       *)

CellText == Seq(Cells)

\* Taking back the last part of a text and putting another in its place.
LEMMA ReplacedEnd ==
  ASSUME NEW front \in CellText, NEW kept \in CellText, NEW taken \in CellText, NEW ins \in CellText
  PROVE  Chop(front \o (kept \o taken), Len(taken)) \o ins = front \o (kept \o ins)
<1> USE DEF CellText
<1>1. front \o (kept \o taken) = (front \o kept) \o taken
  BY ConcatAssociative
<1>2. front \o kept \in Seq(Cells)
  BY ConcatProperties
<1>3. Chop((front \o kept) \o taken, Len(taken)) = front \o kept
  BY <1>2, ChopLastPart
<1>4. (front \o kept) \o ins = front \o (kept \o ins)
  BY ConcatAssociative
<1> QED BY <1>1, <1>3, <1>4

LEMMA UnitsAreCells ==
  ASSUME NEW s \in Seq(CodeUnits)
  PROVE  s \in CellText
BY SeqMonotonic DEF CodeUnits, Cells, CellText

\* The tail of a text is encoded by the tail of its units.
LEMMA Utf16Tail ==
  ASSUME NEW r \in Seq(Code), NEW s \in Seq(Code), IsTail(r, s)
  PROVE  IsTail(Utf16(r), Utf16(s))
<1>1. PICK front \in Seq(Code) : s = front \o r
  BY TailSplits
<1>2. Utf16(s) = Utf16(front) \o Utf16(r)
  BY <1>1, Utf16Concat
<1>3. Utf16(front) \in Seq(CodeUnits) /\ Utf16(r) \in Seq(CodeUnits)
  BY Utf16Type
<1> QED BY <1>2, <1>3, ConcatEndsIn

\* The edit of a window applied to a text that ends in that window: what is in
\* front of the window stays, the window is edited, if the codepoints that are
\* taken back are of one unit each.
LEMMA Joined ==
  ASSUME NEW X, NEW s \in Seq(X), NEW t \in Seq(X), NEW m, NEW n, Len(s) = m, Len(t) = n
  PROVE  /\ s \o t \in Seq(X) /\ Len(s \o t) = m + n
         /\ \A i \in 1..(m + n) : (s \o t)[i] = IF i <= m THEN s[i] ELSE t[i - m]
BY ConcatProperties

LEMMA SessionEditsWindow ==
  ASSUME NEW r \in Seq(Code), NEW o \in EmitOp, o.backspaces <= Len(r),
         \A i \in (Len(r) - o.backspaces + 1)..Len(r) : r[i] \notin Wide,
         NEW front \in CellText, doc = front \o Utf16(r)
  PROVE  /\ Edited(r, o) \in Seq(Code)
         /\ DoEditSession(o) = front \o Utf16(Edited(r, o))
<1> DEFINE b     == o.backspaces
           n     == Len(r) - b
           kept  == SubSeq(r, 1, n)
           taken == SubSeq(r, n + 1, Len(r))
<1>1. b \in Nat /\ o.insert \in Seq(Code) /\ Len(r) \in Nat
  BY LenProperties DEF EmitOp
<1>2. n \in 0..Len(r) /\ Len(r) - n = b /\ n \in Int /\ n <= Len(r)
  BY <1>1
<1>3. Chop(r, b) = kept
  BY <1>1, <1>2 DEF Chop
<1> HIDE DEF n
<1>4. /\ kept \in Seq(Code) /\ Len(kept) = n
      /\ \A i \in 1..n : kept[i] = r[i]
  BY <1>2, PrefixType
<1>5. /\ taken \in Seq(Code) /\ Len(taken) = b
      /\ \A i \in 1..b : taken[i] = r[n + i]
  BY <1>2, SuffixType
<1> HIDE DEF kept, taken
<1>6. r = kept \o taken
  <2>1. /\ kept \o taken \in Seq(Code) /\ Len(kept \o taken) = n + b
        /\ \A i \in 1..(n + b) : (kept \o taken)[i] = IF i <= n THEN kept[i] ELSE taken[i - n]
    BY <1>4, <1>5, Joined
  <2>2. Len(r) = n + b
    BY <1>1, <1>2
  <2>3. ASSUME NEW i \in 1..Len(r) PROVE r[i] = (kept \o taken)[i]
    <3>1. CASE i <= n
      BY <1>2, <1>4, <2>1, <2>2, <3>1
    <3>2. CASE ~ (i <= n)
      <4>1. i - n \in 1..b /\ n + (i - n) = i
        BY <1>1, <1>2, <2>2, <3>2
      <4> QED BY <1>5, <2>1, <2>2, <3>2, <4>1
    <3> QED BY <3>1, <3>2
  <2> QED BY <2>1, <2>2, <2>3, SeqEqual
<1>7. Utf16(taken) = taken
  <2>1. \A i \in 1..Len(taken) : taken[i] \notin Wide
    <3> SUFFICES ASSUME NEW i \in 1..b PROVE taken[i] \notin Wide
      BY <1>5
    <3>1. n + i \in (Len(r) - b + 1)..Len(r)
      BY <1>1, <1>2
    <3> QED BY <1>5, <3>1
  <2> QED BY <1>5, <2>1, Utf16Narrow
<1>8. Utf16(r) = Utf16(kept) \o taken
  <2>1. kept \in Seq(Code) /\ taken \in Seq(Code)
    BY <1>4, <1>5
  <2>2. Utf16(kept \o taken) = Utf16(kept) \o Utf16(taken)
    BY <2>1, Utf16Concat, Zenon
  <2> QED BY <1>6, <1>7, <2>2, Zenon
<1>9. /\ Utf16(kept) \in CellText /\ taken \in CellText
      /\ Utf16(o.insert) \in CellText
  <2>1. /\ Utf16(kept) \in Seq(CodeUnits) /\ Utf16(taken) \in Seq(CodeUnits)
        /\ Utf16(o.insert) \in Seq(CodeUnits)
    BY <1>1, <1>4, <1>5, Utf16Type
  <2> QED BY <1>7, <2>1, UnitsAreCells
<1>10. DoEditSession(o) = front \o (Utf16(kept) \o Utf16(o.insert))
  <2>1. doc = front \o (Utf16(kept) \o taken)
    BY <1>8
  <2>2. Chop(front \o (Utf16(kept) \o taken), Len(taken)) \o Utf16(o.insert)
          = front \o (Utf16(kept) \o Utf16(o.insert))
    <3>1. front \in CellText
      OBVIOUS
    <3> QED BY <1>9, <3>1, ReplacedEnd, ZenonT(40)
  <2>3. Len(taken) = o.backspaces
    BY <1>5
  <2> QED BY <2>1, <2>2, <2>3, Zenon DEF DoEditSession
<1>11. Edited(r, o) = kept \o o.insert
  BY <1>3 DEF Edited
<1>12. kept \o o.insert \in Seq(Code)
  BY <1>1, <1>4, ConcatProperties, Zenon
<1>13. Utf16(kept \o o.insert) = Utf16(kept) \o Utf16(o.insert)
  BY <1>1, <1>4, Utf16Concat, Zenon
<1> QED BY <1>10, <1>11, <1>12, <1>13, Zenon

\* Nothing to edit leaves the text.
LEMMA SwallowKeepsText ==
  ASSUME doc \in CellText
  PROVE  DoEditSession(Swallow) = doc
<1>1. Swallow.backspaces = 0 /\ Swallow.insert = <<>>
  BY DEF Swallow
<1>2. Chop(doc, 0) = doc
  <2>1. Len(doc) \in Nat
    BY LenProperties DEF CellText
  <2>2. Chop(doc, 0) = SubSeq(doc, 1, Len(doc))
    BY <2>1 DEF Chop
  <2> QED BY <2>2, SubSeqFull DEF CellText
<1>3. doc \o <<>> = doc
  BY ConcatEmptySeq DEF CellText
<1> QED BY <1>1, <1>2, <1>3, Utf16Empty DEF DoEditSession

\* What is left of an edit takes back no more than the edit.
LEMMA RemainsType ==
  ASSUME NEW e \in EmitOp, NEW o \in Remains(e)
  PROVE  o \in EmitOp /\ (o.backspaces = 0 \/ o.backspaces = e.backspaces)
<1>1. Swallow \in EmitOp /\ Swallow.backspaces = 0
  <2>1. <<>> \in Seq(Code)
    OBVIOUS
  <2> QED BY <2>1 DEF Swallow, EmitOp
<1>2. CASE o = Swallow
  BY <1>1, <1>2
<1>3. CASE o = [e EXCEPT !.insert = <<>>]
  <2>1. <<>> \in Seq(Code)
    OBVIOUS
  <2> QED BY <1>3, <2>1 DEF EmitOp
<1>4. CASE o = [e EXCEPT !.backspaces = 0]
  BY <1>4 DEF EmitOp
<1> QED BY <1>2, <1>3, <1>4 DEF Remains

\* An edit session leaves a text.
LEMMA SessionType ==
  ASSUME doc \in CellText, NEW o \in EmitOp
  PROVE  DoEditSession(o) \in CellText
<1>1. o.insert \in Seq(Code) /\ o.backspaces \in Nat
  BY DEF EmitOp
<1>2. Utf16(o.insert) \in CellText /\ Chop(doc, o.backspaces) \in CellText
  BY <1>1, Utf16Type, UnitsAreCells, ChopProperties DEF CellText
<1> QED BY <1>2, ConcatProperties DEF DoEditSession, CellText

\* What an edit of the composer does to its window.
LEMMA WindowEdited ==
  ASSUME ComposerType, Reconciles
  PROVE  op'.backspaces <= Len(recent) /\ IsTail(recent', Edited(recent, op'))
<1>1. recent \in Text /\ Len(recent) \in Nat
  BY CodeText, LenProperties DEF ComposerType
<1>2. IsTail(recent, recent)
  BY <1>1 DEF IsTail
<1> QED BY <1>1, <1>2 DEF Reconciles

-----------------------------------------------------------------------------
(* The inductive invariant.                                                *)

TextInv == TypeOK /\ ModesInv /\ SyncedWindow

\* What a key does to the control's text keeps it a text.
LEMMA ControlEffectsType ==
  ASSUME doc \in CellText, NEW vk
  PROVE  ControlEffects(vk) \subseteq CellText
<1>1. ASSUME NEW n \in Nat PROVE Chop(doc, n) \in CellText
  BY <1>1, ChopProperties DEF CellText
<1>2. Append(doc, Foreign) \in CellText
  BY AppendProperties DEF CellText, Cells
<1>3. Chop(doc, 1) \in CellText /\ ControlChop \in CellText
  BY <1>1 DEF ControlChop
<1>4. NativeEffects(vk, doc) \subseteq CellText
  BY <1>2, <1>3 DEF NativeEffects
<1> QED BY <1>3, <1>4 DEF ControlEffects

\* The empty window is the tail of any text.
LEMMA EmptyWindow ==
  ASSUME NEW d \in CellText
  PROVE  IsTail(Utf16(<<>>), d)
<1>1. Len(d) \in Nat
  BY LenProperties DEF CellText
<1> QED BY <1>1, Utf16Empty DEF IsTail

\* A handled key is not ignored by the composer.
LEMMA HandledNotIgnored ==
  ASSUME TypeOK, NEW ev \in Events, Handled(ev)
  PROVE  ~ Ignored(InputOf(ev))
BY DEF TypeOK, Handled, isPureModifier, Ignored, isModifierVk, InputOf

\* What a key that is eaten does.
LEMMA EatenKeyStep ==
  ASSUME TextInv, NEW ev \in Events, EatenKey(ev)
  PROVE  TextInv' /\ (op'.suppress => Reconciles)
<1> DEFINE in == InputOf(ev)
<1>1. /\ ComposerType /\ ModesInv /\ SyncedWindow /\ doc \in CellText /\ recent \in Seq(Code)
      /\ active \in BOOLEAN /\ haveLayout \in BOOLEAN /\ synced \in BOOLEAN
      /\ haveLayout => layout # NoLayout
  BY DEF TextInv, TypeOK, CellText, Cells, ComposerType
<1>2. /\ Handled(ev) /\ process(in)
      /\ Applied \/ SessionFailed \/ LetThrough(ev.vk)
      /\ active' = active /\ haveLayout' = haveLayout
  BY DEF EatenKey
<1>3. InputType(in) /\ ~ Ignored(in)
  BY <1>2, InputOfType, HandledNotIgnored DEF TextInv
<1>4. ComposerType' /\ layout' = layout /\ (op'.suppress => Reconciles)
  BY <1>1, <1>2, <1>3, ProcessWindow
<1>5. ModesInv'
  BY <1>1, <1>2, <1>3, ProcessModes
<1>6. op' \in EmitOp /\ recent' \in Seq(Code)
  BY <1>4 DEF ComposerType
<1>7. doc' \in CellText
  <2>1. CASE Applied
    BY <1>1, <1>6, <2>1, SessionType DEF Applied
  <2>2. CASE SessionFailed
    BY <1>1, <1>6, <2>2, RemainsType, SessionType DEF SessionFailed
  <2>3. CASE LetThrough(ev.vk)
    BY <1>1, <2>3, ControlEffectsType DEF LetThrough
  <2> QED BY <1>2, <2>1, <2>2, <2>3
<1>8. synced' \in BOOLEAN
  BY <1>1, <1>2 DEF Applied, SessionFailed, LetThrough
<1>9. TypeOK'
  BY <1>1, <1>2, <1>4, <1>7, <1>8 DEF TypeOK, CellText, Cells
<1>10. SyncedWindow'
  <2> SUFFICES ASSUME synced' PROVE IsTail(Utf16(recent'), doc')
    BY DEF SyncedWindow
  <2>1. CASE recent' = <<>>
    BY <1>7, <2>1, EmptyWindow
  <2>2. CASE recent' # <<>>
    <3>1. op'.suppress /\ synced /\ IsTail(Utf16(recent), doc)
      BY <1>1, <1>2, <2>2 DEF Applied, SessionFailed, LetThrough, SyncedWindow
    <3>2. op'.backspaces <= Len(recent) /\ IsTail(recent', Edited(recent, op'))
      BY <1>1, <1>4, <3>1, WindowEdited
    <3>3. Utf16(recent) \in CellText /\ Utf16(recent') \in CellText
      BY <1>1, <1>6, Utf16Type, UnitsAreCells
    <3>4. PICK front \in CellText : doc = front \o Utf16(recent)
      BY <1>1, <3>1, <3>3, TailSplits DEF CellText
    <3>5. CASE Applied
      <4>1. WholeDeletion(op') /\ doc' = DoEditSession(op')
        BY <2>2, <3>5 DEF Applied
      <4>2. /\ Edited(recent, op') \in Seq(Code)
            /\ doc' = front \o Utf16(Edited(recent, op'))
        BY <1>1, <1>6, <3>2, <3>4, <4>1, SessionEditsWindow DEF WholeDeletion
      <4> DEFINE e == Utf16(Edited(recent, op'))
      <4>3. e \in CellText /\ IsTail(Utf16(recent'), e)
        BY <1>6, <3>2, <4>2, Utf16Type, Utf16Tail, UnitsAreCells
      <4> HIDE DEF e
      <4>4. IsTail(e, front \o e)
        BY <4>3, ConcatEndsIn DEF CellText
      <4> QED BY <1>7, <3>3, <4>2, <4>3, <4>4, TailOfTail DEF CellText, e
    <3>6. CASE SessionFailed
      <4>1. op' = Swallow /\ doc' = doc
        <5>1. op' = Swallow /\ \E o \in Remains(Swallow) : doc' = DoEditSession(o)
          BY <2>2, <3>6 DEF SessionFailed
        <5>2. Remains(Swallow) = {Swallow}
          BY DEF Remains, Swallow
        <5> QED BY <1>1, <5>1, <5>2, SwallowKeepsText
      <4>2. Edited(recent, op') = recent
        <5>1. op'.backspaces = 0 /\ op'.insert = <<>>
          BY <4>1 DEF Swallow
        <5>2. Chop(recent, 0) = recent
          <6>1. Len(recent) \in Nat
            BY <1>1, LenProperties
          <6>2. Chop(recent, 0) = SubSeq(recent, 1, Len(recent))
            BY <6>1 DEF Chop
          <6> QED BY <1>1, <6>2, SubSeqFull
        <5>3. recent \o <<>> = recent
          BY <1>1, ConcatEmptySeq
        <5> QED BY <5>1, <5>2, <5>3 DEF Edited
      <4>3. IsTail(Utf16(recent'), Utf16(recent))
        BY <1>1, <1>6, <3>2, <4>2, Utf16Tail
      <4> QED BY <1>1, <3>1, <3>3, <4>1, <4>3, TailOfTail DEF CellText
    <3>7. ~ LetThrough(ev.vk)
      BY <3>1 DEF LetThrough
    <3> QED BY <1>2, <3>5, <3>6, <3>7
  <2> QED BY <2>1, <2>2
<1> QED BY <1>4, <1>5, <1>9, <1>10 DEF TextInv

LEMMA InitText == Init => TextInv
<1> SUFFICES ASSUME Init PROVE TextInv
  OBVIOUS
<1>1. /\ layout = NoLayout /\ recent = <<>> /\ pendingDead = NoDead
      /\ composing = FALSE /\ composeBuf = <<>> /\ op = None
      /\ active = FALSE /\ haveLayout = FALSE /\ doc = <<>> /\ synced = TRUE
  BY DEF Init, ComposerInit
<1>2. <<>> \in Seq(Code) /\ Len(<<>>) <= KWindow /\ NoDead \in DeadIds /\ <<>> \in CellText
  BY ComposerAssumption DEF CellText
<1>3. op \in EmitOp
  BY <1>1, <1>2 DEF EmitOp, None
<1>4. TypeOK
  BY <1>1, <1>2, <1>3 DEF TypeOK, ComposerType, CellText, Cells
<1>5. ModesInv
  BY <1>1 DEF ModesInv, ModesExclusive, ComposeBufferLive
<1>6. SyncedWindow
  BY <1>1, <1>2, EmptyWindow DEF SyncedWindow
<1> QED BY <1>4, <1>5, <1>6 DEF TextInv

\* The other steps leave the window alone or empty it.
LEMMA StepText == TextInv /\ [Next]_vars => TextInv'
<1> SUFFICES ASSUME TextInv, [Next]_vars PROVE TextInv'
  OBVIOUS
<1>1. /\ TypeOK /\ ComposerType /\ ModesInv /\ SyncedWindow /\ doc \in CellText /\ op \in EmitOp
      /\ active \in BOOLEAN /\ haveLayout \in BOOLEAN /\ synced \in BOOLEAN
      /\ haveLayout => layout # NoLayout
  BY DEF TextInv, TypeOK, ComposerType, CellText, Cells
<1>2. ASSUME UNCHANGED composerVars, doc' \in CellText, active' \in BOOLEAN, haveLayout' \in BOOLEAN,
             haveLayout' => layout # NoLayout, synced' \in BOOLEAN,
             synced' => IsTail(Utf16(recent), doc')
      PROVE  TextInv'
  <2>1. ComposerType' /\ ModesInv' /\ recent' = recent /\ layout' = layout
    BY <1>1, <1>2 DEF composerVars, ComposerType, ModesInv, ModesExclusive, ComposeBufferLive, L
  <2>2. SyncedWindow'
    BY <1>2, <2>1 DEF SyncedWindow
  <2> QED BY <1>2, <2>1, <2>2 DEF TextInv, TypeOK, CellText, Cells
<1>3. ASSUME reset, layout' \in DOMAIN Layouts \cup {NoLayout}, op' = op, doc' \in CellText,
             synced' = TRUE, active' \in BOOLEAN, haveLayout' \in BOOLEAN,
             haveLayout' => layout' # NoLayout
      PROVE  TextInv'
  <2>1. ComposerType' /\ ModesInv' /\ recent' = <<>>
    BY <1>1, <1>3, ResetIdle
  <2>2. SyncedWindow'
    BY <1>3, <2>1, EmptyWindow DEF SyncedWindow
  <2> QED BY <1>3, <2>1, <2>2 DEF TextInv, TypeOK, CellText, Cells
<1>4. \A d \in OtherDocs : d \in CellText
  <2> SUFFICES ASSUME NEW d \in OtherDocs PROVE d \in CellText
    OBVIOUS
  <2>1. d \in Seq({Foreign})
    BY ControlAssumption
  <2> QED BY <2>1, SeqMonotonic DEF CellText, Cells
<1>a. ASSUME NEW id \in DOMAIN Layouts \cup {NoLayout}, NEW advised \in BOOLEAN, Activate(id, advised)
      PROVE  TextInv'
  <2>1. CASE id = NoLayout
    BY <1>1, <1>2, <1>a, <2>1 DEF Activate, composerVars, SyncedWindow
  <2>2. CASE id # NoLayout
    BY <1>1, <1>3, <1>a, <2>2 DEF Activate, setLayout
  <2> QED BY <2>1, <2>2
<1>b. CASE Deactivate
  BY <1>1, <1>2, <1>b DEF Deactivate, SyncedWindow
<1>c. ASSUME NEW d \in OtherDocs, OnSetFocus(d) PROVE TextInv'
  BY <1>1, <1>3, <1>4, <1>c DEF OnSetFocus, ComposerType
<1>d. ASSUME NEW d \in OtherDocs, CaretMoves(d) PROVE TextInv'
  <2>1. doc' \in CellText /\ synced' = (recent = <<>>)
        /\ UNCHANGED <<composerVars, active, haveLayout>>
    BY <1>4, <1>d DEF CaretMoves
  <2>2. synced' => IsTail(Utf16(recent), doc')
    BY <2>1, EmptyWindow
  <2> QED BY <1>1, <1>2, <2>1, <2>2
<1>e. ASSUME NEW ev \in Events, UneatenKey(ev) PROVE TextInv'
  <2>1. /\ doc' \in CellText /\ synced' = (recent = <<>> \/ (synced /\ doc' = doc))
        /\ UNCHANGED <<composerVars, active, haveLayout>>
    BY <1>1, <1>e, ControlEffectsType DEF UneatenKey
  <2>2. synced' => IsTail(Utf16(recent), doc')
    BY <1>1, <2>1, EmptyWindow DEF SyncedWindow
  <2> QED BY <1>1, <1>2, <2>1, <2>2
<1>f. ASSUME NEW ev \in Events, EatenKey(ev) PROVE TextInv'
  BY <1>f, EatenKeyStep
<1>g. CASE UNCHANGED vars
  BY <1>1, <1>2, <1>g DEF vars, tsfVars, SyncedWindow
<1> QED
  BY <1>a, <1>b, <1>c, <1>d, <1>e, <1>f, <1>g DEF Next, KeyDown

-----------------------------------------------------------------------------
(* Text of the application.                                                *)

\* An edit session on a synced window leaves every foreign cell of the text where
\* it is: it deletes no more units than it means codepoints, and those have at
\* least a unit each.
LEMMA SessionKeepsForeign ==
  ASSUME TextInv, NEW ev \in Events, synced, EatenKey(ev), op'.suppress
  PROVE  ~ LosesForeignText
<1>1. ComposerType /\ recent \in Seq(Code) /\ IsTail(Utf16(recent), doc) /\ doc \in CellText
  BY DEF TextInv, TypeOK, SyncedWindow, ComposerType, CellText, Cells
<1>2. TextInv' /\ Reconciles
  BY EatenKeyStep
<1>3. op' \in EmitOp /\ op'.backspaces <= Len(recent)
  BY <1>1, <1>2, WindowEdited DEF TextInv, TypeOK, ComposerType
<1>4. \E o \in Remains(op') \cup {op'} : doc' = DoEditSession(o)
  BY DEF EatenKey, Applied, SessionFailed, LetThrough
<1>5. PICK o \in Remains(op') \cup {op'} : doc' = DoEditSession(o)
  BY <1>4
<1>6. o \in EmitOp /\ (o.backspaces = 0 \/ o.backspaces = op'.backspaces)
  BY <1>3, <1>5, RemainsType
<1> DEFINE u    == Utf16(recent)
           n    == Len(doc) - o.backspaces
           left == SubSeq(doc, 1, n)
           ins  == Utf16(o.insert)
<1>7. u \in Seq(CodeUnits) /\ Len(recent) <= Len(u)
  BY <1>1, Utf16Type, Utf16Long
<1>8. /\ Len(u) \in Nat /\ Len(doc) \in Nat /\ Len(recent) \in Nat /\ o.backspaces \in Nat
      /\ Len(u) <= Len(doc) /\ \A i \in 1..Len(u) : u[i] = doc[Len(doc) - Len(u) + i]
  BY <1>1, <1>6, <1>7, LenProperties DEF IsTail, EmitOp, CellText
<1>9. n \in Nat /\ n <= Len(doc) /\ Len(doc) - Len(u) <= n
  BY <1>3, <1>6, <1>7, <1>8
<1>10. doc' = left \o ins /\ ins \in CellText
  <2>1. o.insert \in Seq(Code)
    BY <1>6 DEF EmitOp
  <2>2. Utf16(o.insert) \in Seq(CodeUnits)
    BY <2>1, Utf16Type
  <2>3. ins \in CellText
    BY <2>2, UnitsAreCells
  <2>4. doc' = left \o ins
    <3>1. (IF o.backspaces < Len(doc) THEN Len(doc) - o.backspaces ELSE 0) = n
      BY <1>8, <1>9
    <3> HIDE DEF n
    <3> QED BY <1>5, <3>1 DEF DoEditSession, Chop
  <2> QED BY <2>3, <2>4
<1> HIDE DEF u, n
<1>11. left \in CellText /\ Len(left) = n /\ \A i \in 1..n : left[i] = doc[i]
  BY <1>1, <1>9, PrefixType DEF CellText
<1> HIDE DEF left, ins
<1>12. /\ Len(ins) \in Nat /\ Len(doc') = n + Len(ins)
       /\ \A i \in 1..n : doc'[i] = doc[i]
  <2>1. Len(ins) \in Nat
    BY <1>10, LenProperties DEF CellText
  <2>2. /\ Len(left \o ins) = n + Len(ins)
        /\ \A i \in 1..(n + Len(ins)) : (left \o ins)[i] = IF i <= n THEN left[i] ELSE ins[i - n]
    <3>1. left \in Seq(Cells) /\ ins \in Seq(Cells) /\ Len(left) = n
      BY <1>10, <1>11 DEF CellText
    <3> QED BY <3>1, ConcatProperties
  <2>3. ASSUME NEW i \in 1..n PROVE doc'[i] = doc[i]
    <3>1. i \in 1..(n + Len(ins)) /\ i <= n
      BY <1>9, <2>1
    <3> QED BY <1>10, <1>11, <2>2, <3>1
  <2> QED BY <1>10, <2>1, <2>2, <2>3
<1> SUFFICES ASSUME NEW i \in DOMAIN doc, doc[i] = Foreign
             PROVE  ~ (i > Len(doc')) /\ doc'[i] = Foreign
  BY DEF LosesForeignText
<1>13. i \in 1..Len(doc)
  BY <1>1, LenProperties DEF CellText
<1>14. i \in 1..n
  <2> SUFFICES ASSUME ~ (i <= n) PROVE FALSE
    BY <1>9, <1>13
  <2> DEFINE j == i - (Len(doc) - Len(u))
  <2>1. j \in 1..Len(u) /\ Len(doc) - Len(u) + j = i
    BY <1>8, <1>9, <1>13
  <2> HIDE DEF j
  <2>2. u[j] \in CodeUnits
    BY <1>7, <2>1, ElementOfSeq
  <2>3. doc[i] = u[j]
    BY <1>8, <2>1
  <2> QED BY <2>2, <2>3, ControlAssumption, TextServiceAssumption DEF CodeUnits
<1> QED BY <1>9, <1>12, <1>14

-----------------------------------------------------------------------------
(* Pending modes.                                                          *)

\* A key that is handled with a mode pending is eaten, and every exit of
\* process does something about the mode.
LEMMA PendingAnswered ==
  ASSUME TextInv, NEW ev \in Events, Handled(ev), KeyDown(ev), pendingDead # NoDead \/ composing
  PROVE  Ends \/ Begins(resolve(L, InputOf(ev))) \/ Collects(resolve(L, InputOf(ev)))
<1> DEFINE in  == InputOf(ev)
           act == resolve(L, in)
<1>1. EatenKey(ev)
  BY DEF KeyDown, UneatenKey, Predicted
<1>2. process(in) /\ ~ Ignored(in) /\ ModesInv /\ ComposerType /\ InputType(in)
  BY <1>1, HandledNotIgnored, InputOfType DEF EatenKey, TextInv, TypeOK
<1>3. ModesInv' /\ L' = L
  <2>1. ModesInv' /\ layout' = layout
    BY <1>2, ProcessModes, ProcessWindow
  <2> QED BY <2>1 DEF L
<1>4. composing \in BOOLEAN /\ (composing => pendingDead = NoDead)
  BY <1>2 DEF ComposerType, ModesInv, ModesExclusive
<1> SUFFICES Ends \/ Begins(act) \/ Collects(act)
  OBVIOUS
<1> HIDE DEF in, act
<1>a. CASE ComposeBackspace(in)
  BY <1>a, <1>4 DEF ComposeBackspace, Ends, Collects
<1>b. CASE ComposeEscape(in)
  BY <1>b, <1>4 DEF ComposeEscape, Ends
<1>c. CASE ComposeKey(in)
  <2> DEFINE buf == composeBuf \o act.output
  <2>1. buf \in Seq(Code) /\ buf # <<>> /\ act.output # <<>>
    <3>1. layout \in DOMAIN Layouts
      BY <1>2 DEF Ignored, ComposerType
    <3>2. act.output \in Seq(Code) /\ act.output # <<>>
      BY <1>c, <1>2, <3>1, ResolveType, ComposerAssumption
        DEF InputType, KeyAction, ComposeKey, Contributes, act
    <3> QED BY <1>2, <3>2, ConcatProperties, ConcatEqualIffEmpty DEF ComposerType
  <2>2. composeLookup(L, buf) \in {"None", "Prefix", "Exact"}
    <3>1. layout \in DOMAIN Layouts
      BY <1>2 DEF Ignored, ComposerType
    <3> QED BY <2>1, <3>1, LookupAnswers
  <2>3. /\ composing /\ pendingDead' = pendingDead
        /\ composing' = FALSE \/ (composeBuf' = buf /\ composing' = composing)
    BY <1>c, <2>2 DEF ComposeKey, act
  <2>4. CASE composing' = FALSE
    BY <1>4, <2>3, <2>4 DEF Ends
  <2>5. CASE composeBuf' = buf /\ composing' = composing
    <3>1. composeBuf' \in L.composePrefix
      BY <1>3, <2>1, <2>5 DEF ModesInv, ComposeBufferLive
    <3> HIDE DEF buf
    <3>2. act.output # <<>> /\ composeBuf' = composeBuf \o act.output
      BY <2>1, <2>5 DEF buf
    <3> QED BY <1>4, <2>3, <2>5, <3>1, <3>2 DEF Collects
  <2> QED BY <2>3, <2>4, <2>5
<1>d. CASE Backspace(in)
  BY <1>d DEF Backspace, LeaveCompose, Ends
<1>e. CASE HardBoundary(in) \/ SpaceKey(in) \/ Unmapped(in) \/ EmitKey(in)
  BY <1>e DEF HardBoundary, SpaceKey, Unmapped, EmitKey, LeaveCompose, Ends
<1>f. CASE StartCompose(in)
  BY <1>f DEF StartCompose, LookedUp, Begins, act
<1>g. CASE DeadKeyPress(in)
  BY <1>g DEF DeadKeyPress, LookedUp, LeaveCompose, Begins, act
<1> QED
  BY <1>2, <1>a, <1>b, <1>c, <1>d, <1>e, <1>f, <1>g DEF process, Ignore, in, act

-----------------------------------------------------------------------------
(* The theorems.                                                           *)

\* The inductive invariant holds throughout.
THEOREM Invariance == Spec => []TextInv
<1> QED BY InitText, StepText, PTL DEF Spec

\* The members of the text service and of its composer keep their types, a
\* layout that is claimed is there, and the window keeps its cap.
THEOREM TypeCorrectness == Spec => []TypeOK
<1>1. TextInv => TypeOK
  BY DEF TextInv
<1> QED BY <1>1, Invariance, PTL

\* The window, encoded in UTF-16, is the tail of the control's text as long as
\* whole codepoints are taken back (EditSession.cpp:32-74): whatever the
\* layout, also over refused sessions and keys the composer never sees.
THEOREM WindowIsTail == Spec => []SyncedWindow
<1>1. TextInv => SyncedWindow
  BY DEF TextInv
<1> QED BY <1>1, Invariance, PTL

\* A pending dead key and a compose sequence never coexist here either.
THEOREM ModesNeverOverlap == Spec => []ModesExclusive
<1>1. TextInv => ModesExclusive
  BY DEF TextInv, ModesInv
<1> QED BY <1>1, Invariance, PTL

\* The compose buffer is a prefix of a sequence of the table here too, also
\* across the sessions that were refused.
THEOREM ComposeNeverStuck == Spec => []ComposeBufferLive
<1>1. TextInv => ComposeBufferLive
  BY DEF TextInv, ModesInv
<1> QED BY <1>1, Invariance, PTL

\* An edit session on a window that is in step with the text never costs the
\* user text the composer did not put there, one-unit codepoints or not.
THEOREM ForeignTextIsKept == Spec => TypingKeepsForeignText
<1>1. TextInv => (LosesForeignText =>
                    ~\E ev \in Events : synced /\ EatenKey(ev) /\ op'.suppress)
  BY SessionKeepsForeign
<1>2. TextInv => [LosesForeignText =>
                    ~\E ev \in Events : synced /\ EatenKey(ev) /\ op'.suppress]_vars
  BY <1>1
<1> QED BY <1>2, Invariance, PTL DEF TypingKeepsForeignText

\* No mode outlives the keys it was meant for (TextService.cpp:157-188 with
\* Composer.cpp:96-219): each key that is handled ends it, begins one of its
\* own or brings the compose sequence on, whatever the layout and the table.
THEOREM ModesAreAnswered == Spec => PendingIsAnswered
<1> DEFINE answered ==
      pendingDead # NoDead \/ composing =>
        Ends \/ \A ev \in Events :
          LET act == resolve(L, InputOf(ev))
          IN  Handled(ev) /\ KeyDown(ev) => Begins(act) \/ Collects(act)
<1>1. TextInv => answered
  BY PendingAnswered
<1>2. TextInv => [answered]_vars
  BY <1>1
<1> QED BY <1>2, Invariance, PTL DEF PendingIsAnswered
=============================================================================
