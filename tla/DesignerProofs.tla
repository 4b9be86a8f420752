--------------------------- MODULE DesignerProofs ---------------------------
(***************************************************************************)
(* What the designer keeps true, for every bound on its history, every     *)
(* layout that is opened, typed in or pasted together, every set of files  *)
(* and every number of writes and faults: first the document               *)
(* (LayoutDocument), then the window and its files over it (Designer), and *)
(* last what LayoutParser and LayoutSerializer keep of a document in a     *)
(* file (LayoutFile), for every document that can be written: every set of *)
(* nodes, every table of key names and every number of entries.            *)
(***************************************************************************)
EXTENDS Designer, LayoutFile, KeyboardLayoutProofs

-----------------------------------------------------------------------------
(* The document.                                                           *)

\* A stack is a sequence of whatever it holds.
Stack(s) == s \in Seq(Range(s))

StacksInv == Stack(undoStack) /\ Stack(redoStack)

\* The inductive invariant: the bounds need the stacks to be sequences, and a
\* clean document needs nothing else.
IInv == StacksInv /\ HistoryBounded /\ CleanMeansSaved

-----------------------------------------------------------------------------
LEMMA StackEmpty == Stack(<<>>) /\ Len(<<>>) = 0
BY EmptySeq DEF Stack

\* A sequence over any set is a stack.
LEMMA StackOf == ASSUME NEW S, NEW s \in Seq(S) PROVE Stack(s)
BY SeqOfRange DEF Stack

\* A stack after a push.
LEMMA StackPush ==
  ASSUME NEW s, NEW x, Stack(s)
  PROVE  /\ Stack(Append(s, x))
         /\ Len(s) \in Nat /\ Len(Append(s, x)) = Len(s) + 1
         /\ Append(s, x) # <<>>
         /\ \A i \in 1..Len(s) : Append(s, x)[i] = s[i]
         /\ Append(s, x)[Len(s) + 1] = x
<1> DEFINE S == Range(s) \cup {x}
<1>1. s \in Seq(S) /\ x \in S
  BY SeqMonotonic DEF Stack
<1> HIDE DEF S
<1>2. Append(s, x) \in Seq(S) /\ Len(s) \in Nat
  BY <1>1, AppendProperties, LenProperties
<1>3. Stack(Append(s, x))
  BY <1>2, StackOf
<1>4. /\ Append(s, x) # <<>> /\ Len(Append(s, x)) = Len(s) + 1
      /\ \A i \in 1..Len(s) : Append(s, x)[i] = s[i]
      /\ Append(s, x)[Len(s) + 1] = x
  BY <1>1, AppendProperties
<1> QED BY <1>2, <1>3, <1>4

\* A stack after a pop.
LEMMA StackPop ==
  ASSUME NEW s, Stack(s), s # <<>>
  PROVE  /\ Stack(Front(s))
         /\ Len(s) \in Nat /\ Len(s) >= 1 /\ Len(Front(s)) = Len(s) - 1
         /\ \A i \in 1..(Len(s) - 1) : Front(s)[i] = s[i]
<1>1. Len(s) \in Nat /\ Len(s) >= 1
  BY EmptySeq DEF Stack
<1>2. \A i \in 1..(Len(s) - 1) : s[i] \in Range(s)
  BY <1>1, ElementOfSeq DEF Stack
<1>3. /\ Front(s) \in Seq(Range(s))
      /\ Len(Front(s)) = IF 1 <= Len(s) - 1 THEN Len(s) - 1 - 1 + 1 ELSE 0
      /\ \A i \in 1..(Len(s) - 1 - 1 + 1) : Front(s)[i] = s[1 + i - 1]
  BY <1>1, <1>2, SubSeqProperties DEF Front
<1>4. Stack(Front(s))
  BY <1>3, StackOf
<1> DEFINE n == Len(s)
<1>5. n \in Nat /\ n >= 1 /\ Len(Front(s)) = IF 1 <= n - 1 THEN n - 1 - 1 + 1 ELSE 0
  BY <1>1, <1>3
<1>6. \A i \in 1..(n - 1 - 1 + 1) : Front(s)[i] = s[1 + i - 1]
  BY <1>3
<1> HIDE DEF n
<1>7. Len(Front(s)) = n - 1
  BY <1>5
<1>8. ASSUME NEW i \in 1..(n - 1) PROVE Front(s)[i] = s[i]
  <2>1. i \in 1..(n - 1 - 1 + 1) /\ 1 + i - 1 = i
    BY <1>5
  <2> QED BY <1>6, <2>1
<1> QED BY <1>1, <1>4, <1>7, <1>8 DEF n

\* A stack that forgets its oldest entry.
LEMMA StackForget ==
  ASSUME NEW s, Stack(s), s # <<>>
  PROVE  Stack(Tail(s)) /\ Len(s) \in Nat /\ Len(Tail(s)) = Len(s) - 1
BY HeadTailProperties, StackOf, LenProperties DEF Stack

-----------------------------------------------------------------------------
LEMMA InitInv == Init => IInv
BY DocumentAssumption, StackEmpty
   DEF Init, IInv, StacksInv, HistoryBounded, CleanMeansSaved

LEMMA ReplaceInv ==
  ASSUME NEW l, NEW d, Replace(l, d)
  PROVE  IInv'
BY DocumentAssumption, StackEmpty
   DEF Replace, IInv, StacksInv, HistoryBounded, CleanMeansSaved

LEMMA MutateInv ==
  ASSUME IInv, NEW l, Mutate(l)
  PROVE  IInv'
<1> DEFINE pushed == Append(undoStack, layout)
<1>1. /\ undoStack' = IF Len(pushed) > kMaxHistory THEN Tail(pushed) ELSE pushed
      /\ redoStack' = <<>> /\ dirty' = TRUE
  BY DEF Mutate, pushUndo
<1>2. Stack(pushed) /\ Len(pushed) = Len(undoStack) + 1 /\ Len(undoStack) \in Nat /\ pushed # <<>>
  BY StackPush DEF IInv, StacksInv
<1>3. Stack(Tail(pushed)) /\ Len(Tail(pushed)) = Len(undoStack)
  <2> HIDE DEF pushed
  <2>1. Stack(Tail(pushed)) /\ Len(Tail(pushed)) = Len(pushed) - 1
    BY <1>2, StackForget
  <2> DEFINE m == Len(pushed)  n == Len(undoStack)  k == Len(Tail(pushed))
  <2>2. m = n + 1 /\ n \in Nat /\ k = m - 1
    BY <1>2, <2>1
  <2> HIDE DEF m, n, k
  <2>3. k = n
    BY <2>2
  <2> QED BY <2>1, <2>3 DEF n, k
<1>4. Len(undoStack) <= kMaxHistory
  <2>1. Len(redoStack) \in Nat
    BY LenProperties DEF IInv, StacksInv, Stack
  <2> QED BY <1>2, <2>1, DocumentAssumption DEF IInv, HistoryBounded
<1> HIDE DEF pushed
<1>5. Stack(undoStack') /\ Len(undoStack') <= kMaxHistory /\ Len(undoStack') \in Nat
  <2>1. CASE Len(pushed) > kMaxHistory
    BY <1>1, <1>2, <1>3, <1>4, <2>1
  <2>2. CASE ~(Len(pushed) > kMaxHistory)
    BY <1>1, <1>2, <2>2, DocumentAssumption
  <2> QED BY <2>1, <2>2
<1> QED BY <1>1, <1>5, StackEmpty, DocumentAssumption
        DEF IInv, StacksInv, HistoryBounded, CleanMeansSaved

LEMMA UndoInv ==
  ASSUME IInv, undo
  PROVE  IInv'
<1>1. Stack(undoStack') /\ Len(undoStack') = Len(undoStack) - 1 /\ Len(undoStack) \in Nat
  BY StackPop DEF IInv, StacksInv, undo
<1>2. Stack(redoStack') /\ Len(redoStack') = Len(redoStack) + 1 /\ Len(redoStack) \in Nat
  BY StackPush DEF IInv, StacksInv, undo
<1> QED BY <1>1, <1>2, DocumentAssumption DEF IInv, StacksInv, HistoryBounded, CleanMeansSaved, undo

LEMMA RedoInv ==
  ASSUME IInv, redo
  PROVE  IInv'
<1>1. Stack(redoStack') /\ Len(redoStack') = Len(redoStack) - 1 /\ Len(redoStack) \in Nat
  BY StackPop DEF IInv, StacksInv, redo
<1>2. Stack(undoStack') /\ Len(undoStack') = Len(undoStack) + 1 /\ Len(undoStack) \in Nat
  BY StackPush DEF IInv, StacksInv, redo
<1> QED BY <1>1, <1>2, DocumentAssumption DEF IInv, StacksInv, HistoryBounded, CleanMeansSaved, redo

\* The actions that are neither edits nor moves of the cursor nor a new
\* document leave the versions alone.
LEMMA NextCases ==
  ASSUME Next
  PROVE  \/ \E l, d : Replace(l, d)
         \/ \E l : Mutate(l)
         \/ undo
         \/ redo
         \/ /\ UNCHANGED <<layout, undoStack, redoStack>>
            /\ \/ dirty' = FALSE /\ saved' = layout
               \/ UNCHANGED <<dirty, saved>>
<1>1. CASE newLayout
  BY <1>1 DEF newLayout
<1>2. CASE loadFromJson
  BY <1>2 DEF loadFromJson
<1>3. CASE markSaved
  BY <1>3 DEF markSaved
<1>4. CASE undo \/ redo
  BY <1>4
<1>5. ASSUME NEW vk \in KeyVks,
             \/ clearKey(vk) \/ copyKey(vk) \/ pasteKey(vk)
             \/ \E lvl \in Level, a \in KeyActions : setKeyAction(vk, lvl, a)
      PROVE  (\E l : Mutate(l)) \/ UNCHANGED <<layout, undoStack, redoStack, dirty, saved>>
  BY <1>5 DEF clearKey, copyKey, pasteKey, setKeyAction
<1>6. ASSUME \/ \E m \in Metas : setMeta(m)
             \/ \E m \in CapsModes : setCapsMode(m)
             \/ \E n \in Normalizes : setNormalize(n)
             \/ \E dk \in DeadKeyDefs : setDeadKey(dk.id, dk.def) \/ removeDeadKey(dk.id)
             \/ \E seqs \in ComposeLists : setComposeSequences(seqs)
             \/ \E ligs \in LigatureLists : setLigatures(ligs)
      PROVE  \E l : Mutate(l)
  BY <1>6 DEF setMeta, setCapsMode, setNormalize, setDeadKey, removeDeadKey, setComposeSequences, setLigatures
<1> QED BY <1>1, <1>2, <1>3, <1>4, <1>5, <1>6 DEF Next

LEMMA NextInv ==
  ASSUME IInv, [Next]_docVars
  PROVE  IInv'
<1>1. CASE UNCHANGED docVars
  BY <1>1 DEF docVars, IInv, StacksInv, HistoryBounded, CleanMeansSaved
<1>2. CASE /\ UNCHANGED <<layout, undoStack, redoStack>>
           /\ \/ dirty' = FALSE /\ saved' = layout
              \/ UNCHANGED <<dirty, saved>>
  BY <1>2 DEF IInv, StacksInv, HistoryBounded, CleanMeansSaved
<1> QED BY <1>1, <1>2, NextCases, ReplaceInv, MutateInv, UndoInv, RedoInv

THEOREM Invariance == Spec => []IInv
BY InitInv, NextInv, PTL DEF Spec

\* The history never outgrows its bound, however edits, undos and redos mix.
THEOREM HistoryIsBounded == Spec => []HistoryBounded
BY Invariance, PTL DEF IInv

\* A document that counts as clean is the one last opened or saved.
THEOREM CleanIsSaved == Spec => []CleanMeansSaved
BY Invariance, PTL DEF IInv
-----------------------------------------------------------------------------
(***************************************************************************)
(* The refinement: the line of EditHistory is the undo stack, the present  *)
(* layout and the redo stack read backwards, with the cursor on the        *)
(* present one.                                                            *)
(***************************************************************************)
Line(u, x, r) == u \o <<x>> \o Reverse(r)

LEMMA ReverseIsSeq ==
  ASSUME NEW S, NEW r \in Seq(S)
  PROVE  /\ Reverse(r) \in Seq(S) /\ Len(Reverse(r)) = Len(r)
         /\ \A i \in 1..Len(r) : Reverse(r)[i] = r[Len(r) - i + 1]
<1> DEFINE n == Len(r)
           rev == [i \in 1..n |-> r[(n - i) + 1]]
<1>1. n \in Nat /\ \A i \in 1..n : r[i] \in S
  BY LenProperties, ElementOfSeq
<1>2. rev = Reverse(r)
  BY DEF Reverse
<1>3. rev \in Seq(S) /\ Len(rev) = n
  <2> HIDE DEF n
  <2>1. \A i \in 1..n : (n - i) + 1 \in 1..n
    BY <1>1
  <2>2. rev \in [1..n -> S]
    BY <1>1, <2>1
  <2> QED BY <1>1, <2>2
<1> QED BY <1>2, <1>3

\* t is the line of u, x and r, said of its entries.
IsLine(t, u, x, r) ==
  /\ Len(u) \in Nat /\ Len(r) \in Nat
  /\ Len(t) = Len(u) + 1 + Len(r)
  /\ \A i \in 1..Len(u) : t[i] = u[i]
  /\ t[Len(u) + 1] = x
  /\ \A i \in (Len(u) + 2)..(Len(u) + 1 + Len(r)) : t[i] = r[Len(u) + Len(r) + 2 - i]

LEMMA LineShape ==
  ASSUME NEW S, NEW u \in Seq(S), NEW x \in S, NEW r \in Seq(S)
  PROVE  Line(u, x, r) \in Seq(S) /\ IsLine(Line(u, x, r), u, x, r)
<1> DEFINE a == u \o <<x>>  b == Reverse(r)  m == Len(u)  n == Len(r)
<1>1. m \in Nat /\ n \in Nat
  BY LenProperties
<1>2. <<x>> \in Seq(S) /\ Len(<<x>>) = 1 /\ <<x>>[1] = x
  OBVIOUS
<1>3. a \in Seq(S) /\ Len(a) = m + 1 /\ \A i \in 1..(m + 1) : a[i] = IF i <= m THEN u[i] ELSE <<x>>[i - m]
  BY <1>2, ConcatProperties
<1>4. b \in Seq(S) /\ Len(b) = n /\ \A i \in 1..n : b[i] = r[n - i + 1]
  BY ReverseIsSeq
<1> HIDE DEF a, b, m, n
<1>5. a \o b \in Seq(S) /\ Len(a \o b) = Len(a) + Len(b)
      /\ \A i \in 1..(Len(a) + Len(b)) : (a \o b)[i] = IF i <= Len(a) THEN a[i] ELSE b[i - Len(a)]
  BY <1>3, <1>4, ConcatProperties
<1>6. Line(u, x, r) = a \o b
  BY DEF Line, a, b
<1>7. ASSUME NEW i \in 1..m PROVE (a \o b)[i] = u[i]
  BY <1>1, <1>3, <1>4, <1>5
<1>8. (a \o b)[m + 1] = x
  BY <1>1, <1>2, <1>3, <1>4, <1>5
<1>9. ASSUME NEW i \in (m + 2)..(m + 1 + n) PROVE (a \o b)[i] = r[m + n + 2 - i]
  <2>1. i - (m + 1) \in 1..n /\ n - (i - (m + 1)) + 1 = m + n + 2 - i
    BY <1>1
  <2>2. (a \o b)[i] = b[i - (m + 1)]
    BY <1>1, <1>3, <1>4, <1>5
  <2>3. b[i - (m + 1)] = r[n - (i - (m + 1)) + 1]
    BY <1>4, <2>1
  <2> QED BY <2>1, <2>2, <2>3
<1> QED BY <1>1, <1>3, <1>4, <1>5, <1>6, <1>7, <1>8, <1>9 DEF m, n, IsLine

\* Undo, read forwards, and redo, read backwards, leave the line as it is.
LEMMA CursorStepKeepsLine ==
  ASSUME NEW S, NEW u \in Seq(S), NEW x \in S, NEW y \in S, NEW r \in Seq(S)
  PROVE  Line(Append(u, x), y, r) = Line(u, x, Append(r, y))
<1> DEFINE p == Append(u, x)  q == Append(r, y)  m == Len(u)  n == Len(r)
           s == Line(p, y, r)  t == Line(u, x, q)
<1>1. p \in Seq(S) /\ Len(p) = m + 1 /\ \A i \in 1..m : p[i] = u[i]
  BY AppendProperties
<1>2. q \in Seq(S) /\ Len(q) = n + 1 /\ \A i \in 1..n : q[i] = r[i]
  BY AppendProperties
<1>3. p[m + 1] = x /\ q[n + 1] = y
  BY AppendProperties
<1>4. m \in Nat /\ n \in Nat
  BY LenProperties
<1>5. s \in Seq(S) /\ IsLine(s, p, y, r)
  <2> HIDE DEF p, q
  <2> QED BY <1>1, LineShape
<1>6. t \in Seq(S) /\ IsLine(t, u, x, q)
  <2> HIDE DEF p, q
  <2> QED BY <1>2, LineShape
<1>7. /\ Len(s) = Len(p) + 1 + n
      /\ \A i \in 1..Len(p) : s[i] = p[i]
      /\ s[Len(p) + 1] = y
      /\ \A i \in (Len(p) + 2)..(Len(p) + 1 + n) : s[i] = r[Len(p) + n + 2 - i]
  <2> HIDE DEF p, s
  <2> QED BY <1>5 DEF IsLine
<1>8. /\ Len(t) = m + 1 + Len(q)
      /\ \A i \in 1..m : t[i] = u[i]
      /\ t[m + 1] = x
      /\ \A i \in (m + 2)..(m + 1 + Len(q)) : t[i] = q[m + Len(q) + 2 - i]
  <2> HIDE DEF q, t
  <2> QED BY <1>6 DEF IsLine
<1> HIDE DEF p, q, m, n, s, t
<1>9. Len(s) = m + n + 2 /\ Len(t) = m + n + 2
  BY <1>1, <1>2, <1>4, <1>7, <1>8
<1>10. ASSUME NEW i \in 1..(m + n + 2) PROVE s[i] = t[i]
  <2>1. CASE i <= m
    <3>1. i \in 1..m /\ i \in 1..Len(p)
      BY <1>1, <1>4, <2>1
    <3> QED BY <1>1, <1>7, <1>8, <3>1, Zenon
  <2>2. CASE i = m + 1
    <3>1. i \in 1..Len(p) /\ t[i] = x
      BY <1>1, <1>4, <1>8, <2>2
    <3>2. s[i] = p[i] /\ p[i] = x
      BY <1>3, <1>7, <2>2, <3>1, Zenon
    <3> QED BY <3>1, <3>2
  <2>3. CASE i = m + 2
    <3>1. s[i] = y
      BY <1>1, <1>4, <1>7, <2>3
    <3>2. t[i] = q[m + (n + 1) + 2 - i]
      BY <1>2, <1>4, <1>8, <2>3
    <3>3. m + (n + 1) + 2 - i = n + 1
      BY <1>4, <2>3
    <3> QED BY <1>3, <3>1, <3>2, <3>3
  <2>4. CASE i > m + 2
    <3>1. s[i] = r[(m + 1) + n + 2 - i]
      BY <1>1, <1>4, <1>7, <2>4
    <3>2. t[i] = q[m + (n + 1) + 2 - i]
      BY <1>2, <1>4, <1>8, <2>4
    <3>3. (m + 1) + n + 2 - i = m + (n + 1) + 2 - i /\ m + (n + 1) + 2 - i \in 1..n
      BY <1>4, <2>4
    <3> QED BY <1>2, <3>1, <3>2, <3>3
  <2> QED BY <1>4, <2>1, <2>2, <2>3, <2>4
<1>11. s = t
  BY <1>5, <1>6, <1>9, <1>10, SeqEqual
<1> QED BY <1>11 DEF s, t, p, q

\* A stack is its front with its last entry pushed.
LEMMA FrontLast ==
  ASSUME NEW s, Stack(s), s # <<>>
  PROVE  /\ Front(s) \in Seq(Range(s)) /\ Last(s) \in Range(s)
         /\ s = Append(Front(s), Last(s))
<1> DEFINE n == Len(s)  f == Front(s)  x == Last(s)
<1>1. n \in Nat /\ n >= 1 /\ Len(f) = n - 1 /\ \A i \in 1..(n - 1) : f[i] = s[i]
  BY StackPop
<1>2. \A i \in 1..n : s[i] \in Range(s)
  BY ElementOfSeq DEF Stack
<1>3. x \in Range(s) /\ x = s[n]
  BY <1>1, <1>2 DEF Last
<1>4. f \in Seq(Range(s))
  <2>1. \A i \in 1..(n - 1) : s[i] \in Range(s)
    BY <1>1, <1>2
  <2> QED BY <1>1, <2>1, SubSeqProperties DEF Front
<1> HIDE DEF f, x
<1>5. /\ Append(f, x) \in Seq(Range(s)) /\ Len(Append(f, x)) = Len(f) + 1
      /\ \A i \in 1..Len(f) : Append(f, x)[i] = f[i]
      /\ Append(f, x)[Len(f) + 1] = x
  BY <1>3, <1>4, AppendProperties
<1>6. Len(Append(f, x)) = n /\ \A i \in 1..n : Append(f, x)[i] = s[i]
  <2> HIDE DEF n
  <2>1. Len(Append(f, x)) = n
    BY <1>1, <1>5
  <2>2. ASSUME NEW i \in 1..n PROVE Append(f, x)[i] = s[i]
    <3>1. CASE i = n
      BY <1>1, <1>3, <1>5, <3>1
    <3>2. CASE i # n
      <4>1. i \in 1..(n - 1)
        BY <1>1, <3>2
      <4> QED BY <1>1, <1>5, <4>1
    <3> QED BY <3>1, <3>2
  <2> QED BY <2>1, <2>2
<1>7. Append(f, x) = s
  BY <1>5, <1>6, SeqEqual DEF Stack
<1> QED BY <1>3, <1>4, <1>7 DEF f, x

LEMMA UndoRefines ==
  ASSUME IInv, undo
  PROVE  History!Undo
<1> DEFINE f == Front(undoStack)  x == Last(undoStack)
           S == Range(undoStack) \cup Range(redoStack) \cup {layout}
<1>1. /\ undoStack = Append(f, x) /\ undoStack' = f /\ layout' = x
      /\ redoStack' = Append(redoStack, layout)
  BY FrontLast DEF IInv, StacksInv, undo
<1>2. f \in Seq(S) /\ x \in S /\ layout \in S /\ redoStack \in Seq(S)
  BY FrontLast, SeqMonotonic DEF IInv, StacksInv, undo, Stack
<1> HIDE DEF f, x, S
<1>3. Line(Append(f, x), layout, redoStack) = Line(f, x, Append(redoStack, layout))
  BY <1>2, CursorStepKeepsLine
<1>4. Len(f) \in Nat /\ Len(undoStack) = Len(f) + 1
  BY <1>1, <1>2, AppendProperties, LenProperties
<1>5. UNCHANGED Line(undoStack, layout, redoStack)
  <2>1. Line(undoStack, layout, redoStack) = Line(Append(f, x), layout, redoStack)
    BY <1>1
  <2>2. Line(undoStack, layout, redoStack)' = Line(f, x, Append(redoStack, layout))
    BY <1>1 DEF Line, Reverse
  <2> QED BY <1>3, <2>1, <2>2
<1>6. Len(undoStack) + 1 > 1 /\ (Len(undoStack) + 1)' = Len(undoStack) + 1 - 1
  <2> DEFINE n == Len(undoStack)  k == Len(f)
  <2>1. k \in Nat /\ n = k + 1
    BY <1>4
  <2>2. Len(undoStack)' = k
    BY <1>1
  <2> HIDE DEF n, k
  <2>3. n + 1 > 1 /\ k + 1 = n + 1 - 1
    BY <2>1
  <2> QED BY <2>2, <2>3 DEF n, k
<1> QED BY <1>5, <1>6 DEF History!Undo, Line

LEMMA RedoRefines ==
  ASSUME IInv, redo
  PROVE  History!Redo
<1> DEFINE f == Front(redoStack)  x == Last(redoStack)
           S == Range(undoStack) \cup Range(redoStack) \cup {layout}
<1>1. /\ redoStack = Append(f, x) /\ redoStack' = f /\ layout' = x
      /\ undoStack' = Append(undoStack, layout)
  BY FrontLast DEF IInv, StacksInv, redo
<1>2. f \in Seq(S) /\ x \in S /\ layout \in S /\ undoStack \in Seq(S) /\ redoStack \in Seq(S)
  BY FrontLast, SeqMonotonic DEF IInv, StacksInv, redo, Stack
<1> HIDE DEF f, x, S
<1>3. Line(Append(undoStack, layout), x, f) = Line(undoStack, layout, Append(f, x))
  BY <1>2, CursorStepKeepsLine
<1>4. /\ Len(f) \in Nat /\ Len(redoStack) = Len(f) + 1
      /\ Len(undoStack) \in Nat /\ Len(undoStack') = Len(undoStack) + 1
  BY <1>1, <1>2, AppendProperties, LenProperties
<1>5. UNCHANGED Line(undoStack, layout, redoStack)
  <2>1. Line(undoStack, layout, redoStack) = Line(undoStack, layout, Append(f, x))
    BY <1>1
  <2>2. Line(undoStack, layout, redoStack)' = Line(Append(undoStack, layout), x, f)
    BY <1>1 DEF Line, Reverse
  <2> QED BY <1>3, <2>1, <2>2
<1>6. Len(Line(undoStack, layout, redoStack)) = Len(undoStack) + 1 + Len(redoStack)
  BY <1>2, LineShape DEF IsLine
<1>7. /\ Len(undoStack) + 1 < Len(Line(undoStack, layout, redoStack))
      /\ (Len(undoStack) + 1)' = Len(undoStack) + 1 + 1
  <2> DEFINE n == Len(undoStack)  m == Len(redoStack)  k == Len(f)
             len == Len(Line(undoStack, layout, redoStack))
  <2>1. k \in Nat /\ m = k + 1 /\ n \in Nat /\ len = n + 1 + m
    BY <1>4, <1>6
  <2>2. Len(undoStack)' = n + 1
    BY <1>4
  <2> HIDE DEF n, m, k, len
  <2>3. n + 1 < len
    BY <2>1
  <2> QED BY <2>2, <2>3 DEF n, len
<1> QED BY <1>5, <1>7 DEF History!Redo, Line

LEMMA OpenRefines ==
  ASSUME NEW l, NEW d, Replace(l, d)
  PROVE  History!Open
<1> DEFINE line1 == Line(<<>>, l, <<>>)
<1>1. <<>> \in Seq({l}) /\ l \in {l} /\ Len(<<>>) = 0
  BY EmptySeq
<1>2. Len(line1) = Len(<<>>) + 1 + Len(<<>>)
  <2>1. IsLine(line1, <<>>, l, <<>>)
    BY <1>1, LineShape
  <2> HIDE DEF line1
  <2> QED BY <2>1 DEF IsLine
<1>3. (undoStack \o <<layout>> \o Reverse(redoStack))' = line1 /\ undoStack' = <<>>
  BY DEF Replace, Line
<1> QED BY <1>1, <1>2, <1>3 DEF History!Open

\* A line without redo is the undo stack with the present layout pushed.
LEMMA LineWithoutRedo ==
  ASSUME NEW S, NEW u \in Seq(S), NEW x \in S
  PROVE  Line(u, x, <<>>) = Append(u, x)
<1>1. <<>> \in Seq(S) /\ Len(<<>>) = 0
  BY EmptySeq
<1>2. Reverse(<<>>) \in Seq(S) /\ Len(Reverse(<<>>)) = 0
  BY <1>1, ReverseIsSeq
<1>3. Reverse(<<>>) = <<>>
  BY <1>1, <1>2, SeqEqual
<1>4. u \o <<x>> = Append(u, x) /\ Append(u, x) \in Seq(S)
  BY AppendIsConcat, AppendProperties
<1>5. Append(u, x) \o <<>> = Append(u, x)
  BY <1>4, ConcatEmptySeq
<1> QED BY <1>3, <1>4, <1>5 DEF Line

\* Up to the cursor, the line is the undo stack with the present layout pushed.
LEMMA LineToCursor ==
  ASSUME NEW S, NEW u \in Seq(S), NEW x \in S, NEW r \in Seq(S)
  PROVE  SubSeq(Line(u, x, r), 1, Len(u) + 1) = Append(u, x)
<1> DEFINE t == Line(u, x, r)  n == Len(u)  p == Append(u, x)
           k == n + 1  s == SubSeq(t, 1, k)
<1>1. t \in Seq(S) /\ IsLine(t, u, x, r)
  BY LineShape
<1>2. p \in Seq(S) /\ Len(p) = n + 1 /\ (\A i \in 1..n : p[i] = u[i]) /\ p[n + 1] = x
  BY AppendProperties
<1>3. n \in Nat /\ (\A i \in 1..n : t[i] = u[i]) /\ t[n + 1] = x
  <2> HIDE DEF t
  <2> QED BY <1>1 DEF IsLine
<1> HIDE DEF t, n, p
<1>4. \A i \in 1..(n + 1) : t[i] \in S /\ t[i] = p[i]
  <2> TAKE i \in 1..(n + 1)
  <2>1. CASE i = n + 1
    BY <1>2, <1>3, <2>1
  <2>2. CASE i # n + 1
    <3>1. i \in 1..n
      BY <1>3, <2>2
    <3>2. i \in 1..Len(u)
      BY <3>1 DEF n
    <3> QED BY <1>2, <1>3, <3>1, <3>2, ElementOfSeq
  <2> QED BY <2>1, <2>2
<1>5. k \in Int /\ 1 \in Int /\ k >= 1 /\ \A i \in 1..k : t[i] \in S
  BY <1>3, <1>4 DEF k
<1> HIDE DEF k
<1>6. s \in Seq(S) /\ Len(s) = k
  BY <1>5, SubSeqProperties
<1>7. ASSUME NEW i \in 1..k PROVE s[i] = p[i]
  <2>1. \A j \in 1..(k - 1 + 1) : s[j] = t[1 + j - 1]
    BY <1>5, SubSeqProperties
  <2>2. i \in 1..(k - 1 + 1) /\ 1 + i - 1 = i
    BY <1>5
  <2>3. s[i] = t[i]
    <3> HIDE DEF s
    <3> QED BY <2>1, <2>2
  <2> QED BY <1>4, <2>3 DEF k
<1> HIDE DEF s
<1>8. s = p
  BY <1>2, <1>6, <1>7, SeqEqual DEF k
<1> QED BY <1>8 DEF s, t, n, p, k

LEMMA MutateRefines ==
  ASSUME IInv, NEW l, Mutate(l)
  PROVE  History!Edit
<1> DEFINE S == Range(undoStack) \cup Range(redoStack) \cup {layout} \cup {l}
           pushed == Append(undoStack, layout)
           line == Line(undoStack, layout, redoStack)
           longer == Append(SubSeq(line, 1, Len(undoStack) + 1), line'[Len(line')])
           n == Len(undoStack)
           u == undoStack'
<1>1. undoStack \in Seq(S) /\ redoStack \in Seq(S) /\ layout \in S /\ l \in S
  BY SeqMonotonic DEF IInv, StacksInv, Stack
<1>2. u = (IF Len(pushed) > kMaxHistory THEN Tail(pushed) ELSE pushed) /\ redoStack' = <<>> /\ layout' = l
  BY DEF Mutate, pushUndo
<1> HIDE DEF S
<1>3. n \in Nat /\ pushed \in Seq(S) /\ pushed # <<>> /\ Len(pushed) = n + 1
  BY <1>1, AppendProperties, LenProperties
<1>4. Tail(pushed) \in Seq(S) /\ Tail(Append(pushed, l)) = Append(Tail(pushed), l)
  <2> HIDE DEF pushed
  <2> QED BY <1>3, HeadTailProperties, HeadTailAppend
<1>5. u \in Seq(S)
  <2> HIDE DEF pushed
  <2> QED BY <1>2, <1>3, <1>4
<1>6. line' = Append(u, l)
  <2>1. line' = Line(u, l, <<>>)
    BY <1>2 DEF Line
  <2> QED BY <1>1, <1>5, <2>1, LineWithoutRedo
<1>7. /\ Append(u, l) \in Seq(S) /\ Len(Append(u, l)) = Len(u) + 1
      /\ Append(u, l)[Len(u) + 1] = l
  BY <1>1, <1>5, AppendProperties
<1>8. SubSeq(line, 1, Len(undoStack) + 1) = pushed
  BY <1>1, LineToCursor
<1>9. line'[Len(line')] = l /\ Len(line') = Len(u) + 1
  BY <1>6, <1>7
<1>10. longer = Append(pushed, l)
  BY <1>8, <1>9
<1>11. line' = IF n + 1 > kMaxHistory THEN Tail(longer) ELSE longer
  <2> HIDE DEF longer, pushed, line, n
  <2>1. CASE n + 1 > kMaxHistory
    BY <1>2, <1>3, <1>4, <1>6, <1>10, <2>1
  <2>2. CASE ~(n + 1 > kMaxHistory)
    BY <1>2, <1>3, <1>6, <1>10, <2>2
  <2> QED BY <2>1, <2>2
<1>12. (Len(undoStack) + 1)' = Len(line')
  BY <1>9
<1> QED BY <1>11, <1>12 DEF History!Edit, Line

LEMMA InitRefines == Init => History!Init
<1> SUFFICES ASSUME Init PROVE History!Init
  OBVIOUS
<1>1. <<>> \in Seq({layout}) /\ layout \in {layout} /\ Len(<<>>) = 0
  BY EmptySeq
<1>2. Line(undoStack, layout, redoStack) = Append(<<>>, layout)
  BY <1>1, LineWithoutRedo DEF Init
<1>3. Len(Append(<<>>, layout)) = Len(<<>>) + 1
  BY <1>1, AppendProperties
<1> QED BY <1>1, <1>2, <1>3 DEF Init, History!Init, Line

LEMMA NextRefines == IInv /\ [Next]_docVars => [History!Next]_(History!vars)
<1> SUFFICES ASSUME IInv, [Next]_docVars PROVE [History!Next]_(History!vars)
  OBVIOUS
<1>1. CASE UNCHANGED <<layout, undoStack, redoStack>>
  BY <1>1 DEF History!vars
<1>2. CASE UNCHANGED docVars
  BY <1>1, <1>2 DEF docVars
<1>3. CASE \E l, d : Replace(l, d)
  BY <1>3, OpenRefines DEF History!Next
<1>4. CASE \E l : Mutate(l)
  BY <1>4, MutateRefines DEF History!Next
<1>5. CASE undo
  BY <1>5, UndoRefines DEF History!Next
<1>6. CASE redo
  BY <1>6, RedoRefines DEF History!Next
<1> QED BY <1>1, <1>2, <1>3, <1>4, <1>5, <1>6, NextCases

\* The two stacks implement one line of versions with a cursor: an edit after
\* an undo cuts what was undone, undo and redo lose and invent no version, and
\* only the bound forgets one, the oldest.
THEOREM UndoTimeline == Spec => UndoIsACursor
BY InitRefines, NextRefines, Invariance, PTL DEF Spec, UndoIsACursor, History!Spec
-----------------------------------------------------------------------------
(***************************************************************************)
(* The layouts themselves.  Every edit makes its layout from the present   *)
(* one and every other version is an earlier layout, so it is enough that  *)
(* an edit of a good layout is one.                                        *)
(***************************************************************************)

\* The parts of IsLayout, each over the members it is about.
KeysOK(keys) == \A vk \in DOMAIN keys : IsKey(keys[vk])
DeadKeysOK(deadKeys) ==
  \A id \in DOMAIN deadKeys :
    /\ deadKeys[id].standalone \in Seq(Nat)
    /\ \A cp \in DOMAIN deadKeys[id].compositions : deadKeys[id].compositions[cp] \in Seq(Nat)
LigaturesOK(ligs) ==
  ligs \in Seq([sequence : Seq(Nat), result : Seq(Nat)]) /\ SortedLongestFirst(ligs)
ComposeOK(exact, prefixes, maxLen) ==
  /\ maxLen \in Nat
  /\ \A k \in DOMAIN exact : exact[k] \in Seq(Nat)
  /\ \A p \in prefixes :
       /\ p \in Seq(Nat) /\ p # <<>>
       /\ Len(p) = 1 \/ SubSeq(p, 1, Len(p) - 1) \in prefixes

GoodLayout(l) ==
  /\ DOMAIN l = LayoutFields
  /\ l.capsMode \in CapsMode /\ l.normalize \in BOOLEAN
  /\ KeysOK(l.keys) /\ DeadKeysOK(l.deadKeys) /\ LigaturesOK(l.ligatures)
  /\ ComposeOK(l.composeExact, l.composePrefix, l.composeMaxLen)

\* The inductive invariant: the versions, and the key on the clipboard.
EditInv ==
  /\ StacksInv
  /\ \A l \in Versions : GoodLayout(l)
  /\ clip # NoClip => IsKey(clip)

LEMMA GoodIsLayout ==
  ASSUME NEW l, GoodLayout(l)
  PROVE  IsLayout(l, Nat, Seq(Nat), STRING)
BY DEF GoodLayout, IsLayout, KeysOK, IsKey, DeadKeysOK, LigaturesOK, ComposeOK

LEMMA OpenedIsGood ==
  ASSUME NEW l \in Opened
  PROVE  GoodLayout(l)
BY EditAssumption DEF GoodLayout, IsLayout, KeysOK, DeadKeysOK, LigaturesOK, ComposeOK

LEMMA EmptyIsGood == GoodLayout(EmptyLayout)
<1>1. DOMAIN EmptyLayout = LayoutFields
  BY DEF EmptyLayout, LayoutFields
<1>2. <<>> \in Seq([sequence : Seq(Nat), result : Seq(Nat)]) /\ DOMAIN <<>> = {}
  BY EmptySeq
<1>3. LigaturesOK(<<>>)
  BY <1>2 DEF LigaturesOK, SortedLongestFirst
<1> QED BY <1>1, <1>3 DEF EmptyLayout, GoodLayout, KeysOK, DeadKeysOK, ComposeOK, CapsMode

-----------------------------------------------------------------------------
(* What each edit makes of a good layout.                                  *)

LEMMA NoKeyIsKey == IsKey(NoKey)
<1>1. <<>> \in Seq(Nat)
  BY EmptySeq
<1>2. NoAction \in KeyAction(Seq(Nat), STRING)
  BY <1>1, EditAssumption DEF NoAction, KeyAction, ActionKind
<1> QED BY <1>2 DEF IsKey, NoKey

LEMMA SetKeyIsGood ==
  ASSUME NEW l, GoodLayout(l), NEW vk, NEW def, IsKey(def)
  PROVE  GoodLayout(setKey(l, vk, def))
<1> DEFINE keys == [k \in DOMAIN l.keys \cup {vk} |-> IF k = vk THEN def ELSE l.keys[k]]
<1>1. KeysOK(keys)
  BY DEF GoodLayout, KeysOK
<1>2. setKey(l, vk, def) = [l EXCEPT !.keys = keys]
  BY DEF setKey
<1> HIDE DEF keys
<1> QED BY <1>1, <1>2 DEF GoodLayout, LayoutFields

LEMMA RemoveKeyIsGood ==
  ASSUME NEW l, GoodLayout(l), NEW vk
  PROVE  GoodLayout(removeKey(l, vk))
<1> DEFINE keys == [k \in DOMAIN l.keys \ {vk} |-> l.keys[k]]
<1>1. KeysOK(keys)
  BY DEF GoodLayout, KeysOK
<1>2. removeKey(l, vk) = [l EXCEPT !.keys = keys]
  BY DEF removeKey
<1> HIDE DEF keys
<1> QED BY <1>1, <1>2 DEF GoodLayout, LayoutFields

\* The key one level of which is replaced.
Changed(l, vk, lvl, action) ==
  [cased |-> isLetter(vk), levels |-> [KeyOf(l, vk).levels EXCEPT ![lvl] = action]]

LEMMA ChangedIsKey ==
  ASSUME NEW l, GoodLayout(l), NEW vk, NEW lvl \in Level,
         NEW action \in KeyAction(Seq(Nat), STRING)
  PROVE  IsKey(Changed(l, vk, lvl, action))
<1>1. IsKey(KeyOf(l, vk))
  BY NoKeyIsKey DEF KeyOf, GoodLayout, KeysOK
<1>2. isLetter(vk) \in BOOLEAN
  BY DEF isLetter
<1>3. [KeyOf(l, vk).levels EXCEPT ![lvl] = action] \in [Level -> KeyAction(Seq(Nat), STRING)]
  BY <1>1 DEF IsKey
<1> QED BY <1>2, <1>3 DEF IsKey, Changed

LEMMA WithKeyActionIsGood ==
  ASSUME NEW l, GoodLayout(l), NEW vk, NEW lvl \in Level,
         NEW action \in KeyAction(Seq(Nat), STRING)
  PROVE  GoodLayout(withKeyAction(l, vk, lvl, action))
<1> DEFINE def == Changed(l, vk, lvl, action)
<1>1. withKeyAction(l, vk, lvl, action) = IF Mapped(def) THEN setKey(l, vk, def) ELSE removeKey(l, vk)
  BY DEF withKeyAction, Changed
<1>2. IsKey(def)
  BY ChangedIsKey
<1> HIDE DEF def
<1> QED BY <1>1, <1>2, SetKeyIsGood, RemoveKeyIsGood

LEMMA SmallEditsAreGood ==
  ASSUME NEW l, GoodLayout(l)
  PROVE  /\ \A m : GoodLayout([l EXCEPT !.meta = m])
         /\ \A m \in CapsMode : GoodLayout([l EXCEPT !.capsMode = m])
         /\ \A n \in BOOLEAN : GoodLayout([l EXCEPT !.normalize = n])
         /\ \A d : DeadKeysOK(d) => GoodLayout([l EXCEPT !.deadKeys = d])
         /\ \A ligs : LigaturesOK(ligs) => GoodLayout([l EXCEPT !.ligatures = ligs])
BY DEF GoodLayout, LayoutFields

LEMMA ComposesIsGood ==
  ASSUME NEW l, GoodLayout(l), NEW seqs \in Seq([keys : Seq(Nat), output : Seq(Nat)])
  PROVE  /\ GoodLayout(addComposes(clearCompose(l), seqs))
         /\ addComposes(clearCompose(l), seqs).keys = l.keys
<1> DEFINE bare == clearCompose(l)
           all  == addComposes(bare, seqs)
<1>1. /\ DOMAIN bare = DOMAIN l /\ NoSequences(bare)
      /\ \A field \in DOMAIN l \ IndexFields : bare[field] = l[field]
  <2>1. DOMAIN <<>> = {}
    OBVIOUS
  <2>2. DOMAIN bare = DOMAIN l
    BY DEF clearCompose
  <2>3. IndexFields \subseteq DOMAIN l
    BY DEF GoodLayout, LayoutFields, IndexFields
  <2>4. NoSequences(bare)
    BY <2>1, <2>3 DEF clearCompose, NoSequences, IndexFields
  <2>5. \A field \in DOMAIN l \ IndexFields : bare[field] = l[field]
    BY DEF clearCompose, IndexFields
  <2> QED BY <2>2, <2>4, <2>5
<1>2. IndexFields \subseteq DOMAIN bare
  BY <1>1 DEF IndexFields, GoodLayout, LayoutFields
<1>3. seqs \in Seq(Sequences(Nat, Seq(Nat)))
  BY DEF Sequences
<1> HIDE DEF bare
<1>4. /\ Indexed(all, Nat, Seq(Nat)) /\ DOMAIN all = DOMAIN bare
      /\ \A field \in DOMAIN bare \ IndexFields : all[field] = bare[field]
  BY <1>1, <1>2, <1>3, AddComposesIndexed
<1> HIDE DEF all
<1>5. ComposeOK(all.composeExact, all.composePrefix, all.composeMaxLen)
  BY <1>4, IndexedIsComposable DEF ComposeOK
<1>6. /\ all.capsMode = l.capsMode /\ all.normalize = l.normalize /\ all.keys = l.keys
      /\ all.deadKeys = l.deadKeys /\ all.ligatures = l.ligatures
  BY <1>1, <1>4 DEF GoodLayout, LayoutFields, IndexFields
<1>7. GoodLayout(all) /\ all.keys = l.keys
  BY <1>1, <1>4, <1>5, <1>6 DEF GoodLayout
<1> QED BY <1>7 DEF all, bare

-----------------------------------------------------------------------------
(* Where versions come from.                                               *)

LEMMA RangeOfStack ==
  ASSUME NEW s, Stack(s)
  PROVE  /\ Range(s) = {s[i] : i \in 1..Len(s)}
         /\ Len(s) \in Nat
BY LenProperties DEF Stack, Range

LEMMA PushedRange ==
  ASSUME NEW s, NEW x, Stack(s)
  PROVE  /\ Range(Append(s, x)) = Range(s) \cup {x}
         /\ Range(Tail(Append(s, x))) \subseteq Range(s) \cup {x}
<1> DEFINE p == Append(s, x)  n == Len(s)
<1>1. /\ Stack(p) /\ n \in Nat /\ Len(p) = n + 1 /\ p # <<>>
      /\ \A i \in 1..n : p[i] = s[i]
      /\ p[n + 1] = x
  BY StackPush
<1>2. Range(s) = {s[i] : i \in 1..n}
  BY RangeOfStack
<1> HIDE DEF p, n
<1>3. Range(p) = {p[i] : i \in 1..(n + 1)}
  BY <1>1, RangeOfStack
<1>4. Range(p) = Range(s) \cup {x}
  <2>1. 1..(n + 1) = 1..n \cup {n + 1}
    BY <1>1
  <2> QED BY <1>1, <1>2, <1>3, <2>1
<1>5. Tail(p) \in Seq(Range(p))
  BY <1>1, HeadTailProperties DEF Stack
<1>6. Range(Tail(p)) \subseteq Range(p)
  BY <1>5, LenProperties, ElementOfSeq DEF Range
<1> QED BY <1>4, <1>6 DEF p

LEMMA PoppedRange ==
  ASSUME NEW s, Stack(s), s # <<>>
  PROVE  Range(Front(s)) \subseteq Range(s) /\ Last(s) \in Range(s)
<1>1. Front(s) \in Seq(Range(s)) /\ Last(s) \in Range(s)
  BY FrontLast
<1> QED BY <1>1, LenProperties, ElementOfSeq DEF Range

\* A step adds no version but the one it shows.
LEMMA NoOtherVersion ==
  ASSUME StacksInv, [Next]_docVars
  PROVE  Versions' \subseteq Versions \cup {layout'}
<1>0. Range(<<>>) = {}
  BY DEF Range
<1>1. CASE UNCHANGED <<layout, undoStack, redoStack>>
  BY <1>1 DEF Versions
<1>2. CASE UNCHANGED docVars
  BY <1>1, <1>2 DEF docVars
<1>3. CASE \E l, d : Replace(l, d)
  BY <1>0, <1>3 DEF Replace, Versions
<1>4. ASSUME NEW l, Mutate(l) PROVE Versions' \subseteq Versions \cup {layout'}
  <2> DEFINE pushed == Append(undoStack, layout)
  <2>1. undoStack' \in {pushed, Tail(pushed)} /\ redoStack' = <<>>
    BY <1>4 DEF Mutate, pushUndo
  <2>2. Range(pushed) = Range(undoStack) \cup {layout} /\ Range(Tail(pushed)) \subseteq Range(undoStack) \cup {layout}
    BY PushedRange DEF StacksInv
  <2> HIDE DEF pushed
  <2>3. Range(undoStack') \subseteq Range(undoStack) \cup {layout}
    BY <2>1, <2>2
  <2> QED BY <1>0, <2>1, <2>3 DEF Versions
<1>5. CASE undo
  <2>1. Range(undoStack') \subseteq Range(undoStack)
    BY <1>5, PoppedRange DEF undo, StacksInv
  <2>2. Range(redoStack') = Range(redoStack) \cup {layout}
    BY <1>5, PushedRange DEF undo, StacksInv
  <2> QED BY <2>1, <2>2 DEF Versions
<1>6. CASE redo
  <2>1. Range(redoStack') \subseteq Range(redoStack)
    BY <1>6, PoppedRange DEF redo, StacksInv
  <2>2. Range(undoStack') = Range(undoStack) \cup {layout}
    BY <1>6, PushedRange DEF redo, StacksInv
  <2> QED BY <2>1, <2>2 DEF Versions
<1> QED BY <1>1, <1>2, <1>3, <1>4, <1>5, <1>6, NextCases

LEMMA UndoneIsVersion ==
  ASSUME StacksInv, undo \/ redo
  PROVE  layout' \in Versions
BY PoppedRange DEF StacksInv, undo, redo, Versions

\* The layouts edits make of the present one.
KeyEdit(l)   == \E vk \in KeyVks : \/ l = removeKey(layout, vk)
                                   \/ clip # NoClip /\ l = setKey(layout, vk, clip)
                                   \/ \E lvl \in Level, a \in KeyActions : l = withKeyAction(layout, vk, lvl, a)
SmallEdit(l) == \/ \E m : l = [layout EXCEPT !.meta = m]
                \/ \E m \in CapsModes : l = [layout EXCEPT !.capsMode = m]
                \/ \E n \in Normalizes : l = [layout EXCEPT !.normalize = n]
                \/ \E d : (DeadKeysOK(layout.deadKeys) => DeadKeysOK(d)) /\ l = [layout EXCEPT !.deadKeys = d]
                \/ \E ligs : LigaturesOK(ligs) /\ l = [layout EXCEPT !.ligatures = ligs]
                \/ \E seqs \in ComposeLists : l = addComposes(clearCompose(layout), seqs)

LEMMA DeadKeyEdits ==
  ASSUME NEW dk \in DeadKeyDefs, setDeadKey(dk.id, dk.def) \/ removeDeadKey(dk.id)
  PROVE  SmallEdit(layout') /\ UNCHANGED clip
<1>1. CASE setDeadKey(dk.id, dk.def)
  <2> DEFINE d == [k \in DOMAIN layout.deadKeys \cup {dk.id} |->
                     IF k = dk.id THEN dk.def ELSE layout.deadKeys[k]]
  <2>1. layout' = [layout EXCEPT !.deadKeys = d] /\ UNCHANGED clip
    BY <1>1 DEF setDeadKey, Mutate
  <2>2. DeadKeysOK(layout.deadKeys) => DeadKeysOK(d)
    BY EditAssumption DEF DeadKeysOK
  <2> HIDE DEF d
  <2> QED BY <2>1, <2>2 DEF SmallEdit
<1>2. CASE removeDeadKey(dk.id)
  <2> DEFINE d == [k \in DOMAIN layout.deadKeys \ {dk.id} |-> layout.deadKeys[k]]
  <2>1. layout' = [layout EXCEPT !.deadKeys = d] /\ UNCHANGED clip
    BY <1>2 DEF removeDeadKey, Mutate
  <2>2. DeadKeysOK(layout.deadKeys) => DeadKeysOK(d)
    BY DEF DeadKeysOK
  <2> HIDE DEF d
  <2> QED BY <2>1, <2>2 DEF SmallEdit
<1> QED BY <1>1, <1>2

LEMMA LigatureEdits ==
  ASSUME NEW ligs \in LigatureLists, setLigatures(ligs)
  PROVE  SmallEdit(layout') /\ UNCHANGED clip
<1>1. PICK sorted \in Orders(ligs) : SortedLongestFirst(sorted) /\ Mutate([layout EXCEPT !.ligatures = sorted])
  BY DEF setLigatures
<1>2. ligs \in Seq([sequence : Seq(Nat), result : Seq(Nat)])
  BY EditAssumption
<1>3. sorted \in Seq([sequence : Seq(Nat), result : Seq(Nat)])
  BY <1>2, OrdersEntries
<1> QED BY <1>1, <1>3 DEF SmallEdit, LigaturesOK, Mutate

LEMMA EditCases ==
  ASSUME Next
  PROVE  \/ newLayout
         \/ loadFromJson
         \/ (undo \/ redo) /\ UNCHANGED clip
         \/ UNCHANGED layout /\ (UNCHANGED clip \/ clip' = NoClip \/ \E vk \in DOMAIN layout.keys : clip' = layout.keys[vk])
         \/ (KeyEdit(layout') \/ SmallEdit(layout')) /\ UNCHANGED clip
<1>1. ASSUME markSaved \/ \E vk \in KeyVks : copyKey(vk)
      PROVE  /\ UNCHANGED layout
             /\ UNCHANGED clip \/ clip' = NoClip \/ \E vk \in DOMAIN layout.keys : clip' = layout.keys[vk]
  BY <1>1 DEF markSaved, copyKey
<1>2. ASSUME \E vk \in KeyVks : \/ clearKey(vk) \/ pasteKey(vk)
                                \/ \E lvl \in Level, a \in KeyActions : setKeyAction(vk, lvl, a)
      PROVE  KeyEdit(layout') /\ UNCHANGED clip
  BY <1>2 DEF clearKey, pasteKey, setKeyAction, Mutate, KeyEdit
<1>3. ASSUME \/ \E m \in Metas : setMeta(m)
             \/ \E m \in CapsModes : setCapsMode(m)
             \/ \E n \in Normalizes : setNormalize(n)
             \/ \E seqs \in ComposeLists : setComposeSequences(seqs)
      PROVE  SmallEdit(layout') /\ UNCHANGED clip
  BY <1>3 DEF setMeta, setCapsMode, setNormalize, setComposeSequences, Mutate, SmallEdit
<1>4. (undo \/ redo) => UNCHANGED clip
  BY DEF undo, redo
<1> QED BY <1>1, <1>2, <1>3, <1>4, DeadKeyEdits, LigatureEdits DEF Next

LEMMA EditIsGood ==
  ASSUME EditInv, KeyEdit(layout') \/ SmallEdit(layout')
  PROVE  GoodLayout(layout')
<1>1. GoodLayout(layout)
  BY DEF EditInv, Versions
<1>2. CASE KeyEdit(layout')
  <2>1. CASE \E vk \in KeyVks : layout' = removeKey(layout, vk)
    BY <1>1, <2>1, RemoveKeyIsGood
  <2>2. CASE clip # NoClip /\ \E vk \in KeyVks : layout' = setKey(layout, vk, clip)
    BY <1>1, <2>2, SetKeyIsGood DEF EditInv
  <2>3. ASSUME NEW vk \in KeyVks, NEW lvl \in Level, NEW a \in KeyActions,
               layout' = withKeyAction(layout, vk, lvl, a)
        PROVE  GoodLayout(layout')
    BY <1>1, <2>3, WithKeyActionIsGood, EditAssumption
  <2> QED BY <1>2, <2>1, <2>2, <2>3 DEF KeyEdit
<1>3. CASE SmallEdit(layout')
  <2>1. CASE \E seqs \in ComposeLists : layout' = addComposes(clearCompose(layout), seqs)
    BY <1>1, <2>1, ComposesIsGood, EditAssumption
  <2>2. DeadKeysOK(layout.deadKeys) /\ CapsModes \subseteq CapsMode /\ Normalizes \subseteq BOOLEAN
    BY <1>1, EditAssumption DEF GoodLayout
  <2> QED BY <1>1, <1>3, <2>1, <2>2, SmallEditsAreGood DEF SmallEdit
<1> QED BY <1>2, <1>3

LEMMA EditInitInv == Init => EditInv
<1> SUFFICES ASSUME Init PROVE EditInv
  OBVIOUS
<1>1. Range(<<>>) = {}
  BY DEF Range
<1> QED BY <1>1, StackEmpty, EmptyIsGood DEF Init, EditInv, StacksInv, Versions

LEMMA EditNextInv ==
  ASSUME IInv, EditInv, [Next]_docVars
  PROVE  EditInv'
<1>1. StacksInv'
  BY NextInv DEF IInv
<1>2. Versions' \subseteq Versions \cup {layout'}
  BY NoOtherVersion DEF IInv
<1>3. GoodLayout(layout) /\ \A vk \in DOMAIN layout.keys : IsKey(layout.keys[vk])
  BY DEF EditInv, Versions, GoodLayout, KeysOK
<1>4. GoodLayout(layout') /\ (clip' # NoClip => IsKey(clip'))
  <2>1. CASE UNCHANGED docVars
    BY <1>3, <2>1 DEF docVars, EditInv
  <2>2. CASE newLayout
    BY <2>2, EmptyIsGood DEF newLayout, Replace
  <2>3. CASE loadFromJson
    BY <2>3, OpenedIsGood DEF loadFromJson, Replace
  <2>4. CASE (undo \/ redo) /\ UNCHANGED clip
    BY <2>4, UndoneIsVersion DEF EditInv
  <2>5. CASE UNCHANGED layout /\ (UNCHANGED clip \/ clip' = NoClip \/ \E vk \in DOMAIN layout.keys : clip' = layout.keys[vk])
    BY <1>3, <2>5 DEF EditInv
  <2>6. CASE (KeyEdit(layout') \/ SmallEdit(layout')) /\ UNCHANGED clip
    BY <2>6, EditIsGood DEF EditInv
  <2> QED BY <2>1, <2>2, <2>3, <2>4, <2>5, <2>6, EditCases
<1> QED BY <1>1, <1>2, <1>4 DEF EditInv

\* Whatever is edited, undone, redone or opened, every version is a layout the
\* Composer can work on: its ligatures are longest first and its compose
\* indexes agree with its list, for every argument an edit may be given.
THEOREM EditedLayoutsAreWellFormed == Spec => []EditedLayoutsWellFormed
<1>1. EditInv => EditedLayoutsWellFormed
  BY GoodIsLayout DEF EditInv, EditedLayoutsWellFormed
<1> QED BY <1>1, Invariance, EditInitInv, EditNextInv, PTL DEF Spec

-----------------------------------------------------------------------------
(* Keys without any action.                                                *)

AllKeysMapped(keys) == \A vk \in DOMAIN keys : Mapped(keys[vk])

LEMMA EditMapsItsKeys ==
  ASSUME EditInv, AllMapped, KeyEdit(layout') \/ SmallEdit(layout')
  PROVE  AllKeysMapped(layout'.keys)
<1>1. GoodLayout(layout) /\ AllKeysMapped(layout.keys) /\ "keys" \in DOMAIN layout
  BY DEF EditInv, Versions, AllMapped, AllKeysMapped, GoodLayout, LayoutFields
<1>2. ASSUME NEW vk PROVE AllKeysMapped(removeKey(layout, vk).keys)
  BY <1>1 DEF AllKeysMapped, removeKey
<1>3. ASSUME NEW vk, NEW def, Mapped(def) PROVE AllKeysMapped(setKey(layout, vk, def).keys)
  <2> DEFINE keys == [k \in DOMAIN layout.keys \cup {vk} |-> IF k = vk THEN def ELSE layout.keys[k]]
  <2>1. AllKeysMapped(keys)
    <3> SUFFICES ASSUME NEW k \in DOMAIN keys PROVE Mapped(keys[k])
      BY DEF AllKeysMapped
    <3>1. CASE k = vk
      BY <1>3, <3>1
    <3>2. CASE k # vk
      BY <1>1, <3>2 DEF AllKeysMapped
    <3> QED BY <3>1, <3>2
  <2>2. setKey(layout, vk, def).keys = keys
    BY <1>1 DEF setKey
  <2> QED BY <2>1, <2>2, Zenon
<1>4. CASE KeyEdit(layout')
  <2>1. CASE \E vk \in KeyVks : layout' = removeKey(layout, vk)
    BY <1>2, <2>1
  <2>2. CASE clip # NoClip /\ \E vk \in KeyVks : layout' = setKey(layout, vk, clip)
    BY <1>3, <2>2 DEF AllMapped
  <2>3. ASSUME NEW vk \in KeyVks, NEW lvl \in Level, NEW a \in KeyActions,
               layout' = withKeyAction(layout, vk, lvl, a)
        PROVE  AllKeysMapped(layout'.keys)
    <3> DEFINE def == Changed(layout, vk, lvl, a)
    <3>1. layout' = IF Mapped(def) THEN setKey(layout, vk, def) ELSE removeKey(layout, vk)
      BY <2>3 DEF withKeyAction, Changed
    <3> HIDE DEF def
    <3> QED BY <1>2, <1>3, <3>1
  <2> QED BY <1>4, <2>1, <2>2, <2>3 DEF KeyEdit
<1>5. CASE SmallEdit(layout')
  <2>1. layout'.keys = layout.keys
    <3>1. CASE \E seqs \in ComposeLists : layout' = addComposes(clearCompose(layout), seqs)
      BY <1>1, <3>1, ComposesIsGood, EditAssumption
    <3>2. ASSUME NEW v, layout' = [layout EXCEPT !.meta = v] PROVE layout'.keys = layout.keys
      BY <1>1, <3>2
    <3>3. ASSUME NEW v, layout' = [layout EXCEPT !.capsMode = v] PROVE layout'.keys = layout.keys
      BY <1>1, <3>3
    <3>4. ASSUME NEW v, layout' = [layout EXCEPT !.normalize = v] PROVE layout'.keys = layout.keys
      BY <1>1, <3>4
    <3>5. ASSUME NEW v, layout' = [layout EXCEPT !.deadKeys = v] PROVE layout'.keys = layout.keys
      BY <1>1, <3>5
    <3>6. ASSUME NEW v, layout' = [layout EXCEPT !.ligatures = v] PROVE layout'.keys = layout.keys
      BY <1>1, <3>6
    <3> QED BY <1>5, <3>1, <3>2, <3>3, <3>4, <3>5, <3>6, Zenon DEF SmallEdit
  <2> QED BY <1>1, <2>1
<1> QED BY <1>4, <1>5

LEMMA StepMapsItsKeys ==
  ASSUME IInv, EditInv, Next, AllMapped, ~loadFromJson
  PROVE  AllMapped'
<1>1. Versions' \subseteq Versions \cup {layout'}
  BY NoOtherVersion DEF IInv
<1>2. \A l \in Versions : AllKeysMapped(l.keys)
  BY DEF AllMapped, AllKeysMapped
<1>3. layout \in Versions
  BY DEF Versions
<1>4. AllKeysMapped(layout'.keys) /\ (clip' # NoClip => Mapped(clip'))
  <2>1. CASE newLayout
    BY <2>1 DEF newLayout, Replace, EmptyLayout, AllKeysMapped
  <2>2. CASE (undo \/ redo) /\ UNCHANGED clip
    BY <1>2, <2>2, UndoneIsVersion DEF EditInv, AllMapped
  <2>3. CASE UNCHANGED layout /\ (UNCHANGED clip \/ clip' = NoClip \/ \E vk \in DOMAIN layout.keys : clip' = layout.keys[vk])
    BY <1>2, <1>3, <2>3 DEF AllMapped, AllKeysMapped
  <2>4. CASE (KeyEdit(layout') \/ SmallEdit(layout')) /\ UNCHANGED clip
    BY <2>4, EditMapsItsKeys DEF AllMapped
  <2> QED BY <2>1, <2>2, <2>3, <2>4, EditCases
<1> QED BY <1>1, <1>2, <1>4 DEF AllMapped, AllKeysMapped

\* Only a file brings a key without any action into the document: edits drop
\* the key whose last action they take, and paste, undo and redo bring back
\* nothing but what was there.
THEOREM OnlyFilesBringEmptyKeys == Spec => EditsLeaveNoEmptyKey
<1>1. IInv /\ EditInv /\ [Next]_docVars => [AllMapped /\ ~loadFromJson => AllMapped']_docVars
  BY StepMapsItsKeys
<1> QED BY <1>1, Invariance, EditInitInv, EditNextInv, PTL DEF Spec, EditsLeaveNoEmptyKey
-----------------------------------------------------------------------------
(* The window.                                                             *)

Stages == {"backup", "copying", "open", "write"}

\* The shape of the state that the invariants below rest on.
Shape ==
  /\ filePath \in Paths \cup {NoPath}
  /\ DOMAIN files = Paths /\ DOMAIN backups = Paths /\ DOMAIN worth = Paths
  /\ faults \in Nat
  /\ \/ writing = Idle
     \/ \E op \in {"save", "export"}, p \in Paths, at \in Stages : writing = Write(op, p, at)
  /\ writing.op = "save" => writing.path = filePath

\* A write is under way on p.
Busy(p) == writing # Idle /\ writing.path = p

\* Without a fault a file holds its last complete text until it is truncated,
\* and from the end of the copy on the .bak does.
NoFaultYet ==
  faults = 0 =>
    \A p \in Paths :
      /\ Busy(p) /\ writing.at \in {"open", "write"} => worth[p] \in {NoFile, backups[p]}
      /\ ~(Busy(p) /\ writing.at = "write") => files[p] = worth[p]

\* With one fault at most, nothing is lost but what a write under way may
\* still replace; that write ends well or with another fault.
OneFault ==
  faults <= 1 =>
    \A p \in Paths : ~Busy(p) => worth[p] = NoFile \/ worth[p] \in {files[p], backups[p]}

\* CleanMeansOnDisk, also during a write, until it truncates that file.
CleanInv ==
  ~(Busy(filePath) /\ writing.at = "write") /\ ~dirty /\ filePath # NoPath /\ ~astray /\ Rereadable(layout) =>
    ReadBack(files[filePath]) = {layout}

DesignerInv == Shape /\ NoFaultYet /\ OneFault /\ CleanInv /\ PreviewIsCurrent

-----------------------------------------------------------------------------
LEMMA IdleShape == Idle.op = "none" /\ Idle.path = NoPath /\ Idle.at = "none"
BY DEF Idle, Write

LEMMA WriteShape ==
  ASSUME NEW op, NEW p, NEW at
  PROVE  Write(op, p, at).op = op /\ Write(op, p, at).path = p /\ Write(op, p, at).at = at
BY DEF Write

LEMMA DesignerInitInv == DesignerInit => DesignerInv
<1> SUFFICES ASSUME DesignerInit PROVE DesignerInv
  OBVIOUS
<1>1. Shape
  BY IdleShape DEF DesignerInit, Shape
<1>2. NoFaultYet /\ OneFault
  BY DEF DesignerInit, NoFaultYet, OneFault, Busy
<1>3. CleanInv /\ PreviewIsCurrent
  BY DEF DesignerInit, CleanInv, PreviewIsCurrent
<1> QED BY <1>1, <1>2, <1>3 DEF DesignerInv

\* The files and what is said of them do not change.
SameDisk == UNCHANGED diskVars

LEMMA SameDiskKeeps ==
  ASSUME DesignerInv, SameDisk, filePath' \in Paths \cup {NoPath}, writing = Idle
  PROVE  Shape' /\ NoFaultYet' /\ OneFault'
<1>1. Shape'
  BY IdleShape DEF DesignerInv, Shape, SameDisk, diskVars
<1>2. NoFaultYet' /\ OneFault'
  BY DEF DesignerInv, NoFaultYet, OneFault, Busy, SameDisk, diskVars
<1> QED BY <1>1, <1>2

\* A document that is dirty, untitled or astray claims nothing of a file.
LEMMA NoClaim ==
  ASSUME dirty' = TRUE \/ filePath' = NoPath \/ astray' = TRUE
  PROVE  CleanInv'
BY DEF CleanInv

\* What a file reads as is one layout at most.
LEMMA ReadBackUnique ==
  ASSUME NEW c, NEW l \in ReadBack(c)
  PROVE  ReadBack(c) = {l}
BY DEF ReadBack

\* The text a save writes reads as the document, where the format allows it.
LEMMA WrittenReadsBack ==
  ASSUME NEW l, Rereadable(l)
  PROVE  ReadBack(By("designer", l)) = {l}
BY DEF ReadBack, By, IsText, Rereadable

-----------------------------------------------------------------------------
(* The steps.                                                              *)

\* A new document, an opened file, and edits: the disk is as it was.
LEMMA DocumentSteps ==
  ASSUME DesignerInv,
         \/ DoNew \/ Undo \/ Redo \/ Paste \/ DoDuplicate
         \/ \E entries \in DialogEntries : DoEditSelectedKey(entries)
  PROVE  DesignerInv'
<1>1. writing = Idle /\ SameDisk /\ (dirty' = TRUE \/ filePath' = NoPath)
  BY DEF DoNew, newLayout, Replace, Undo, undo, Redo, redo, Paste, pasteKey, DoDuplicate, setMeta,
         DoEditSelectedKey, Mutate, pushUndo, Shown, SameDisk
<1>2. filePath' \in Paths \cup {NoPath}
  BY DEF DoNew, Undo, Redo, Paste, DoDuplicate, DoEditSelectedKey, Shown, DesignerInv, Shape
<1>3. PreviewIsCurrent'
  <2>1. CASE preview' = NoTyping
    BY <2>1 DEF PreviewIsCurrent
  <2>2. CASE DoDuplicate
    BY <2>2 DEF DoDuplicate, setMeta, Mutate, DesignerInv, PreviewIsCurrent
  <2> QED BY <2>1, <2>2 DEF DoNew, Undo, Redo, Paste, DoEditSelectedKey, Shown
<1> QED BY <1>1, <1>2, <1>3, SameDiskKeeps, NoClaim DEF DesignerInv

\* A copied key, a click, a character in the preview and the metadata dialog.
LEMMA SmallSteps ==
  ASSUME DesignerInv,
         \/ Copy \/ FeedPreviewChar
         \/ \E vk \in KeyVks \cup {0} : Select(vk)
         \/ \E m \in Metas : DoMetadata(m)
  PROVE  DesignerInv'
<1>1. writing = Idle /\ SameDisk /\ UNCHANGED <<filePath, astray>>
  BY DEF Copy, FeedPreviewChar, Select, DoMetadata, SameDisk
<1>2. dirty' = TRUE \/ UNCHANGED <<dirty, layout>>
  BY DEF Copy, copyKey, FeedPreviewChar, Select, DoMetadata, setMeta, Mutate, pushUndo, docVars
<1>3. CleanInv'
  <2>1. CASE dirty' = TRUE
    BY <2>1, NoClaim
  <2>2. CASE UNCHANGED <<dirty, layout>>
    BY <1>1, <2>2 DEF DesignerInv, CleanInv, Busy, SameDisk, diskVars
  <2> QED BY <1>2, <2>1, <2>2
<1>4. PreviewIsCurrent'
  <2>1. CASE FeedPreviewChar
    BY <2>1 DEF FeedPreviewChar, PreviewIsCurrent, docVars
  <2>2. CASE \E m \in Metas : DoMetadata(m)
    BY <2>2 DEF DoMetadata, setMeta, Mutate, DesignerInv, PreviewIsCurrent
  <2>3. CASE Copy \/ \E vk \in KeyVks \cup {0} : Select(vk)
    BY <2>3 DEF Copy, copyKey, Select, docVars, DesignerInv, PreviewIsCurrent
  <2> QED BY <2>1, <2>2, <2>3
<1>5. filePath' \in Paths \cup {NoPath}
  BY <1>1 DEF DesignerInv, Shape
<1> QED BY <1>1, <1>3, <1>4, <1>5, SameDiskKeeps DEF DesignerInv

LEMMA OpenStep ==
  ASSUME DesignerInv, NEW p \in Paths, DoOpen(p)
  PROVE  DesignerInv'
<1>1. writing = Idle /\ SameDisk /\ filePath' = p /\ preview' = NoTyping
  BY DEF DoOpen, SameDisk
<1>2. PICK l \in ReadBack(files[p]) : layout' = l
  BY DEF DoOpen, Replace
<1>3. ReadBack(files[p]) = {layout'}
  BY <1>2, ReadBackUnique
<1>4. CleanInv'
  BY <1>1, <1>3 DEF CleanInv, SameDisk, diskVars
<1>5. PreviewIsCurrent'
  BY <1>1 DEF PreviewIsCurrent
<1> QED BY <1>1, <1>4, <1>5, SameDiskKeeps DEF DesignerInv

\* Nothing but the path and where the write is.
LEMMA WriteBegins ==
  ASSUME DesignerInv, writing = Idle, NEW op \in {"save", "export"}, NEW p \in Paths,
         StartWrite(op, p), filePath' \in Paths \cup {NoPath}, op = "save" => filePath' = p
  PROVE  Shape' /\ NoFaultYet' /\ OneFault' /\ PreviewIsCurrent' /\ writing'.path = p /\ writing' # Idle
<1>1. writing' = Write(op, p, "backup") /\ UNCHANGED <<layout, preview, files, backups, worth, faults>>
  BY DEF StartWrite, docVars
<1>2. writing'.op = op /\ writing'.path = p /\ writing'.at = "backup" /\ writing' # Idle
  BY <1>1, WriteShape, IdleShape
<1>3. Shape'
  BY <1>1, <1>2 DEF DesignerInv, Shape, Stages
<1>4. NoFaultYet'
  BY <1>1, <1>2 DEF DesignerInv, NoFaultYet, Busy
<1>5. OneFault'
  BY <1>1 DEF DesignerInv, OneFault, Busy
<1>6. PreviewIsCurrent'
  BY <1>1 DEF DesignerInv, PreviewIsCurrent
<1> QED BY <1>2, <1>3, <1>4, <1>5, <1>6

LEMMA SaveStep ==
  ASSUME DesignerInv, DoSave \/ (\E p \in Paths : DoSaveAs(p))
  PROVE  DesignerInv'
<1>1. PICK p \in Paths : filePath' = p /\ StartWrite("save", p) /\ writing = Idle
  BY DEF DoSave, DoSaveAs, DesignerInv, Shape
<1>2. Shape' /\ NoFaultYet' /\ OneFault' /\ PreviewIsCurrent' /\ writing'.path = p /\ writing' # Idle
  BY <1>1, WriteBegins
<1>3. CleanInv'
  <2>1. UNCHANGED <<dirty, layout, files>>
    BY <1>1 DEF StartWrite, docVars
  <2>2. astray' \/ (UNCHANGED filePath /\ ~astray)
    BY <1>1, Zenon DEF DoSave, DoSaveAs
  <2>3. CASE astray'
    BY <2>3 DEF CleanInv
  <2>4. CASE UNCHANGED filePath /\ ~astray
    BY <1>1, <2>1, <2>4 DEF DesignerInv, CleanInv, Busy
  <2> QED BY <2>2, <2>3, <2>4
<1> QED BY <1>2, <1>3 DEF DesignerInv

LEMMA ExportStep ==
  ASSUME DesignerInv, NEW p \in Paths, DoExport(p)
  PROVE  DesignerInv'
<1>1. /\ writing = Idle /\ StartWrite("export", p)
      /\ UNCHANGED <<filePath, astray, dirty, layout, files>>
  BY DEF DoExport, StartWrite, docVars
<1>2. Shape' /\ NoFaultYet' /\ OneFault' /\ PreviewIsCurrent' /\ writing'.path = p /\ writing' # Idle
  <2>1. filePath' \in Paths \cup {NoPath}
    BY <1>1 DEF DesignerInv, Shape
  <2> QED BY <1>1, <2>1, WriteBegins
<1>3. CleanInv'
  BY <1>1 DEF DesignerInv, CleanInv, Busy
<1> QED BY <1>2, <1>3 DEF DesignerInv

LEMMA DeclinedStep ==
  ASSUME DesignerInv, NEW p \in Paths, DeclinedSaveAs(p)
  PROVE  DesignerInv'
<1>1. writing = Idle /\ SameDisk /\ filePath' = p /\ astray' = TRUE /\ UNCHANGED <<layout, preview>>
  BY DEF DeclinedSaveAs, SameDisk, docVars
<1>2. PreviewIsCurrent'
  BY <1>1 DEF DesignerInv, PreviewIsCurrent
<1> QED BY <1>1, <1>2, SameDiskKeeps, NoClaim DEF DesignerInv

-----------------------------------------------------------------------------
(* The file operations of a write.                                         *)

\* What an operation inside a write leaves alone.
Inside(at) ==
  /\ writing.at = at
  /\ UNCHANGED <<layout, dirty, filePath, astray, preview, worth>>

LEMMA InsideWrite ==
  ASSUME DesignerInv, NEW at \in Stages, Inside(at)
  PROVE  /\ writing # Idle /\ writing.path \in Paths /\ writing.op \in {"save", "export"}
         /\ PreviewIsCurrent'
<1>1. at # "none"
  BY DEF Stages
<1>2. writing # Idle
  BY <1>1, IdleShape DEF Inside
<1>3. writing.path \in Paths /\ writing.op \in {"save", "export"}
  BY <1>2, WriteShape DEF DesignerInv, Shape
<1>4. PreviewIsCurrent'
  BY DEF DesignerInv, PreviewIsCurrent, Inside
<1> QED BY <1>2, <1>3, <1>4

\* The write moves on to its next operation.
LEMMA GotoShape ==
  ASSUME DesignerInv, NEW at \in Stages, Inside(at), NEW next \in Stages, Goto(next)
  PROVE  /\ writing' = Write(writing.op, writing.path, next) /\ writing' # Idle
         /\ writing'.op = writing.op /\ writing'.path = writing.path /\ writing'.at = next
<1>1. PICK op \in {"save", "export"}, p \in Paths, stage \in Stages : writing = Write(op, p, stage)
  BY InsideWrite DEF DesignerInv, Shape
<1>2. writing' = Write(op, p, next)
  BY <1>1 DEF Goto, Write
<1>3. writing.op = op /\ writing.path = p
  BY <1>1, WriteShape
<1>4. next # "none"
  BY DEF Stages
<1> QED BY <1>2, <1>3, <1>4, WriteShape, IdleShape

\* Other files and their copies are not touched by a write.
Elsewhere == \A p \in Paths \ {writing.path} : files'[p] = files[p] /\ backups'[p] = backups[p] /\ worth'[p] = worth[p]

LEMMA DomainsKept ==
  ASSUME DesignerInv, NEW at \in Stages, Inside(at), NEW next \in Stages, Goto(next),
         DOMAIN files' = DOMAIN files, DOMAIN backups' = DOMAIN backups, faults' \in Nat
  PROVE  Shape'
<1>1. writing.op \in {"save", "export"} /\ writing.path \in Paths
  BY InsideWrite
<1>2. /\ writing' = Write(writing.op, writing.path, next)
      /\ writing'.op = writing.op /\ writing'.path = writing.path
  BY GotoShape
<1> QED BY <1>1, <1>2 DEF DesignerInv, Shape, Inside

LEMMA OthersKept ==
  ASSUME DesignerInv, NEW at \in Stages, Inside(at), NEW next \in Stages, Goto(next),
         Elsewhere, faults' \in {faults, faults + 1}
  PROVE  OneFault'
<1>1. writing # Idle /\ writing' # Idle /\ writing'.path = writing.path
  BY InsideWrite, GotoShape
<1>2. faults \in Nat
  BY DEF DesignerInv, Shape
<1>3. faults' <= 1 => faults <= 1
  BY <1>2
<1> QED BY <1>1, <1>3 DEF DesignerInv, OneFault, Busy, Elsewhere

\* The copy to the .bak, done or failed; the file is not touched.
LEMMA CopySteps ==
  ASSUME DesignerInv, CopyStarts \/ CopyEnds \/ NoCopy
  PROVE  DesignerInv'
<1> DEFINE p == writing.path
<1>1. PICK at \in {"backup", "copying"}, next \in {"copying", "open"} :
        Inside(at) /\ Goto(next) /\ UNCHANGED files
  BY DEF CopyStarts, CopyEnds, NoCopy, At, Inside, Silent, docVars
<1>2. at \in Stages /\ next \in Stages
  BY DEF Stages
<1>3. /\ writing # Idle /\ writing' # Idle /\ writing'.path = p /\ p \in Paths
      /\ writing.at = at /\ writing'.at = next /\ PreviewIsCurrent'
  BY <1>1, <1>2, InsideWrite, GotoShape DEF Inside
<1>4. /\ faults \in Nat /\ faults' \in {faults, faults + 1}
      /\ DOMAIN backups' = DOMAIN backups /\ Elsewhere
  BY <1>1 DEF CopyStarts, CopyEnds, NoCopy, Fault, DesignerInv, Shape, Elsewhere, Inside
<1>5. Shape' /\ OneFault'
  BY <1>1, <1>2, <1>4, DomainsKept, OthersKept
<1>6. CleanInv'
  BY <1>1, <1>3 DEF DesignerInv, CleanInv, Busy, Inside
<1>7. faults' = 0 => faults = 0 /\ files[p] = worth[p]
  BY <1>1, <1>3, <1>4 DEF DesignerInv, NoFaultYet, Busy
<1>8. faults' = 0 /\ next = "open" => worth[p] \in {NoFile, backups'[p]}
  <2>1. CASE CopyStarts
    BY <2>1, <1>3, WriteShape, InsideWrite DEF CopyStarts, Goto, Silent
  <2>2. CASE CopyEnds
    BY <2>2, <1>3, <1>7 DEF CopyEnds, File, DesignerInv, Shape
  <2>3. CASE NoCopy
    <3>1. CASE File = NoFile
      BY <3>1, <1>7 DEF File
    <3>2. CASE File # NoFile
      BY <2>3, <3>2, <1>4 DEF NoCopy, Fault
    <3> QED BY <3>1, <3>2
  <2> QED BY <2>1, <2>2, <2>3
<1>9. NoFaultYet'
  <2> SUFFICES ASSUME faults' = 0, NEW q \in Paths
               PROVE  /\ Busy(q)' /\ writing'.at \in {"open", "write"} => worth'[q] \in {NoFile, backups'[q]}
                      /\ ~(Busy(q)' /\ writing'.at = "write") => files'[q] = worth'[q]
    BY DEF NoFaultYet
  <2>1. CASE q = p
    BY <1>1, <1>3, <1>7, <1>8, <2>1 DEF Busy, Inside
  <2>2. CASE q # p
    BY <1>1, <1>3, <1>4, <2>2 DEF Busy, Elsewhere, DesignerInv, NoFaultYet, Inside
  <2> QED BY <2>1, <2>2
<1> QED BY <1>3, <1>5, <1>6, <1>9 DEF DesignerInv

LEMMA TruncateStep ==
  ASSUME DesignerInv, OpenTruncates
  PROVE  DesignerInv'
<1> DEFINE p == writing.path
<1>1. /\ Inside("open") /\ Goto("write") /\ UNCHANGED <<backups, faults>>
      /\ files' = [files EXCEPT ![p] = Torn]
  BY DEF OpenTruncates, At, Inside, Silent, docVars
<1>2. "open" \in Stages /\ "write" \in Stages
  BY DEF Stages
<1>3. /\ writing # Idle /\ writing' # Idle /\ writing'.path = p /\ p \in Paths
      /\ writing.at = "open" /\ writing'.at = "write" /\ PreviewIsCurrent'
  BY <1>1, <1>2, InsideWrite, GotoShape DEF Inside
<1>4. /\ faults' \in Nat /\ faults' \in {faults, faults + 1} /\ Elsewhere
      /\ DOMAIN files' = DOMAIN files /\ DOMAIN backups' = DOMAIN backups
  BY <1>1 DEF DesignerInv, Shape, Elsewhere, Inside
<1>5. Shape' /\ OneFault'
  BY <1>1, <1>2, <1>4, DomainsKept, OthersKept
<1>6. CleanInv'
  <2>1. CASE filePath = p
    BY <1>1, <1>3, <2>1 DEF CleanInv, Busy, Inside
  <2>2. CASE filePath # p
    <3>1. filePath # NoPath => files'[filePath] = files[filePath]
      BY <1>4, <2>2 DEF DesignerInv, Shape, Elsewhere
    <3> QED BY <1>1, <1>3, <2>2, <3>1 DEF DesignerInv, CleanInv, Busy, Inside
  <2> QED BY <2>1, <2>2
<1>7. NoFaultYet'
  <2> SUFFICES ASSUME faults' = 0, NEW q \in Paths
               PROVE  /\ Busy(q)' /\ writing'.at \in {"open", "write"} => worth'[q] \in {NoFile, backups'[q]}
                      /\ ~(Busy(q)' /\ writing'.at = "write") => files'[q] = worth'[q]
    BY DEF NoFaultYet
  <2>1. CASE q = p
    BY <1>1, <1>3, <2>1 DEF Busy, DesignerInv, NoFaultYet, Inside
  <2>2. CASE q # p
    BY <1>1, <1>3, <1>4, <2>2 DEF Busy, Elsewhere, DesignerInv, NoFaultYet, Inside
  <2> QED BY <2>1, <2>2
<1> QED BY <1>3, <1>5, <1>6, <1>7 DEF DesignerInv

-----------------------------------------------------------------------------
(* The ends of a write, and what happens from outside.                     *)

\* The layout is the same after a save and after an export.
LEMMA ReturnedKeeps ==
  ASSUME NEW ok, Returned(ok)
  PROVE  /\ writing' = Idle
         /\ UNCHANGED <<layout, filePath, preview, backups>>
BY DEF Returned, markSaved, docVars

LEMMA WriteEndsStep ==
  ASSUME DesignerInv, WriteEnds
  PROVE  DesignerInv'
<1> DEFINE p == writing.path
           written == By("designer", layout)
<1>1. /\ writing.at = "write" /\ writing' = Idle
      /\ files' = [files EXCEPT ![p] = written] /\ worth' = [worth EXCEPT ![p] = written]
      /\ astray' = (astray /\ p # filePath) /\ Returned(TRUE)
      /\ UNCHANGED <<layout, filePath, preview, backups, faults>>
  BY ReturnedKeeps DEF WriteEnds, At
<1>2. writing # Idle /\ p \in Paths /\ writing.op \in {"save", "export"}
  BY <1>1, IdleShape, WriteShape DEF DesignerInv, Shape
<1>3. /\ DOMAIN files = Paths /\ DOMAIN worth = Paths
      /\ files'[p] = written /\ worth'[p] = written
      /\ \A q \in Paths \ {p} : files'[q] = files[q] /\ worth'[q] = worth[q]
  BY <1>1, <1>2 DEF DesignerInv, Shape
<1>4. Shape'
  BY <1>1, IdleShape DEF DesignerInv, Shape
<1>5. NoFaultYet'
  <2> SUFFICES ASSUME faults' = 0, NEW q \in Paths PROVE files'[q] = worth'[q]
    BY <1>1 DEF NoFaultYet, Busy
  <2> QED BY <1>1, <1>3 DEF DesignerInv, NoFaultYet, Busy
<1>6. OneFault'
  BY <1>1, <1>3 DEF DesignerInv, OneFault, Busy
<1>7. CleanInv'
  <2> SUFFICES ASSUME ~dirty', filePath' # NoPath, ~astray', Rereadable(layout)
               PROVE  ReadBack(files'[filePath]) = {layout}
    BY <1>1 DEF CleanInv
  <2>1. CASE filePath = p
    BY <1>3, <2>1, WrittenReadsBack
  <2>2. CASE filePath # p
    <3>1. filePath \in Paths \ {p}
      BY <1>1, <2>2 DEF DesignerInv, Shape
    <3>2. writing.op # "save" /\ ~astray
      BY <1>1, <2>2 DEF DesignerInv, Shape
    <3>3. UNCHANGED dirty
      BY <1>1, <3>2 DEF Returned, docVars
    <3> QED BY <1>1, <1>3, <2>2, <3>1, <3>2, <3>3 DEF DesignerInv, CleanInv, Busy
  <2> QED BY <2>1, <2>2
<1>8. PreviewIsCurrent'
  BY <1>1 DEF DesignerInv, PreviewIsCurrent
<1> QED BY <1>4, <1>5, <1>6, <1>7, <1>8 DEF DesignerInv

LEMMA WriteFailsStep ==
  ASSUME DesignerInv, NEW ok \in BOOLEAN, WriteFails(ok)
  PROVE  DesignerInv'
<1> DEFINE p == writing.path
<1>1. /\ writing.at \in {"open", "write"} /\ writing' = Idle /\ faults' = faults + 1
      /\ astray' = (astray \/ (writing.at = "write" /\ p = filePath)) /\ Returned(ok)
      /\ writing.at = "write" \/ ~ok
      /\ UNCHANGED <<layout, filePath, preview, files, backups, worth>>
  BY ReturnedKeeps DEF WriteFails, At, Fault
<1>2. writing # Idle /\ p \in Paths /\ faults \in Nat
  BY <1>1, IdleShape, WriteShape DEF DesignerInv, Shape
<1>3. Shape' /\ faults' # 0
  BY <1>1, <1>2, IdleShape DEF DesignerInv, Shape
<1>4. OneFault'
  <2> SUFFICES ASSUME faults' <= 1, NEW q \in Paths
               PROVE  worth[q] = NoFile \/ worth[q] \in {files[q], backups[q]}
    BY <1>1 DEF OneFault
  <2>1. faults = 0
    BY <1>1, <1>2
  <2> QED BY <1>1, <1>2, <2>1 DEF DesignerInv, NoFaultYet, Busy
<1>5. CleanInv'
  <2> SUFFICES ASSUME ~dirty', filePath' # NoPath, ~astray', Rereadable(layout)
               PROVE  ReadBack(files[filePath]) = {layout}
    BY <1>1 DEF CleanInv
  <2>1. ~(writing.at = "write" /\ p = filePath) /\ ~astray
    BY <1>1
  <2>2. writing.op # "save" \/ ~ok
    BY <1>1, <2>1 DEF DesignerInv, Shape
  <2>3. UNCHANGED dirty
    BY <1>1, <2>2 DEF Returned, docVars
  <2> QED BY <1>1, <2>1, <2>3 DEF DesignerInv, CleanInv, Busy
<1>6. PreviewIsCurrent'
  BY <1>1 DEF DesignerInv, PreviewIsCurrent
<1> QED BY <1>3, <1>4, <1>5, <1>6 DEF DesignerInv, NoFaultYet

LEMMA RestartStep ==
  ASSUME DesignerInv, Restart
  PROVE  DesignerInv'
<1>1. /\ writing' = Idle /\ filePath' = NoPath /\ preview' = NoTyping
      /\ UNCHANGED <<files, backups, worth>>
      /\ IF writing = Idle THEN faults' = faults ELSE faults' = faults + 1
  BY DEF Restart, Fault
<1>2. faults \in Nat
  BY DEF DesignerInv, Shape
<1>3. Shape'
  BY <1>1, <1>2, IdleShape DEF DesignerInv, Shape
<1>4. NoFaultYet' /\ OneFault'
  <2>1. CASE writing = Idle
    BY <1>1, <2>1 DEF DesignerInv, NoFaultYet, OneFault, Busy
  <2>2. CASE writing # Idle
    <3>1. faults' # 0 /\ (faults' <= 1 => faults = 0)
      BY <1>1, <1>2, <2>2
    <3>2. faults = 0 => \A q \in Paths : worth[q] = NoFile \/ worth[q] \in {files[q], backups[q]}
      BY DEF DesignerInv, NoFaultYet, Busy
    <3> QED BY <1>1, <3>1, <3>2 DEF NoFaultYet, OneFault
  <2> QED BY <2>1, <2>2
<1>5. CleanInv' /\ PreviewIsCurrent'
  BY <1>1, NoClaim DEF PreviewIsCurrent
<1> QED BY <1>3, <1>4, <1>5 DEF DesignerInv

LEMMA OtherWritesStep ==
  ASSUME DesignerInv, NEW p \in Paths, NEW c, OtherWrites(p, c)
  PROVE  DesignerInv'
<1>1. /\ writing = Idle /\ files' = [files EXCEPT ![p] = c] /\ worth' = [worth EXCEPT ![p] = c]
      /\ astray' = (astray \/ p = filePath)
      /\ UNCHANGED <<layout, dirty, filePath, preview, backups, writing, faults>>
  BY DEF OtherWrites, docVars
<1>2. /\ DOMAIN files = Paths /\ DOMAIN worth = Paths
      /\ files'[p] = c /\ worth'[p] = c
      /\ \A q \in Paths \ {p} : files'[q] = files[q] /\ worth'[q] = worth[q]
  BY <1>1 DEF DesignerInv, Shape
<1>3. Shape'
  BY <1>1 DEF DesignerInv, Shape
<1>4. NoFaultYet' /\ OneFault'
  BY <1>1, <1>2 DEF DesignerInv, NoFaultYet, OneFault, Busy
<1>5. CleanInv'
  <2>1. CASE p = filePath
    BY <1>1, <2>1, NoClaim
  <2>2. CASE p # filePath
    <3>1. filePath # NoPath => files'[filePath] = files[filePath]
      BY <1>2, <2>2 DEF DesignerInv, Shape
    <3> QED BY <1>1, <2>2, <3>1 DEF DesignerInv, CleanInv, Busy
  <2> QED BY <2>1, <2>2
<1>6. PreviewIsCurrent'
  BY <1>1 DEF DesignerInv, PreviewIsCurrent
<1> QED BY <1>3, <1>4, <1>5, <1>6 DEF DesignerInv

-----------------------------------------------------------------------------
LEMMA DesignerNextInv ==
  ASSUME DesignerInv, [DesignerNext]_designerVars
  PROVE  DesignerInv'
<1>1. CASE UNCHANGED designerVars
  BY <1>1 DEF designerVars, docVars, diskVars, DesignerInv, Shape, NoFaultYet, OneFault, CleanInv,
              PreviewIsCurrent, Busy
<1> QED BY <1>1, DocumentSteps, SmallSteps, OpenStep, SaveStep, ExportStep, DeclinedStep, CopySteps,
           TruncateStep, WriteEndsStep, WriteFailsStep, RestartStep, OtherWritesStep
        DEF DesignerNext

LEMMA DesignerInvariance == DesignerSpec => []DesignerInv
BY DesignerInitInv, DesignerNextInv, PTL DEF DesignerSpec

\* One failed operation or kill in the life of the files costs no file its last
\* complete text, which is in place or in its .bak: for any number of files,
\* writes, restarts and writes of other programs.
THEOREM BackupsCoverOneFault == DesignerSpec => []OneFaultLosesNothing
<1>1. DesignerInv => OneFaultLosesNothing
  BY DEF DesignerInv, OneFault, Busy, OneFaultLosesNothing
<1> QED BY <1>1, DesignerInvariance, PTL

\* What a title without a star names reads as the document, for every layout
\* the format can hold.
THEOREM CleanTitleTellsTheTruth == DesignerSpec => []CleanMeansOnDisk
<1>1. DesignerInv => CleanMeansOnDisk
  BY IdleShape DEF DesignerInv, CleanInv, Busy, CleanMeansOnDisk
<1> QED BY <1>1, DesignerInvariance, PTL

\* What the preview's composer holds was typed with the present mappings.
THEOREM PreviewFollowsEdits == DesignerSpec => []PreviewIsCurrent
BY DesignerInvariance, PTL DEF DesignerInv
-----------------------------------------------------------------------------
(* The types, with a recent list that stays short and without repetitions. *)

RecentOK(r) == r \in Seq(Paths) /\ Len(r) <= kMaxRecent /\ Distinct(r)

LEMMA AddRecentType ==
  ASSUME RecentOK(recent), NEW p \in Paths, AddRecent(p)
  PROVE  RecentOK(recent')
<1> DEFINE S     == {i \in DOMAIN recent : recent[i] # p}
           k     == Kept(recent, S)
           moved == <<p>> \o k
<1>1. recent \in Seq(Paths) /\ Distinct(recent)
  BY DEF RecentOK
<1>2. k \in Seq(EntriesAt(recent, S)) /\ Distinct(k)
  BY <1>1, KeptEntries, KeptDistinct
<1>3. EntriesAt(recent, S) \subseteq Paths /\ p \notin EntriesAt(recent, S)
  BY <1>1, LenProperties, ElementOfSeq DEF EntriesAt
<1>4. recent' = IF Len(moved) > kMaxRecent THEN SubSeq(moved, 1, kMaxRecent) ELSE moved
  BY DEF AddRecent
<1> HIDE DEF k
<1>5. /\ k \in Seq(Paths) /\ Len(k) \in Nat /\ DOMAIN k = 1..Len(k)
      /\ \A i \in 1..Len(k) : k[i] # p
  <2>1. \A i \in 1..Len(k) : k[i] \in EntriesAt(recent, S)
    BY <1>2, ElementOfSeq
  <2> QED BY <1>2, <1>3, <2>1, SeqMonotonic, LenProperties
<1> DEFINE n == Len(k)
<1>6. /\ moved \in Seq(Paths) /\ Len(moved) = n + 1 /\ DOMAIN moved = 1..(n + 1)
      /\ moved[1] = p /\ \A i \in 2..(n + 1) : moved[i] = k[i - 1]
  <2>1. <<p>> \in Seq(Paths) /\ Len(<<p>>) = 1 /\ <<p>>[1] = p
    OBVIOUS
  <2>2. /\ moved \in Seq(Paths) /\ Len(moved) = 1 + n
        /\ \A i \in 1..(1 + n) : moved[i] = IF i <= 1 THEN <<p>>[i] ELSE k[i - 1]
    BY <1>5, <2>1, ConcatProperties
  <2>3. DOMAIN moved = 1..Len(moved)
    BY <2>2, LenProperties
  <2> HIDE DEF moved, n
  <2>4. n \in Nat
    BY <1>5 DEF n
  <2> QED BY <2>1, <2>2, <2>3, <2>4
<1> HIDE DEF moved, n
<1>7. n \in Nat
  BY <1>5 DEF n
<1>8. Distinct(moved)
  <2> SUFFICES ASSUME NEW i \in 1..(n + 1), NEW j \in 1..(n + 1), moved[i] = moved[j] PROVE i = j
    BY <1>6 DEF Distinct
  <2>1. CASE i = 1 /\ j = 1
    BY <2>1
  <2>2. CASE i # 1 /\ j # 1
    <3>1. i - 1 \in 1..n /\ j - 1 \in 1..n /\ i \in 2..(n + 1) /\ j \in 2..(n + 1)
      BY <1>7, <2>2
    <3>2. k[i - 1] = k[j - 1]
      BY <1>6, <3>1
    <3>3. i - 1 = j - 1
      BY <1>2, <1>5, <3>1, <3>2 DEF Distinct, n
    <3> QED BY <3>1, <3>3
  <2>3. CASE i = 1 /\ j # 1
    <3>1. j - 1 \in 1..n /\ j \in 2..(n + 1)
      BY <1>7, <2>3
    <3> QED BY <1>5, <1>6, <2>3, <3>1 DEF n
  <2>4. CASE i # 1 /\ j = 1
    <3>1. i - 1 \in 1..n /\ i \in 2..(n + 1)
      BY <1>7, <2>4
    <3> QED BY <1>5, <1>6, <2>4, <3>1 DEF n
  <2> QED BY <2>1, <2>2, <2>3, <2>4
<1>9. kMaxRecent \in Nat /\ kMaxRecent >= 1
  BY DesignerAssumption
<1>10. CASE Len(moved) > kMaxRecent
  <2> DEFINE cut == SubSeq(moved, 1, kMaxRecent)
  <2>1. kMaxRecent \in Int /\ kMaxRecent <= Len(moved)
    BY <1>6, <1>7, <1>9, <1>10
  <2>2. /\ cut \in Seq(Paths) /\ Len(cut) = IF 1 <= kMaxRecent THEN kMaxRecent ELSE 0
        /\ \A i \in 1..kMaxRecent : cut[i] = moved[i]
    BY <1>6, <2>1, PrefixType
  <2> HIDE DEF cut
  <2>3. Len(cut) = kMaxRecent /\ DOMAIN cut = 1..kMaxRecent
    BY <1>9, <2>2, LenProperties
  <2>4. \A i \in 1..kMaxRecent : i \in DOMAIN moved
    BY <1>6, <1>7, <1>9, <2>1
  <2>5. Distinct(cut)
    BY <1>8, <2>2, <2>3, <2>4 DEF Distinct
  <2>6. recent' = cut
    BY <1>4, <1>10 DEF cut
  <2> QED BY <1>9, <2>2, <2>3, <2>5, <2>6 DEF RecentOK
<1>11. CASE ~(Len(moved) > kMaxRecent)
  BY <1>4, <1>6, <1>7, <1>8, <1>9, <1>11 DEF RecentOK
<1> QED BY <1>10, <1>11

\* What TypeOK says beyond the shape.
Types ==
  /\ dirty \in BOOLEAN /\ astray \in BOOLEAN
  /\ selectedVk \in KeyVks \cup {0}
  /\ RecentOK(recent)
  /\ faults \in 0..MaxFaults /\ writes \in 0..MaxWrites

LEMMA TypesInit == DesignerInit => Types
<1> SUFFICES ASSUME DesignerInit PROVE Types
  OBVIOUS
<1>1. RecentOK(<<>>)
  BY EmptySeq, DesignerAssumption DEF RecentOK, Distinct
<1>2. 0 \in 0..MaxFaults /\ 0 \in 0..MaxWrites
  BY DesignerAssumption
<1>3. /\ dirty = TRUE /\ astray = FALSE /\ selectedVk = 0 /\ recent = <<>>
      /\ faults = 0 /\ writes = 0
  BY DEF DesignerInit
<1> QED BY <1>1, <1>2, <1>3 DEF Types

\* The dirty flag, from whatever the step does to the document.
LEMMA DocumentTypes ==
  ASSUME dirty \in BOOLEAN,
         newLayout \/ undo \/ redo \/ markSaved \/ (\E l : Replace(l, FALSE)) \/ (\E l : Mutate(l))
         \/ (\E vk : copyKey(vk) \/ pasteKey(vk)) \/ (\E m : setMeta(m)) \/ UNCHANGED docVars
  PROVE  dirty' \in BOOLEAN
BY DEF newLayout, undo, redo, markSaved, Replace, Mutate, pushUndo, copyKey, pasteKey, setMeta, docVars

LEMMA TypesNext ==
  ASSUME DesignerInv, Types, [DesignerNext]_designerVars
  PROVE  Types'
<1> USE DEF diskVars
<1>1. CASE UNCHANGED designerVars
  BY <1>1 DEF designerVars, docVars, Types, RecentOK
<1>2. ASSUME DoNew \/ Undo \/ Redo \/ Paste \/ Copy \/ DoDuplicate \/ \E m \in Metas : DoMetadata(m)
      PROVE  Types'
  <2>1. dirty' \in BOOLEAN
    BY <1>2, DocumentTypes DEF DoNew, Undo, Redo, Paste, Copy, DoDuplicate, DoMetadata, Types
  <2>2. selectedVk' \in {0, selectedVk} /\ astray' \in {FALSE, astray} /\ UNCHANGED <<recent, faults, writes>>
    BY <1>2 DEF DoNew, Undo, Redo, Paste, Copy, DoDuplicate, DoMetadata, Shown
  <2> QED BY <2>1, <2>2 DEF Types, RecentOK
<1>3. ASSUME \/ \E entries \in DialogEntries : DoEditSelectedKey(entries)
             \/ \E vk \in KeyVks \cup {0} : Select(vk)
             \/ FeedPreviewChar
      PROVE  Types'
  <2>1. dirty' \in {TRUE, dirty} /\ selectedVk' \in KeyVks \cup {0} /\ UNCHANGED <<astray, recent, faults, writes>>
    BY <1>3 DEF DoEditSelectedKey, Shown, Select, FeedPreviewChar, docVars, Types
  <2> QED BY <2>1 DEF Types, RecentOK
<1>4. ASSUME NEW p \in Paths, DoOpen(p) PROVE Types'
  <2>1. RecentOK(recent')
    BY <1>4, AddRecentType DEF DoOpen, Types
  <2> QED BY <1>4, <2>1 DEF DoOpen, Replace, Types
<1>5. ASSUME NEW op, NEW p, StartWrite(op, p)
      PROVE  /\ UNCHANGED <<dirty, selectedVk, recent, faults>>
             /\ writes' \in 0..MaxWrites
  BY <1>5, DesignerAssumption DEF StartWrite, docVars, Types
<1>6. ASSUME DoSave \/ \E p \in Paths : DoSaveAs(p) \/ DoExport(p) PROVE Types'
  <2>1. astray' \in BOOLEAN
    BY <1>6 DEF DoSave, DoSaveAs, DoExport, Types
  <2>2. \E op, p : StartWrite(op, p)
    BY <1>6 DEF DoSave, DoSaveAs, DoExport
  <2> QED BY <1>5, <2>1, <2>2 DEF Types, RecentOK
<1>7. ASSUME NEW p \in Paths, DeclinedSaveAs(p) PROVE Types'
  BY <1>7 DEF DeclinedSaveAs, docVars, Types, RecentOK
<1>8. Fault => faults' \in 0..MaxFaults
  BY DesignerAssumption DEF Fault, Types
<1>9. ASSUME CopyStarts \/ CopyEnds \/ NoCopy \/ OpenTruncates PROVE Types'
  <2>1. faults' \in 0..MaxFaults
    BY <1>8, <1>9 DEF CopyStarts, CopyEnds, NoCopy, OpenTruncates, Types
  <2>2. UNCHANGED <<dirty, astray, selectedVk, recent, writes>>
    BY <1>9 DEF CopyStarts, CopyEnds, NoCopy, OpenTruncates, Silent, docVars
  <2> QED BY <2>1, <2>2 DEF Types, RecentOK
<1>10. ASSUME NEW ok, Returned(ok), writing # Idle
       PROVE  dirty' \in BOOLEAN /\ RecentOK(recent') /\ UNCHANGED <<selectedVk, writes>>
  <2>1. CASE ok /\ writing.op = "save"
    <3>1. markSaved /\ AddRecent(filePath)
      BY <1>10, <2>1 DEF Returned
    <3>2. filePath \in Paths
      BY <1>10, <2>1, WriteShape DEF DesignerInv, Shape
    <3> QED BY <1>10, <3>1, <3>2, AddRecentType DEF markSaved, Returned, Types
  <2>2. CASE ~(ok /\ writing.op = "save")
    BY <1>10, <2>2 DEF Returned, docVars, Types, RecentOK
  <2> QED BY <2>1, <2>2
<1>11. At("write") \/ At("open") => writing # Idle
  BY IdleShape DEF At
<1>12. CASE WriteEnds
  <2>1. Returned(TRUE) /\ UNCHANGED faults /\ astray' \in BOOLEAN /\ writing # Idle
    BY <1>11, <1>12 DEF WriteEnds, Types
  <2> QED BY <1>10, <2>1 DEF Types
<1>13. ASSUME NEW ok \in BOOLEAN, WriteFails(ok) PROVE Types'
  <2>1. Returned(ok) /\ faults' \in 0..MaxFaults /\ astray' \in BOOLEAN /\ writing # Idle
    BY <1>8, <1>11, <1>13 DEF WriteFails, Types
  <2> QED BY <1>10, <2>1 DEF Types
<1>14. CASE Restart
  <2>1. faults' \in 0..MaxFaults
    BY <1>8, <1>14 DEF Restart, Types
  <2> QED BY <1>14, <2>1 DEF Restart, newLayout, Replace, Types, RecentOK
<1>15. ASSUME NEW p \in Paths, NEW c, OtherWrites(p, c) PROVE Types'
  <2>1. writes' \in 0..MaxWrites
    BY <1>15, DesignerAssumption DEF OtherWrites, Types
  <2> QED BY <1>15, <2>1 DEF OtherWrites, docVars, Types, RecentOK
<1> QED BY <1>1, <1>2, <1>3, <1>4, <1>6, <1>7, <1>9, <1>12, <1>13, <1>14, <1>15 DEF DesignerNext

\* The designer's state has its types, a write in progress is on a file the
\* user named, and a save writes to the document's own path; the recent list
\* names no file twice and keeps its length.
THEOREM DesignerTypeCorrectness == DesignerSpec => []TypeOK
<1>1. DesignerInv /\ Types => TypeOK
  <2> SUFFICES ASSUME DesignerInv, Types PROVE TypeOK
    OBVIOUS
  <2>1. writing # Idle => writing.path \in Paths
    BY WriteShape DEF DesignerInv, Shape
  <2>2. IsInjective(recent)
    BY DEF Types, RecentOK, Distinct, IsInjective
  <2> QED BY <2>1, <2>2 DEF DesignerInv, Shape, Types, RecentOK, TypeOK
<1> QED BY <1>1, DesignerInvariance, TypesInit, TypesNext, PTL DEF DesignerSpec

-----------------------------------------------------------------------------
(* The files.  The sections of a document, and its strings.                *)

Sections == {"capsMode", "normalize", "keys", "deadKeys", "ligatures", "compose"}

Str      == Seq(Scalar)
TextNode == [t : {"text"}, text : Str]

\* The documents: what the user writes and what the serializer writes.
WellFormed(doc) ==
  /\ DOMAIN doc = Sections
  /\ doc.normalize \in BOOLEAN
  /\ DOMAIN doc.keys \subseteq DOMAIN fromName
  /\ doc.ligatures \in Seq(LigatureNodes \cup [sequence : TextNode, result : TextNode])
  /\ doc.compose \in Seq(ComposeNodes \cup [keys : TextNode, output : TextNode])

-----------------------------------------------------------------------------
(* Nodes.                                                                  *)

LEMMA ParseOutput ==
  ASSUME NEW node
  PROVE  /\ parseOutput(node) # {} <=> node.t = "text" /\ node.text \in Str
         /\ parseOutput(node) \subseteq Str
BY DEF parseOutput, allScalar, Str

\* What the fields of an action that was parsed can be.
IsParsed(a) ==
  \/ \E s \in Str : a = EmitAction(s)
  \/ \E id : a = DeadAction(id)
  \/ a = ComposeAction

LEMMA ParseAction ==
  ASSUME NEW node, NEW a \in parseAction(node)
  PROVE  IsParsed(a)
<1>1. \A n : parseOutput(n) \subseteq Str
  BY ParseOutput
<1>2. CASE node.t = "text"
  BY <1>1, <1>2 DEF parseAction, IsParsed
<1>3. CASE node.t # "text" /\ Has(node, "dead")
  BY <1>3 DEF parseAction, IsParsed
<1>4. CASE node.t # "text" /\ ~Has(node, "dead") /\ Has(node, "compose")
  BY <1>4 DEF parseAction, IsParsed
<1>5. CASE node.t # "text" /\ ~Has(node, "dead") /\ ~Has(node, "compose") /\ Has(node, "emit")
  BY <1>1, <1>5 DEF parseAction, IsParsed
<1>6. CASE node.t # "text" /\ ~Has(node, "dead") /\ ~Has(node, "compose") /\ ~Has(node, "emit")
  BY <1>6 DEF parseAction
<1> QED BY <1>2, <1>3, <1>4, <1>5, <1>6

LEMMA ParsedFields ==
  ASSUME NEW a, IsParsed(a)
  PROVE  /\ a.kind \in {"Emit", "DeadKey", "Compose"}
         /\ a.output \in Str
         /\ a.kind # "DeadKey" => a.deadKey = NoDead
         /\ a.kind = "Emit" => a = EmitAction(a.output)
         /\ a.kind = "DeadKey" => a = DeadAction(a.deadKey)
         /\ a.kind = "Compose" => a = ComposeAction
<1>1. <<>> \in Str
  BY DEF Str
<1>2. CASE \E s \in Str : a = EmitAction(s)
  <2>1. PICK s \in Str : a = EmitAction(s)
    BY <1>2
  <2>2. a.kind = "Emit" /\ a.output = s /\ a.deadKey = NoDead
    BY <2>1 DEF EmitAction, NoAction
  <2> QED BY <2>1, <2>2
<1>3. CASE \E id : a = DeadAction(id)
  <2>1. PICK id : a = DeadAction(id)
    BY <1>3
  <2>2. a.kind = "DeadKey" /\ a.output = <<>> /\ a.deadKey = id
    BY <2>1 DEF DeadAction, NoAction
  <2> QED BY <1>1, <2>1, <2>2
<1>4. CASE a = ComposeAction
  BY <1>1, <1>4 DEF ComposeAction, NoAction
<1> QED BY <1>2, <1>3, <1>4 DEF IsParsed

\* The node of an action is parsed as the action.
LEMMA ActionRoundTrip ==
  ASSUME NEW a, IsParsed(a)
  PROVE  parseAction(actionJson(a)) = {a} /\ actionJson(a) # Null
<1>1. CASE a.kind = "Emit"
  <2>1. actionJson(a) = Text(a.output) /\ a.output \in Str /\ a = EmitAction(a.output)
    BY <1>1, ParsedFields DEF actionJson
  <2> DEFINE node == Text(a.output)
  <2>2. node.t = "text" /\ node.text = a.output /\ node # Null /\ \A f : ~Has(node, f)
    BY DEF Text, Null, Has
  <2> HIDE DEF node
  <2>3. parseOutput(node) = {a.output}
    BY <2>1, <2>2 DEF parseOutput, allScalar, Str
  <2>4. parseAction(node) = {EmitAction(s) : s \in parseOutput(node)}
    BY <2>2 DEF parseAction
  <2> QED BY <2>1, <2>2, <2>3, <2>4 DEF node
<1>2. CASE a.kind = "DeadKey"
  <2> DEFINE node == Obj([dead |-> Id(a.deadKey)])
  <2>1. actionJson(a) = node /\ a = DeadAction(a.deadKey)
    BY <1>2, ParsedFields DEF actionJson
  <2>2. /\ node.t # "text" /\ Has(node, "dead") /\ node # Null
        /\ node.obj["dead"] = Id(a.deadKey) /\ Id(a.deadKey).t = "id" /\ Id(a.deadKey).id = a.deadKey
    BY DEF Obj, Id, Has, Null
  <2> HIDE DEF node
  <2>3. parseAction(node) = {DeadAction(d.id) : d \in {n \in {node.obj["dead"]} : n.t = "id"}}
    BY <2>2 DEF parseAction
  <2> QED BY <2>1, <2>2, <2>3
<1>3. CASE a.kind = "Compose"
  <2> DEFINE node == Obj([compose |-> True])
  <2>1. actionJson(a) = node /\ a = ComposeAction
    BY <1>3, ParsedFields DEF actionJson
  <2>2. /\ node.t # "text" /\ ~Has(node, "dead") /\ Has(node, "compose") /\ node # Null
        /\ node.obj["compose"].t = "true"
    BY DEF Obj, True, Has, Null
  <2> HIDE DEF node
  <2>3. parseAction(node) = {ComposeAction : n \in {m \in {node.obj["compose"]} : m.t = "true"}}
    BY <2>2 DEF parseAction
  <2> QED BY <2>1, <2>2, <2>3
<1> QED BY <1>1, <1>2, <1>3, ParsedFields

-----------------------------------------------------------------------------
(* Keys.                                                                   *)

\* The levels of a key that can be parsed: the action of every level the node
\* has, and no action on the others.
LEMMA KeyOfNodeLevels ==
  ASSUME NEW vk, NEW node, ~BadLevel(node)
  PROVE  LET def == KeyOfNode(vk, node)
         IN  /\ def = [cased |-> def.cased, levels |-> def.levels]
             /\ def.cased = (isLetter(vk) /\ \E lvl \in Level : LevelNodes(node)[lvl] # Null)
             /\ def.levels = [lvl \in Level |-> def.levels[lvl]]
             /\ \A lvl \in Level :
                  IF LevelNodes(node)[lvl] = Null THEN def.levels[lvl] = NoAction
                  ELSE def.levels[lvl] \in parseAction(LevelNodes(node)[lvl])
<1> DEFINE nodes   == LevelNodes(node)
           actions == [lvl \in Level |->
                         IF parseAction(nodes[lvl]) = {} THEN NoAction
                         ELSE CHOOSE a \in parseAction(nodes[lvl]) : TRUE]
           cased   == isLetter(vk) /\ \E lvl \in Level : nodes[lvl] # Null
<1>1. KeyOfNode(vk, node) = [cased |-> cased, levels |-> actions]
  BY DEF KeyOfNode
<1>2. parseAction(Null) = {}
  <2>1. Null.t = "null" /\ \A f : ~Has(Null, f)
    BY DEF Null, Has
  <2> QED BY <2>1 DEF parseAction
<1>3. ASSUME NEW lvl \in Level
      PROVE  IF nodes[lvl] = Null THEN actions[lvl] = NoAction
             ELSE actions[lvl] \in parseAction(nodes[lvl])
  <2>1. nodes[lvl] # Null => parseAction(nodes[lvl]) # {}
    BY DEF BadLevel
  <2> QED BY <1>2, <2>1
<1>4. actions = [lvl \in Level |-> actions[lvl]]
  OBVIOUS
<1> HIDE DEF actions, cased
<1> QED BY <1>1, <1>3, <1>4 DEF cased

\* An action on a level is none or a parsed one.
LEMMA KeyOfNodeActions ==
  ASSUME NEW vk, NEW node, ~BadLevel(node), NEW lvl \in Level
  PROVE  LET def == KeyOfNode(vk, node)
         IN  /\ def.cased \in BOOLEAN
             /\ IF LevelNodes(node)[lvl] = Null THEN def.levels[lvl] = NoAction
                ELSE IsParsed(def.levels[lvl])
<1> DEFINE def == KeyOfNode(vk, node)
<1>1. /\ def.cased = (isLetter(vk) /\ \E l \in Level : LevelNodes(node)[l] # Null)
      /\ IF LevelNodes(node)[lvl] = Null THEN def.levels[lvl] = NoAction
         ELSE def.levels[lvl] \in parseAction(LevelNodes(node)[lvl])
  BY KeyOfNodeLevels
<1> HIDE DEF def
<1>2. def.cased \in BOOLEAN
  BY <1>1
<1> QED BY <1>1, <1>2, ParseAction DEF def

\* The key under a name that is known is the one that is parsed from its node.
LEMMA KeysOfNames ==
  ASSUME NEW doc, ~BadKeys(doc), NEW n \in Names(doc)
  PROVE  /\ fromName[n] \in DOMAIN KeysOf(doc)
         /\ KeysOf(doc)[fromName[n]] = KeyOfNode(fromName[n], doc.keys[n])
         /\ ~BadLevel(doc.keys[n])
<1>1. (CHOOSE m \in Names(doc) : fromName[m] = fromName[n]) = n
  <2>1. \A m \in Names(doc) : fromName[m] = fromName[n] => m = n
    BY DEF BadKeys
  <2> QED BY <2>1
<1> QED BY <1>1 DEF KeysOf, BadKeys

LEMMA KeysOfDomain ==
  ASSUME NEW doc
  PROVE  DOMAIN KeysOf(doc) = {fromName[n] : n \in Names(doc)}
BY DEF KeysOf

-----------------------------------------------------------------------------
(* The two lists.                                                          *)

\* The texts of the ligatures: every element of the document that is not empty
\* and no other.
LEMMA LigatureTexts ==
  ASSUME NEW doc, WellFormed(doc), ~Rejected(doc)
  PROVE  /\ Ligatures(doc) \in Seq([sequence : Str, result : Str])
         /\ \A i \in DOMAIN Ligatures(doc) : Ligatures(doc)[i].sequence # <<>>
         /\ \A i \in DOMAIN doc.ligatures : doc.ligatures[i].sequence.text # <<>> =>
              \E j \in DOMAIN Ligatures(doc) :
                Ligatures(doc)[j].sequence = doc.ligatures[i].sequence.text
<1> DEFINE list == doc.ligatures
           S    == {i \in DOMAIN list : list[i].sequence.text # <<>>}
           kept == Kept(list, S)
           Good == EntriesAt(list, S)
<1>1. \A i \in DOMAIN list : list[i].sequence.text \in Str /\ list[i].result.text \in Str
  BY ParseOutput DEF Rejected, BadPair
<1>2. /\ \A i \in DOMAIN list \cap S : \E j \in DOMAIN kept : kept[j] = list[i]
      /\ kept \in Seq(Good)
  <2>1. list \in Seq(LigatureNodes \cup [sequence : TextNode, result : TextNode])
    BY DEF WellFormed
  <2> HIDE DEF list, S
  <2> QED BY <2>1, KeptEntries
<1>3. Ligatures(doc) = [i \in DOMAIN kept |->
                          [sequence |-> kept[i].sequence.text, result |-> kept[i].result.text]]
  BY DEF Ligatures
<1>4. \A e \in Good : e.sequence.text \in Str \ {<<>>} /\ e.result.text \in Str
  BY <1>1 DEF EntriesAt
<1>5. ASSUME NEW i \in DOMAIN list, list[i].sequence.text # <<>>
      PROVE  \E j \in DOMAIN kept : kept[j] = list[i]
  BY <1>2, <1>5
<1> HIDE DEF kept, Good, list
<1>6. DOMAIN kept = 1..Len(kept) /\ Len(kept) \in Nat /\ \A i \in DOMAIN kept : kept[i] \in Good
  BY <1>2, LenProperties, ElementOfSeq
<1>7. Ligatures(doc) \in Seq([sequence : Str, result : Str])
  <2>1. \A i \in 1..Len(kept) :
          [sequence |-> kept[i].sequence.text, result |-> kept[i].result.text]
            \in [sequence : Str, result : Str]
    BY <1>4, <1>6
  <2> QED BY <1>3, <1>6, <2>1, IsASeq
<1>8. \A i \in DOMAIN Ligatures(doc) : Ligatures(doc)[i].sequence # <<>>
  BY <1>3, <1>4, <1>6
<1>9. ASSUME NEW i \in DOMAIN list, list[i].sequence.text # <<>>
      PROVE  \E j \in DOMAIN Ligatures(doc) : Ligatures(doc)[j].sequence = list[i].sequence.text
  <2>1. PICK j \in DOMAIN kept : kept[j] = list[i]
    BY <1>5, <1>9
  <2> QED BY <1>3, <2>1
<1> QED BY <1>7, <1>8, <1>9 DEF list

\* The same of the compose sequences.
LEMMA ComposeTexts ==
  ASSUME NEW doc, WellFormed(doc), ~Rejected(doc)
  PROVE  /\ ComposeSequences(doc) \in Seq(Sequences(Scalar, Str))
         /\ \A i \in DOMAIN ComposeSequences(doc) : ComposeSequences(doc)[i].keys # <<>>
         /\ \A i \in DOMAIN doc.compose : doc.compose[i].keys.text # <<>> =>
              \E j \in DOMAIN ComposeSequences(doc) :
                ComposeSequences(doc)[j].keys = doc.compose[i].keys.text
<1> DEFINE list == doc.compose
           S    == {i \in DOMAIN list : list[i].keys.text # <<>>}
           kept == Kept(list, S)
           Good == EntriesAt(list, S)
<1>1. \A i \in DOMAIN list : list[i].keys.text \in Str /\ list[i].output.text \in Str
  BY ParseOutput DEF Rejected, BadPair
<1>2. /\ \A i \in DOMAIN list \cap S : \E j \in DOMAIN kept : kept[j] = list[i]
      /\ kept \in Seq(Good)
  <2>1. list \in Seq(ComposeNodes \cup [keys : TextNode, output : TextNode])
    BY DEF WellFormed
  <2> HIDE DEF list, S
  <2> QED BY <2>1, KeptEntries
<1>3. ComposeSequences(doc) = [i \in DOMAIN kept |->
                                 [keys |-> kept[i].keys.text, output |-> kept[i].output.text]]
  BY DEF ComposeSequences
<1>4. \A e \in Good : e.keys.text \in Str \ {<<>>} /\ e.output.text \in Str
  BY <1>1 DEF EntriesAt
<1>5. ASSUME NEW i \in DOMAIN list, list[i].keys.text # <<>>
      PROVE  \E j \in DOMAIN kept : kept[j] = list[i]
  BY <1>2, <1>5
<1> HIDE DEF kept, Good, list
<1>6. DOMAIN kept = 1..Len(kept) /\ Len(kept) \in Nat /\ \A i \in DOMAIN kept : kept[i] \in Good
  BY <1>2, LenProperties, ElementOfSeq
<1>7. ComposeSequences(doc) \in Seq(Sequences(Scalar, Str))
  <2>1. \A i \in 1..Len(kept) :
          [keys |-> kept[i].keys.text, output |-> kept[i].output.text] \in Sequences(Scalar, Str)
    BY <1>4, <1>6 DEF Sequences, Str
  <2> QED BY <1>3, <1>6, <2>1, IsASeq
<1>8. \A i \in DOMAIN ComposeSequences(doc) : ComposeSequences(doc)[i].keys # <<>>
  BY <1>3, <1>4, <1>6
<1>9. ASSUME NEW i \in DOMAIN list, list[i].keys.text # <<>>
      PROVE  \E j \in DOMAIN ComposeSequences(doc) : ComposeSequences(doc)[j].keys = list[i].keys.text
  <2>1. PICK j \in DOMAIN kept : kept[j] = list[i]
    BY <1>5, <1>9
  <2> QED BY <1>3, <2>1
<1> QED BY <1>7, <1>8, <1>9 DEF list

-----------------------------------------------------------------------------
(* The layout of a document.                                               *)

\* The parts of a layout that was parsed.
LEMMA ParsedLayout ==
  ASSUME NEW doc, WellFormed(doc), NEW l \in parse(doc)
  PROVE  /\ ~Rejected(doc)
         /\ l.capsMode = IF doc.capsMode \in CapsMode THEN doc.capsMode ELSE "Ignore"
         /\ l.normalize = doc.normalize
         /\ l.keys = KeysOf(doc)
         /\ l.deadKeys = [id \in DOMAIN doc.deadKeys |-> DeadKeyOf(doc.deadKeys[id])]
         /\ l.ligatures \in LigatureOrders(Ligatures(doc))
         /\ l.compose = ComposeSequences(doc)
         /\ Indexed(l, Scalar, Str)
<1> DEFINE bare == Bare(doc)
           all  == addComposes(bare, ComposeSequences(doc))
<1>1. ~Rejected(doc)
  BY DEF parse
<1>2. PICK o \in LigatureOrders(Ligatures(doc)) : l = [all EXCEPT !.ligatures = o]
  BY <1>1 DEF parse, Built
<1>3. /\ DOMAIN bare = {"capsMode", "normalize", "keys", "deadKeys", "ligatures"} \cup IndexFields
      /\ NoSequences(bare)
      /\ bare.capsMode = IF doc.capsMode \in CapsMode THEN doc.capsMode ELSE "Ignore"
      /\ bare.normalize = doc.normalize
      /\ bare.keys = KeysOf(doc)
      /\ bare.deadKeys = [id \in DOMAIN doc.deadKeys |-> DeadKeyOf(doc.deadKeys[id])]
  BY DEF Bare, NoSequences, IndexFields
<1> HIDE DEF bare
<1>4. ComposeSequences(doc) \in Seq(Sequences(Scalar, Str))
  BY <1>1, ComposeTexts
<1>5. /\ Indexed(all, Scalar, Str) /\ all.compose = ComposeSequences(doc)
      /\ DOMAIN all = DOMAIN bare
      /\ \A field \in DOMAIN bare \ IndexFields : all[field] = bare[field]
  BY <1>3, <1>4, AddComposesIndexed
<1> HIDE DEF all
<1>6. \A field \in DOMAIN all : field # "ligatures" => l[field] = all[field]
  BY <1>2
<1>7. DOMAIN l = DOMAIN all /\ l.ligatures = o
  BY <1>2, <1>3, <1>5
<1>8. /\ l.compose = all.compose /\ l.composeExact = all.composeExact
      /\ l.composePrefix = all.composePrefix /\ l.composeMaxLen = all.composeMaxLen
  BY <1>3, <1>5, <1>6 DEF IndexFields
<1>9. Indexed(l, Scalar, Str)
  BY <1>3, <1>5, <1>7, <1>8 DEF Indexed, ExactIsList, PrefixIsList, MaxLenBounds
<1>10. /\ l.capsMode = bare.capsMode /\ l.normalize = bare.normalize
       /\ l.keys = bare.keys /\ l.deadKeys = bare.deadKeys
  BY <1>3, <1>5, <1>6 DEF IndexFields
<1> QED BY <1>1, <1>2, <1>3, <1>5, <1>7, <1>8, <1>9, <1>10

\* The ligatures of a layout that was parsed.
LEMMA ParsedLigatures ==
  ASSUME NEW doc, WellFormed(doc), NEW l \in parse(doc)
  PROVE  /\ l.ligatures \in Seq([sequence : Str, result : Str])
         /\ SortedLongestFirst(l.ligatures)
         /\ l.ligatures \in Orders(Ligatures(doc))
         /\ \A i \in DOMAIN l.ligatures : l.ligatures[i].sequence # <<>>
         /\ \A j \in DOMAIN Ligatures(doc) : \E i \in DOMAIN l.ligatures :
              l.ligatures[i] = Ligatures(doc)[j]
<1>1. ~Rejected(doc) /\ l.ligatures \in Orders(Ligatures(doc)) /\ SortedLongestFirst(l.ligatures)
  BY ParsedLayout DEF LigatureOrders
<1>2. /\ Ligatures(doc) \in Seq([sequence : Str, result : Str])
      /\ \A i \in DOMAIN Ligatures(doc) : Ligatures(doc)[i].sequence # <<>>
  BY <1>1, LigatureTexts
<1> DEFINE o == l.ligatures
<1>3. /\ o \in Seq([sequence : Str, result : Str])
      /\ \A i \in DOMAIN o : \E j \in DOMAIN Ligatures(doc) : o[i] = Ligatures(doc)[j]
      /\ \A j \in DOMAIN Ligatures(doc) : \E i \in DOMAIN o : o[i] = Ligatures(doc)[j]
  BY <1>1, <1>2, OrdersEntries
<1> QED BY <1>1, <1>2, <1>3

\* The keys of a layout that was parsed.
LEMMA ParsedKeys ==
  ASSUME NEW doc, WellFormed(doc), NEW l \in parse(doc), NEW vk \in DOMAIN l.keys
  PROVE  \E n \in Names(doc) :
           /\ fromName[n] = vk /\ ~BadLevel(doc.keys[n])
           /\ l.keys[vk] = KeyOfNode(vk, doc.keys[n])
<1>1. ~BadKeys(doc) /\ l.keys = KeysOf(doc)
  BY ParsedLayout DEF Rejected
<1>2. PICK n \in Names(doc) : fromName[n] = vk
  <2>1. vk \in DOMAIN KeysOf(doc)
    BY <1>1
  <2>2. DOMAIN KeysOf(doc) = {fromName[n] : n \in Names(doc)}
    BY KeysOfDomain
  <2> QED BY <2>1, <2>2
<1> QED BY <1>1, <1>2, KeysOfNames

-----------------------------------------------------------------------------
(* Every document is well formed.                                          *)

LEMMA KeysHaveNames ==
  ASSUME NEW doc, WellFormed(doc), NEW l \in parse(doc), NEW vk \in DOMAIN l.keys
  PROVE  /\ vk \in DOMAIN toName /\ vk # NoVk
         /\ toName[vk] \in DOMAIN fromName /\ fromName[toName[vk]] = vk
<1>1. PICK n \in Names(doc) : fromName[n] = vk
  BY ParsedKeys
<1>2. n \in DOMAIN fromName /\ fromName[n] # NoVk
  BY DEF Names, WellFormed
<1> QED BY <1>1, <1>2, LayoutFileAssumption

\* What the serializer writes is one.
LEMMA SavedIsWellFormed ==
  ASSUME NEW doc, WellFormed(doc), NEW l \in parse(doc)
  PROVE  WellFormed(toJson(l))
<1> DEFINE new == toJson(l)
<1>1. /\ DOMAIN new = Sections
      /\ new.normalize = l.normalize
      /\ DOMAIN new.keys = {toName[vk] : vk \in DOMAIN l.keys}
      /\ new.ligatures = [i \in DOMAIN l.ligatures |->
                            [sequence |-> Text(l.ligatures[i].sequence), result |-> Text(l.ligatures[i].result)]]
      /\ new.compose = [i \in DOMAIN l.compose |->
                          [keys |-> Text(l.compose[i].keys), output |-> Text(l.compose[i].output)]]
  BY DEF toJson, Sections
<1> HIDE DEF new
<1>2. new.normalize \in BOOLEAN
  BY <1>1, ParsedLayout DEF WellFormed
<1>3. DOMAIN new.keys \subseteq DOMAIN fromName
  BY <1>1, KeysHaveNames
<1>4. \A s \in Str : Text(s) \in TextNode
  BY DEF Text, TextNode
<1>5. new.ligatures \in Seq(LigatureNodes \cup [sequence : TextNode, result : TextNode])
  <2> DEFINE o == l.ligatures
             X == LigatureNodes \cup [sequence : TextNode, result : TextNode]
  <2>1. o \in Seq([sequence : Str, result : Str])
    BY ParsedLigatures
  <2> HIDE DEF o
  <2>2. Len(o) \in Nat /\ DOMAIN o = 1..Len(o) /\ \A i \in 1..Len(o) : o[i] \in [sequence : Str, result : Str]
    BY <2>1, LenProperties, ElementOfSeq
  <2>3. \A i \in 1..Len(o) : [sequence |-> Text(o[i].sequence), result |-> Text(o[i].result)] \in X
    BY <1>4, <2>2
  <2>4. new.ligatures = [i \in 1..Len(o) |-> [sequence |-> Text(o[i].sequence), result |-> Text(o[i].result)]]
    BY <1>1, <2>2 DEF o
  <2> HIDE DEF X
  <2>5. new.ligatures \in Seq(X)
    BY <2>2, <2>3, <2>4, IsASeq
  <2> QED BY <2>5 DEF X
<1>6. new.compose \in Seq(ComposeNodes \cup [keys : TextNode, output : TextNode])
  <2> DEFINE o == l.compose
             X == ComposeNodes \cup [keys : TextNode, output : TextNode]
  <2>1. o \in Seq(Sequences(Scalar, Str))
    BY ParsedLayout DEF Indexed
  <2> HIDE DEF o
  <2>2. Len(o) \in Nat /\ DOMAIN o = 1..Len(o) /\ \A i \in 1..Len(o) : o[i] \in [keys : Str, output : Str]
    BY <2>1, LenProperties, ElementOfSeq DEF Sequences, Str
  <2>3. \A i \in 1..Len(o) : [keys |-> Text(o[i].keys), output |-> Text(o[i].output)] \in X
    BY <1>4, <2>2
  <2>4. new.compose = [i \in 1..Len(o) |-> [keys |-> Text(o[i].keys), output |-> Text(o[i].output)]]
    BY <1>1, <2>2 DEF o
  <2> HIDE DEF X
  <2>5. new.compose \in Seq(X)
    BY <2>2, <2>3, <2>4, IsASeq
  <2> QED BY <2>5 DEF X
<1> QED BY <1>1, <1>2, <1>3, <1>5, <1>6 DEF WellFormed, new

\* So is what the user writes.
LEMMA FileInitIsWellFormed == FileInit => WellFormed(text)
<1> SUFFICES ASSUME NEW keys \in Templates,
                    text = [capsMode |-> "Ignore", normalize |-> TRUE, keys |-> keys,
                            deadKeys |-> [id \in {} |-> Null], ligatures |-> <<>>, compose |-> <<>>]
             PROVE  WellFormed(text)
  BY DEF FileInit
<1>1. /\ DOMAIN text = Sections /\ text.normalize = TRUE /\ text.keys = keys
      /\ text.ligatures = <<>> /\ text.compose = <<>>
  BY DEF Sections
<1>2. DOMAIN keys \subseteq DOMAIN fromName
  BY LayoutFileAssumption
<1>3. <<>> \in Seq(LigatureNodes \cup [sequence : TextNode, result : TextNode])
      /\ <<>> \in Seq(ComposeNodes \cup [keys : TextNode, output : TextNode])
  BY EmptySeq
<1> QED BY <1>1, <1>2, <1>3 DEF WellFormed

LEMMA FileNextIsWellFormed == WellFormed(text) /\ [FileNext]_text => WellFormed(text')
<1> SUFFICES ASSUME WellFormed(text), [FileNext]_text PROVE WellFormed(text')
  OBVIOUS
<1> USE DEF Sections
<1>1. ASSUME NEW n \in DOMAIN KeyNodes, NEW node, WriteKey(n, node) PROVE WellFormed(text')
  <2>1. text' = [text EXCEPT !.keys = With(@, n, node)]
    BY <1>1 DEF WriteKey
  <2>2. DOMAIN With(text.keys, n, node) = DOMAIN text.keys \cup {n}
    BY DEF With
  <2>3. n \in DOMAIN fromName
    BY LayoutFileAssumption
  <2> QED BY <2>1, <2>2, <2>3 DEF WellFormed
<1>2. ASSUME NEW id, NEW node, WriteDead(id, node) PROVE WellFormed(text')
  BY <1>2 DEF WriteDead, WellFormed
<1>3. ASSUME NEW e \in LigatureNodes, WriteLigature(e) PROVE WellFormed(text')
  <2>1. Append(text.ligatures, e) \in Seq(LigatureNodes \cup [sequence : TextNode, result : TextNode])
    BY AppendProperties DEF WellFormed
  <2> QED BY <1>3, <2>1 DEF WriteLigature, WellFormed
<1>4. ASSUME NEW e \in ComposeNodes, WriteCompose(e) PROVE WellFormed(text')
  <2>1. Append(text.compose, e) \in Seq(ComposeNodes \cup [keys : TextNode, output : TextNode])
    BY AppendProperties DEF WellFormed
  <2> QED BY <1>4, <2>1 DEF WriteCompose, WellFormed
<1>5. ASSUME NEW b \in Behaviors, WriteBehavior(b) PROVE WellFormed(text')
  <2>1. b.normalize \in BOOLEAN
    BY LayoutFileAssumption
  <2> QED BY <1>5, <2>1 DEF WriteBehavior, WellFormed
<1>6. CASE Resave
  BY <1>6, SavedIsWellFormed DEF Resave
<1>7. CASE UNCHANGED text
  BY <1>7
<1> QED BY <1>1, <1>2, <1>3, <1>4, <1>5, <1>6, <1>7 DEF FileNext

-----------------------------------------------------------------------------
(* What holds of every layout that is parsed.                              *)

\* Nothing is dropped: every level that is not null has its action, every
\* ligature and every compose sequence that is not empty is there.
LEMMA CompleteLayout == WellFormed(text) => AcceptedIsComplete
<1> SUFFICES ASSUME WellFormed(text), NEW l \in parse(text)
             PROVE  /\ \A n \in Names(text) : \A lvl \in Level :
                         LevelNodes(text.keys[n])[lvl] # Null => l.keys[fromName[n]].levels[lvl].kind # "None"
                    /\ \A i \in DOMAIN text.ligatures : text.ligatures[i].sequence.text # <<>> =>
                         \E j \in DOMAIN l.ligatures : l.ligatures[j].sequence = text.ligatures[i].sequence.text
                    /\ \A i \in DOMAIN text.compose : text.compose[i].keys.text # <<>> =>
                         text.compose[i].keys.text \in DOMAIN l.composeExact
  BY DEF AcceptedIsComplete
<1>1. ~Rejected(text) /\ l.keys = KeysOf(text) /\ l.compose = ComposeSequences(text)
      /\ Indexed(l, Scalar, Str)
  BY ParsedLayout
<1>2. ASSUME NEW n \in Names(text), NEW lvl \in Level, LevelNodes(text.keys[n])[lvl] # Null
      PROVE  l.keys[fromName[n]].levels[lvl].kind # "None"
  <2>1. l.keys[fromName[n]] = KeyOfNode(fromName[n], text.keys[n]) /\ ~BadLevel(text.keys[n])
    BY <1>1, KeysOfNames DEF Rejected
  <2>2. IsParsed(l.keys[fromName[n]].levels[lvl])
    BY <1>2, <2>1, KeyOfNodeActions
  <2> QED BY <2>2, ParsedFields
<1>3. ASSUME NEW i \in DOMAIN text.ligatures, text.ligatures[i].sequence.text # <<>>
      PROVE  \E j \in DOMAIN l.ligatures : l.ligatures[j].sequence = text.ligatures[i].sequence.text
  <2>1. PICK k \in DOMAIN Ligatures(text) :
          Ligatures(text)[k].sequence = text.ligatures[i].sequence.text
    BY <1>1, <1>3, LigatureTexts
  <2>2. PICK j \in DOMAIN l.ligatures : l.ligatures[j] = Ligatures(text)[k]
    BY ParsedLigatures
  <2> QED BY <2>1, <2>2
<1>4. ASSUME NEW i \in DOMAIN text.compose, text.compose[i].keys.text # <<>>
      PROVE  text.compose[i].keys.text \in DOMAIN l.composeExact
  <2>1. PICK j \in DOMAIN ComposeSequences(text) :
          ComposeSequences(text)[j].keys = text.compose[i].keys.text
    BY <1>1, <1>4, ComposeTexts
  <2>2. DOMAIN l.composeExact = {l.compose[k].keys : k \in DOMAIN l.compose} \ {<<>>}
    BY <1>1 DEF Indexed, ExactIsList
  <2> QED BY <1>1, <1>4, <2>1, <2>2
<1> QED BY <1>2, <1>3, <1>4

\* A layout that is also validated is one the Composer can work on.
LEMMA ValidIsComposable == WellFormed(text) => ActivatedIsComposable
<1> SUFFICES ASSUME WellFormed(text), NEW l \in parse(text), validate(l)
             PROVE  IsLayout(l, Scalar, Seq(Scalar), DOMAIN l.deadKeys \cup {NoDead})
  BY DEF ActivatedIsComposable
<1> DEFINE ids == DOMAIN l.deadKeys \cup {NoDead}
<1>1. ~Rejected(text) /\ Indexed(l, Scalar, Str)
  BY ParsedLayout
<1>2. l.capsMode \in CapsMode /\ l.normalize \in BOOLEAN
  <2>1. "Ignore" \in CapsMode
    BY DEF CapsMode
  <2> QED BY <2>1, ParsedLayout DEF WellFormed
<1>3. ASSUME NEW vk \in DOMAIN l.keys
      PROVE  /\ l.keys[vk].cased \in BOOLEAN
             /\ \A lvl \in Level : l.keys[vk].levels[lvl] \in KeyAction(Seq(Scalar), ids)
  <2>1. PICK n \in Names(text) : ~BadLevel(text.keys[n]) /\ l.keys[vk] = KeyOfNode(vk, text.keys[n])
    BY ParsedKeys
  <2>2. l.keys[vk].cased \in BOOLEAN
    <3>1. "Base" \in Level
      BY DEF Level
    <3> QED BY <2>1, <3>1, KeyOfNodeActions
  <2>3. ASSUME NEW lvl \in Level PROVE l.keys[vk].levels[lvl] \in KeyAction(Seq(Scalar), ids)
    <3> DEFINE a == l.keys[vk].levels[lvl]
    <3>1. a = NoAction \/ IsParsed(a)
      BY <2>1, KeyOfNodeActions
    <3>2. a.kind = "DeadKey" => a.deadKey \in DOMAIN l.deadKeys
      BY DEF validate, DeadKeysDefined
    <3> HIDE DEF a
    <3>3. NoAction \in KeyAction(Seq(Scalar), ids)
      BY EmptySeq DEF NoAction, KeyAction, ActionKind
    <3>4. ASSUME NEW s \in Str PROVE EmitAction(s) \in KeyAction(Seq(Scalar), ids)
      BY DEF EmitAction, NoAction, KeyAction, ActionKind, Str
    <3>5. ASSUME NEW id \in DOMAIN l.deadKeys PROVE DeadAction(id) \in KeyAction(Seq(Scalar), ids)
      BY EmptySeq DEF DeadAction, NoAction, KeyAction, ActionKind
    <3>6. ComposeAction \in KeyAction(Seq(Scalar), ids)
      BY EmptySeq DEF ComposeAction, NoAction, KeyAction, ActionKind
    <3>7. CASE IsParsed(a)
      <4>1. a.kind \in {"Emit", "DeadKey", "Compose"} /\ a.output \in Str
            /\ (a.kind = "Emit" => a = EmitAction(a.output))
            /\ (a.kind = "DeadKey" => a = DeadAction(a.deadKey))
            /\ (a.kind = "Compose" => a = ComposeAction)
        BY <3>7, ParsedFields
      <4> QED BY <3>2, <3>4, <3>5, <3>6, <4>1 DEF a
    <3> QED BY <3>1, <3>3, <3>7 DEF a
  <2> QED BY <2>2, <2>3
<1>4. ASSUME NEW id \in DOMAIN l.deadKeys
      PROVE  /\ l.deadKeys[id].standalone \in Seq(Scalar)
             /\ \A cp \in DOMAIN l.deadKeys[id].compositions : l.deadKeys[id].compositions[cp] \in Seq(Scalar)
  BY DEF validate, allScalar
<1>5. l.ligatures \in Seq([sequence : Seq(Scalar), result : Seq(Scalar)]) /\ SortedLongestFirst(l.ligatures)
  BY ParsedLigatures DEF Str
<1>6. /\ l.composeMaxLen \in Nat
      /\ \A k \in DOMAIN l.composeExact : l.composeExact[k] \in Str
      /\ \A p \in l.composePrefix :
           /\ p \in Seq(Scalar) /\ p # <<>>
           /\ Len(p) = 1 \/ SubSeq(p, 1, Len(p) - 1) \in l.composePrefix
  BY <1>1, IndexedIsComposable
<1> QED BY <1>2, <1>3, <1>4, <1>5, <1>6 DEF IsLayout, Str

\* The compose indexes answer what a scan of the list would.
LEMMA LookupScans == WellFormed(text) => LookupIsScan
<1> SUFFICES ASSUME WellFormed(text), NEW l \in parse(text), NEW buffer \in Buffers
             PROVE  /\ composeLookup(l, buffer) = ScanLookup(l, buffer)
                    /\ composeLookup(l, buffer) = "Exact" =>
                         LET at == {i \in DOMAIN l.compose : l.compose[i].keys = buffer}
                         IN  \E i \in at : (\A j \in at : j <= i) /\ l.composeExact[buffer] = l.compose[i].output
  BY DEF LookupIsScan
<1>1. Indexed(l, Scalar, Str) /\ buffer \in Seq(Scalar)
  BY ParsedLayout, LayoutFileAssumption
<1> DEFINE begins(i) == /\ Len(buffer) <= Len(l.compose[i].keys)
                        /\ buffer = SubSeq(l.compose[i].keys, 1, Len(buffer))
           scan == IF buffer # <<>> /\ \E i \in DOMAIN l.compose : l.compose[i].keys = buffer
                   THEN "Exact"
                   ELSE IF \E i \in DOMAIN l.compose : begins(i) THEN "Prefix" ELSE "None"
<1>2. composeLookup(l, buffer) = scan
  BY <1>1, LookupOfIndexed
<1>3. SubSeq(buffer, 1, Len(buffer)) = buffer
  BY <1>1, SubSeqFull
<1>4. \A i \in DOMAIN l.compose : IsPrefix(buffer, l.compose[i].keys) <=> begins(i)
  BY <1>3 DEF IsPrefix
<1>5. ScanLookup(l, buffer) = scan
  <2> HIDE DEF begins
  <2> QED BY <1>4 DEF ScanLookup
<1>6. ASSUME composeLookup(l, buffer) = "Exact"
      PROVE  LET at == {i \in DOMAIN l.compose : l.compose[i].keys = buffer}
             IN  \E i \in at : (\A j \in at : j <= i) /\ l.composeExact[buffer] = l.compose[i].output
  <2>1. buffer # <<>> /\ \E i \in DOMAIN l.compose : l.compose[i].keys = buffer
    BY <1>2, <1>6
  <2>2. buffer \in DOMAIN l.composeExact
    BY <1>1, <2>1 DEF Indexed, ExactIsList
  <2> QED BY <1>1, <2>2 DEF Indexed, ExactIsList
<1> QED BY <1>2, <1>5, <1>6

\* The ligature that is applied is a longest one.
LEMMA FirstIsLongest == WellFormed(text) => LongestLigatureWins
<1> SUFFICES ASSUME WellFormed(text), NEW l \in parse(text), NEW s \in Buffers, NEW i \in Matches(l, s)
             PROVE  Len(matchLigature(l, s).sequence) >= Len(l.ligatures[i].sequence)
  BY DEF LongestLigatureWins
<1>1. l.ligatures \in Seq([sequence : Seq(Scalar), result : Str]) /\ SortedLongestFirst(l.ligatures)
  BY ParsedLigatures DEF Str
<1> QED BY <1>1, FirstMatchIsLongest

\* Caps Lock is Shift, or its inversion, or nothing.
LEMMA CapsPolicy == WellFormed(text) => CapsLockFollowsPolicy
<1> SUFFICES ASSUME WellFormed(text), NEW l \in parse(text), NEW vk \in DOMAIN l.keys,
                    NEW shift \in BOOLEAN, NEW altgr \in BOOLEAN
             PROVE  LET of(s, caps) == resolve(l, [vk |-> vk, shift |-> s, altgr |-> altgr, caps |-> caps])
                    IN  of(shift, TRUE) =
                          IF ~(l.keys[vk].cased /\ isLetter(vk)) THEN of(shift, FALSE)
                          ELSE CASE l.capsMode = "Ignore"       -> of(shift, FALSE)
                                 [] l.capsMode = "ShiftLetters" -> of(TRUE, FALSE)
                                 [] l.capsMode = "Invert"       -> of(~shift, FALSE)
  BY DEF CapsLockFollowsPolicy
<1>1. l.capsMode \in CapsMode
  <2>1. "Ignore" \in CapsMode
    BY DEF CapsMode
  <2> QED BY <2>1, ParsedLayout
<1>2. l.keys[vk].cased \in BOOLEAN
  <2>1. PICK n \in Names(text) : ~BadLevel(text.keys[n]) /\ l.keys[vk] = KeyOfNode(vk, text.keys[n])
    BY ParsedKeys
  <2>2. "Base" \in Level
    BY DEF Level
  <2> QED BY <2>1, <2>2, KeyOfNodeActions
<1> QED BY <1>1, <1>2, CapsIsShift

-----------------------------------------------------------------------------
(* Saving a layout that was opened.                                        *)

\* A key that has an action is written as a node from which it is parsed again.
LEMMA KeyRoundTrip ==
  ASSUME NEW vk, NEW node, ~BadLevel(node), NEW def, def = KeyOfNode(vk, node),
         WrittenLevels(def) # {}
  PROVE  LET new == Obj([lvl \in WrittenLevels(def) |-> actionJson(def.levels[lvl])])
         IN  ~BadLevel(new) /\ KeyOfNode(vk, new) = def
<1> DEFINE new == Obj([lvl \in WrittenLevels(def) |-> actionJson(def.levels[lvl])])
<1>1. /\ def = [cased |-> def.cased, levels |-> def.levels]
      /\ def.cased = (isLetter(vk) /\ \E lvl \in Level : LevelNodes(node)[lvl] # Null)
      /\ def.levels = [lvl \in Level |-> def.levels[lvl]]
  BY KeyOfNodeLevels
<1>2. \A lvl \in Level : IF LevelNodes(node)[lvl] = Null THEN def.levels[lvl] = NoAction
                          ELSE IsParsed(def.levels[lvl])
  BY KeyOfNodeActions
<1>3. \A lvl \in Level : lvl \in WrittenLevels(def) <=> def.levels[lvl].kind # "None"
  BY DEF WrittenLevels
<1>4. \A lvl \in Level : IF lvl \in WrittenLevels(def) THEN IsParsed(def.levels[lvl])
                          ELSE def.levels[lvl] = NoAction /\ LevelNodes(node)[lvl] = Null
  BY <1>2, <1>3, ParsedFields DEF NoAction
<1>5. \A lvl \in Level : LevelNodes(new)[lvl] =
                            IF lvl \in WrittenLevels(def) THEN actionJson(def.levels[lvl]) ELSE Null
  <2>1. new.t = "obj" /\ new.obj = [lvl \in WrittenLevels(def) |-> actionJson(def.levels[lvl])]
    BY DEF Obj
  <2>2. \A f : Has(new, f) <=> f \in WrittenLevels(def)
    BY <2>1 DEF Has
  <2>3. \A lvl \in Level : Field(new, lvl) =
                              IF lvl \in WrittenLevels(def) THEN actionJson(def.levels[lvl]) ELSE Null
    BY <2>1, <2>2 DEF Field
  <2> HIDE DEF new
  <2>4. \E lvl \in Level : Has(new, lvl)
    BY <2>2 DEF WrittenLevels
  <2>5. LevelNodes(new) = [lvl \in Level |-> Field(new, lvl)]
    BY <2>4 DEF LevelNodes
  <2> QED BY <2>3, <2>5
<1> HIDE DEF new
<1>6. \A lvl \in Level : LevelNodes(new)[lvl] # Null <=> lvl \in WrittenLevels(def)
  BY <1>4, <1>5, ActionRoundTrip
<1>7. \A lvl \in Level : lvl \in WrittenLevels(def) => parseAction(LevelNodes(new)[lvl]) = {def.levels[lvl]}
  BY <1>4, <1>5, ActionRoundTrip
<1>8. ~BadLevel(new)
  BY <1>6, <1>7 DEF BadLevel
<1> DEFINE again == KeyOfNode(vk, new)
<1>9. /\ again = [cased |-> again.cased, levels |-> again.levels]
      /\ again.cased = (isLetter(vk) /\ \E lvl \in Level : LevelNodes(new)[lvl] # Null)
      /\ again.levels = [lvl \in Level |-> again.levels[lvl]]
      /\ \A lvl \in Level :
           IF LevelNodes(new)[lvl] = Null THEN again.levels[lvl] = NoAction
           ELSE again.levels[lvl] \in parseAction(LevelNodes(new)[lvl])
  BY <1>8, KeyOfNodeLevels
<1> HIDE DEF again
<1>10. \A lvl \in Level : again.levels[lvl] = def.levels[lvl]
  BY <1>4, <1>6, <1>7, <1>9
<1>11. again.levels = def.levels
  BY <1>1, <1>9, <1>10
<1>12. again.cased = def.cased
  <2>1. \E lvl \in Level : LevelNodes(node)[lvl] # Null
    BY <1>2, <1>3 DEF WrittenLevels, NoAction
  <2>2. \E lvl \in Level : LevelNodes(new)[lvl] # Null
    BY <1>6 DEF WrittenLevels
  <2> QED BY <1>1, <1>9, <2>1, <2>2
<1> QED BY <1>1, <1>8, <1>9, <1>11, <1>12 DEF new, again

\* So is a dead key.
LEMMA DeadKeyRoundTrip ==
  ASSUME NEW spec, ~BadDeadKey(spec), NEW dk, dk = DeadKeyOf(spec)
  PROVE  LET new == Obj([standalone |-> Text(dk.standalone),
                         compose    |-> Table([cp \in DOMAIN dk.compositions |-> Text(dk.compositions[cp])])])
         IN  ~BadDeadKey(new) /\ DeadKeyOf(new) = dk
<1> DEFINE comps == IF Field(spec, "compose").t = "table" THEN spec.obj["compose"].table ELSE [cp \in {} |-> Null]
           new   == Obj([standalone |-> Text(dk.standalone),
                         compose    |-> Table([cp \in DOMAIN dk.compositions |-> Text(dk.compositions[cp])])])
<1>1. /\ dk = [standalone |-> dk.standalone, compositions |-> dk.compositions]
      /\ dk.standalone = IF Field(spec, "standalone") = Null THEN <<>> ELSE spec.obj["standalone"].text
      /\ dk.compositions = [cp \in DOMAIN comps |-> comps[cp].text]
  BY DEF DeadKeyOf
<1>2. dk.standalone \in Str
  <2>1. CASE Field(spec, "standalone") = Null
    BY <1>1, <2>1, EmptySeq DEF Str
  <2>2. CASE Field(spec, "standalone") # Null
    <3>1. Field(spec, "standalone") = spec.obj["standalone"]
      BY <2>2 DEF Field
    <3>2. parseOutput(Field(spec, "standalone")) # {}
      BY <2>2 DEF BadDeadKey
    <3> QED BY <1>1, <2>2, <3>1, <3>2, ParseOutput
  <2> QED BY <2>1, <2>2
<1>3. \A cp \in DOMAIN comps : cp \in Scalar /\ comps[cp].text \in Str
  BY ParseOutput DEF BadDeadKey
<1> HIDE DEF comps
<1>4. /\ dk.compositions = [cp \in DOMAIN dk.compositions |-> dk.compositions[cp]]
      /\ \A cp \in DOMAIN dk.compositions : cp \in Scalar /\ dk.compositions[cp] \in Str
  BY <1>1, <1>3
<1> DEFINE table == [cp \in DOMAIN dk.compositions |-> Text(dk.compositions[cp])]
<1>5. /\ Field(new, "standalone") = Text(dk.standalone) /\ new.obj["standalone"] = Text(dk.standalone)
      /\ Field(new, "compose") = Table(table) /\ new.obj["compose"] = Table(table)
  BY DEF Field, Has, Obj
<1> HIDE DEF new
<1>6. /\ \A s : Text(s).t = "text" /\ Text(s).text = s /\ Text(s) # Null
      /\ \A f : Table(f).t = "table" /\ Table(f).table = f
  BY DEF Text, Table, Null
<1>7. \A s \in Str : parseOutput(Text(s)) # {}
  BY <1>6, ParseOutput
<1>8. /\ DOMAIN table = DOMAIN dk.compositions
      /\ \A cp \in DOMAIN table : table[cp] = Text(dk.compositions[cp])
  OBVIOUS
<1> HIDE DEF table
<1>9. ~BadDeadKey(new)
  BY <1>2, <1>4, <1>5, <1>6, <1>7, <1>8 DEF BadDeadKey
<1>10. /\ DeadKeyOf(new).standalone = dk.standalone
       /\ DeadKeyOf(new).compositions = [cp \in DOMAIN table |-> table[cp].text]
       /\ DeadKeyOf(new) = [standalone |-> DeadKeyOf(new).standalone,
                            compositions |-> DeadKeyOf(new).compositions]
  BY <1>5, <1>6 DEF DeadKeyOf
<1>11. [cp \in DOMAIN table |-> table[cp].text] = dk.compositions
  BY <1>4, <1>6, <1>8
<1> QED BY <1>1, <1>9, <1>10, <1>11 DEF new, table

\* The ligatures are written and read in the order they have.
LEMMA LigaturesRoundTrip ==
  ASSUME NEW doc, NEW o \in Seq([sequence : Str, result : Str]),
         \A i \in DOMAIN o : o[i].sequence # <<>>,
         doc.ligatures = [i \in DOMAIN o |-> [sequence |-> Text(o[i].sequence), result |-> Text(o[i].result)]]
  PROVE  /\ Ligatures(doc) = o
         /\ \A i \in DOMAIN doc.ligatures : ~BadPair(doc.ligatures[i].sequence, doc.ligatures[i].result)
<1> DEFINE list == doc.ligatures
           S    == {i \in DOMAIN list : list[i].sequence.text # <<>>}
           X    == {list[i] : i \in DOMAIN list}
<1>1. /\ \A s : Text(s).t = "text" /\ Text(s).text = s
  BY DEF Text
<1>2. /\ Len(o) \in Nat /\ DOMAIN o = 1..Len(o) /\ o = [i \in DOMAIN o |-> o[i]]
      /\ \A i \in DOMAIN o : o[i] \in [sequence : Str, result : Str]
  BY LenProperties, ElementOfSeq
<1>3. /\ DOMAIN list = DOMAIN o
      /\ \A i \in DOMAIN o : /\ list[i].sequence = Text(o[i].sequence)
                            /\ list[i].result = Text(o[i].result)
      /\ list = [i \in 1..Len(o) |-> list[i]]
  BY <1>2
<1> HIDE DEF list
<1>4. list \in Seq(X)
  BY <1>2, <1>3, IsASeq
<1>5. DOMAIN list \subseteq S
  <2>1. \A i \in DOMAIN list : list[i].sequence.text = o[i].sequence
    BY <1>1, <1>3
  <2>2. \A i \in DOMAIN list : o[i].sequence # <<>>
    BY <1>3
  <2> QED BY <2>1, <2>2, Zenon
<1>6. Kept(list, S) = list
  <2> HIDE DEF S, X
  <2> QED BY <1>4, <1>5, KeptAll
<1>7. Ligatures(doc) = [i \in DOMAIN list |-> [sequence |-> list[i].sequence.text, result |-> list[i].result.text]]
  <2>1. Ligatures(doc) = LET kept == Kept(list, S)
                         IN  [i \in DOMAIN kept |-> [sequence |-> kept[i].sequence.text, result |-> kept[i].result.text]]
    BY DEF Ligatures, list
  <2> HIDE DEF S
  <2> QED BY <1>6, <2>1
<1>8. \A i \in DOMAIN o : [sequence |-> list[i].sequence.text, result |-> list[i].result.text] = o[i]
  BY <1>1, <1>2, <1>3
<1>9. \A i \in DOMAIN list : ~BadPair(list[i].sequence, list[i].result)
  BY <1>1, <1>2, <1>3, ParseOutput DEF BadPair
<1> QED BY <1>2, <1>3, <1>7, <1>8, <1>9 DEF list

\* And the compose sequences.
LEMMA ComposeRoundTrip ==
  ASSUME NEW doc, NEW o \in Seq(Sequences(Scalar, Str)),
         \A i \in DOMAIN o : o[i].keys # <<>>,
         doc.compose = [i \in DOMAIN o |-> [keys |-> Text(o[i].keys), output |-> Text(o[i].output)]]
  PROVE  /\ ComposeSequences(doc) = o
         /\ \A i \in DOMAIN doc.compose : ~BadPair(doc.compose[i].keys, doc.compose[i].output)
<1> DEFINE list == doc.compose
           S    == {i \in DOMAIN list : list[i].keys.text # <<>>}
           X    == {list[i] : i \in DOMAIN list}
<1>1. /\ \A s : Text(s).t = "text" /\ Text(s).text = s
  BY DEF Text
<1>2. /\ Len(o) \in Nat /\ DOMAIN o = 1..Len(o) /\ o = [i \in DOMAIN o |-> o[i]]
      /\ \A i \in DOMAIN o : o[i] \in [keys : Str, output : Str]
  BY LenProperties, ElementOfSeq DEF Sequences, Str
<1>3. /\ DOMAIN list = DOMAIN o
      /\ \A i \in DOMAIN o : list[i].keys = Text(o[i].keys) /\ list[i].output = Text(o[i].output)
      /\ list = [i \in 1..Len(o) |-> list[i]]
  BY <1>2
<1> HIDE DEF list
<1>4. list \in Seq(X)
  BY <1>2, <1>3, IsASeq
<1>5. DOMAIN list \subseteq S
  <2>1. \A i \in DOMAIN list : list[i].keys.text = o[i].keys
    BY <1>1, <1>3
  <2>2. \A i \in DOMAIN list : o[i].keys # <<>>
    BY <1>3
  <2> QED BY <2>1, <2>2, Zenon
<1>6. Kept(list, S) = list
  <2> HIDE DEF S, X
  <2> QED BY <1>4, <1>5, KeptAll
<1>7. ComposeSequences(doc) = [i \in DOMAIN list |-> [keys |-> list[i].keys.text, output |-> list[i].output.text]]
  <2>1. ComposeSequences(doc) = LET kept == Kept(list, S)
                                IN  [i \in DOMAIN kept |-> [keys |-> kept[i].keys.text, output |-> kept[i].output.text]]
    BY DEF ComposeSequences, list
  <2> HIDE DEF S
  <2> QED BY <1>6, <2>1
<1>8. \A i \in DOMAIN o : [keys |-> list[i].keys.text, output |-> list[i].output.text] = o[i]
  BY <1>1, <1>2, <1>3
<1>9. \A i \in DOMAIN list : ~BadPair(list[i].keys, list[i].output)
  BY <1>1, <1>2, <1>3, ParseOutput DEF BadPair
<1> QED BY <1>2, <1>3, <1>7, <1>8, <1>9 DEF list

\* Saving an opened layout and opening it again gives the same layouts.
LEMMA SaveRoundTrip ==
  ASSUME NEW doc, WellFormed(doc), NEW l \in parse(doc), EveryKeyMapped(l)
  PROVE  parse(toJson(l)) = parse(doc)
<1> DEFINE new == toJson(l)
           written(def) == Obj([lvl \in WrittenLevels(def) |-> actionJson(def.levels[lvl])])
<1>1. /\ ~Rejected(doc)
      /\ l.capsMode = IF doc.capsMode \in CapsMode THEN doc.capsMode ELSE "Ignore"
      /\ l.normalize = doc.normalize
      /\ l.keys = KeysOf(doc)
      /\ l.deadKeys = [id \in DOMAIN doc.deadKeys |-> DeadKeyOf(doc.deadKeys[id])]
      /\ l.ligatures \in LigatureOrders(Ligatures(doc))
      /\ l.compose = ComposeSequences(doc)
  BY ParsedLayout
<1>2. /\ new.capsMode = l.capsMode /\ new.normalize = l.normalize
      /\ new.keys = [n \in {toName[vk] : vk \in DOMAIN l.keys} |-> written(l.keys[fromName[n]])]
      /\ new.deadKeys = [id \in DOMAIN l.deadKeys |->
                           Obj([standalone |-> Text(l.deadKeys[id].standalone),
                                compose    |-> Table([cp \in DOMAIN l.deadKeys[id].compositions |->
                                                        Text(l.deadKeys[id].compositions[cp])])])]
      /\ new.ligatures = [i \in DOMAIN l.ligatures |->
                            [sequence |-> Text(l.ligatures[i].sequence), result |-> Text(l.ligatures[i].result)]]
      /\ new.compose = [i \in DOMAIN l.compose |->
                          [keys |-> Text(l.compose[i].keys), output |-> Text(l.compose[i].output)]]
  BY DEF toJson
<1> HIDE DEF new, written
\* The lists.
<1>3. Ligatures(new) = l.ligatures
      /\ \A i \in DOMAIN new.ligatures : ~BadPair(new.ligatures[i].sequence, new.ligatures[i].result)
  <2>1. /\ l.ligatures \in Seq([sequence : Str, result : Str])
        /\ \A i \in DOMAIN l.ligatures : l.ligatures[i].sequence # <<>>
    BY ParsedLigatures
  <2> QED BY <1>2, <2>1, LigaturesRoundTrip
<1>4. LigatureOrders(Ligatures(new)) = LigatureOrders(Ligatures(doc))
  <2>1. Ligatures(doc) \in Seq([sequence : Str, result : Str])
    BY <1>1, LigatureTexts
  <2>2. Orders(l.ligatures) = Orders(Ligatures(doc))
    BY <2>1, ParsedLigatures, OrdersOfOrder
  <2> QED BY <1>3, <2>2 DEF LigatureOrders
<1>5. ComposeSequences(new) = ComposeSequences(doc)
      /\ \A i \in DOMAIN new.compose : ~BadPair(new.compose[i].keys, new.compose[i].output)
  <2>1. /\ l.compose \in Seq(Sequences(Scalar, Str))
        /\ \A i \in DOMAIN l.compose : l.compose[i].keys # <<>>
    BY <1>1, ComposeTexts
  <2>2. ComposeSequences(new) = l.compose
        /\ \A i \in DOMAIN new.compose : ~BadPair(new.compose[i].keys, new.compose[i].output)
    BY <1>2, <2>1, ComposeRoundTrip
  <2> QED BY <1>1, <2>2
\* The dead keys.
<1>6. ASSUME NEW id \in DOMAIN doc.deadKeys
      PROVE  ~BadDeadKey(new.deadKeys[id]) /\ DeadKeyOf(new.deadKeys[id]) = l.deadKeys[id]
  <2> DEFINE dk == l.deadKeys[id]
  <2>1. dk = DeadKeyOf(doc.deadKeys[id]) /\ ~BadDeadKey(doc.deadKeys[id])
    BY <1>1 DEF Rejected
  <2>2. new.deadKeys[id] =
          Obj([standalone |-> Text(dk.standalone),
               compose    |-> Table([cp \in DOMAIN dk.compositions |-> Text(dk.compositions[cp])])])
    BY <1>1, <1>2
  <2> HIDE DEF dk
  <2>3. ~BadDeadKey(new.deadKeys[id]) /\ DeadKeyOf(new.deadKeys[id]) = dk
    BY <2>1, <2>2, DeadKeyRoundTrip
  <2> QED BY <2>3 DEF dk
<1>7. DOMAIN new.deadKeys = DOMAIN doc.deadKeys
  BY <1>1, <1>2
\* The keys.
<1>8. DOMAIN new.keys = {toName[vk] : vk \in DOMAIN l.keys}
  BY <1>2
<1>9. Names(new) = {toName[vk] : vk \in DOMAIN l.keys}
  BY <1>8, KeysHaveNames DEF Names
<1>10. ASSUME NEW vk \in DOMAIN l.keys
       PROVE  ~BadLevel(new.keys[toName[vk]]) /\ KeyOfNode(vk, new.keys[toName[vk]]) = l.keys[vk]
  <2> DEFINE def == l.keys[vk]
  <2>1. PICK n \in Names(doc) : ~BadLevel(doc.keys[n]) /\ def = KeyOfNode(vk, doc.keys[n])
    BY ParsedKeys
  <2>2. WrittenLevels(def) # {}
    BY DEF EveryKeyMapped
  <2>3. fromName[toName[vk]] = vk
    BY KeysHaveNames
  <2>4. new.keys[toName[vk]] = written(def)
    BY <1>2, <2>3
  <2> HIDE DEF def
  <2>5. ~BadLevel(written(def)) /\ KeyOfNode(vk, written(def)) = def
    BY <2>1, <2>2, KeyRoundTrip DEF written
  <2>6. ~BadLevel(new.keys[toName[vk]]) /\ KeyOfNode(vk, new.keys[toName[vk]]) = def
    BY <2>4, <2>5
  <2> QED BY <2>6 DEF def
<1>11. ~BadKeys(new)
  <2>1. \A n, m \in Names(new) : fromName[n] = fromName[m] => n = m
    BY <1>9, KeysHaveNames
  <2>2. \A n \in Names(new) : ~BadLevel(new.keys[n])
    BY <1>9, <1>10
  <2>3. Names(new) # {}
    <3>1. Names(doc) # {} /\ DOMAIN l.keys = {fromName[n] : n \in Names(doc)}
      <4>1. DOMAIN KeysOf(doc) = {fromName[n] : n \in Names(doc)}
        BY KeysOfDomain
      <4> QED BY <1>1, <4>1 DEF Rejected, BadKeys
    <3>2. PICK n \in Names(doc) : TRUE
      BY <3>1
    <3>3. fromName[n] \in DOMAIN l.keys
      BY <3>1
    <3> QED BY <1>9, <3>3, Zenon
  <2> QED BY <2>1, <2>2, <2>3 DEF BadKeys
<1>12. KeysOf(new) = l.keys
  <2>1. DOMAIN KeysOf(new) = {fromName[n] : n \in Names(new)}
    BY KeysOfDomain
  <2>2. DOMAIN KeysOf(new) = DOMAIN l.keys
    BY <1>9, <2>1, KeysHaveNames
  <2>3. ASSUME NEW vk \in DOMAIN l.keys PROVE KeysOf(new)[vk] = l.keys[vk]
    <3>1. toName[vk] \in Names(new) /\ fromName[toName[vk]] = vk
      BY <1>9, KeysHaveNames
    <3>2. KeysOf(new)[vk] = KeyOfNode(vk, new.keys[toName[vk]])
      BY <1>11, <3>1, KeysOfNames
    <3> QED BY <1>10, <3>2
  <2>4. KeysOf(new) = [vk \in DOMAIN KeysOf(new) |-> KeysOf(new)[vk]]
        /\ KeysOf(doc) = [vk \in DOMAIN KeysOf(doc) |-> KeysOf(doc)[vk]]
    BY DEF KeysOf
  <2> QED BY <1>1, <2>2, <2>3, <2>4
\* Together.
<1>13. ~Rejected(new)
  BY <1>3, <1>5, <1>6, <1>7, <1>11 DEF Rejected
<1>14. Bare(new) = Bare(doc)
  <2>1. (IF new.capsMode \in CapsMode THEN new.capsMode ELSE "Ignore")
          = (IF doc.capsMode \in CapsMode THEN doc.capsMode ELSE "Ignore")
    BY <1>1, <1>2
  <2>2. new.normalize = doc.normalize /\ KeysOf(new) = KeysOf(doc)
    BY <1>1, <1>2, <1>12
  <2>3. [id \in DOMAIN new.deadKeys |-> DeadKeyOf(new.deadKeys[id])]
          = [id \in DOMAIN doc.deadKeys |-> DeadKeyOf(doc.deadKeys[id])]
    BY <1>1, <1>6, <1>7
  <2> QED BY <2>1, <2>2, <2>3 DEF Bare
<1>15. Built(new) = Built(doc)
  BY <1>4, <1>5, <1>14 DEF Built
<1> QED BY <1>1, <1>13, <1>15 DEF parse, new

-----------------------------------------------------------------------------
(* The theorems.                                                           *)

\* The document in the file is well formed, whatever is written and saved: the
\* invariant under the other theorems.
THEOREM FileInvariance == FileSpec => []WellFormed(text)
<1>1. FileInit => WellFormed(text)
  BY FileInitIsWellFormed
<1>2. WellFormed(text) /\ [FileNext]_text => WellFormed(text)'
  BY FileNextIsWellFormed
<1> QED BY <1>1, <1>2, PTL DEF FileSpec

\* LayoutParser: a document that is accepted has every level, ligature and
\* compose sequence that is written in it.
THEOREM NothingIsDropped == FileSpec => []AcceptedIsComplete
<1>1. WellFormed(text) => AcceptedIsComplete
  BY CompleteLayout
<1> QED BY <1>1, FileInvariance, PTL

\* LayoutParser and LayoutValidator: what passes both is a layout as the Composer
\* assumes it.
THEOREM ComposerAssumptionHolds == FileSpec => []ActivatedIsComposable
<1>1. WellFormed(text) => ActivatedIsComposable
  BY ValidIsComposable
<1> QED BY <1>1, FileInvariance, PTL

\* KeyboardLayout::addCompose and composeLookup: the hash indexes, built one
\* sequence at a time, answer as a scan of the list would.
THEOREM IndexesAnswerAsTheList == FileSpec => []LookupIsScan
<1>1. WellFormed(text) => LookupIsScan
  BY LookupScans
<1> QED BY <1>1, FileInvariance, PTL

\* KeyboardLayout::matchLigature: the first match is a longest one.
THEOREM LongestIsApplied == FileSpec => []LongestLigatureWins
<1>1. WellFormed(text) => LongestLigatureWins
  BY FirstIsLongest
<1> QED BY <1>1, FileInvariance, PTL

\* KeyboardLayout::resolve: Caps Lock is what caps_mode says and nothing else.
THEOREM CapsLockIsThePolicy == FileSpec => []CapsLockFollowsPolicy
<1>1. WellFormed(text) => CapsLockFollowsPolicy
  BY CapsPolicy
<1> QED BY <1>1, FileInvariance, PTL

\* LayoutSerializer and LayoutParser: saving what was opened, and opening it
\* again, gives the same layouts, unless a key has no action.
THEOREM SaveAndOpen == FileSpec => SavingKeepsTheLayout
<1>1. WellFormed(text) /\ [FileNext]_text
        => [Resave /\ (\A l \in parse(text) : EveryKeyMapped(l)) => parse(text') = parse(text)]_text
  <2> SUFFICES ASSUME WellFormed(text), Resave, \A l \in parse(text) : EveryKeyMapped(l)
               PROVE  parse(text') = parse(text)
    OBVIOUS
  <2>1. PICK l \in parse(text) : text' = toJson(l)
    BY DEF Resave
  <2> QED BY <2>1, SaveRoundTrip
<1> QED BY <1>1, FileInvariance, PTL DEF FileSpec, SavingKeepsTheLayout

=============================================================================
