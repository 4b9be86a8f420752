--------------------------- MODULE ComposerProofs ---------------------------
(***************************************************************************)
(* What one key does, for every layout and every normaliser, whichever     *)
(* front end routes it: types, the exclusion of the two multi-key modes,   *)
(* and the edit that makes the window the tail of the text.                *)
(***************************************************************************)
EXTENDS TextControl, KeyboardLayoutProofs

-----------------------------------------------------------------------------
(* What the layout and the text helpers return.                            *)

\* What commonPrefix returns: a length at which the two texts still agree.
LEMMA CommonPrefix ==
  ASSUME NEW s \in Seq(Code), NEW t \in Seq(Code)
  PROVE  /\ commonPrefix(s, t) \in 0..Len(s)
         /\ commonPrefix(s, t) <= Len(t)
         /\ \A i \in 1..commonPrefix(s, t) : s[i] = t[i]
<1> DEFINE Stops == {n \in 0..Len(s) : n = Len(s) \/ n >= Len(t) \/ s[n + 1] # t[n + 1]}
           p == CHOOSE n \in Stops : \A m \in Stops : n <= m
<1>1. Len(s) \in Nat /\ Len(t) \in Nat
  BY LenProperties
<1>2. Stops \subseteq Nat /\ Len(s) \in Stops
  BY <1>1
<1>3. p \in Stops /\ \A m \in Stops : p <= m
  <2>1. \E n \in Stops : \A m \in Stops : n <= m
    <3> HIDE DEF Stops
    <3> QED BY <1>2, LeastNat
  <2> QED BY <2>1
<1>4. p = commonPrefix(s, t)
  BY DEF commonPrefix
<1>5. p \in 0..Len(s)
  BY <1>3
<1> HIDE DEF p
<1>6. \A m \in 0..(p - 1) : m < Len(t) /\ s[m + 1] = t[m + 1]
  <2> SUFFICES ASSUME NEW m \in 0..(p - 1) PROVE m < Len(t) /\ s[m + 1] = t[m + 1]
    OBVIOUS
  <2>1. m \in 0..Len(s) /\ m # Len(s) /\ ~ (p <= m)
    BY <1>1, <1>5
  <2>2. m \notin Stops
    BY <1>3, <2>1
  <2> QED BY <1>1, <2>1, <2>2
<1>7. p <= Len(t)
  BY <1>1, <1>5, <1>6
<1>8. \A i \in 1..p : s[i] = t[i]
  <2> SUFFICES ASSUME NEW i \in 1..p PROVE s[i] = t[i]
    OBVIOUS
  <2>1. i - 1 \in 0..(p - 1) /\ (i - 1) + 1 = i
    BY <1>1, <1>5
  <2> QED BY <1>6, <2>1
<1> QED BY <1>4, <1>5, <1>7, <1>8

\* The current layout, when there is one, is well formed.
LEMMA CurrentLayout ==
  ASSUME layout \in DOMAIN Layouts
  PROVE  IsLayout(L, Code, Outputs, DeadIds)
BY ComposerAssumption DEF L

\* resolve: a defined action of the layout, or none.
LEMMA ResolveType ==
  ASSUME layout \in DOMAIN Layouts,
         NEW in, in.shift \in BOOLEAN, in.altgr \in BOOLEAN, in.caps \in BOOLEAN
  PROVE  resolve(L, in) \in KeyAction(Outputs, DeadIds)
<1>1. NoAction \in KeyAction(Outputs, DeadIds)
  BY ComposerAssumption DEF NoAction, KeyAction, ActionKind
<1>2. CASE in.vk \notin DOMAIN L.keys
  BY <1>1, <1>2 DEF resolve
<1>3. CASE in.vk \in DOMAIN L.keys
  <2> DEFINE def   == L.keys[in.vk]
             cased == def.cased /\ isLetter(in.vk)
             shift == EffectiveShift(L, cased, in.shift, in.caps)
  <2>1. \A lvl \in Level : def.levels[lvl] \in KeyAction(Outputs, DeadIds)
    BY <1>3, CurrentLayout DEF IsLayout
  <2>2. /\ def.levels["Base"] \in KeyAction(Outputs, DeadIds)
        /\ def.levels["Shift"] \in KeyAction(Outputs, DeadIds)
        /\ def.levels["AltGr"] \in KeyAction(Outputs, DeadIds)
        /\ def.levels["ShiftAltGr"] \in KeyAction(Outputs, DeadIds)
    BY <2>1 DEF Level
  <2>3. def.cased \in BOOLEAN /\ L.capsMode \in CapsMode
    BY <1>3, CurrentLayout DEF IsLayout
  <2>4. cased \in BOOLEAN
    BY <2>3
  <2>5. shift \in BOOLEAN
    <3> HIDE DEF cased
    <3> QED BY <2>3, <2>4 DEF EffectiveShift, CapsMode
  <2>6. resolve(L, in) =
          CASE in.altgr /\ shift   -> OrElse(def.levels["ShiftAltGr"],
                                             OrElse(def.levels["AltGr"], def.levels["Base"]))
            [] in.altgr /\ ~shift  -> OrElse(def.levels["AltGr"], def.levels["Base"])
            [] ~in.altgr /\ shift  -> IF cased THEN OrElse(def.levels["Shift"], def.levels["Base"])
                                      ELSE def.levels["Shift"]
            [] ~in.altgr /\ ~shift -> def.levels["Base"]
    BY <1>3 DEF resolve
  <2> HIDE DEF def, cased, shift
  <2> QED BY <2>2, <2>5, <2>6 DEF OrElse
<1> QED BY <1>2, <1>3

\* One round of applyLigatures keeps a text a text.
LEMMA ReplaceLigatureType ==
  ASSUME layout \in DOMAIN Layouts, NEW text \in Seq(Code)
  PROVE  ReplaceLigature(text) \in Seq(Code)
<1> DEFINE M == Matches(L, text)
<1>1. CASE M = {}
  BY <1>1 DEF ReplaceLigature
<1>2. CASE M # {}
  <2> DEFINE i == CHOOSE i \in M : \A j \in M : i <= j
             lig == L.ligatures[i]
  <2>1. L.ligatures \in Seq([sequence : Seq(Code), result : Seq(Code)])
    BY CurrentLayout DEF IsLayout
  <2>2. DOMAIN L.ligatures = 1..Len(L.ligatures) /\ Len(L.ligatures) \in Nat
    BY <2>1, LenProperties
  <2>3. M \subseteq 1..Len(L.ligatures)
    BY <2>2 DEF Matches
  <2>4. i \in M
    <3>1. M \subseteq Nat
      BY <2>2, <2>3
    <3>2. \E n \in M : \A m \in M : n <= m
      <4> HIDE DEF M
      <4> QED BY <1>2, <3>1, LeastNat
    <3> QED BY <3>2
  <2>5. lig \in [sequence : Seq(Code), result : Seq(Code)]
    <3> HIDE DEF i, M
    <3> QED BY <2>1, <2>3, <2>4, ElementOfSeq
  <2>6. ReplaceLigature(text) = SubSeq(text, 1, Len(text) - Len(lig.sequence)) \o lig.result
    BY <1>2 DEF ReplaceLigature, matchLigature
  <2> HIDE DEF lig
  <2>7. Len(text) \in Nat /\ Len(lig.sequence) \in Nat
    BY <2>5, LenProperties
  <2>8. SubSeq(text, 1, Len(text) - Len(lig.sequence)) \in Seq(Code)
    BY <2>7, PrefixType
  <2> QED BY <2>5, <2>6, <2>8, ConcatProperties
<1> QED BY <1>1, <1>2

\* All eight rounds do.
LEMMA ApplyLigaturesType ==
  ASSUME layout \in DOMAIN Layouts, NEW text \in Seq(Code)
  PROVE  applyLigatures(text) \in Seq(Code)
<1>1. \A t \in Seq(Code) : ReplaceLigature(t) \in Seq(Code)
  BY ReplaceLigatureType
<1>2. \A t \in Seq(Code) : TwoRounds(t) \in Seq(Code)
  BY <1>1 DEF TwoRounds
<1>3. \A t \in Seq(Code) : FourRounds(t) \in Seq(Code)
  BY <1>2 DEF FourRounds
<1> QED BY <1>3 DEF applyLigatures

\* What commit is given is a text.
LEMMA ProducedText ==
  ASSUME NEW produced \in Produced
  PROVE  produced \in Seq(Code)
<1>1. CASE produced \in Outputs
  BY <1>1, ComposerAssumption
<1>2. CASE produced \in {p[1] \o p[2] : p \in Outputs \X Outputs}
  <2>1. PICK p \in Outputs \X Outputs : produced = p[1] \o p[2]
    BY <1>2
  <2>2. p[1] \in Seq(Code) /\ p[2] \in Seq(Code)
    BY <2>1, ComposerAssumption
  <2> QED BY <2>1, <2>2, ConcatProperties
<1> QED BY <1>1, <1>2 DEF Produced

\* What commit starts from is a text.
LEMMA CommitTexts ==
  ASSUME ComposerType, NEW produced \in Produced
  PROVE  recent \o produced \in Seq(Code) /\ NFC(recent \o produced) \in Seq(Code)
<1>1. recent \in Windows
  <2>1. Len(recent) \in 0..KWindow /\ recent \in [1..Len(recent) -> Code]
    BY LenProperties, ComposerAssumption DEF ComposerType
  <2> QED BY <2>1 DEF Windows
<1>2. produced \in Seq(Code)
  BY ProducedText
<1>3. recent \o produced \in Seq(Code)
  BY <1>2, ConcatProperties DEF ComposerType
<1>4. NFC(recent \o produced) \in Seq(Code)
  BY <1>1, NFCAssumption
<1> QED BY <1>3, <1>4

\* The processed tail is a text.
LEMMA ProcessedType ==
  ASSUME ComposerType, layout \in DOMAIN Layouts, NEW produced \in Produced
  PROVE  Processed(produced) \in Seq(Code)
BY CommitTexts, ApplyLigaturesType DEF Processed

\* The window kept of a text is within its cap and a tail of that text.
LEMMA WindowOfTail ==
  ASSUME NEW text \in Seq(Code)
  PROVE  /\ WindowOf(text) \in Seq(Code)
         /\ Len(WindowOf(text)) <= KWindow
         /\ IsTail(WindowOf(text), text)
<1>1. Len(text) \in Nat /\ KWindow \in Nat
  BY LenProperties, ComposerAssumption
<1>2. CASE Len(text) > KWindow
  <2> DEFINE n == Len(text) - KWindow
  <2>1. n \in 0..Len(text) /\ Len(text) - n = KWindow
    BY <1>1, <1>2
  <2>2. WindowOf(text) = SubSeq(text, n + 1, Len(text))
    BY <1>2 DEF WindowOf
  <2> HIDE DEF n
  <2>3. /\ WindowOf(text) \in Seq(Code)
        /\ Len(WindowOf(text)) = KWindow
        /\ \A i \in 1..KWindow : WindowOf(text)[i] = text[n + i]
    BY <2>1, <2>2, SuffixType
  <2>4. n = Len(text) - KWindow
    BY DEF n
  <2> QED BY <1>1, <1>2, <2>3, <2>4 DEF IsTail
<1>3. CASE ~ (Len(text) > KWindow)
  BY <1>1, <1>3 DEF WindowOf, IsTail
<1> QED BY <1>2, <1>3

\* What is left of a text after n deletions from its end.
LEMMA ChopProperties ==
  ASSUME NEW S, NEW d \in Seq(S), NEW n \in Nat
  PROVE  /\ Chop(d, n) \in Seq(S)
         /\ Len(Chop(d, n)) = IF n < Len(d) THEN Len(d) - n ELSE 0
         /\ \A i \in 1..Len(Chop(d, n)) : Chop(d, n)[i] = d[i]
<1> DEFINE k == IF n < Len(d) THEN Len(d) - n ELSE 0
<1>1. Len(d) \in Nat
  BY LenProperties
<1>2. k \in Int /\ k <= Len(d) /\ k >= 0
  BY <1>1
<1>3. Chop(d, n) = SubSeq(d, 1, k)
  BY DEF Chop
<1> HIDE DEF k
<1>4. /\ Chop(d, n) \in Seq(S)
      /\ Len(Chop(d, n)) = k
      /\ \A i \in 1..k : Chop(d, n)[i] = d[i]
  BY <1>2, <1>3, PrefixType
<1> QED BY <1>4 DEF k

\* Deleting from the end of the application's text keeps it a text.
LEMMA ChopType ==
  ASSUME NEW d \in Text, NEW n \in Nat
  PROVE  /\ Chop(d, n) \in Text
         /\ Len(Chop(d, n)) = IF n < Len(d) THEN Len(d) - n ELSE 0
         /\ \A i \in 1..Len(Chop(d, n)) : Chop(d, n)[i] = d[i]
BY ChopProperties DEF Text

\* A text of the composer is a text of the application.
LEMMA CodeText ==
  ASSUME NEW s \in Seq(Code)
  PROVE  s \in Text
BY SeqMonotonic DEF Text

\* An edit is a text: what is left of the old one, then what is inserted.
LEMMA EditedType ==
  ASSUME NEW d \in Text, NEW o \in EmitOp
  PROVE  /\ Edited(d, o) \in Text
         /\ Len(Edited(d, o)) = Len(Chop(d, o.backspaces)) + Len(o.insert)
         /\ \A i \in 1..Len(Chop(d, o.backspaces)) : Edited(d, o)[i] = d[i]
         /\ \A i \in 1..Len(o.insert) :
              Edited(d, o)[Len(Chop(d, o.backspaces)) + i] = o.insert[i]
<1> DEFINE c == Chop(d, o.backspaces)
<1>1. o.backspaces \in Nat /\ o.insert \in Seq(Code)
  BY DEF EmitOp
<1>2. c \in Text /\ o.insert \in Text
  BY <1>1, ChopType, CodeText
<1>3. Len(c) \in Nat /\ Len(o.insert) \in Nat
  BY <1>2, LenProperties DEF Text
<1>4. \A i \in 1..Len(c) : c[i] = d[i]
  BY <1>1, ChopType
<1>5. Edited(d, o) = c \o o.insert
  BY DEF Edited
<1> HIDE DEF c
<1>6. /\ c \o o.insert \in Text
      /\ Len(c \o o.insert) = Len(c) + Len(o.insert)
      /\ \A i \in 1..Len(c) + Len(o.insert) :
           (c \o o.insert)[i] = IF i <= Len(c) THEN c[i] ELSE o.insert[i - Len(c)]
  BY <1>2, ConcatProperties DEF Text
<1>7. \A i \in 1..Len(o.insert) : (c \o o.insert)[Len(c) + i] = o.insert[i]
  <2> SUFFICES ASSUME NEW i \in 1..Len(o.insert)
               PROVE  (c \o o.insert)[Len(c) + i] = o.insert[i]
    OBVIOUS
  <2>1. Len(c) + i \in 1..Len(c) + Len(o.insert) /\ ~ (Len(c) + i <= Len(c))
    BY <1>3
  <2>2. Len(c) + i - Len(c) = i
    BY <1>3
  <2> QED BY <1>6, <2>1, <2>2
<1>8. \A i \in 1..Len(c) : (c \o o.insert)[i] = d[i]
  BY <1>3, <1>4, <1>6
<1> QED BY <1>5, <1>6, <1>7, <1>8 DEF c

-----------------------------------------------------------------------------
(* One edit.                                                               *)

\* The edit in op' deletes nothing beyond the window, and where the window is
\* the tail of the text, it makes the next window the tail of the edited text.
Reconciles ==
  /\ op'.backspaces <= Len(recent)
  /\ \A d \in Text : IsTail(recent, d) => IsTail(recent', Edited(d, op'))

\* The window and the edit of the next state are typed.
WindowStep ==
  /\ recent' \in Seq(Code) /\ Len(recent') <= KWindow
  /\ op' \in EmitOp

\* Deleting the window's differing part and inserting the text's makes a text
\* that ends in the window end in the text.
LEMMA DiffReconciles ==
  ASSUME NEW r \in Seq(Code), NEW text \in Seq(Code), NEW d \in Text, IsTail(r, d),
         NEW o \in EmitOp,
         o.backspaces = Len(r) - commonPrefix(r, text),
         o.insert = SubSeq(text, commonPrefix(r, text) + 1, Len(text))
  PROVE  IsTail(text, Edited(d, o))
<1> DEFINE p == commonPrefix(r, text)
           c == Chop(d, o.backspaces)
           e == Edited(d, o)
<1>1. Len(r) \in Nat /\ Len(text) \in Nat /\ Len(d) \in Nat /\ Len(r) <= Len(d)
  BY LenProperties DEF Text, IsTail
<1>2. p \in 0..Len(r) /\ p <= Len(text) /\ \A i \in 1..p : r[i] = text[i]
  BY CommonPrefix
<1>3. \A i \in 1..Len(r) : r[i] = d[Len(d) - Len(r) + i]
  BY DEF IsTail
<1> HIDE DEF p
<1>4. p \in 0..Len(text)
  BY <1>1, <1>2
<1>5. /\ Len(o.insert) = Len(text) - p
      /\ \A i \in 1..(Len(text) - p) : o.insert[i] = text[p + i]
  BY <1>4, SuffixType DEF p
<1>6. o.backspaces \in Nat /\ o.backspaces = Len(r) - p
  BY DEF EmitOp, p
<1>7. Len(c) = Len(d) - Len(r) + p
  <2>1. Len(c) = IF o.backspaces < Len(d) THEN Len(d) - o.backspaces ELSE 0
    BY <1>6, ChopType
  <2> HIDE DEF c
  <2> QED BY <1>1, <1>2, <1>6, <2>1
<1>8. /\ Len(e) = Len(c) + Len(o.insert)
      /\ \A i \in 1..Len(c) : e[i] = d[i]
      /\ \A i \in 1..Len(o.insert) : e[Len(c) + i] = o.insert[i]
  BY EditedType
<1> HIDE DEF c, e
<1>9. Len(e) - Len(text) = Len(d) - Len(r) /\ Len(text) <= Len(e)
  BY <1>1, <1>2, <1>5, <1>7, <1>8
<1>10. \A i \in 1..Len(text) : text[i] = e[Len(d) - Len(r) + i]
  <2> SUFFICES ASSUME NEW i \in 1..Len(text) PROVE text[i] = e[Len(d) - Len(r) + i]
    OBVIOUS
  <2>1. CASE i <= p
    <3>1. Len(d) - Len(r) + i \in 1..Len(c) /\ i \in 1..p /\ i \in 1..Len(r)
      BY <1>1, <1>2, <1>7, <2>1
    <3>2. e[Len(d) - Len(r) + i] = d[Len(d) - Len(r) + i]
      BY <1>8, <3>1
    <3> QED BY <1>2, <1>3, <3>1, <3>2
  <2>2. CASE ~ (i <= p)
    <3>1. i - p \in 1..(Len(text) - p)
      BY <1>1, <1>2, <2>2
    <3>2. Len(c) + (i - p) = Len(d) - Len(r) + i /\ p + (i - p) = i
      BY <1>1, <1>2, <1>7
    <3>3. e[Len(c) + (i - p)] = o.insert[i - p] /\ o.insert[i - p] = text[p + (i - p)]
      BY <1>5, <1>8, <3>1
    <3> QED BY <3>2, <3>3
  <2> QED BY <2>1, <2>2
<1> QED BY <1>9, <1>10 DEF IsTail, e

\* commit.
LEMMA CommitReconciles ==
  ASSUME ComposerType, layout \in DOMAIN Layouts,
         NEW produced \in Produced, NEW suppress \in BOOLEAN, commit(produced, suppress)
  PROVE  WindowStep /\ Reconciles /\ op'.suppress = suppress
<1> DEFINE text == Processed(produced)
           p    == commonPrefix(recent, text)
<1>1. text \in Seq(Code) /\ recent \in Seq(Code)
  BY ProcessedType DEF ComposerType
<1>2. /\ op' = [suppress |-> suppress, backspaces |-> Len(recent) - p,
                insert |-> SubSeq(text, p + 1, Len(text))]
      /\ recent' = WindowOf(text)
  BY DEF commit
<1> HIDE DEF text
<1>3. p \in 0..Len(recent) /\ p \in 0..Len(text)
  <2>1. p \in 0..Len(recent) /\ p <= Len(text)
    BY <1>1, CommonPrefix
  <2> QED BY <1>1, <2>1, LenProperties
<1>4. Len(recent) \in Nat
  BY <1>1, LenProperties
<1>5. SubSeq(text, p + 1, Len(text)) \in Seq(Code)
  BY <1>1, <1>3, SuffixType
<1>6. op' \in EmitOp
  <2>1. Len(recent) - p \in Nat
    BY <1>3, <1>4
  <2> QED BY <1>2, <1>5, <2>1 DEF EmitOp
<1>7. recent' \in Seq(Code) /\ Len(recent') <= KWindow /\ IsTail(recent', text)
  BY <1>1, <1>2, WindowOfTail
<1>8. op'.backspaces <= Len(recent)
  BY <1>2, <1>3, <1>4
<1>9. ASSUME NEW d \in Text, IsTail(recent, d)
      PROVE  IsTail(recent', Edited(d, op'))
  <2>1. /\ op'.backspaces = Len(recent) - p
        /\ op'.insert = SubSeq(text, p + 1, Len(text))
    BY <1>2
  <2>2. IsTail(text, Edited(d, op'))
    BY <1>1, <1>6, <1>9, <2>1, DiffReconciles
  <2>3. Edited(d, op') \in Text /\ recent' \in Text /\ text \in Text
    BY <1>1, <1>6, <1>7, EditedType, CodeText
  <2> QED BY <1>7, <2>2, <2>3, TailOfTail DEF Text
<1> QED BY <1>2, <1>6, <1>7, <1>8, <1>9 DEF WindowStep, Reconciles

\* A swallowed key changes neither text nor window.
LEMMA SwallowReconciles ==
  ASSUME ComposerType, op' = Swallow, recent' = recent
  PROVE  WindowStep /\ Reconciles /\ op'.suppress
<1>1. op' \in EmitOp /\ op'.backspaces = 0 /\ op'.insert = <<>> /\ op'.suppress
  BY DEF EmitOp, Swallow
<1>2. recent \in Seq(Code) /\ Len(recent) <= KWindow /\ Len(recent) \in Nat
  BY LenProperties DEF ComposerType
<1>3. ASSUME NEW d \in Text, IsTail(recent, d)
      PROVE  IsTail(recent', Edited(d, op'))
  <2>1. Len(d) \in Nat
    BY LenProperties DEF Text
  <2>2. Len(Chop(d, 0)) = Len(d)
    BY <2>1, ChopType
  <2>3. /\ Len(Edited(d, op')) = Len(d)
        /\ \A i \in 1..Len(d) : Edited(d, op')[i] = d[i]
    <3>1. /\ Len(Edited(d, op')) = Len(Chop(d, op'.backspaces)) + Len(op'.insert)
          /\ \A i \in 1..Len(Chop(d, op'.backspaces)) : Edited(d, op')[i] = d[i]
      BY <1>1, EditedType
    <3>2. Len(op'.insert) = 0
      BY <1>1
    <3> QED BY <1>1, <2>1, <2>2, <3>1, <3>2
  <2>4. \A i \in 1..Len(recent) : Len(d) - Len(recent) + i \in 1..Len(d)
    BY <1>2, <1>3, <2>1 DEF IsTail
  <2> QED BY <1>2, <1>3, <2>1, <2>3, <2>4 DEF IsTail
<1> QED BY <1>1, <1>2, <1>3 DEF WindowStep, Reconciles

-----------------------------------------------------------------------------
(* One key through Composer::process.                                      *)

\* Two outputs in a row are something commit can be given.
LEMMA ConcatProduced ==
  ASSUME NEW s \in Outputs, NEW t \in Outputs
  PROVE  s \o t \in Produced
<1>1. <<s, t>> \in Outputs \X Outputs /\ <<s, t>>[1] \o <<s, t>>[2] = s \o t
  OBVIOUS
<1> QED BY <1>1 DEF Produced

\* composeLookup gives one of its three answers, and "Exact" only for a
\* sequence of the table.
LEMMA LookupAnswers ==
  ASSUME layout \in DOMAIN Layouts, NEW buf \in Seq(Code)
  PROVE  /\ composeLookup(L, buf) \in {"None", "Prefix", "Exact"}
         /\ composeLookup(L, buf) = "Exact" => buf \in DOMAIN L.composeExact
<1>1. Len(buf) \in Int /\ L.composeMaxLen \in Int
  BY CurrentLayout, LenProperties DEF IsLayout
<1> QED BY <1>1 DEF composeLookup

\* What the dead-key branches hand to commit.
LEMMA ProducedTypes ==
  ASSUME ComposerType, layout \in DOMAIN Layouts
  PROVE  /\ Outputs \subseteq Produced
         /\ Standalone \in Outputs
         /\ \A output \in Outputs : AfterDeadKey(output) \in Produced
<1>1. Outputs \subseteq Produced
  BY DEF Produced
<1>2. Standalone \in Outputs
  BY CurrentLayout, ComposerAssumption DEF IsLayout, Standalone
<1>3. ASSUME NEW output \in Outputs
      PROVE  AfterDeadKey(output) \in Produced
  <2>1. CASE pendingDead = NoDead \/ pendingDead \notin DOMAIN L.deadKeys
    BY <1>1, <2>1 DEF AfterDeadKey
  <2>2. CASE ~ (pendingDead = NoDead \/ pendingDead \notin DOMAIN L.deadKeys)
    <3> DEFINE dk == L.deadKeys[pendingDead]
               cp == IF output = <<>> THEN 0 ELSE output[1]
    <3>1. /\ dk.standalone \in Outputs
          /\ \A c \in DOMAIN dk.compositions : dk.compositions[c] \in Outputs
      BY <2>2, CurrentLayout DEF IsLayout
    <3>2. AfterDeadKey(output) =
            IF cp \in DOMAIN dk.compositions THEN dk.compositions[cp] ELSE dk.standalone \o output
      BY <2>2 DEF AfterDeadKey
    <3> HIDE DEF dk, cp
    <3>3. dk.standalone \o output \in Produced
      BY <1>3, <3>1, ConcatProduced
    <3> QED BY <1>1, <3>1, <3>2, <3>3
  <2> QED BY <2>1, <2>2
<1> QED BY <1>1, <1>2, <1>3

\* commitNonEmpty.
LEMMA CommitNonEmptyReconciles ==
  ASSUME ComposerType, layout \in DOMAIN Layouts,
         NEW standalone \in Outputs, commitNonEmpty(standalone)
  PROVE  WindowStep /\ Reconciles /\ op'.suppress
<1>1. CASE standalone # <<>>
  <2>1. commit(standalone, TRUE) /\ standalone \in Produced
    BY <1>1, ProducedTypes DEF commitNonEmpty
  <2> QED BY <2>1, CommitReconciles
<1>2. CASE standalone = <<>>
  BY <1>2, SwallowReconciles DEF commitNonEmpty
<1> QED BY <1>1, <1>2

\* The edits that are not suppressed and leave a window: Backspace pops one
\* codepoint of it; an unmapped key flushes the dead key in front of itself.
PassesKeepingWindow(in) ==
  \/ pendingDead # NoDead /\ LookedUp(in, "None")
  \/ /\ in.vk = Back /\ op' = None
     /\ recent' = IF recent = <<>> THEN <<>> ELSE SubSeq(recent, 1, Len(recent) - 1)

InputType(in) == in.shift \in BOOLEAN /\ in.altgr \in BOOLEAN /\ in.caps \in BOOLEAN

\* Every exit of process is typed and reconciles the window when it suppresses.
LEMMA ProcessWindow ==
  ASSUME ComposerType, NEW in, InputType(in), ~ Ignored(in), process(in)
  PROVE  /\ ComposerType'
         /\ layout' = layout
         /\ op'.suppress => Reconciles
         /\ ~ op'.suppress => recent' = <<>> \/ PassesKeepingWindow(in)
<1> DEFINE Goal == /\ WindowStep
                   /\ op'.suppress => Reconciles
                   /\ ~ op'.suppress => recent' = <<>> \/ PassesKeepingWindow(in)
           a == resolve(L, in)
<1>1. layout \in DOMAIN Layouts
  BY DEF Ignored, ComposerType
<1>2. a.output \in Outputs /\ a.deadKey \in DeadIds
  BY <1>1, ResolveType DEF InputType, KeyAction
<1>3. /\ recent \in Seq(Code) /\ Len(recent) <= KWindow /\ composeBuf \in Seq(Code)
      /\ pendingDead \in DeadIds /\ composing \in BOOLEAN /\ Len(recent) \in Nat
  BY LenProperties DEF ComposerType
<1>4. NoDead \in DeadIds /\ Outputs \subseteq Seq(Code) /\ <<>> \in Seq(Code) /\ <<>> \in Outputs
      /\ KWindow \in Nat
  BY ComposerAssumption
<1>5. /\ Outputs \subseteq Produced /\ Standalone \in Outputs
      /\ \A output \in Outputs : AfterDeadKey(output) \in Produced
  BY <1>1, ProducedTypes
<1>6. \A b \in Seq(Code) : b # <<>> => SubSeq(b, 1, Len(b) - 1) \in Seq(Code)
                                      /\ Len(SubSeq(b, 1, Len(b) - 1)) <= Len(b)
  <2> SUFFICES ASSUME NEW b \in Seq(Code), b # <<>>
               PROVE  /\ SubSeq(b, 1, Len(b) - 1) \in Seq(Code)
                      /\ Len(SubSeq(b, 1, Len(b) - 1)) <= Len(b)
    OBVIOUS
  <2>1. Len(b) \in Nat /\ Len(b) # 0
    BY EmptySeq, LenProperties
  <2> QED BY <2>1, PrefixType
<1> HIDE DEF a
<1>7. op' = None /\ recent' = <<>> => Goal
  BY <1>4 DEF WindowStep, EmitOp, None
<1>8. op' = Swallow /\ recent' = recent => Goal
  BY SwallowReconciles
<1>9. \A produced \in Produced : commit(produced, TRUE) => Goal
  BY <1>1, CommitReconciles
<1>10. commitNonEmpty(Standalone) => Goal
  BY <1>1, <1>5, CommitNonEmptyReconciles
<1>11. LeaveCompose => composing' \in BOOLEAN /\ composeBuf' \in Seq(Code)
  BY <1>3, <1>4 DEF LeaveCompose
<1> SUFFICES /\ Goal
             /\ layout' = layout /\ pendingDead' \in DeadIds
             /\ composing' \in BOOLEAN /\ composeBuf' \in Seq(Code)
  BY <1>1 DEF ComposerType, WindowStep
<1> HIDE DEF Goal
<1>a. CASE ComposeBackspace(in)
  BY <1>a, <1>3, <1>6, <1>8 DEF ComposeBackspace
<1>b. CASE ComposeEscape(in)
  BY <1>b, <1>3, <1>4, <1>8 DEF ComposeEscape
<1>c. CASE ComposeKey(in)
  <2> DEFINE buf == composeBuf \o a.output
  <2>1. buf \in Seq(Code)
    BY <1>2, <1>3, <1>4, ConcatProperties
  <2>2. /\ layout' = layout /\ pendingDead' = pendingDead
        /\ \/ /\ composeLookup(L, buf) = "Exact"
              /\ composing' = FALSE /\ composeBuf' = <<>>
              /\ commit(L.composeExact[buf], TRUE)
           \/ /\ composeLookup(L, buf) # "Exact"
              /\ op' = Swallow /\ recent' = recent
              /\ composing' \in {composing, FALSE} /\ composeBuf' \in {buf, <<>>}
    <3>1. composeLookup(L, buf) \in {"None", "Prefix", "Exact"}
      BY <1>1, <2>1, LookupAnswers
    <3> QED BY <1>c, <3>1 DEF ComposeKey, a
  <2>3. composeLookup(L, buf) = "Exact" => L.composeExact[buf] \in Produced
    <3> SUFFICES ASSUME composeLookup(L, buf) = "Exact" PROVE L.composeExact[buf] \in Produced
      OBVIOUS
    <3>1. buf \in DOMAIN L.composeExact
      BY <1>1, <2>1, LookupAnswers
    <3> QED BY <1>1, <1>5, <3>1, CurrentLayout DEF IsLayout
  <2> HIDE DEF buf
  <2> QED BY <1>3, <1>4, <1>8, <1>9, <2>1, <2>2, <2>3
<1>d. CASE Backspace(in)
  <2>1. layout' = layout /\ pendingDead' \in DeadIds
    BY <1>d, <1>3, <1>4 DEF Backspace
  <2>2. CASE pendingDead # NoDead
    BY <1>d, <1>8, <1>11, <2>1, <2>2 DEF Backspace
  <2>3. CASE pendingDead = NoDead
    <3>1. /\ in.vk = Back /\ op' = None
          /\ recent' = IF recent = <<>> THEN <<>> ELSE SubSeq(recent, 1, Len(recent) - 1)
      BY <1>d, <2>3 DEF Backspace
    <3>2. recent' \in Seq(Code) /\ Len(recent') <= KWindow
      <4>1. CASE recent = <<>>
        BY <1>4, <3>1, <4>1
      <4>2. CASE recent # <<>>
        <5>1. recent' \in Seq(Code) /\ Len(recent') <= Len(recent)
          BY <1>3, <1>6, <3>1, <4>2
        <5>2. Len(recent') \in Int
          BY <5>1, LenProperties
        <5> QED BY <1>3, <1>4, <5>1, <5>2
      <4> QED BY <4>1, <4>2
    <3>3. op' \in EmitOp /\ ~ op'.suppress
      BY <1>4, <3>1 DEF EmitOp, None
    <3>4. Goal
      BY <3>1, <3>2, <3>3 DEF Goal, WindowStep, PassesKeepingWindow
    <3> QED BY <1>d, <1>11, <2>1, <3>4 DEF Backspace
  <2> QED BY <2>2, <2>3
<1>e. CASE HardBoundary(in)
  <2>1. op' = [None EXCEPT !.insert = IF pendingDead # NoDead THEN Standalone ELSE <<>>]
        /\ recent' = <<>>
    BY <1>e DEF HardBoundary
  <2>2. op' \in EmitOp /\ ~ op'.suppress
    BY <1>4, <1>5, <2>1 DEF EmitOp, None
  <2>3. Goal
    BY <1>4, <2>1, <2>2 DEF Goal, WindowStep
  <2> QED BY <1>e, <1>4, <1>11, <2>3 DEF HardBoundary
<1>f. CASE SpaceKey(in)
  <2>1. CASE pendingDead # NoDead
    BY <1>f, <1>4, <1>5, <1>9, <1>11, <2>1 DEF SpaceKey
  <2>2. CASE pendingDead = NoDead
    BY <1>f, <1>4, <1>7, <1>11, <2>2 DEF SpaceKey
  <2> QED BY <2>1, <2>2
<1>g. CASE Unmapped(in)
  <2>1. CASE pendingDead # NoDead
    <3>1. commit(Standalone, FALSE) /\ LookedUp(in, "None")
      BY <1>g, <2>1 DEF Unmapped
    <3>2. WindowStep /\ op'.suppress = FALSE
      BY <1>1, <1>5, <3>1, CommitReconciles
    <3>3. Goal
      BY <2>1, <3>1, <3>2 DEF Goal, PassesKeepingWindow
    <3> QED BY <1>g, <1>4, <1>11, <3>3 DEF Unmapped
  <2>2. CASE pendingDead = NoDead
    BY <1>g, <1>4, <1>7, <1>11, <2>2 DEF Unmapped
  <2> QED BY <2>1, <2>2
<1>h. CASE StartCompose(in)
  BY <1>h, <1>4, <1>8, <1>10 DEF StartCompose
<1>i. CASE DeadKeyPress(in)
  BY <1>i, <1>2, <1>8, <1>10, <1>11 DEF DeadKeyPress, a
<1>j. CASE EmitKey(in)
  BY <1>j, <1>2, <1>4, <1>5, <1>9, <1>11 DEF EmitKey, a
<1> QED
  BY <1>a, <1>b, <1>c, <1>d, <1>e, <1>f, <1>g, <1>h, <1>i, <1>j DEF process, Ignore

-----------------------------------------------------------------------------
(* The compose and dead-key modes.                                         *)

ModesInv == ModesExclusive /\ ComposeBufferLive

\* Every exit of process keeps the modes apart and the compose buffer alive.
LEMMA ProcessModes ==
  ASSUME ComposerType, ModesInv, NEW in, InputType(in), ~ Ignored(in), process(in)
  PROVE  ModesInv'
<1> DEFINE Idle == composing' = FALSE /\ composeBuf' = <<>>
<1>1. layout \in DOMAIN Layouts /\ layout # NoLayout /\ layout' = layout
  BY ProcessWindow DEF Ignored, ComposerType
<1>2. L' = L
  BY <1>1 DEF L
<1>3. Idle => ModesInv'
  BY DEF ModesInv, ModesExclusive, ComposeBufferLive
<1>4. LeaveCompose => Idle
  BY DEF LeaveCompose, ModesInv, ComposeBufferLive, ComposerType
<1>5. composing => pendingDead = NoDead
  BY DEF ModesInv, ModesExclusive
<1> HIDE DEF Idle
<1>a. CASE ComposeBackspace(in)
  <2>1. CASE composeBuf = <<>>
    BY <1>a, <1>3, <2>1 DEF ComposeBackspace, Idle
  <2>2. CASE composeBuf # <<>>
    <3>1. composeBuf \in L.composePrefix /\ composing
      BY <2>2 DEF ModesInv, ComposeBufferLive
    <3>2. Len(composeBuf) = 1 \/ SubSeq(composeBuf, 1, Len(composeBuf) - 1) \in L.composePrefix
      BY <1>1, <3>1, CurrentLayout DEF IsLayout
    <3>3. Len(composeBuf) = 1 => SubSeq(composeBuf, 1, Len(composeBuf) - 1) = <<>>
      BY SubSeqEmpty
    <3>4. composeBuf' = <<>> \/ composeBuf' \in L.composePrefix
      BY <1>a, <2>2, <3>2, <3>3 DEF ComposeBackspace
    <3>5. composing' = composing /\ pendingDead' = pendingDead
      BY <1>a, <2>2 DEF ComposeBackspace
    <3> QED BY <1>1, <1>2, <1>5, <3>1, <3>4, <3>5 DEF ModesInv, ModesExclusive, ComposeBufferLive
  <2> QED BY <2>1, <2>2
<1>b. CASE ComposeEscape(in)
  BY <1>b, <1>3 DEF ComposeEscape, Idle
<1>c. CASE ComposeKey(in)
  <2> DEFINE buf == composeBuf \o resolve(L, in).output
  <2>1. buf \in Seq(Code) /\ buf # <<>>
    <3>1. resolve(L, in).output \in Seq(Code) /\ resolve(L, in).output # <<>>
      BY <1>c, <1>1, ResolveType, ComposerAssumption
        DEF InputType, KeyAction, ComposeKey, Contributes
    <3> QED BY <3>1, ConcatProperties, ConcatEqualIffEmpty DEF ComposerType
  <2>2. \/ Idle
        \/ /\ composeLookup(L, buf) = "Prefix" /\ composeBuf' = buf
           /\ composing' = composing /\ pendingDead' = pendingDead /\ composing
    <3>1. composeLookup(L, buf) \in {"None", "Prefix", "Exact"}
      BY <1>1, <2>1, LookupAnswers
    <3> QED BY <1>c, <3>1 DEF ComposeKey, Idle
  <2>3. composeLookup(L, buf) = "Prefix" => buf \in L.composePrefix
    <3> HIDE DEF buf
    <3>1. Len(buf) \in Int /\ L.composeMaxLen \in Int
      BY <1>1, <2>1, CurrentLayout, LenProperties DEF IsLayout
    <3> QED BY <2>1, <3>1 DEF composeLookup
  <2> HIDE DEF buf
  <2> QED BY <1>1, <1>2, <1>3, <1>5, <2>2, <2>3 DEF ModesInv, ModesExclusive, ComposeBufferLive
<1>h. CASE StartCompose(in)
  BY <1>h DEF StartCompose, ModesInv, ModesExclusive, ComposeBufferLive
<1> QED
  BY <1>3, <1>4, <1>a, <1>b, <1>c, <1>h
    DEF process, Ignore, Backspace, HardBoundary, SpaceKey, Unmapped, DeadKeyPress, EmitKey

-----------------------------------------------------------------------------
(* The text control.                                                       *)

\* What a key does to the application's text keeps it a text.
LEMMA NativeEffectsType ==
  ASSUME NEW d \in Text, NEW vk
  PROVE  NativeEffects(vk, d) \subseteq Text
<1>1. Append(d, Foreign) \in Text
  BY AppendProperties DEF Text
<1>2. Chop(d, 1) \in Text
  BY ChopType
<1> QED BY <1>1, <1>2 DEF NativeEffects

\* reset leaves no composition state behind.
LEMMA ResetIdle ==
  ASSUME ComposerType, reset, layout' \in DOMAIN Layouts \cup {NoLayout}, op' \in EmitOp
  PROVE  ComposerType' /\ ModesInv' /\ recent' = <<>>
<1>1. /\ recent' = <<>> /\ pendingDead' = NoDead
      /\ composing' = FALSE /\ composeBuf' = <<>>
  BY DEF reset
<1>2. <<>> \in Seq(Code) /\ Len(<<>>) <= KWindow /\ NoDead \in DeadIds
  BY ComposerAssumption
<1>3. ComposerType'
  BY <1>1, <1>2 DEF ComposerType
<1>4. ModesInv'
  BY <1>1 DEF ModesInv, ModesExclusive, ComposeBufferLive
<1> QED BY <1>1, <1>3, <1>4

\* An empty window is the tail of any text.
LEMMA EmptyTail ==
  ASSUME NEW d \in Text
  PROVE  IsTail(<<>>, d)
BY LenProperties DEF IsTail, Text

\* The input of the composer for an event.
LEMMA InputOfType ==
  ASSUME NEW ev \in Events
  PROVE  InputType(InputOf(ev))
BY ControlAssumption DEF KeyEvent, InputType, InputOf, AltGr

\* Popping the window and the text together keeps the window the text's tail.
LEMMA PopTogether ==
  ASSUME NEW r \in Seq(Code), NEW d \in Text, IsTail(r, d), NEW e \in Text, e = Chop(d, 1)
  PROVE  IsTail(IF r = <<>> THEN <<>> ELSE SubSeq(r, 1, Len(r) - 1), e)
<1>1. CASE r = <<>>
  BY <1>1, EmptyTail
<1>2. CASE r # <<>>
  <2> DEFINE n == Len(r)
             q == SubSeq(r, 1, n - 1)
  <2>1. n \in Nat /\ n >= 1 /\ Len(d) \in Nat /\ n <= Len(d)
    <3>1. n \in Nat \ {0}
      BY <1>2, EmptySeq
    <3> QED BY <3>1, LenProperties DEF IsTail, Text
  <2>2. Len(q) = n - 1 /\ \A i \in 1..(n - 1) : q[i] = r[i]
    <3>1. Len(r) = n
      OBVIOUS
    <3> HIDE DEF n
    <3> QED BY <2>1, <3>1, FrontType
  <2>3. Len(e) = Len(d) - 1 /\ \A i \in 1..Len(e) : e[i] = d[i]
    BY <2>1, ChopType
  <2>4. \A i \in 1..n : r[i] = d[Len(d) - n + i]
    BY DEF IsTail
  <2> HIDE DEF q, n
  <2>5. \A i \in 1..Len(q) : q[i] = e[Len(e) - Len(q) + i]
    <3> SUFFICES ASSUME NEW i \in 1..Len(q) PROVE q[i] = e[Len(e) - Len(q) + i]
      OBVIOUS
    <3>1. /\ i \in 1..(n - 1) /\ i \in 1..n
          /\ Len(d) - n + i \in 1..Len(e)
          /\ Len(e) - Len(q) + i = Len(d) - n + i
      BY <2>1, <2>2, <2>3
    <3> QED BY <2>2, <2>3, <2>4, <3>1
  <2>6. IsTail(q, e)
    BY <2>1, <2>2, <2>3, <2>5 DEF IsTail
  <2> QED BY <1>2, <2>6 DEF q, n
<1> QED BY <1>1, <1>2
=============================================================================
