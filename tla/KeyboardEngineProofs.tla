------------------------ MODULE KeyboardEngineProofs ------------------------
(***************************************************************************)
(* Theorems about KeyboardEngine for every set of layouts, every event set *)
(* and every normaliser: types, the exclusion of the two multi-key modes,  *)
(* and the reconciliation model (the window is the tail of the text, so a  *)
(* suppressed key deletes nothing the composer did not emit); and, under   *)
(* conditions on the ligatures, that the window stays in normal form and   *)
(* that no ligature is left undone.                                        *)
(***************************************************************************)
EXTENDS KeyboardEngine, ComposerProofs

-----------------------------------------------------------------------------
(* The engine: the inductive invariant.                                    *)

\* A routed key is not ignored by the composer.
LEMMA RoutedNotIgnored ==
  ASSUME NEW ev \in Events, Listening(ev), ~ isPureModifier(ev.vk)
  PROVE  ~ Ignored(InputOf(ev))
BY DEF Listening, isPureModifier, Ignored, isModifierVk, InputOf

IInv == TypeOK /\ ModesInv /\ SyncedWindow /\ IdleWhenDisabled

\* What a routed key does, over the whole invariant.
LEMMA RoutedKeyStep ==
  ASSUME IInv, NEW ev \in Events, RoutedKey(ev)
  PROVE  IInv' /\ (op'.suppress => doc' = Edited(doc, op') /\ op'.backspaces <= Len(recent))
<1> DEFINE in == InputOf(ev)
<1>1. /\ ComposerType /\ ModesInv /\ SyncedWindow /\ doc \in Text
      /\ hook \in BOOLEAN /\ enabled \in BOOLEAN /\ synced \in BOOLEAN
  BY DEF IInv, TypeOK
<1>2. /\ Listening(ev) /\ ~ isPureModifier(ev.vk) /\ process(in)
      /\ IF op'.suppress THEN doc' = Edited(doc, op')
         ELSE doc' \in NativeEffects(ev.vk, Edited(doc, op'))
      /\ synced' = (recent' = <<>> \/ (synced /\ ~FlushesThrough(ev)))
      /\ hook' = hook /\ enabled' = enabled
  BY DEF RoutedKey
<1>3. InputType(in) /\ ~ Ignored(in)
  BY <1>2, InputOfType, RoutedNotIgnored
<1>4. /\ ComposerType' /\ layout' = layout
      /\ op'.suppress => Reconciles
      /\ ~ op'.suppress => recent' = <<>> \/ PassesKeepingWindow(in)
  BY <1>1, <1>2, <1>3, ProcessWindow
<1>5. ModesInv'
  BY <1>1, <1>2, <1>3, ProcessModes
<1>6. op' \in EmitOp /\ recent' \in Seq(Code)
  BY <1>4 DEF ComposerType
<1>7. Edited(doc, op') \in Text
  BY <1>1, <1>6, EditedType
<1>8. doc' \in Text
  BY <1>2, <1>7, NativeEffectsType
<1>9. TypeOK'
  BY <1>1, <1>2, <1>4, <1>8 DEF TypeOK
<1>10. IdleWhenDisabled'
  BY <1>2 DEF Listening, IdleWhenDisabled
<1>11. SyncedWindow'
  <2> SUFFICES ASSUME synced' PROVE IsTail(recent', doc')
    BY DEF SyncedWindow
  <2>1. CASE recent' = <<>>
    BY <1>8, <2>1, EmptyTail
  <2>2. CASE recent' # <<>>
    <3>1. synced /\ ~ FlushesThrough(ev) /\ IsTail(recent, doc)
      BY <1>1, <1>2, <2>2 DEF SyncedWindow
    <3>2. CASE op'.suppress
      BY <1>1, <1>2, <1>4, <3>1, <3>2 DEF Reconciles
    <3>3. CASE ~ op'.suppress
      <4>1. /\ in.vk = Back /\ op' = None
            /\ recent' = IF recent = <<>> THEN <<>> ELSE SubSeq(recent, 1, Len(recent) - 1)
        BY <1>4, <2>2, <3>1, <3>3 DEF PassesKeepingWindow, FlushesThrough
      <4>2. doc' = Chop(Edited(doc, op'), 1)
        BY <1>2, <3>3, <4>1
          DEF NativeEffects, InputOf, Back, Enter, Tab, Space, isModifierVk
      <4>3. IsTail(recent, Edited(doc, op'))
        <5>1. /\ op'.backspaces = 0 /\ Len(op'.insert) = 0
          BY <4>1 DEF None
        <5>2. Len(doc) \in Nat /\ Len(recent) \in Nat
          BY <1>1, LenProperties DEF Text, ComposerType
        <5>3. Len(Chop(doc, op'.backspaces)) = Len(doc)
          BY <1>1, <5>1, <5>2, ChopType
        <5>4. /\ Len(Edited(doc, op')) = Len(doc)
              /\ \A i \in 1..Len(doc) : Edited(doc, op')[i] = doc[i]
          <6>1. /\ Len(Edited(doc, op')) = Len(Chop(doc, op'.backspaces)) + Len(op'.insert)
                /\ \A i \in 1..Len(Chop(doc, op'.backspaces)) : Edited(doc, op')[i] = doc[i]
            BY <1>1, <1>6, EditedType
          <6> QED BY <5>1, <5>2, <5>3, <6>1
        <5>5. \A i \in 1..Len(recent) : Len(doc) - Len(recent) + i \in 1..Len(doc)
          BY <3>1, <5>2 DEF IsTail
        <5> QED BY <3>1, <5>2, <5>4, <5>5 DEF IsTail
      <4>4. recent \in Seq(Code)
        BY <1>1 DEF ComposerType
      <4>5. IsTail(IF recent = <<>> THEN <<>> ELSE SubSeq(recent, 1, Len(recent) - 1), doc')
        BY <1>7, <1>8, <4>2, <4>3, <4>4, PopTogether
      <4> QED BY <4>1, <4>5
    <3> QED BY <3>2, <3>3
  <2> QED BY <2>1, <2>2
<1>12. op'.suppress => doc' = Edited(doc, op') /\ op'.backspaces <= Len(recent)
  BY <1>2, <1>4 DEF Reconciles
<1> QED BY <1>5, <1>9, <1>10, <1>11, <1>12 DEF IInv

LEMMA InitInv == Init => IInv
<1> SUFFICES ASSUME Init PROVE IInv
  OBVIOUS
<1>1. /\ layout = NoLayout /\ recent = <<>> /\ pendingDead = NoDead
      /\ composing = FALSE /\ composeBuf = <<>> /\ op = None
      /\ hook = FALSE /\ enabled = TRUE /\ doc = <<>> /\ synced = TRUE
  BY DEF Init, ComposerInit
<1>2. /\ <<>> \in Seq(Code) /\ Len(<<>>) <= KWindow /\ NoDead \in DeadIds /\ <<>> \in Text
  BY ComposerAssumption DEF Text
<1>3. op \in EmitOp
  BY <1>1, <1>2 DEF EmitOp, None
<1>4. TypeOK
  BY <1>1, <1>2, <1>3 DEF TypeOK, ComposerType
<1>5. ModesInv /\ IdleWhenDisabled
  BY <1>1 DEF ModesInv, ModesExclusive, ComposeBufferLive, IdleWhenDisabled
<1>6. SyncedWindow
  BY <1>1, <1>2, EmptyTail DEF SyncedWindow
<1> QED BY <1>4, <1>5, <1>6 DEF IInv

\* The other steps leave the window alone or empty it.
LEMMA StepInv == IInv /\ [Next]_vars => IInv'
<1> SUFFICES ASSUME IInv, [Next]_vars PROVE IInv'
  OBVIOUS
<1>1. /\ TypeOK /\ ComposerType /\ ModesInv /\ SyncedWindow /\ IdleWhenDisabled /\ doc \in Text
      /\ hook \in BOOLEAN /\ enabled \in BOOLEAN /\ synced \in BOOLEAN /\ op \in EmitOp
  BY DEF IInv, TypeOK, ComposerType
<1>2. ASSUME UNCHANGED composerVars PROVE ComposerType' /\ ModesInv'
  BY <1>1, <1>2 DEF composerVars, ComposerType, ModesInv, ModesExclusive, ComposeBufferLive, L
<1>3. ASSUME reset, layout' \in DOMAIN Layouts \cup {NoLayout}, op' = op, doc' \in Text,
             synced' = TRUE, hook' \in BOOLEAN, enabled' \in BOOLEAN
      PROVE  IInv'
  <2>1. ComposerType' /\ ModesInv' /\ recent' = <<>>
    BY <1>1, <1>3, ResetIdle
  <2>2. IsTail(recent', doc')
    BY <1>3, <2>1, EmptyTail
  <2>3. IdleWhenDisabled'
    BY <1>3 DEF reset, IdleWhenDisabled
  <2> QED BY <1>3, <2>1, <2>2, <2>3 DEF IInv, TypeOK, SyncedWindow
<1>4. ASSUME UNCHANGED composerVars, doc' \in Text, hook' \in BOOLEAN, enabled' = enabled,
             synced' \in BOOLEAN, synced' => IsTail(recent, doc')
      PROVE  IInv'
  <2>1. ComposerType' /\ ModesInv' /\ recent' = recent /\ pendingDead' = pendingDead
        /\ composing' = composing
    BY <1>2, <1>4 DEF composerVars
  <2>2. IdleWhenDisabled' /\ SyncedWindow'
    BY <1>1, <1>4, <2>1 DEF IdleWhenDisabled, SyncedWindow
  <2> QED BY <1>1, <1>4, <2>1, <2>2 DEF IInv, TypeOK
<1>a. ASSUME NEW ev \in Events, Bypass(ev) PROVE IInv'
  <2>1. doc' \in Text
    BY <1>1, <1>a, NativeEffectsType DEF Bypass
  <2>2. /\ UNCHANGED composerVars /\ hook' = hook /\ enabled' = enabled
        /\ synced' = (recent = <<>> \/ (synced /\ doc' = doc))
    BY <1>a DEF Bypass
  <2>3. synced' => IsTail(recent, doc')
    BY <1>1, <2>1, <2>2, EmptyTail DEF SyncedWindow
  <2> QED BY <1>1, <1>4, <2>1, <2>2, <2>3
<1>b. ASSUME NEW ev \in Events, ShortcutKey(ev) PROVE IInv'
  <2>1. doc' \in Text
    BY <1>1, <1>b, NativeEffectsType DEF ShortcutKey
  <2>2. /\ reset /\ layout' = layout /\ op' = op /\ synced' = TRUE
        /\ hook' = hook /\ enabled' = enabled
    BY <1>b DEF ShortcutKey
  <2> QED BY <1>1, <1>3, <2>1, <2>2 DEF ComposerType
<1>c. ASSUME NEW ev \in Events, RoutedKey(ev) PROVE IInv'
  BY <1>c, RoutedKeyStep
<1>d. ASSUME NEW id \in DOMAIN Layouts, SetLayout(id) PROVE IInv'
  BY <1>1, <1>3, <1>d DEF SetLayout, setLayout
<1>e. ASSUME NEW on \in BOOLEAN, Enable(on) PROVE IInv'
  <2>1. CASE ~ on
    BY <1>1, <1>3, <1>e, <2>1 DEF Enable, ComposerType
  <2>2. CASE on
    <3>1. /\ UNCHANGED composerVars /\ hook' = hook /\ doc' = doc /\ synced' = synced
          /\ enabled' = TRUE
      BY <1>e, <2>2 DEF Enable, composerVars
    <3>2. ComposerType' /\ ModesInv' /\ recent' = recent
      BY <1>2, <3>1 DEF composerVars
    <3>3. IdleWhenDisabled' /\ SyncedWindow'
      BY <1>1, <3>1, <3>2 DEF IdleWhenDisabled, SyncedWindow
    <3> QED BY <1>1, <3>1, <3>2, <3>3 DEF IInv, TypeOK
  <2> QED BY <2>1, <2>2
<1>f. ASSUME Install \/ Uninstall PROVE IInv'
  BY <1>1, <1>4, <1>f DEF Install, Uninstall, SyncedWindow
<1>g. ASSUME CaretMoves PROVE IInv'
  <2>1. doc' \in Text
    <3>1. doc' \in Seq({Foreign})
      BY <1>g, ControlAssumption DEF CaretMoves
    <3> QED BY <3>1, SeqMonotonic DEF Text
  <2>2. UNCHANGED composerVars /\ hook' = hook /\ enabled' = enabled /\ synced' = (recent = <<>>)
    BY <1>g DEF CaretMoves
  <2>3. synced' => IsTail(recent, doc')
    BY <2>1, <2>2, EmptyTail
  <2> QED BY <1>1, <1>4, <2>1, <2>2, <2>3
<1>h. ASSUME UNCHANGED vars PROVE IInv'
  BY <1>1, <1>4, <1>h DEF vars, engineVars, SyncedWindow
<1> QED
  BY <1>a, <1>b, <1>c, <1>d, <1>e, <1>f, <1>g, <1>h DEF Next, KeyDown

\* A key the composer suppresses, pressed while the window is the tail of the
\* text, leaves every foreign codepoint of the text where it is.
LEMMA SuppressedKeyKeepsForeign ==
  ASSUME IInv, NEW ev \in Events, synced, RoutedKey(ev), op'.suppress
  PROVE  ~ LosesForeignText
<1>1. /\ ComposerType /\ doc \in Text /\ IsTail(recent, doc)
  BY DEF IInv, TypeOK, SyncedWindow
<1>2. IInv' /\ doc' = Edited(doc, op') /\ op'.backspaces <= Len(recent)
  BY RoutedKeyStep
<1>3. op' \in EmitOp /\ op'.backspaces \in Nat
  BY <1>2 DEF IInv, TypeOK, ComposerType, EmitOp
<1>4. recent \in Seq(Code) /\ Len(recent) \in Nat /\ Len(doc) \in Nat
      /\ Len(recent) <= Len(doc) /\ DOMAIN doc = 1..Len(doc)
  BY <1>1, LenProperties DEF ComposerType, Text, IsTail
<1> SUFFICES ASSUME NEW i \in DOMAIN doc, doc[i] = Foreign
             PROVE  ~ (i > Len(doc')) /\ doc'[i] = Foreign
  BY DEF LosesForeignText
<1>5. i \in 1..Len(doc)
  BY <1>4
<1>6. i <= Len(doc) - Len(recent)
  <2> SUFFICES ASSUME i > Len(doc) - Len(recent) PROVE FALSE
    BY <1>4, <1>5
  <2> DEFINE j == i - (Len(doc) - Len(recent))
  <2>1. j \in 1..Len(recent) /\ Len(doc) - Len(recent) + j = i
    BY <1>4, <1>5
  <2> HIDE DEF j
  <2>2. doc[i] = recent[j]
    BY <1>1, <2>1 DEF IsTail
  <2>3. recent[j] \in Code
    BY <1>4, <2>1, ElementOfSeq
  <2> QED BY <2>2, <2>3, ControlAssumption
<1> DEFINE c == Chop(doc, op'.backspaces)
<1>7. i \in 1..Len(c) /\ Len(c) \in Nat
  <2>1. Len(c) = IF op'.backspaces < Len(doc) THEN Len(doc) - op'.backspaces ELSE 0
    BY <1>1, <1>3, ChopType
  <2> HIDE DEF c
  <2> QED BY <1>2, <1>3, <1>4, <1>5, <1>6, <2>1
<1>8. Edited(doc, op')[i] = doc[i] /\ Len(Edited(doc, op')) = Len(c) + Len(op'.insert)
  BY <1>1, <1>3, <1>7, EditedType
<1> HIDE DEF c
<1>9. Len(op'.insert) \in Nat
  BY <1>3, LenProperties DEF EmitOp
<1>10. ~ (i > Len(c) + Len(op'.insert))
  BY <1>7, <1>9
<1> QED BY <1>2, <1>8, <1>10

-----------------------------------------------------------------------------
(* The window and the normaliser of Normalizer.tla.  The facts cited are   *)
(* about texts alone; the typed text of NormalizedTyping plays no part.    *)

NF == INSTANCE NormalizerProofs
        WITH Alphabet <- Code, MaxRaw <- MaxDoc, raw <- recent, older <- recent, window <- recent

\* The engine runs with the curated normaliser.
NormalizesNFC == \A t \in Seq(Code) : NFC(t) = NF!toNFC(t)

\* No ligature of a normalising layout ends in text that composes with, or is
\* reordered into, what precedes it.
LigaturesStandAlone ==
  \A id \in DOMAIN Layouts : Layouts[id].normalize =>
    \A i \in DOMAIN Layouts[id].ligatures : NF!StandsAlone(Layouts[id].ligatures[i].result)

LEMMA CodeTexts ==
  /\ NF!TypingAssumption
  /\ \A t \in Seq(Code) : t \in NF!Texts
<1>1. NF!TypingAssumption
  BY ComposerAssumption, ControlAssumption DEF NF!TypingAssumption
<1>2. ASSUME NEW t \in Seq(Code) PROVE t \in NF!Texts
  BY SeqMonotonic DEF NF!Texts, NF!Codepoints
<1> QED BY <1>1, <1>2

LEMMA NormalMeans ==
  ASSUME NEW t \in Seq(Code)
  PROVE  NF!Normal(t) <=> NF!toNFC(t) = t
<1>1. NF!TypingAssumption /\ t \in NF!Texts
  BY CodeTexts
<1>2. NF!Normal(NF!toNFC(t))
  BY <1>1, NF!NfcIsNormal
<1>3. NF!Normal(t) => NF!toNFC(t) = t
  BY <1>1, NF!NormalStays
<1> QED BY <1>2, <1>3

\* What is kept of a normal text at either end is normal.
LEMMA NormalEnds ==
  ASSUME NEW t \in Seq(Code), NF!Normal(t), NEW n \in 0..Len(t)
  PROVE  NF!Normal(SubSeq(t, 1, n)) /\ NF!Normal(SubSeq(t, n + 1, Len(t)))
<1> DEFINE u == SubSeq(t, 1, n)
           v == SubSeq(t, n + 1, Len(t))
<1>1. NF!TypingAssumption /\ t \in NF!Texts
  BY CodeTexts
<1>2. u \in NF!Texts /\ v \in NF!Texts /\ u \o v = t
  BY <1>1, NF!Split
<1> HIDE DEF u, v
<1>3. NF!Normal(u \o v)
  BY <1>2
<1>4. NF!Normal(u) /\ NF!Normal(v)
  BY <1>1, <1>2, <1>3, NF!PartsNormal
<1> QED BY <1>4 DEF u, v

LEMMA NormalThenAlone ==
  ASSUME NEW u \in Seq(Code), NF!Normal(u), NEW r \in Seq(Code), NF!StandsAlone(r)
  PROVE  NF!Normal(u \o r)
<1>1. NF!TypingAssumption /\ u \in NF!Texts /\ r \in NF!Texts
  BY CodeTexts
<1>2. CASE r = <<>>
  <2>1. u \o r = u
    BY <1>2, ConcatEmptySeq
  <2> QED BY <2>1
<1>3. CASE r # <<>>
  <2>1. NF!combiningClass(r[1]) = 0 /\ NF!toNFC(r) = r
    BY <1>3 DEF NF!StandsAlone
  <2>2. NF!Class(r[1]) = 0
    BY <2>1 DEF NF!Class
  <2>3. NF!Normal(r)
    BY <2>1, NormalMeans
  <2>4. 1 \in 1..Len(r)
    <3>1. Len(r) \in Nat /\ Len(r) # 0
      BY <1>3, LenProperties, EmptySeq
    <3> QED BY <3>1
  <2> QED BY <1>1, <2>2, <2>3, <2>4, NF!JoinNormal
<1> QED BY <1>2, <1>3

\* One round of applyLigatures keeps a text normal.
LEMMA ReplaceLigatureNormal ==
  ASSUME layout \in DOMAIN Layouts, L.normalize, LigaturesStandAlone,
         NEW text \in Seq(Code), NF!Normal(text)
  PROVE  NF!Normal(ReplaceLigature(text))
<1> DEFINE M == Matches(L, text)
<1>1. CASE M = {}
  BY <1>1 DEF ReplaceLigature
<1>2. CASE M # {}
  <2> DEFINE i == CHOOSE i \in M : \A j \in M : i <= j
             lig == L.ligatures[i]
             n == Len(text) - Len(lig.sequence)
  <2>1. L.ligatures \in Seq([sequence : Seq(Code), result : Seq(Code)])
    BY CurrentLayout DEF IsLayout
  <2>2. DOMAIN L.ligatures = 1..Len(L.ligatures) /\ Len(L.ligatures) \in Nat
    BY <2>1, LenProperties
  <2>3. M \subseteq 1..Len(L.ligatures)
    BY <2>2 DEF Matches
  <2>4. i \in M
    <3>1. M \subseteq Nat
      BY <2>2, <2>3
    <3>2. \E k \in M : \A m \in M : k <= m
      <4> HIDE DEF M
      <4> QED BY <1>2, <3>1, LeastNat
    <3> QED BY <3>2
  <2>5. lig \in [sequence : Seq(Code), result : Seq(Code)]
    <3> HIDE DEF i, M
    <3> QED BY <2>1, <2>3, <2>4, ElementOfSeq
  <2>6. ReplaceLigature(text) = SubSeq(text, 1, n) \o lig.result
    BY <1>2 DEF ReplaceLigature, matchLigature
  <2>7. IsTail(lig.sequence, text)
    BY <2>4 DEF Matches
  <2>8. NF!StandsAlone(lig.result)
    <3>1. i \in DOMAIN L.ligatures
      BY <2>2, <2>3, <2>4
    <3> HIDE DEF i
    <3> QED BY <3>1 DEF LigaturesStandAlone, L
  <2> HIDE DEF lig, i
  <2>9. Len(text) \in Nat /\ Len(lig.sequence) \in Nat /\ Len(lig.sequence) <= Len(text)
    BY <2>5, <2>7, LenProperties DEF IsTail
  <2>10. n \in 0..Len(text)
    BY <2>9
  <2> HIDE DEF n
  <2>11. NF!Normal(SubSeq(text, 1, n))
    BY <2>10, NormalEnds
  <2>12. SubSeq(text, 1, n) \in Seq(Code)
    BY <2>9, PrefixType DEF n
  <2>13. lig.result \in Seq(Code)
    BY <2>5
  <2> QED BY <2>6, <2>8, <2>11, <2>12, <2>13, NormalThenAlone
<1> QED BY <1>1, <1>2

\* So do all eight.
LEMMA ApplyLigaturesNormal ==
  ASSUME layout \in DOMAIN Layouts, L.normalize, LigaturesStandAlone,
         NEW text \in Seq(Code), NF!Normal(text)
  PROVE  applyLigatures(text) \in Seq(Code) /\ NF!Normal(applyLigatures(text))
<1> DEFINE S == {t \in Seq(Code) : NF!Normal(t)}
<1>1. \A t \in S : ReplaceLigature(t) \in S
  BY ReplaceLigatureType, ReplaceLigatureNormal
<1>2. text \in S
  OBVIOUS
<1> HIDE DEF S
<1>3. \A t \in S : TwoRounds(t) \in S
  BY <1>1 DEF TwoRounds
<1>4. \A t \in S : FourRounds(t) \in S
  BY <1>3 DEF FourRounds
<1>5. applyLigatures(text) \in S
  BY <1>2, <1>4 DEF applyLigatures
<1> QED BY <1>5 DEF S

\* What commit leaves in the window is normal.
LEMMA CommitNormal ==
  ASSUME ComposerType, layout \in DOMAIN Layouts, L.normalize, LigaturesStandAlone, NormalizesNFC,
         NEW produced \in Produced, NEW b, commit(produced, b)
  PROVE  NF!Normal(recent')
<1> DEFINE s == recent \o produced
           t == NFC(s)
           w == Processed(produced)
<1>1. s \in Seq(Code) /\ t \in Seq(Code)
  BY CommitTexts
<1>2. t = NF!toNFC(s)
  BY <1>1 DEF NormalizesNFC
<1>3. NF!Normal(t)
  <2>1. NF!TypingAssumption /\ s \in NF!Texts
    BY <1>1, CodeTexts
  <2> QED BY <1>2, <2>1, NF!NfcIsNormal
<1>4. w = applyLigatures(t)
  BY DEF Processed
<1> HIDE DEF s, t, w
<1>5. w \in Seq(Code) /\ NF!Normal(w)
  BY <1>1, <1>3, <1>4, ApplyLigaturesNormal
<1>6. recent' = WindowOf(w)
  BY DEF commit, w
<1>7. Len(w) \in Nat /\ KWindow \in Nat
  BY <1>5, LenProperties, ComposerAssumption
<1>8. CASE Len(w) > KWindow
  <2> DEFINE n == Len(w) - KWindow
  <2>1. n \in 0..Len(w)
    BY <1>7, <1>8
  <2>2. recent' = SubSeq(w, n + 1, Len(w))
    BY <1>6, <1>8 DEF WindowOf
  <2> HIDE DEF n
  <2> QED BY <1>5, <2>1, <2>2, NormalEnds
<1>9. CASE ~ (Len(w) > KWindow)
  BY <1>5, <1>6, <1>9 DEF WindowOf
<1> QED BY <1>8, <1>9

LEMMA EmptyNormal == NF!Normal(<<>>)
<1>1. <<>> \in Seq(Code)
  BY EmptySeq
<1>2. NF!toNFC(<<>>) = <<>>
  BY CodeTexts, NF!EmptyIsNormal
<1> QED BY <1>1, <1>2, NormalMeans

\* Backspace pops the end of the window.
LEMMA PopNormal ==
  ASSUME NEW r \in Seq(Code), NF!Normal(r)
  PROVE  NF!Normal(IF r = <<>> THEN <<>> ELSE SubSeq(r, 1, Len(r) - 1))
<1>1. CASE r = <<>>
  BY <1>1
<1>2. CASE r # <<>>
  <2>1. Len(r) \in Nat /\ Len(r) # 0
    BY <1>2, LenProperties, EmptySeq
  <2>2. Len(r) - 1 \in 0..Len(r)
    BY <2>1
  <2>3. NF!Normal(SubSeq(r, 1, Len(r) - 1))
    BY <2>2, NormalEnds
  <2> QED BY <1>2, <2>3
<1> QED BY <1>1, <1>2

\* One key through Composer::process keeps the window normal.
LEMMA ProcessNormal ==
  ASSUME ComposerType, NEW in, InputType(in), ~ Ignored(in), process(in),
         L.normalize, LigaturesStandAlone, NormalizesNFC, NF!Normal(recent)
  PROVE  NF!Normal(recent')
<1> DEFINE Goal == NF!Normal(recent')
           a == resolve(L, in)
<1>1. layout \in DOMAIN Layouts /\ recent \in Seq(Code)
  BY DEF Ignored, ComposerType
<1>2. /\ Outputs \subseteq Produced /\ Standalone \in Outputs
      /\ \A output \in Outputs : AfterDeadKey(output) \in Produced
  BY <1>1, ProducedTypes
<1>3. a.output \in Outputs
  BY <1>1, ResolveType DEF InputType, KeyAction
<1>4. \A produced \in Produced, b \in BOOLEAN : commit(produced, b) => Goal
  BY <1>1, CommitNormal
<1>5. recent' = <<>> => Goal
  BY EmptyNormal
<1>6. recent' = recent => Goal
  OBVIOUS
<1>7. commitNonEmpty(Standalone) => Goal
  BY <1>2, <1>4, <1>6 DEF commitNonEmpty
<1> HIDE DEF Goal, a
<1> SUFFICES Goal
  BY DEF Goal
<1>a. CASE ComposeBackspace(in) \/ ComposeEscape(in)
  BY <1>a, <1>6 DEF ComposeBackspace, ComposeEscape
<1>c. CASE ComposeKey(in)
  <2> DEFINE buf == composeBuf \o a.output
  <2>1. buf \in Seq(Code)
    BY <1>3, ComposerAssumption, ConcatProperties DEF ComposerType
  <2>2. \/ composeLookup(L, buf) = "Exact" /\ commit(L.composeExact[buf], TRUE)
        \/ recent' = recent
    <3>1. composeLookup(L, buf) \in {"None", "Prefix", "Exact"}
      BY <1>1, <2>1, LookupAnswers
    <3> QED BY <1>c, <3>1 DEF ComposeKey, a
  <2>3. composeLookup(L, buf) = "Exact" => L.composeExact[buf] \in Produced
    <3> SUFFICES ASSUME composeLookup(L, buf) = "Exact" PROVE L.composeExact[buf] \in Produced
      OBVIOUS
    <3>1. buf \in DOMAIN L.composeExact
      BY <1>1, <2>1, LookupAnswers
    <3> QED BY <1>1, <1>2, <3>1, CurrentLayout DEF IsLayout
  <2> QED BY <1>4, <1>6, <2>2, <2>3
<1>d. CASE Backspace(in)
  <2>1. \/ recent' = recent
        \/ recent' = IF recent = <<>> THEN <<>> ELSE SubSeq(recent, 1, Len(recent) - 1)
    BY <1>d DEF Backspace
  <2> QED BY <1>1, <1>6, <2>1, PopNormal DEF Goal
<1>e. CASE HardBoundary(in)
  BY <1>e, <1>5 DEF HardBoundary
<1>f. CASE SpaceKey(in)
  BY <1>f, <1>2, <1>4, <1>5 DEF SpaceKey
<1>g. CASE Unmapped(in)
  BY <1>g, <1>2, <1>4, <1>5 DEF Unmapped
<1>h. CASE StartCompose(in)
  BY <1>h, <1>6, <1>7 DEF StartCompose
<1>i. CASE DeadKeyPress(in)
  BY <1>i, <1>6, <1>7 DEF DeadKeyPress
<1>j. CASE EmitKey(in)
  BY <1>j, <1>2, <1>3, <1>4 DEF EmitKey, a
<1> QED
  BY <1>a, <1>c, <1>d, <1>e, <1>f, <1>g, <1>h, <1>i, <1>j DEF process, Ignore

NormalWindow == layout # NoLayout /\ L.normalize => NF!Normal(recent)

LEMMA NormalStep ==
  ASSUME NormalizesNFC, LigaturesStandAlone, IInv, NormalWindow, [Next]_vars
  PROVE  NormalWindow'
<1>1. ComposerType
  BY DEF IInv, TypeOK
<1>2. ASSUME recent' = <<>> PROVE NormalWindow'
  BY <1>2, EmptyNormal DEF NormalWindow
<1>3. ASSUME layout' = layout, recent' = recent PROVE NormalWindow'
  BY <1>3 DEF NormalWindow, L
<1>a. ASSUME NEW ev \in Events, Bypass(ev) PROVE NormalWindow'
  BY <1>3, <1>a DEF Bypass, composerVars
<1>b. ASSUME NEW ev \in Events, ShortcutKey(ev) PROVE NormalWindow'
  BY <1>2, <1>b DEF ShortcutKey, reset
<1>c. ASSUME NEW ev \in Events, RoutedKey(ev) PROVE NormalWindow'
  <2> DEFINE in == InputOf(ev)
  <2>1. Listening(ev) /\ ~ isPureModifier(ev.vk) /\ process(in)
    BY <1>c DEF RoutedKey
  <2>2. InputType(in) /\ ~ Ignored(in)
    BY <2>1, InputOfType, RoutedNotIgnored
  <2> HIDE DEF in
  <2>3. layout' = layout
    BY <1>1, <2>1, <2>2, ProcessWindow
  <2> SUFFICES ASSUME layout # NoLayout, L.normalize PROVE NF!Normal(recent')
    BY <2>3 DEF NormalWindow, L
  <2>4. NF!Normal(recent)
    BY DEF NormalWindow
  <2> QED BY <1>1, <2>1, <2>2, <2>4, ProcessNormal
<1>d. ASSUME NEW id \in DOMAIN Layouts, SetLayout(id) PROVE NormalWindow'
  BY <1>2, <1>d DEF SetLayout, setLayout, reset
<1>e. ASSUME NEW on \in BOOLEAN, Enable(on) PROVE NormalWindow'
  BY <1>2, <1>3, <1>e DEF Enable, reset
<1>f. ASSUME Install \/ Uninstall \/ CaretMoves \/ UNCHANGED vars PROVE NormalWindow'
  BY <1>3, <1>f DEF Install, Uninstall, CaretMoves, vars, composerVars
<1> QED BY <1>a, <1>b, <1>c, <1>d, <1>e, <1>f DEF Next, KeyDown

-----------------------------------------------------------------------------
(* The rounds of applyLigatures.                                           *)

\* A chain of ligatures, each completed by the result of the one before, has
\* at most eight links: rank counts those that can still follow a codepoint.
LigatureChainsEnd ==
  \A id \in DOMAIN Layouts : \E rank \in [Code -> 0..8] :
    \A i \in DOMAIN Layouts[id].ligatures :
      LET seq == Layouts[id].ligatures[i].sequence
          res == Layouts[id].ligatures[i].result
      IN  seq # <<>> => res # <<>> /\ rank[res[Len(res)]] < rank[seq[Len(seq)]]

\* How many links can follow the end of a text.
LinksAfter(rank, text) == IF text = <<>> THEN 0 ELSE rank[text[Len(text)]]

\* rank is that of a layout's ligatures.
Ranks(rank) ==
  /\ rank \in [Code -> 0..8]
  /\ \A i \in DOMAIN L.ligatures :
       L.ligatures[i].sequence # <<>> =>
         /\ L.ligatures[i].result # <<>>
         /\ LinksAfter(rank, L.ligatures[i].result) < LinksAfter(rank, L.ligatures[i].sequence)

LEMMA RankExists ==
  ASSUME layout \in DOMAIN Layouts, LigatureChainsEnd
  PROVE  \E rank : Ranks(rank)
<1>1. PICK rank \in [Code -> 0..8] :
        \A i \in DOMAIN L.ligatures :
          L.ligatures[i].sequence # <<>> =>
            /\ L.ligatures[i].result # <<>>
            /\ rank[L.ligatures[i].result[Len(L.ligatures[i].result)]]
                 < rank[L.ligatures[i].sequence[Len(L.ligatures[i].sequence)]]
  BY DEF LigatureChainsEnd, L
<1> QED BY <1>1 DEF Ranks, LinksAfter

LEMMA LinksType ==
  ASSUME NEW rank, Ranks(rank), NEW text \in Seq(Code)
  PROVE  LinksAfter(rank, text) \in 0..8
<1>1. CASE text = <<>>
  BY <1>1 DEF LinksAfter
<1>2. CASE text # <<>>
  <2>1. Len(text) \in Nat /\ Len(text) # 0
    BY <1>2, LenProperties, EmptySeq
  <2>2. text[Len(text)] \in Code
    <3>1. Len(text) \in 1..Len(text)
      BY <2>1
    <3> QED BY <3>1, ElementOfSeq
  <2> QED BY <1>2, <2>2 DEF LinksAfter, Ranks
<1> QED BY <1>1, <1>2

\* A text and its tail end alike.
LEMMA TailEndsAlike ==
  ASSUME NEW rank, NEW s \in Seq(Code), s # <<>>, NEW t \in Seq(Code), IsTail(s, t)
  PROVE  t # <<>> /\ LinksAfter(rank, t) = LinksAfter(rank, s)
<1>1. Len(s) \in Nat /\ Len(s) # 0 /\ Len(t) \in Nat /\ Len(s) <= Len(t)
  BY LenProperties, EmptySeq DEF IsTail
<1>2. t # <<>>
  BY <1>1
<1>3. Len(s) \in 1..Len(s) /\ (Len(t) - Len(s)) + Len(s) = Len(t)
  BY <1>1
<1>4. s[Len(s)] = t[Len(t)]
  BY <1>3 DEF IsTail
<1> QED BY <1>2, <1>4 DEF LinksAfter

\* A text ends like its last part.
LEMMA JoinEndsAlike ==
  ASSUME NEW rank, NEW s \in Seq(Code), NEW t \in Seq(Code), t # <<>>
  PROVE  LinksAfter(rank, s \o t) = LinksAfter(rank, t)
<1> DEFINE w == s \o t
<1>1. Len(s) \in Nat /\ Len(t) \in Nat /\ Len(t) # 0
  BY LenProperties, EmptySeq
<1>2. /\ w \in Seq(Code) /\ Len(w) = Len(s) + Len(t)
      /\ \A i \in 1..(Len(s) + Len(t)) : w[i] = IF i <= Len(s) THEN s[i] ELSE t[i - Len(s)]
  BY ConcatProperties
<1> HIDE DEF w
<1>3. /\ Len(s) + Len(t) \in 1..(Len(s) + Len(t)) /\ ~ (Len(s) + Len(t) <= Len(s))
      /\ (Len(s) + Len(t)) - Len(s) = Len(t) /\ Len(s) + Len(t) # 0
  BY <1>1
<1>4. w[Len(w)] = t[Len(t)]
  BY <1>2, <1>3
<1>5. w # <<>>
  BY <1>2, <1>3
<1> QED BY <1>4, <1>5 DEF LinksAfter, w

\* A round that replaces something shortens the chain.
LEMMA RoundShortensChain ==
  ASSUME layout \in DOMAIN Layouts, NEW rank, Ranks(rank),
         NEW text \in Seq(Code), Matches(L, text) # {}
  PROVE  LinksAfter(rank, ReplaceLigature(text)) < LinksAfter(rank, text)
<1> DEFINE M == Matches(L, text)
           i == CHOOSE i \in M : \A j \in M : i <= j
           lig == L.ligatures[i]
           n == Len(text) - Len(lig.sequence)
<1>1. L.ligatures \in Seq([sequence : Seq(Code), result : Seq(Code)])
  BY CurrentLayout DEF IsLayout
<1>2. DOMAIN L.ligatures = 1..Len(L.ligatures) /\ Len(L.ligatures) \in Nat
  BY <1>1, LenProperties
<1>3. M \subseteq 1..Len(L.ligatures)
  BY <1>2 DEF Matches
<1>4. i \in M
  <2>1. M \subseteq Nat
    BY <1>2, <1>3
  <2>2. \E k \in M : \A m \in M : k <= m
    <3>1. M # {}
      OBVIOUS
    <3> HIDE DEF M
    <3> QED BY <2>1, <3>1, LeastNat
  <2> QED BY <2>2
<1>5. i \in DOMAIN L.ligatures /\ lig.sequence # <<>> /\ IsTail(lig.sequence, text)
  BY <1>4 DEF Matches
<1>6. lig \in [sequence : Seq(Code), result : Seq(Code)]
  <2> HIDE DEF i, M
  <2> QED BY <1>1, <1>3, <1>4, ElementOfSeq
<1>7. ReplaceLigature(text) = SubSeq(text, 1, n) \o lig.result
  BY DEF ReplaceLigature, matchLigature
<1>8. lig.result # <<>> /\ LinksAfter(rank, lig.result) < LinksAfter(rank, lig.sequence)
  <2> HIDE DEF i, M
  <2> QED BY <1>5 DEF Ranks
<1> HIDE DEF lig, i
<1>9. Len(text) \in Nat /\ Len(lig.sequence) \in Nat
  BY <1>6, LenProperties
<1>10. SubSeq(text, 1, n) \in Seq(Code)
  BY <1>9, PrefixType
<1>11. LinksAfter(rank, text) = LinksAfter(rank, lig.sequence)
  BY <1>5, <1>6, TailEndsAlike
<1>12. LinksAfter(rank, ReplaceLigature(text)) = LinksAfter(rank, lig.result)
  <2>1. lig.result \in Seq(Code)
    BY <1>6
  <2> HIDE DEF n
  <2> QED BY <1>7, <1>8, <1>10, <2>1, JoinEndsAlike
<1> QED BY <1>8, <1>11, <1>12

\* After the eight rounds no ligature matches.
LEMMA RoundsSettle ==
  ASSUME layout \in DOMAIN Layouts, LigatureChainsEnd, NEW text \in Seq(Code)
  PROVE  Matches(L, applyLigatures(text)) = {}
<1>1. PICK rank : Ranks(rank)
  BY RankExists
<1> DEFINE S(n) == {t \in Seq(Code) : Matches(L, t) = {} \/ LinksAfter(rank, t) + n <= 8}
<1>2. ASSUME NEW n \in Int, NEW t \in S(n) PROVE ReplaceLigature(t) \in S(n + 1)
  <2>1. t \in Seq(Code) /\ ReplaceLigature(t) \in Seq(Code)
    BY ReplaceLigatureType
  <2>2. CASE Matches(L, t) = {}
    BY <2>1, <2>2 DEF ReplaceLigature
  <2>3. CASE Matches(L, t) # {}
    <3> DEFINE p == LinksAfter(rank, t)
               q == LinksAfter(rank, ReplaceLigature(t))
    <3>1. q < p
      BY <1>1, <2>1, <2>3, RoundShortensChain
    <3>2. p \in Int /\ q \in Int
      <4>1. p \in 0..8
        BY <1>1, <2>1, LinksType
      <4>2. q \in 0..8
        BY <1>1, <2>1, LinksType
      <4> QED BY <4>1, <4>2
    <3>3. p + n <= 8
      BY <2>3
    <3> HIDE DEF p, q
    <3>4. q + (n + 1) <= 8
      BY <3>1, <3>2, <3>3
    <3> QED BY <2>1, <3>4 DEF q
  <2> QED BY <2>2, <2>3
<1>3. text \in S(0)
  <2>1. LinksAfter(rank, text) \in 0..8
    BY <1>1, LinksType
  <2> QED BY <2>1
<1>4. \A t \in S(8) : Matches(L, t) = {}
  <2> SUFFICES ASSUME NEW t \in S(8), Matches(L, t) # {} PROVE FALSE
    OBVIOUS
  <2>1. LinksAfter(rank, ReplaceLigature(t)) < LinksAfter(rank, t)
    BY <1>1, RoundShortensChain
  <2>2. LinksAfter(rank, ReplaceLigature(t)) \in 0..8 /\ LinksAfter(rank, t) \in 0..8
    BY <1>1, ReplaceLigatureType, LinksType
  <2>3. LinksAfter(rank, t) + 8 <= 8
    OBVIOUS
  <2> QED BY <2>1, <2>2, <2>3
<1> HIDE DEF S
<1>5. ASSUME NEW n \in Int, NEW t \in S(n) PROVE TwoRounds(t) \in S(n + 2)
  <2>1. ReplaceLigature(t) \in S(n + 1) /\ n + 1 \in Int /\ (n + 1) + 1 = n + 2
    BY <1>2
  <2> QED BY <1>2, <2>1 DEF TwoRounds
<1>6. ASSUME NEW n \in Int, NEW t \in S(n) PROVE FourRounds(t) \in S(n + 4)
  <2>1. TwoRounds(t) \in S(n + 2) /\ n + 2 \in Int /\ (n + 2) + 2 = n + 4
    BY <1>5
  <2> QED BY <1>5, <2>1 DEF FourRounds
<1>7. FourRounds(text) \in S(4)
  BY <1>3, <1>6
<1>8. FourRounds(FourRounds(text)) \in S(8)
  BY <1>6, <1>7
<1> QED BY <1>4, <1>8 DEF applyLigatures

\* What matches the kept window matches the text it is cut from.
LEMMA WindowMatches ==
  ASSUME layout \in DOMAIN Layouts, NEW text \in Seq(Code)
  PROVE  Matches(L, WindowOf(text)) \subseteq Matches(L, text)
<1> DEFINE w == WindowOf(text)
<1>1. w \in Seq(Code) /\ IsTail(w, text)
  BY WindowOfTail
<1>2. L.ligatures \in Seq([sequence : Seq(Code), result : Seq(Code)])
  BY CurrentLayout DEF IsLayout
<1> HIDE DEF w
<1>3. ASSUME NEW i \in Matches(L, w) PROVE i \in Matches(L, text)
  <2> DEFINE s == L.ligatures[i].sequence
  <2>1. i \in DOMAIN L.ligatures /\ s # <<>> /\ IsTail(s, w)
    BY DEF Matches
  <2>2. s \in Seq(Code)
    <3>1. i \in 1..Len(L.ligatures)
      BY <1>2, <2>1, LenProperties
    <3>2. L.ligatures[i] \in [sequence : Seq(Code), result : Seq(Code)]
      BY <1>2, <3>1, ElementOfSeq
    <3> QED BY <3>2
  <2> HIDE DEF s
  <2>3. Len(s) \in Nat /\ Len(w) \in Nat /\ Len(text) \in Nat /\ Len(s) <= Len(w) /\ Len(w) <= Len(text)
    BY <1>1, <2>1, <2>2, LenProperties DEF IsTail
  <2>4. ASSUME NEW k \in 1..Len(s) PROVE s[k] = text[Len(text) - Len(s) + k]
    <3> DEFINE h == Len(w) - Len(s) + k
    <3>1. h \in 1..Len(w) /\ Len(text) - Len(w) + h = Len(text) - Len(s) + k
      BY <2>3
    <3>2. s[k] = w[h]
      BY <2>1 DEF IsTail
    <3> HIDE DEF h
    <3>3. w[h] = text[Len(text) - Len(w) + h]
      BY <1>1, <3>1 DEF IsTail
    <3> QED BY <3>1, <3>2, <3>3
  <2>5. IsTail(s, text)
    BY <2>3, <2>4 DEF IsTail
  <2> QED BY <2>1, <2>5 DEF Matches, s
<1> QED BY <1>3 DEF w

LEMMA EmitSettles ==
  ASSUME LigatureChainsEnd, IInv, NEW ev \in Events, RoutedKey(ev), EmitKey(InputOf(ev))
  PROVE  Matches(L, recent') = {}
<1> DEFINE in == InputOf(ev)
           out == resolve(L, in).output
           produced == AfterDeadKey(out)
           s == IF L.normalize THEN NFC(recent \o produced) ELSE recent \o produced
           text == Processed(produced)
<1>1. ComposerType /\ ~ Ignored(in) /\ InputType(in)
  BY RoutedNotIgnored, InputOfType DEF IInv, TypeOK, RoutedKey
<1>2. layout \in DOMAIN Layouts /\ recent \in Seq(Code)
  BY <1>1 DEF Ignored, ComposerType
<1>3. out \in Outputs
  BY <1>1, <1>2, ResolveType DEF InputType, KeyAction
<1>4. produced \in Produced
  BY <1>1, <1>2, <1>3, ProducedTypes
<1>5. recent' = WindowOf(text)
  BY DEF EmitKey, commit
<1> HIDE DEF out, produced
<1>6. s \in Seq(Code)
  BY <1>1, <1>4, CommitTexts
<1>7. text = applyLigatures(s)
  BY DEF Processed
<1> HIDE DEF s, text
<1>8. text \in Seq(Code) /\ Matches(L, text) = {}
  BY <1>2, <1>6, <1>7, ApplyLigaturesType, RoundsSettle
<1> QED BY <1>2, <1>5, <1>8, WindowMatches

-----------------------------------------------------------------------------
(* The theorems.                                                           *)

\* Composer and KeyboardEngine: the inductive invariant holds throughout.
THEOREM Invariance == Spec => []IInv
<1>1. Init => IInv
  BY InitInv
<1>2. IInv /\ [Next]_vars => IInv'
  BY StepInv
<1> QED BY <1>1, <1>2, PTL DEF Spec

\* The members of Composer and of the hook keep their types and the window its
\* cap, for every layout and normaliser.
THEOREM TypeCorrectness == Spec => []TypeOK
<1>1. IInv => TypeOK
  BY DEF IInv
<1> QED BY <1>1, Invariance, PTL

\* The window is the tail of the text as long as nothing else edits it:
\* commit's diff (Composer.cpp:68-94) is exact for every layout, normaliser,
\* ligature list and window size.
THEOREM Reconciliation == Spec => []SyncedWindow
<1>1. IInv => SyncedWindow
  BY DEF IInv
<1> QED BY <1>1, Invariance, PTL

\* A pending dead key and a compose sequence never coexist.
THEOREM ModesNeverOverlap == Spec => []ModesExclusive
<1>1. IInv => ModesExclusive
  BY DEF IInv, ModesInv
<1> QED BY <1>1, Invariance, PTL

\* The compose buffer is always a prefix of a sequence of the table.
THEOREM ComposeNeverStuck == Spec => []ComposeBufferLive
<1>1. IInv => ComposeBufferLive
  BY DEF IInv, ModesInv
<1> QED BY <1>1, Invariance, PTL

\* Disabling the program leaves no composition state to resume.
THEOREM DisabledIsIdle == Spec => []IdleWhenDisabled
<1>1. IInv => IdleWhenDisabled
  BY DEF IInv
<1> QED BY <1>1, Invariance, PTL

\* While synced, a suppressed key never costs the user text the composer did
\* not put there.
THEOREM ForeignTextIsKept == Spec => TypingKeepsForeignText
<1>1. IInv => (LosesForeignText => ~\E ev \in Events : synced /\ RoutedKey(ev) /\ op'.suppress)
  BY SuppressedKeyKeepsForeign
<1>2. IInv => [LosesForeignText =>
                 ~\E ev \in Events : synced /\ RoutedKey(ev) /\ op'.suppress]_vars
  BY <1>1
<1> QED BY <1>2, Invariance, PTL DEF TypingKeepsForeignText

\* With the curated normaliser, and layouts none of whose ligatures composes
\* with the text in front of it, the window is in normal form after any keys:
\* truncation, Backspace and ligatures leave nothing toNFC would still change.
THEOREM WindowStaysNormalized ==
  ASSUME NormalizesNFC, LigaturesStandAlone
  PROVE  Spec => []WindowNormalized
<1>1. Init => NormalWindow
  BY DEF Init, ComposerInit, NormalWindow
<1>2. IInv /\ NormalWindow /\ [Next]_vars => NormalWindow'
  BY NormalStep
<1>3. IInv /\ NormalWindow => WindowNormalized
  <2> SUFFICES ASSUME IInv, layout # NoLayout, L.normalize, NF!Normal(recent) PROVE NFC(recent) = recent
    BY DEF NormalWindow, WindowNormalized
  <2>1. recent \in Seq(Code)
    BY DEF IInv, TypeOK, ComposerType
  <2> QED BY <2>1, NormalMeans DEF NormalizesNFC
<1> QED BY <1>1, <1>2, <1>3, Invariance, PTL DEF Spec

\* If no chain of ligatures has more than eight links, a key that emits leaves
\* none undone at the end of the window: the guard of applyLigatures is enough.
THEOREM LigaturesAreDone ==
  ASSUME LigatureChainsEnd
  PROVE  Spec => LigaturesSettled
<1>1. IInv => ((layout # NoLayout /\ Matches(L, recent') # {}) =>
                 ~\E ev \in Events : RoutedKey(ev) /\ EmitKey(InputOf(ev)))
  BY EmitSettles
<1>2. IInv => [(layout # NoLayout /\ Matches(L, recent') # {}) =>
                 ~\E ev \in Events : RoutedKey(ev) /\ EmitKey(InputOf(ev))]_vars
  BY <1>1
<1> QED BY <1>2, Invariance, PTL DEF LigaturesSettled
=============================================================================
