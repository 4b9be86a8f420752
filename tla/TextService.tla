----------------------------- MODULE TextService -----------------------------
(***************************************************************************)
(* tsf/TextService.cpp and tsf/EditSession.cpp: the text-service front end *)
(* of the Composer.  The framework offers a key to OnTestKeyDown first and *)
(* delivers it to OnKeyDown only if the test says it will be eaten; a key  *)
(* that is not eaten goes to the control.                                  *)
(*                                                                         *)
(* The control's text is counted in UTF-16 code units, as the ranges of    *)
(* the framework are: a codepoint of Wide takes two places, itself and     *)
(* Trail.                                                                  *)
(***************************************************************************)
EXTENDS TextControl, SequencesExt

CONSTANTS
  Wide,    \* the codepoints above U+FFFF
  Trail    \* the second code unit of such a codepoint

ASSUME TextServiceAssumption == Wide \subseteq Code /\ Trail \notin Code \cup {Foreign}

VARIABLES
  active,      \* the key sink is advised
  haveLayout,  \* m_haveLayout
  synced       \* history: since the window was last empty, only edits of whole
               \* codepoints that were carried out have changed the text

tsfVars == <<active, haveLayout, doc, synced>>
vars    == <<composerVars, tsfVars>>

\* The variables keep the types the code declares, and the window its cap.
TypeOK ==
  /\ ComposerType
  /\ active \in BOOLEAN /\ haveLayout \in BOOLEAN /\ synced \in BOOLEAN
  /\ doc \in Seq(Code \cup {Foreign, Trail})
  /\ haveLayout => layout # NoLayout

Init ==
  /\ ComposerInit
  /\ active = FALSE /\ haveLayout = FALSE /\ doc = <<>> /\ synced = TRUE

-----------------------------------------------------------------------------
Units(cp)   == IF cp \in Wide THEN <<cp, Trail>> ELSE <<cp>>
Utf16(text) ==
  LET upto[n \in 0..Len(text)] == IF n = 0 THEN <<>> ELSE upto[n - 1] \o Units(text[n])
  IN  upto[Len(text)]

\* Mutant of DoEditSession: every codepoint is taken for two code units.
DoEditSessionPairs(o) == Chop(doc, 2 * o.backspaces) \o Utf16(o.insert)

\* DoEditSession: the range is extended back by code units, then replaced.
DoEditSession(o) == Chop(doc, o.backspaces) \o Utf16(o.insert)

\* What the control does with a key: its own Backspace takes a whole codepoint.
ControlChop == Chop(doc, IF doc # <<>> /\ Last(doc) = Trail THEN 2 ELSE 1)

ControlEffects(vk) == {IF d = Chop(doc, 1) THEN ControlChop ELSE d : d \in NativeEffects(vk, doc)}

-----------------------------------------------------------------------------
\* Activate: load a layout (the one the manager finds, or none) and advise the
\* sinks; if that fails the service is deactivated again.
Activate(id, advised) ==
  /\ ~active
  /\ IF id = NoLayout
     THEN haveLayout' = FALSE /\ UNCHANGED <<layout, recent, pendingDead, composing, composeBuf, synced>>
     ELSE haveLayout' = TRUE /\ setLayout(id) /\ synced' = TRUE
  /\ active' = advised
  /\ UNCHANGED <<op, doc>>

\* Deactivate leaves the composer as it is.
Deactivate ==
  /\ active /\ active' = FALSE
  /\ UNCHANGED <<composerVars, haveLayout, doc, synced>>

\* Mutant of OnSetFocus: the composer is not told.
OnSetFocusKeeps(d) ==
  /\ active /\ doc' = d
  /\ UNCHANGED <<composerVars, active, haveLayout, synced>>

\* Either OnSetFocus: the focus moves to a text d.
OnSetFocus(d) ==
  /\ active /\ reset
  /\ doc' = d /\ synced' = TRUE
  /\ UNCHANGED <<layout, op, active, haveLayout>>

\* The caret moves inside the focused document, or text arrives from elsewhere:
\* there is no sink for it.
CaretMoves(d) ==
  /\ doc' = d
  /\ synced' = (recent = <<>>)
  /\ UNCHANGED <<composerVars, active, haveLayout>>

-----------------------------------------------------------------------------
\* The common beginning of HandleKeyDown.
Handled(ev) == active /\ haveLayout /\ ~isPureModifier(ev.vk) /\ ~Shortcut(ev)

\* Mutant of Predicted: compose mode is not asked for.
PredictedNoCompose(in) ==
  \/ pendingDead # NoDead
  \/ in.vk \notin {Space, Back, Enter, Tab} /\ resolve(L, in).kind # "None"

\* HandleKeyDown without apply: what OnTestKeyDown predicts.
Predicted(in) ==
  \/ pendingDead # NoDead \/ composing
  \/ in.vk \notin {Space, Back, Enter, Tab} /\ resolve(L, in).kind # "None"

\* The test does not eat the key: it goes to the control, and the composer
\* never hears of it.
UneatenKey(ev) ==
  /\ InBound(ev)
  /\ ~(Handled(ev) /\ Predicted(InputOf(ev)))
  /\ doc' \in ControlEffects(ev.vk)
  /\ synced' = (recent = <<>> \/ (synced /\ doc' = doc))
  /\ UNCHANGED <<composerVars, active, haveLayout>>

\* The codepoints an edit takes back are of one code unit each.
WholeDeletion(o) ==
  \A i \in (Len(recent) - o.backspaces + 1)..Len(recent) : recent[i] \notin Wide

\* The edit is carried out in the edit session.
Applied ==
  /\ op'.suppress
  /\ doc' = DoEditSession(op')
  /\ synced' = (recent' = <<>> \/ (synced /\ WholeDeletion(op')))

\* What can be left of an edit: nothing, its deletion or its insertion.
Remains(o) == {Swallow, [o EXCEPT !.insert = <<>>], [o EXCEPT !.backspaces = 0]}

\* The session is refused or finds no selection, the range to delete cannot be
\* cloned, or the context takes no insertion: the composer has moved on.
SessionFailed ==
  /\ op'.suppress
  /\ \E o \in Remains(op') : doc' = DoEditSession(o)
  /\ synced' = (recent' = <<>> \/ (synced /\ op' = Swallow))

\* The composer lets the key through after all; what it would have inserted is
\* dropped.
LetThrough(vk) ==
  /\ ~op'.suppress
  /\ doc' \in ControlEffects(vk)
  /\ synced' = (recent' = <<>>)

\* The key is eaten by the test and delivered to OnKeyDown.
EatenKey(ev) ==
  /\ InBound(ev)
  /\ Handled(ev) /\ Predicted(InputOf(ev))
  /\ process(InputOf(ev))
  /\ Applied \/ SessionFailed \/ LetThrough(ev.vk)
  /\ UNCHANGED <<active, haveLayout>>

KeyDown(ev) == UneatenKey(ev) \/ EatenKey(ev)

Next ==
  \/ \E id \in DOMAIN Layouts \cup {NoLayout}, advised \in BOOLEAN : Activate(id, advised)
  \/ Deactivate
  \/ \E d \in OtherDocs : OnSetFocus(d) \/ CaretMoves(d)
  \/ \E ev \in Events : KeyDown(ev)

Spec == Init /\ [][Next]_vars

-----------------------------------------------------------------------------
\* While the text is only changed by edits of whole codepoints, the window is
\* its tail, also across failed and refused sessions that changed nothing and
\* keys the composer never sees.
SyncedWindow == synced => IsTail(Utf16(recent), doc)

\* While synced, an edit session never takes text the composer did not insert,
\* whichever part of the edit is carried out, and although it counts codepoints
\* where the range counts units: what is deleted wrongly is its own.
TypingKeepsForeignText ==
  [][LosesForeignText => ~\E ev \in Events : synced /\ EatenKey(ev) /\ op'.suppress]_vars

\* A key leaves no mode pending.
Ends == pendingDead' = NoDead /\ ~composing'

\* It begins the mode of its own action.
Begins(act) ==
  \/ act.kind = "DeadKey" /\ pendingDead' = act.deadKey /\ ~composing'
  \/ act.kind = "Compose" /\ composing' /\ composeBuf' = <<>> /\ pendingDead' = NoDead

\* Compose mode stays, with one codepoint less or with the key's own text more,
\* which is still the beginning of a sequence of the table.
Collects(act) ==
  /\ composing /\ composing' /\ pendingDead' = NoDead
  /\ \/ composeBuf # <<>> /\ composeBuf' = SubSeq(composeBuf, 1, Len(composeBuf) - 1)
     \/ act.output # <<>> /\ composeBuf' = composeBuf \o act.output /\ composeBuf' \in L.composePrefix

\* No mode outlives the keys it was meant for: with a dead key or a compose
\* sequence pending every key that is not a modifier or a shortcut, tested and
\* handled, ends the mode, begins one itself or brings the sequence on.  The
\* key is never left to the control with the mode still waiting.
PendingIsAnswered ==
  [][pendingDead # NoDead \/ composing =>
       Ends \/ \A ev \in Events :
         LET act == resolve(L, InputOf(ev))
         IN  Handled(ev) /\ KeyDown(ev) => Begins(act) \/ Collects(act)]_vars

\* Both halves of every codepoint of Wide are there.
Paired(d) ==
  /\ \A i \in DOMAIN d : d[i] \in Wide => i < Len(d) /\ d[i + 1] = Trail
  /\ \A i \in DOMAIN d : d[i] = Trail => i > 1 /\ d[i - 1] \in Wide

\* README.md:9: full supplementary-plane (surrogate-pair) support.  An edit that
\* is carried out leaves no half of a pair in a text that had none.
EditsKeepPairs ==
  [][(\E ev \in Events : EatenKey(ev)) /\ Applied /\ Paired(doc) => Paired(doc')]_vars

\* KeyboardLayout.hpp:56-57: the standalone form of a dead key is emitted when an
\* unmapped key follows.  What the composer flushes before a key it lets through
\* is in the text then, wherever that key put the caret.
FlushedTextArrives ==
  [][op'.insert # <<>> /\ (\E ev \in Events : EatenKey(ev) /\ LetThrough(ev.vk)) =>
       LET flushed == Utf16(op'.insert)
       IN  \E i \in 0..(Len(doc') - Len(flushed)) : SubSeq(doc', i + 1, i + Len(flushed)) = flushed]_vars

\* Composer.hpp:14: the window resets on word boundaries.
WordBoundaryEndsWindow ==
  [][(\E ev \in Events : ev.vk \in {Space, Enter, Tab} /\ Handled(ev) /\ UneatenKey(ev))
       => recent' = <<>>]_vars
=============================================================================
