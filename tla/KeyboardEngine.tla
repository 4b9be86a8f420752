--------------------------- MODULE KeyboardEngine ---------------------------
(***************************************************************************)
(* KeyboardEngine.{h,cpp}: the low-level keyboard hook around one Composer,*)
(* with the focused application it types into.  doc is the text before the *)
(* caret of the focused control; a codepoint the composer did not put      *)
(* there is Foreign.  Injected input reaches the application before the    *)
(* key that is passed through, and in order, so an edit and the key that   *)
(* follows it are one step.                                                *)
(*                                                                         *)
(* The application is the environment: what a key does there when it is    *)
(* not suppressed is NativeEffects, and the caret may move to another text *)
(* at any time, which no handler of the program is told about.             *)
(***************************************************************************)
EXTENDS TextControl

VARIABLES
  hook,      \* m_hook: the hook is installed
  enabled,   \* m_enabled
  synced     \* history: since the window was last empty the text has not been
             \* touched behind the composer's back (Bypass, CaretMoves), and no
             \* unmapped key has passed through with a dead key's flush

engineVars == <<hook, enabled, doc, synced>>
vars == <<composerVars, engineVars>>

\* The variables keep the types the code declares, and the window its cap.
TypeOK ==
  /\ ComposerType
  /\ hook \in BOOLEAN /\ enabled \in BOOLEAN /\ synced \in BOOLEAN
  /\ doc \in Text

Init ==
  /\ ComposerInit
  /\ hook = FALSE /\ enabled = TRUE /\ doc = <<>> /\ synced = TRUE

-----------------------------------------------------------------------------
Listening(ev) == hook /\ ~ev.injected /\ enabled /\ layout # NoLayout

\* The key never reaches the composer: no hook, injected input, the program
\* disabled or without a layout, or a modifier.
Bypass(ev) ==
  /\ InBound(ev)
  /\ ~Listening(ev) \/ isPureModifier(ev.vk)
  /\ doc' \in NativeEffects(ev.vk, doc)
  /\ synced' = (recent = <<>> \/ (synced /\ doc' = doc))
  /\ UNCHANGED <<composerVars, hook, enabled>>

\* A Ctrl, left-Alt or Win combination resets the composer and passes through.
ShortcutKey(ev) ==
  /\ InBound(ev)
  /\ Listening(ev) /\ ~isPureModifier(ev.vk) /\ Shortcut(ev)
  /\ reset
  /\ doc' \in NativeEffects(ev.vk, doc)
  /\ synced' = TRUE
  /\ UNCHANGED <<layout, op, hook, enabled>>

\* An unmapped key that flushes a dead key also passes through (Unmapped).
FlushesThrough(ev) == pendingDead # NoDead /\ LookedUp(InputOf(ev), "None")

\* Every other key goes through the composer; its edit is sent, and the key
\* passes through unless the composer suppresses it.
RoutedKey(ev) ==
  /\ InBound(ev)
  /\ Listening(ev) /\ ~isPureModifier(ev.vk) /\ ~Shortcut(ev)
  /\ process(InputOf(ev))
  /\ IF op'.suppress THEN doc' = Edited(doc, op')
     ELSE doc' \in NativeEffects(ev.vk, Edited(doc, op'))
  /\ synced' = (recent' = <<>> \/ (synced /\ ~FlushesThrough(ev)))
  /\ UNCHANGED <<hook, enabled>>

KeyDown(ev) == Bypass(ev) \/ ShortcutKey(ev) \/ RoutedKey(ev)

\* Application points the engine at the layout the manager made current.
SetLayout(id) ==
  /\ setLayout(id)
  /\ synced' = TRUE
  /\ UNCHANGED <<op, hook, enabled, doc>>

\* Mutant of Enable: disabling leaves the composition state.
EnableKeeps(on) ==
  /\ enabled' = on /\ enabled # on
  /\ synced' = synced /\ UNCHANGED <<composerVars, hook, doc>>

\* ToggleEnabled: disabling resets the composer.
Enable(on) ==
  /\ enabled # on /\ enabled' = on
  /\ IF on THEN UNCHANGED <<recent, pendingDead, composing, composeBuf, synced>>
     ELSE reset /\ synced' = TRUE
  /\ UNCHANGED <<layout, op, hook, doc>>

Install   == ~hook /\ hook' = TRUE  /\ UNCHANGED <<composerVars, enabled, doc, synced>>
Uninstall == hook  /\ hook' = FALSE /\ UNCHANGED <<composerVars, enabled, doc, synced>>

\* The user clicks elsewhere: the engine has no handler for it.
CaretMoves ==
  /\ doc' \in OtherDocs \ {doc}
  /\ synced' = (recent = <<>>)
  /\ UNCHANGED <<composerVars, hook, enabled>>

Next ==
  \/ \E ev \in Events : KeyDown(ev)
  \/ \E id \in DOMAIN Layouts : SetLayout(id)
  \/ \E on \in BOOLEAN : Enable(on)
  \/ Install \/ Uninstall \/ CaretMoves

Spec == Init /\ [][Next]_vars

-----------------------------------------------------------------------------
\* The reconciliation model of Composer.hpp:7-13: while nothing else touches
\* the text, the window is the tail of the text before the caret, whatever the
\* normaliser and the ligatures rewrite.
SyncedWindow == synced => IsTail(recent, doc)

\* Consequence for the user: while synced, a key the composer suppresses (only
\* such a key makes it delete) never costs text the composer did not put there.
TypingKeepsForeignText ==
  [][LosesForeignText => ~\E ev \in Events : synced /\ RoutedKey(ev) /\ op'.suppress]_vars

\* The same without the proviso: the program only deletes what it emitted
\* itself, whatever the keys.
NoForeignTextLost ==
  [][LosesForeignText => ~\E ev \in Events : RoutedKey(ev) /\ op'.suppress]_vars

\* A disabled program holds no composition state that a later Enable would
\* resume in another text.
IdleWhenDisabled == ~enabled => recent = <<>> /\ pendingDead = NoDead /\ ~composing

\* With a normalising layout the window is in normal form after any sequence of
\* keys, deletions, ligatures and truncations (the ligatures of the checked
\* layout replace by text that does not compose with what precedes it).
WindowNormalized == layout # NoLayout /\ L.normalize => NFC(recent) = recent

\* A key that emits leaves no ligature undone at the end of the text.
LigaturesSettled ==
  [][(layout # NoLayout /\ Matches(L, recent') # {}) =>
       ~\E ev \in Events : RoutedKey(ev) /\ EmitKey(InputOf(ev))]_vars
=============================================================================
