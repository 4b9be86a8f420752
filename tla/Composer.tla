------------------------------ MODULE Composer ------------------------------
(***************************************************************************)
(* core/Composer.cpp: the state machine that turns key presses into edits. *)
(* Composer::process is one handler; each of its exits is an action below, *)
(* with the branch conditions on the way to that exit as its guard.  The   *)
(* EmitOp it returns is the variable op; the edit is carried out by the    *)
(* module that composes this one with a text (KeyboardEngine).             *)
(***************************************************************************)
EXTENDS KeyboardLayout

CONSTANTS
  Layouts,    \* layout id -> layout
  NoLayout,   \* the null layout pointer
  Code,       \* the codepoints in play
  Outputs,    \* the strings that keys, dead keys and compose sequences produce
  DeadIds,    \* the dead-key ids, with NoDead
  NFC(_),     \* normalizer::toNFC
  KWindow     \* Composer::kWindow, the cap of the window (32 in the code)

\* What one commit can be given, and the windows it can find.
Produced == Outputs \cup {p[1] \o p[2] : p \in Outputs \X Outputs}
Windows  == UNION {[1..n -> Code] : n \in 0..KWindow}

ASSUME ComposerAssumption ==
  /\ KWindow \in Nat \ {0}
  /\ Outputs \subseteq Seq(Code) /\ <<>> \in Outputs
  /\ NoDead \in DeadIds
  /\ NoLayout \notin DOMAIN Layouts
  /\ \A id \in DOMAIN Layouts : IsLayout(Layouts[id], Code, Outputs, DeadIds)

ASSUME NFCAssumption ==
  \A w \in Windows, p \in Produced : NFC(w \o p) \in Seq(Code)

VARIABLES
  layout,       \* m_layout: the id of the layout, or NoLayout
  recent,       \* m_recent: the on-screen tail the composer believes it emitted
  pendingDead,  \* m_pendingDead: active dead-key id, NoDead if none
  composing,    \* m_composing: inside a compose sequence
  composeBuf,   \* m_composeBuf: codepoints collected since compose started
  op            \* the EmitOp of the last key

composerVars == <<layout, recent, pendingDead, composing, composeBuf, op>>

L == Layouts[layout]

EmitOp == [suppress : BOOLEAN, backspaces : Nat, insert : Seq(Code)]
None    == [suppress |-> FALSE, backspaces |-> 0, insert |-> <<>>]
Swallow == [suppress |-> TRUE,  backspaces |-> 0, insert |-> <<>>]

ComposerType ==
  /\ layout \in DOMAIN Layouts \cup {NoLayout}
  /\ recent \in Seq(Code) /\ Len(recent) <= KWindow
  /\ pendingDead \in DeadIds
  /\ composing \in BOOLEAN
  /\ composeBuf \in Seq(Code)
  /\ op \in EmitOp

ComposerInit ==
  /\ layout = NoLayout /\ recent = <<>> /\ pendingDead = NoDead
  /\ composing = FALSE /\ composeBuf = <<>> /\ op = None

-----------------------------------------------------------------------------
reset ==
  /\ recent' = <<>> /\ pendingDead' = NoDead
  /\ composing' = FALSE /\ composeBuf' = <<>>

setLayout(id) == layout' = id /\ reset

-----------------------------------------------------------------------------
\* Mutant of commonPrefix: the loop stops one codepoint late.
commonPrefixLate(a, b) ==
  LET stops == {n \in 0..Len(a) : n = Len(a) \/ n >= Len(b) \/ a[n + 1] # b[n + 1]}
      first == CHOOSE n \in stops : \A m \in stops : n <= m
  IN  IF first < Len(a) /\ first < Len(b) THEN first + 1 ELSE first

\* The first position at which the loop over a and b stops.
commonPrefix(a, b) ==
  LET stops == {n \in 0..Len(a) : n = Len(a) \/ n >= Len(b) \/ a[n + 1] # b[n + 1]}
  IN  CHOOSE n \in stops : \A m \in stops : n <= m

\* One round of applyLigatures.
ReplaceLigature(text) ==
  IF Matches(L, text) = {} THEN text
  ELSE LET lig == matchLigature(L, text)
       IN  SubSeq(text, 1, Len(text) - Len(lig.sequence)) \o lig.result

TwoRounds(text)  == ReplaceLigature(ReplaceLigature(text))
FourRounds(text) == TwoRounds(TwoRounds(text))

\* Mutant of applyLigatures: a replacement that completes another is not seen.
applyLigaturesOnce(text) == ReplaceLigature(text)

\* At most eight rounds; a round without a match leaves the text alone.
applyLigatures(text) == FourRounds(FourRounds(text))

\* Mutant of Processed: only the new codepoints are normalised.
ProcessedNewOnly(produced) ==
  applyLigatures(recent \o (IF L.normalize THEN NFC(produced) ELSE produced))

\* The tail that commit wants on screen in place of the window.
Processed(produced) ==
  applyLigatures(IF L.normalize THEN NFC(recent \o produced) ELSE recent \o produced)

\* Mutant of WindowOf: the window is not capped.
WindowOfUncapped(text) == text

WindowOf(text) ==
  IF Len(text) > KWindow THEN SubSeq(text, Len(text) - KWindow + 1, Len(text)) ELSE text

\* commit: diff the window against the processed tail, then replace the window.
commit(produced, suppress) ==
  LET text == Processed(produced)
      p    == commonPrefix(recent, text)
  IN  /\ op' = [suppress   |-> suppress,
                backspaces |-> Len(recent) - p,
                insert     |-> SubSeq(text, p + 1, Len(text))]
      /\ recent' = WindowOf(text)

\* commit a dead key's standalone form only if it has one.
commitNonEmpty(standalone) ==
  IF standalone # <<>> THEN commit(standalone, TRUE)
  ELSE op' = Swallow /\ UNCHANGED recent

\* The standalone form of the pending dead key; none if the layout lacks it.
Standalone ==
  IF pendingDead \in DOMAIN L.deadKeys THEN L.deadKeys[pendingDead].standalone ELSE <<>>

-----------------------------------------------------------------------------
\* Guards on the way through process.
Ignored(in) == layout = NoLayout \/ isModifierVk(in.vk)

Contributes(in) ==
  LET a == resolve(L, in) IN a.kind = "Emit" /\ a.output # <<>>

\* Past the compose-mode block: not composing, or a key that aborts compose.
PastCompose(in) ==
  /\ ~Ignored(in)
  /\ composing => in.vk \notin {Back, Escape} /\ ~Contributes(in)

LeaveCompose == composing' = FALSE /\ composeBuf' = (IF composing THEN <<>> ELSE composeBuf)

\* A key that reaches the layout lookup, and the action it resolves to.
LookedUp(in, kind) ==
  /\ PastCompose(in)
  /\ in.vk \notin {Back, Enter, Tab, Space}
  /\ resolve(L, in).kind = kind

-----------------------------------------------------------------------------
Ignore(in) == Ignored(in) /\ op' = None
              /\ UNCHANGED <<layout, recent, pendingDead, composing, composeBuf>>

ComposeBackspace(in) ==
  /\ ~Ignored(in) /\ composing /\ in.vk = Back
  /\ IF composeBuf # <<>>
     THEN composeBuf' = SubSeq(composeBuf, 1, Len(composeBuf) - 1) /\ UNCHANGED composing
     ELSE composing' = FALSE /\ UNCHANGED composeBuf
  /\ op' = Swallow
  /\ UNCHANGED <<layout, recent, pendingDead>>

ComposeEscape(in) ==
  /\ ~Ignored(in) /\ composing /\ in.vk = Escape
  /\ composing' = FALSE /\ composeBuf' = <<>> /\ op' = Swallow
  /\ UNCHANGED <<layout, recent, pendingDead>>

\* Mutant of ComposeKey: a dead end leaves the collected keys in the buffer.
ComposeKeyDeadEnd(in) ==
  LET buf == composeBuf \o resolve(L, in).output
  IN  /\ ~Ignored(in) /\ composing /\ in.vk \notin {Back, Escape} /\ Contributes(in)
      /\ UNCHANGED <<layout, pendingDead>>
      /\ CASE composeLookup(L, buf) = "Exact" ->
                /\ composing' = FALSE /\ composeBuf' = <<>>
                /\ commit(L.composeExact[buf], TRUE)
           [] composeLookup(L, buf) # "Exact" ->
                /\ composeBuf' = buf /\ op' = Swallow
                /\ UNCHANGED <<composing, recent>>

\* handleCompose: the key's codepoints join the buffer, which is then looked up.
ComposeKey(in) ==
  LET buf == composeBuf \o resolve(L, in).output
  IN  /\ ~Ignored(in) /\ composing /\ in.vk \notin {Back, Escape} /\ Contributes(in)
      /\ UNCHANGED <<layout, pendingDead>>
      /\ CASE composeLookup(L, buf) = "Exact" ->
                /\ composing' = FALSE /\ composeBuf' = <<>>
                /\ commit(L.composeExact[buf], TRUE)
           [] composeLookup(L, buf) = "Prefix" ->
                /\ composeBuf' = buf /\ op' = Swallow
                /\ UNCHANGED <<composing, recent>>
           [] composeLookup(L, buf) = "None" ->
                /\ composing' = FALSE /\ composeBuf' = <<>> /\ op' = Swallow
                /\ UNCHANGED recent

Backspace(in) ==
  /\ PastCompose(in) /\ in.vk = Back
  /\ LeaveCompose
  /\ IF pendingDead # NoDead
     THEN pendingDead' = NoDead /\ op' = Swallow /\ UNCHANGED recent
     ELSE /\ recent' = (IF recent = <<>> THEN <<>> ELSE SubSeq(recent, 1, Len(recent) - 1))
          /\ op' = None /\ UNCHANGED pendingDead
  /\ UNCHANGED layout

\* Mutant of HardBoundary: Enter and Tab keep the window.
HardBoundaryKeeps(in) ==
  /\ PastCompose(in) /\ in.vk \in {Enter, Tab}
  /\ LeaveCompose
  /\ pendingDead' = NoDead
  /\ op' = [None EXCEPT !.insert = IF pendingDead # NoDead THEN Standalone ELSE <<>>]
  /\ UNCHANGED <<layout, recent>>

\* Enter or Tab: the pending diacritic is inserted and the key passes through.
HardBoundary(in) ==
  /\ PastCompose(in) /\ in.vk \in {Enter, Tab}
  /\ LeaveCompose
  /\ pendingDead' = NoDead
  /\ recent' = <<>>
  /\ op' = [None EXCEPT !.insert = IF pendingDead # NoDead THEN Standalone ELSE <<>>]
  /\ UNCHANGED layout

SpaceKey(in) ==
  /\ PastCompose(in) /\ in.vk = Space
  /\ LeaveCompose
  /\ pendingDead' = NoDead
  /\ IF pendingDead # NoDead THEN commit(Standalone, TRUE)
     ELSE recent' = <<>> /\ op' = None
  /\ UNCHANGED layout

\* A key the layout does not map passes through; a pending dead key is flushed
\* first, and only without one is the window dropped.
Unmapped(in) ==
  /\ LookedUp(in, "None")
  /\ LeaveCompose
  /\ pendingDead' = NoDead
  /\ IF pendingDead # NoDead THEN commit(Standalone, FALSE)
     ELSE recent' = <<>> /\ op' = None
  /\ UNCHANGED layout

\* Mutant of StartCompose: the dead key stays pending.
StartComposeKeepsDead(in) ==
  /\ LookedUp(in, "Compose")
  /\ IF pendingDead # NoDead THEN commitNonEmpty(Standalone)
     ELSE op' = Swallow /\ UNCHANGED recent
  /\ composing' = TRUE /\ composeBuf' = <<>>
  /\ UNCHANGED <<layout, pendingDead>>

StartCompose(in) ==
  /\ LookedUp(in, "Compose")
  /\ IF pendingDead # NoDead THEN commitNonEmpty(Standalone)
     ELSE op' = Swallow /\ UNCHANGED recent
  /\ pendingDead' = NoDead
  /\ composing' = TRUE /\ composeBuf' = <<>>
  /\ UNCHANGED layout

DeadKeyPress(in) ==
  /\ LookedUp(in, "DeadKey")
  /\ LeaveCompose
  /\ IF pendingDead # NoDead THEN commitNonEmpty(Standalone)
     ELSE op' = Swallow /\ UNCHANGED recent
  /\ pendingDead' = resolve(L, in).deadKey
  /\ UNCHANGED layout

\* What an emitting key produces after the pending dead key: the composition of
\* its first codepoint, or the diacritic followed by the key's own text.
AfterDeadKey(output) ==
  IF pendingDead = NoDead \/ pendingDead \notin DOMAIN L.deadKeys THEN output
  ELSE LET dk == L.deadKeys[pendingDead]
           cp == IF output = <<>> THEN 0 ELSE output[1]
       IN  IF cp \in DOMAIN dk.compositions THEN dk.compositions[cp] ELSE dk.standalone \o output

EmitKey(in) ==
  /\ LookedUp(in, "Emit")
  /\ LeaveCompose
  /\ pendingDead' = NoDead
  /\ commit(AfterDeadKey(resolve(L, in).output), TRUE)
  /\ UNCHANGED layout

process(in) ==
  \/ Ignore(in)
  \/ ComposeBackspace(in) \/ ComposeEscape(in) \/ ComposeKey(in)
  \/ Backspace(in) \/ HardBoundary(in) \/ SpaceKey(in)
  \/ Unmapped(in) \/ StartCompose(in) \/ DeadKeyPress(in) \/ EmitKey(in)

-----------------------------------------------------------------------------
\* The two multi-key modes exclude each other: a compose sequence never starts
\* over, or ends in, a pending dead key.
ModesExclusive == composing => pendingDead = NoDead

\* While composing, what has been collected can still become a sequence of the
\* table, also after Backspace shortened it; outside compose mode it is empty.
ComposeBufferLive ==
  composeBuf # <<>> => composing /\ layout # NoLayout /\ composeBuf \in L.composePrefix
=============================================================================
