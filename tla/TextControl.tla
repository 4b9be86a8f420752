---------------------------- MODULE TextControl ----------------------------
(***************************************************************************)
(* What the two front ends of the Composer share: the focused text control *)
(* they type into, which is not part of the program, and the reading of a  *)
(* key event.  doc is the text before the caret; a codepoint the composer  *)
(* did not put there is Foreign.                                           *)
(***************************************************************************)
EXTENDS Composer

CONSTANTS
  Events,     \* the key-down events that can happen
  Foreign,    \* a codepoint of the application's own text
  OtherDocs,  \* texts the focus or the caret can move to
  MaxDoc      \* bound: keys that add text stop at this length

KeyEvent == [vk : Nat, shift : BOOLEAN, ctrl : BOOLEAN, lAlt : BOOLEAN, rAlt : BOOLEAN,
             win : BOOLEAN, caps : BOOLEAN, injected : BOOLEAN]

ASSUME ControlAssumption ==
  /\ Events \subseteq KeyEvent
  /\ Foreign \notin Code
  /\ OtherDocs \subseteq Seq({Foreign})
  /\ MaxDoc \in Nat

VARIABLE doc    \* the control's text before the caret

Text == Seq(Code \cup {Foreign})

-----------------------------------------------------------------------------
Chop(d, n) == SubSeq(d, 1, IF n < Len(d) THEN Len(d) - n ELSE 0)

\* An edit as the application sees it: the Backspaces, then the characters.
Edited(d, o) == Chop(d, o.backspaces) \o o.insert

\* What a key may do to the text before the caret when it is not suppressed.
NativeEffects(vk, d) ==
  CASE vk = Back                  -> {Chop(d, 1)}
    [] vk \in {Enter, Tab, Space} -> {Append(d, Foreign)}
    [] isModifierVk(vk)           -> {d}
    [] OTHER                      -> {d, Append(d, Foreign), Chop(d, 1)}

-----------------------------------------------------------------------------
InBound(ev) == Len(doc) < MaxDoc \/ ev.vk = Back

\* The text loses a codepoint that the composer did not put there.
LosesForeignText == \E i \in DOMAIN doc : doc[i] = Foreign /\ (i > Len(doc') \/ doc'[i] # Foreign)

-----------------------------------------------------------------------------
\* Key codes no front end routes: the modifiers and their sided variants.
isPureModifier(vk) == vk \in {16, 17, 18, 20, 91, 92} \cup 160..165

AltGr(ev)    == ev.rAlt /\ ev.ctrl
Shortcut(ev) == ev.win \/ ev.lAlt \/ (ev.ctrl /\ ~AltGr(ev))
InputOf(ev)  == [vk |-> ev.vk, shift |-> ev.shift, altgr |-> AltGr(ev), caps |-> ev.caps]
=============================================================================
