--------------------------- MODULE SampleLayouts ---------------------------
(***************************************************************************)
(* The layouts and key events the model-checking modules type with.        *)
(*                                                                         *)
(* Two layouts over six codepoints.  "nfc" normalises and has a dead key,  *)
(* a chain of two ligatures, compose sequences that share prefixes and a   *)
(* key that emits two codepoints; "plain" does not normalise, and its dead *)
(* key has no standalone form (the validator only warns about that).       *)
(***************************************************************************)
EXTENDS KeyboardLayout, SequencesExt

a       == \h61
x       == \h78
dots    == \h0308   \* combining diaeresis
aDots   == \hE4
acute   == \hB4     \* the spacing diacritic
aAcute  == \hE1

MCCode == {a, x, dots, aDots, acute, aAcute}

MCOutputs == {<<>>, <<a>>, <<x>>, <<dots>>, <<acute>>, <<aAcute>>, <<x, a>>}

MCDeadIds == {NoDead, "acute", "dots"}

Emit(text) == [NoAction EXCEPT !.kind = "Emit", !.output = text]
Dead(id)   == [NoAction EXCEPT !.kind = "DeadKey", !.deadKey = id]
Compose    == [NoAction EXCEPT !.kind = "Compose"]

Key(cased, base, shift, altgr) ==
  [cased  |-> cased,
   levels |-> [lvl \in Level |-> CASE lvl = "Base" -> base [] lvl = "Shift" -> shift
                                   [] lvl = "AltGr" -> altgr [] OTHER -> NoAction]]

\* Virtual keys: A, the backtick, slash and left bracket keys.
VkA       == 65
VkTick    == 192
VkSlash   == 191
VkBracket == 219
VkOne     == 49

Bare == [capsMode |-> "ShiftLetters", normalize |-> TRUE,
         keys |-> [vk \in {} |-> {}], deadKeys |-> [id \in {} |-> {}],
         ligatures |-> <<>>, compose |-> <<>>,
         composeExact |-> [k \in {} |-> <<>>], composePrefix |-> {}, composeMaxLen |-> 0]

WithCompose(lay, seqs) == addComposes(clearCompose(lay), seqs)

NfcLayout ==
  WithCompose(
    [Bare EXCEPT
       !.keys = [vk \in {VkA, VkTick, VkSlash, VkBracket} |->
                   CASE vk = VkA       -> Key(TRUE, Emit(<<a>>), Emit(<<x, a>>), NoAction)
                     [] vk = VkTick    -> Key(FALSE, Dead("acute"), NoAction, NoAction)
                     [] vk = VkSlash   -> Key(FALSE, Emit(<<x>>), NoAction, Compose)
                     [] vk = VkBracket -> Key(FALSE, Emit(<<dots>>), NoAction, NoAction)],
       !.deadKeys = [id \in {"acute"} |->
                       [standalone |-> <<acute>>, compositions |-> [cp \in {a} |-> <<aAcute>>]]],
       !.ligatures = <<[sequence |-> <<x, x>>, result |-> <<aAcute>>],
                       [sequence |-> <<a, a>>, result |-> <<x>>]>>],
    <<[keys |-> <<a, a>>, output |-> <<acute>>],
      [keys |-> <<a, x, a>>, output |-> <<x>>],
      [keys |-> <<a, x, x, a>>, output |-> <<a>>]>>)

PlainLayout ==
  [Bare EXCEPT
     !.normalize = FALSE, !.capsMode = "Invert",
     !.keys = [vk \in {VkA, VkTick, VkBracket} |->
                 CASE vk = VkA       -> Key(TRUE, Emit(<<a>>), Emit(<<aAcute>>), NoAction)
                   [] vk = VkTick    -> Key(FALSE, Dead("dots"), NoAction, NoAction)
                   [] vk = VkBracket -> Key(FALSE, Emit(<<dots>>), NoAction, NoAction)],
     !.deadKeys = [id \in {"dots"} |->
                     [standalone |-> <<>>, compositions |-> [cp \in {a} |-> <<aAcute>>]]]]

MCLayouts == [id \in {"nfc", "plain"} |-> IF id = "nfc" THEN NfcLayout ELSE PlainLayout]

Press(vk) == [vk |-> vk, shift |-> FALSE, ctrl |-> FALSE, lAlt |-> FALSE, rAlt |-> FALSE,
              win |-> FALSE, caps |-> FALSE, injected |-> FALSE]

TypingEvents ==
  {Press(vk) : vk \in {Back, Tab, Space, Escape, VkA, VkTick, VkSlash, VkBracket, VkOne}}
  \cup {[Press(VkA) EXCEPT !.shift = TRUE], [Press(VkSlash) EXCEPT !.rAlt = TRUE, !.ctrl = TRUE]}

\* Keys beside typing: a sided modifier, Caps Lock on, shortcuts, injected text.
MCEvents ==
  TypingEvents \cup
  {Press(160), [Press(VkA) EXCEPT !.caps = TRUE], [Press(VkA) EXCEPT !.ctrl = TRUE],
   [Press(Tab) EXCEPT !.lAlt = TRUE], [Press(VkOne) EXCEPT !.injected = TRUE]}

-----------------------------------------------------------------------------
(***************************************************************************)
(* A fragment of layouts/old_uyghur.json: the backtick dead key, whose     *)
(* standalone form is a combining mark, the left-bracket mark that is      *)
(* ordered before it, and a digit, whose Shift level is left to the OS.    *)
(***************************************************************************)
aleph     == \h10F70
dotBelow  == \h10F83
dotsAbove == \h10F84
one       == \h31

ShippedCode    == {aleph, dotBelow, dotsAbove, one}
ShippedOutputs == {<<>>, <<aleph>>, <<dotBelow>>, <<dotsAbove>>, <<one>>, <<aleph, dotsAbove>>}
ShippedDeadIds == {NoDead, "dots_above"}
ShippedLayouts ==
  [id \in {"old_uyghur"} |->
    [Bare EXCEPT
       !.capsMode = "Ignore",
       !.keys = [vk \in {VkA, VkOne, VkTick, VkBracket} |->
                   CASE vk = VkA       -> Key(TRUE, Emit(<<aleph>>), NoAction, NoAction)
                     [] vk = VkOne     -> Key(FALSE, Emit(<<one>>), NoAction, NoAction)
                     [] vk = VkTick    -> Key(FALSE, Dead("dots_above"), NoAction, NoAction)
                     [] vk = VkBracket -> Key(FALSE, Emit(<<dotBelow>>), NoAction, NoAction)],
       !.deadKeys = [dead \in {"dots_above"} |->
                       [standalone   |-> <<dotsAbove>>,
                        compositions |-> [cp \in {aleph} |-> <<aleph, dotsAbove>>]]]]]

ShippedEvents == {Press(vk) : vk \in {Back, Space, VkA, VkOne, VkTick, VkBracket}}
                 \cup {[Press(VkOne) EXCEPT !.shift = TRUE]}
=============================================================================
