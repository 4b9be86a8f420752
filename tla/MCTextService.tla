---------------------------- MODULE MCTextService ----------------------------
(***************************************************************************)
(* The text service typing with a layout of one-unit codepoints and with   *)
(* the shipped one, whose letters take two code units each.                *)
(***************************************************************************)
EXTENDS TextService, Normalizer, SampleLayouts

TsfLayouts == [id \in {"nfc", "old_uyghur"} |-> IF id = "nfc" THEN NfcLayout ELSE ShippedLayouts[id]]
TsfCode    == MCCode \cup ShippedCode
TsfOutputs == MCOutputs \cup ShippedOutputs
TsfDeadIds == MCDeadIds \cup ShippedDeadIds
TsfWide    == {aleph, dotBelow, dotsAbove}

TsfEvents ==
  {Press(vk) : vk \in {Back, Space, VkA, VkTick, VkBracket, VkOne}}
  \cup {[Press(VkSlash) EXCEPT !.rAlt = TRUE, !.ctrl = TRUE], [Press(VkA) EXCEPT !.ctrl = TRUE]}

TsfDocs == {<<>>}

\* No action reads op, so states that differ only in the last edit are one.
WithoutOp == <<layout, recent, pendingDead, composing, composeBuf, tsfVars>>
=============================================================================
