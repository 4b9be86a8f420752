----------------------------- MODULE MCDesigner -----------------------------
(***************************************************************************)
(* Two files, one key to edit, and one layout that other programs write.   *)
(***************************************************************************)
EXTENDS Designer, TLC

VkA   == 65
VkOne == 49

EmitText == [NoAction EXCEPT !.kind = "Emit", !.output = <<97>>]
DeadText == [NoAction EXCEPT !.kind = "DeadKey", !.deadKey = "acute"]
NoText   == [NoAction EXCEPT !.kind = "Emit"]

OnBase(a) == [NoKey.levels EXCEPT !["Base"] = a]

\* A file by hand: the letter is a dead key that is not defined, which the
\* validator reports, and the digit is null, which is not written back.
ByHand ==
  [EmptyLayout EXCEPT !.meta = "file",
     !.keys = [vk \in {VkA, VkOne} |->
                 IF vk = VkA THEN [cased |-> TRUE, levels |-> OnBase(DeadText)] ELSE NoKey]]

MCOpened        == {ByHand}
MCKeyVks        == {VkA}
MCDialogEntries == {[OnBase(NoText) EXCEPT !["ShiftAltGr"] = EmitText]}
MCCopyOf(m)     == "copy"

PathSymmetry == Permutations(Paths)

\* No action reads saved, so states that differ only in it are one.
WithoutSaved ==
  <<layout, dirty, undoStack, redoStack, clip, edits, filePath, selectedVk, recent, preview,
    files, backups, writing, worth, astray, faults, writes>>
=============================================================================
