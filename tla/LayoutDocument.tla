--------------------------- MODULE LayoutDocument ---------------------------
(***************************************************************************)
(* core/LayoutDocument.{hpp,cpp}: the designer's document, one layout with *)
(* an undo and a redo stack of snapshots, a dirty flag and a clipboard.    *)
(* A layout is the record of KeyboardLayout with its metadata (meta).      *)
(***************************************************************************)
EXTENDS KeyboardLayout, SequencesExt

CONSTANTS
  NoClip,        \* the empty clipboard
  kMaxHistory,   \* LayoutDocument::kMaxHistory (100 in the code)
  NewMeta,       \* the metadata newLayout is given
  Opened,        \* the layouts that files to be opened parse to
  \* The arguments edits are made with:
  KeyVks, KeyActions, Metas, CapsModes, Normalizes, DeadKeyDefs, ComposeLists, LigatureLists,
  MaxEdits       \* bound: edits since the document was opened

ASSUME DocumentAssumption == kMaxHistory \in Nat \ {0} /\ MaxEdits \in Nat

\* What a key maps: the struct KeyDef with its four levels.
IsKey(def) ==
  /\ def.cased \in BOOLEAN
  /\ def.levels \in [Level -> KeyAction(Seq(Nat), STRING)]

LayoutFields == {"meta", "capsMode", "normalize", "keys", "deadKeys", "ligatures",
                 "compose", "composeExact", "composePrefix", "composeMaxLen"}

\* Files and dialogs hand over what the types of the code can hold: a layout
\* with the members of its class (what the parser makes of a text is one, see
\* LayoutFile), levels of a key, dead keys, and lists of sequences.
ASSUME EditAssumption ==
  /\ NoDead \in STRING
  /\ \A l \in Opened : /\ DOMAIN l = LayoutFields
                       /\ IsLayout(l, Nat, Seq(Nat), STRING)
                       /\ \A vk \in DOMAIN l.keys : IsKey(l.keys[vk])
  /\ KeyActions \subseteq KeyAction(Seq(Nat), STRING)
  /\ CapsModes \subseteq CapsMode /\ Normalizes \subseteq BOOLEAN
  /\ \A dk \in DeadKeyDefs :
       /\ dk.def.standalone \in Seq(Nat)
       /\ \A cp \in DOMAIN dk.def.compositions : dk.def.compositions[cp] \in Seq(Nat)
  /\ ComposeLists \subseteq Seq([keys : Seq(Nat), output : Seq(Nat)])
  /\ LigatureLists \subseteq Seq([sequence : Seq(Nat), result : Seq(Nat)])

VARIABLES
  layout,     \* m_layout
  dirty,      \* m_dirty
  undoStack,  \* m_undo, newest last
  redoStack,  \* m_redo, newest last
  clip,       \* m_clip: a copied key, or NoClip
  saved,      \* history: the layout last opened, started or marked saved
  edits       \* edits since the document was opened (bounded by MaxEdits)

docVars == <<layout, dirty, undoStack, redoStack, clip, saved, edits>>

-----------------------------------------------------------------------------
EmptyLayout ==
  [meta |-> NewMeta, capsMode |-> "Ignore", normalize |-> TRUE,
   keys |-> [vk \in {} |-> {}], deadKeys |-> [id \in {} |-> {}],
   ligatures |-> <<>>, compose |-> <<>>,
   composeExact |-> [k \in {} |-> <<>>], composePrefix |-> {}, composeMaxLen |-> 0]

\* The constructor: a new layout, not dirty.
Init ==
  /\ layout = EmptyLayout /\ saved = EmptyLayout
  /\ dirty = FALSE
  /\ undoStack = <<>> /\ redoStack = <<>> /\ clip = NoClip
  /\ edits = 0

\* The document becomes l, without history.
Replace(l, isDirty) ==
  /\ layout' = l /\ saved' = l
  /\ dirty' = isDirty
  /\ undoStack' = <<>> /\ redoStack' = <<>> /\ clip' = NoClip
  /\ edits' = 0

newLayout == Replace(EmptyLayout, TRUE)

\* loadFromJson of a text that parses; a text that does not changes nothing.
loadFromJson == \E l \in Opened : Replace(l, FALSE)

markSaved == dirty' = FALSE /\ saved' = layout /\ UNCHANGED <<layout, undoStack, redoStack, clip, edits>>

-----------------------------------------------------------------------------
\* Mutant of pushUndo: the redo stack survives an edit.
pushUndoKeepsRedo ==
  LET pushed == Append(undoStack, layout)
  IN  /\ undoStack' = IF Len(pushed) > kMaxHistory THEN Tail(pushed) ELSE pushed
      /\ redoStack' = redoStack /\ dirty' = TRUE
      /\ edits < MaxEdits /\ edits' = edits + 1 /\ UNCHANGED saved

\* Mutant of pushUndo: the bound is checked before the push.
pushUndoLate ==
  /\ undoStack' = Append(IF Len(undoStack) > kMaxHistory THEN Tail(undoStack) ELSE undoStack, layout)
  /\ redoStack' = <<>> /\ dirty' = TRUE
  /\ edits < MaxEdits /\ edits' = edits + 1 /\ UNCHANGED saved

\* Snapshot the layout before a mutation; a new edit invalidates redo.
pushUndo ==
  LET pushed == Append(undoStack, layout)
  IN  /\ undoStack' = IF Len(pushed) > kMaxHistory THEN Tail(pushed) ELSE pushed
      /\ redoStack' = <<>> /\ dirty' = TRUE
      /\ edits < MaxEdits /\ edits' = edits + 1 /\ UNCHANGED saved

\* A mutation that turns the layout into l.
Mutate(l) == pushUndo /\ layout' = l /\ UNCHANGED clip

undo ==
  /\ undoStack # <<>>
  /\ redoStack' = Append(redoStack, layout)
  /\ layout' = Last(undoStack) /\ undoStack' = Front(undoStack)
  /\ dirty' = TRUE
  /\ UNCHANGED <<clip, saved, edits>>

\* Mutant of redo: back at the newest version the document counts as clean.
redoCleans ==
  /\ redoStack # <<>>
  /\ undoStack' = Append(undoStack, layout)
  /\ layout' = Last(redoStack) /\ redoStack' = Front(redoStack)
  /\ dirty' = (redoStack' # <<>>)
  /\ UNCHANGED <<clip, saved, edits>>

redo ==
  /\ redoStack # <<>>
  /\ undoStack' = Append(undoStack, layout)
  /\ layout' = Last(redoStack) /\ redoStack' = Front(redoStack)
  /\ dirty' = TRUE
  /\ UNCHANGED <<clip, saved, edits>>

-----------------------------------------------------------------------------
NoKey == [cased |-> FALSE, levels |-> [lvl \in Level |-> NoAction]]

KeyOf(l, vk) == IF vk \in DOMAIN l.keys THEN l.keys[vk] ELSE NoKey

setKey(l, vk, def) == [l EXCEPT !.keys = [k \in DOMAIN @ \cup {vk} |-> IF k = vk THEN def ELSE @[k]]]
removeKey(l, vk)   == [l EXCEPT !.keys = [k \in DOMAIN @ \ {vk} |-> @[k]]]

Mapped(def) == \E lvl \in Level : def.levels[lvl].kind # "None"

\* Mutant of withKeyAction: a key without any action left stays in the layout.
withKeyActionKeeps(l, vk, lvl, action) ==
  setKey(l, vk, [cased  |-> isLetter(vk), levels |-> [KeyOf(l, vk).levels EXCEPT ![lvl] = action]])

\* One level of one key replaced; a key without any action left is dropped.
withKeyAction(l, vk, lvl, action) ==
  LET def == [cased  |-> isLetter(vk), levels |-> [KeyOf(l, vk).levels EXCEPT ![lvl] = action]]
  IN  IF Mapped(def) THEN setKey(l, vk, def) ELSE removeKey(l, vk)

setKeyAction(vk, lvl, action) == Mutate(withKeyAction(layout, vk, lvl, action))

clearKey(vk) == Mutate(removeKey(layout, vk))

\* Copying a key the layout does not have empties the clipboard.
copyKey(vk) ==
  /\ clip' = IF vk \in DOMAIN layout.keys THEN layout.keys[vk] ELSE NoClip
  /\ UNCHANGED <<layout, dirty, undoStack, redoStack, saved, edits>>

pasteKey(vk) == clip # NoClip /\ Mutate(setKey(layout, vk, clip))

setMeta(m)      == Mutate([layout EXCEPT !.meta = m])
setCapsMode(m)  == Mutate([layout EXCEPT !.capsMode = m])
setNormalize(n) == Mutate([layout EXCEPT !.normalize = n])

\* addDeadKey adds or replaces by id.
setDeadKey(id, dk) ==
  Mutate([layout EXCEPT !.deadKeys = [k \in DOMAIN @ \cup {id} |-> IF k = id THEN dk ELSE @[k]]])

removeDeadKey(id) == Mutate([layout EXCEPT !.deadKeys = [k \in DOMAIN @ \ {id} |-> @[k]]])

setComposeSequences(seqs) == Mutate(addComposes(clearCompose(layout), seqs))

\* Mutant of setLigatures: the list is stored in the order given.
setLigaturesUnsorted(ligs) == Mutate([layout EXCEPT !.ligatures = ligs])

\* std::sort by decreasing length; it may order equal lengths either way.
setLigatures(ligs) ==
  \E sorted \in Orders(ligs) : SortedLongestFirst(sorted) /\ Mutate([layout EXCEPT !.ligatures = sorted])

Next ==
  \/ newLayout \/ loadFromJson \/ markSaved
  \/ undo \/ redo
  \/ \E vk \in KeyVks : \/ clearKey(vk) \/ copyKey(vk) \/ pasteKey(vk)
                        \/ \E lvl \in Level, a \in KeyActions : setKeyAction(vk, lvl, a)
  \/ \E m \in Metas : setMeta(m)
  \/ \E m \in CapsModes : setCapsMode(m)
  \/ \E n \in Normalizes : setNormalize(n)
  \/ \E dk \in DeadKeyDefs : setDeadKey(dk.id, dk.def) \/ removeDeadKey(dk.id)
  \/ \E seqs \in ComposeLists : setComposeSequences(seqs)
  \/ \E ligs \in LigatureLists : setLigatures(ligs)

Spec == Init /\ [][Next]_docVars

-----------------------------------------------------------------------------
\* The layouts the user can get back to without opening a file.
Versions == {layout} \cup Range(undoStack) \cup Range(redoStack)

\* The two stacks together never hold more than kMaxHistory snapshots,
\* whatever the order of edits, undos and redos: pushUndo bounds only m_undo,
\* and redo pushes onto it without a check.
HistoryBounded == Len(undoStack) + Len(redoStack) <= kMaxHistory

\* A document that does not ask before it is closed is the one last opened or
\* saved.
CleanMeansSaved == ~dirty => layout = saved

\* Undo and redo move a cursor on one line of versions (EditHistory).
History == INSTANCE EditHistory WITH
  Depth <- kMaxHistory,
  line  <- undoStack \o <<layout>> \o Reverse(redoStack),
  pos   <- Len(undoStack) + 1
UndoIsACursor == History!Spec

\* Only a file can bring a key without any action into the document: no edit,
\* paste, undo or redo makes one where no version and no clipboard had one.
\* (The serializer writes such a key as {}, which the parser rejects.)
AllMapped ==
  /\ \A l \in Versions : \A vk \in DOMAIN l.keys : Mapped(l.keys[vk])
  /\ clip # NoClip => Mapped(clip)
EditsLeaveNoEmptyKey == [][AllMapped /\ ~loadFromJson => AllMapped']_docVars

\* Whatever is edited, undone or redone, every version is a layout the Composer
\* can work on (the assumption of its module): ligatures longest first, every
\* compose prefix reachable from a shorter one, outputs in their place.
EditedLayoutsWellFormed == \A l \in Versions : IsLayout(l, Nat, Seq(Nat), STRING)
=============================================================================
