------------------------------ MODULE Designer ------------------------------
(***************************************************************************)
(* designer/DesignerWindow.cpp over the document of LayoutDocument: the    *)
(* commands of the window, the key dialog, the files they read and write   *)
(* and the .bak copies beside them.  Commands are modal, so nothing        *)
(* happens in the window during a write; the write itself is a sequence of *)
(* file operations, each of which may fail or be the last before a kill.   *)
(*                                                                         *)
(* A file is the record of who wrote it and of the layout that was         *)
(* written; it may also be absent, or torn (truncated or half-written).    *)
(***************************************************************************)
EXTENDS LayoutDocument

CONSTANTS
  Paths, NoPath,    \* the files the user names; NoPath for an untitled document
  DialogEntries,    \* what is entered in the key dialog: [Level -> action]
  CopyOf(_),        \* the metadata of a duplicate
  NoTyping,         \* the preview's composer has been reset and not used since
  kMaxRecent,       \* length of the recent list (10 in the code)
  MaxFaults,        \* bound: failed file operations and kills during a write
  MaxWrites         \* bound: files written, by the designer or others

ASSUME DesignerAssumption ==
  /\ NoPath \notin Paths
  /\ kMaxRecent \in Nat \ {0} /\ MaxFaults \in Nat /\ MaxWrites \in Nat

VARIABLES
  filePath,    \* m_filePath
  selectedVk,  \* m_selectedVk, 0 for no key
  recent,      \* m_recent, which designer_recent.txt repeats
  preview,     \* what the composer of the live preview was typed with, or NoTyping
  files,       \* the contents of each path
  backups,     \* the contents of each path's .bak
  writing,     \* Idle, or where WriteFileBackup is
  worth,       \* history: the last complete text of each path
  astray,      \* history: since it was opened or saved, the document's path was
               \* retargeted without a write, or its file was torn or changed by others
  faults, writes

designerVars == <<docVars, filePath, selectedVk, recent, preview, files, backups,
                  writing, worth, astray, faults, writes>>
diskVars == <<files, backups, worth, writing, faults, writes>>

Write(op, path, at) == [op |-> op, path |-> path, at |-> at]
Idle == Write("none", NoPath, "none")

By(who, l) == [by |-> who, layout |-> l]
NoFile     == By("nobody", EmptyLayout)
Torn       == By("no one to the end", EmptyLayout)
IsText(c)  == c.by \in {"user", "designer"}

-----------------------------------------------------------------------------
\* What parsing makes of a text: LayoutFile shows in detail that the parser
\* takes a text the serializer wrote if it has keys and none of them is
\* without action, and that all it changes is the cased flag.
Recased(l) == [l EXCEPT !.keys = [vk \in DOMAIN @ |-> [@[vk] EXCEPT !.cased = isLetter(vk)]]]

Readable(l) == DOMAIN l.keys # {} /\ \A vk \in DOMAIN l.keys : Mapped(l.keys[vk])

ReadBack(c) ==
  IF ~IsText(c) THEN {}
  ELSE IF c.by = "user" THEN {c.layout}
  ELSE {l \in {Recased(c.layout)} : Readable(c.layout)}

\* LayoutValidator without its warnings and the codepoint checks, which the
\* parser and the dialog make impossible to fail.
Valid(l) ==
  /\ DOMAIN l.keys # {}
  /\ \A vk \in DOMAIN l.keys, lvl \in Level :
       l.keys[vk].levels[lvl].kind = "DeadKey" => l.keys[vk].levels[lvl].deadKey \in DOMAIN l.deadKeys

-----------------------------------------------------------------------------
\* Run: the window starts with a new document; files are what they were.
DesignerInit ==
  /\ layout = EmptyLayout /\ saved = EmptyLayout /\ dirty = TRUE
  /\ undoStack = <<>> /\ redoStack = <<>> /\ clip = NoClip /\ edits = 0
  /\ filePath = NoPath /\ selectedVk = 0 /\ recent = <<>> /\ preview = NoTyping
  /\ files \in [Paths -> {NoFile} \cup {By("user", l) : l \in Opened}]
  /\ backups = [p \in Paths |-> NoFile]
  /\ writing = Idle /\ worth = files /\ astray = FALSE
  /\ faults = 0 /\ writes = 0

Fault == faults < MaxFaults /\ faults' = faults + 1

\* Mutant of AddRecent: the list grows without end.
AddRecentUnbounded(p) == recent' = <<p>> \o Kept(recent, {i \in DOMAIN recent : recent[i] # p})

\* AddRecent: the path moves to the front, the list keeps its length.
AddRecent(p) ==
  LET moved == <<p>> \o Kept(recent, {i \in DOMAIN recent : recent[i] # p})
  IN  recent' = IF Len(moved) > kMaxRecent THEN SubSeq(moved, 1, kMaxRecent) ELSE moved

-----------------------------------------------------------------------------
\* Commands on the document.  ConfirmDiscardIfDirty: the user may always agree,
\* so a command that asks is a command that may happen.

\* A change of the mappings that ends in g_previewComposer.setLayout.
Shown == preview' = NoTyping /\ UNCHANGED <<filePath, selectedVk, recent, astray, diskVars>>

DoNew ==
  /\ writing = Idle
  /\ newLayout
  /\ filePath' = NoPath /\ selectedVk' = 0 /\ preview' = NoTyping /\ astray' = FALSE
  /\ UNCHANGED <<recent, diskVars>>

\* Mutant of Undo: the preview's composer is not reset.
UndoKeepsPreview ==
  /\ writing = Idle /\ undo
  /\ UNCHANGED <<filePath, selectedVk, recent, preview, astray, diskVars>>

Undo  == writing = Idle /\ undo /\ Shown
Redo  == writing = Idle /\ redo /\ Shown
Paste == writing = Idle /\ selectedVk # 0 /\ pasteKey(selectedVk) /\ Shown
Copy  == writing = Idle /\ selectedVk # 0 /\ copyKey(selectedVk)
         /\ UNCHANGED <<filePath, selectedVk, recent, preview, astray, diskVars>>

\* The dialog's OK: an Emit level without codepoints counts as none.
applyResult(entries) ==
  [lvl \in Level |-> IF entries[lvl].kind = "Emit" /\ entries[lvl].output = <<>>
                     THEN NoAction ELSE entries[lvl]]

\* DoEditSelectedKey: setKeyAction for one level after the other, each with a
\* snapshot of its own.
DoEditSelectedKey(entries) ==
  LET order  == <<"Base", "Shift", "AltGr", "ShiftAltGr">>
      result == applyResult(entries)
      after[i \in 0..4] == IF i = 0 THEN layout
                           ELSE withKeyAction(after[i - 1], selectedVk, order[i], result[order[i]])
      pushed == undoStack \o [i \in 1..4 |-> after[i - 1]]
      excess == IF Len(pushed) > kMaxHistory THEN Len(pushed) - kMaxHistory ELSE 0
  IN  /\ writing = Idle /\ selectedVk # 0
      /\ layout' = after[4]
      /\ undoStack' = SubSeq(pushed, excess + 1, Len(pushed)) /\ redoStack' = <<>>
      /\ dirty' = TRUE
      /\ edits + 4 <= MaxEdits /\ edits' = edits + 4
      /\ UNCHANGED <<clip, saved>>
      /\ Shown

DoMetadata(m) ==
  /\ writing = Idle /\ setMeta(m)
  /\ UNCHANGED <<filePath, selectedVk, recent, preview, astray, diskVars>>

DoDuplicate ==
  /\ writing = Idle /\ setMeta(CopyOf(layout.meta))
  /\ filePath' = NoPath /\ astray' = FALSE
  /\ UNCHANGED <<selectedVk, recent, preview, diskVars>>

\* A click selects a key of the board; choosing a board selects none.
Select(vk) ==
  /\ writing = Idle /\ selectedVk' = vk /\ selectedVk' # selectedVk
  /\ UNCHANGED <<docVars, filePath, recent, preview, astray, diskVars>>

\* A character typed into the live preview.
FeedPreviewChar ==
  /\ writing = Idle /\ preview = NoTyping
  /\ preview' = [layout EXCEPT !.meta = NewMeta]
  /\ UNCHANGED <<docVars, filePath, selectedVk, recent, astray, diskVars>>

-----------------------------------------------------------------------------
\* Files.

\* DoOpen and the recent list: a file that cannot be read or parsed changes
\* nothing, so only the others are a step.
DoOpen(p) ==
  /\ writing = Idle
  /\ \E l \in ReadBack(files[p]) : Replace(l, FALSE)
  /\ filePath' = p /\ AddRecent(p) /\ preview' = NoTyping /\ astray' = FALSE
  /\ UNCHANGED <<selectedVk, diskVars>>

StartWrite(op, p) ==
  /\ writes < MaxWrites /\ writes' = writes + 1
  /\ writing' = Write(op, p, "backup")
  /\ UNCHANGED <<docVars, selectedVk, recent, preview, files, backups, worth, faults>>

\* DoSave: to the document's path.
DoSave ==
  /\ writing = Idle /\ filePath # NoPath
  /\ StartWrite("save", filePath) /\ UNCHANGED <<filePath, astray>>

\* DoSaveAs (and DoSave of an untitled document): the path is taken first.
DoSaveAs(p) ==
  /\ writing = Idle
  /\ filePath' = p /\ astray' = (astray \/ p # filePath)
  /\ StartWrite("save", p)

\* The same when validation found errors and the user then declines: the path
\* has been taken all the same.
DeclinedSaveAs(p) ==
  /\ writing = Idle /\ ~Valid(layout) /\ p # filePath
  /\ filePath' = p /\ astray' = TRUE
  /\ UNCHANGED <<docVars, selectedVk, recent, preview, diskVars>>

DoExport(p) ==
  /\ writing = Idle
  /\ StartWrite("export", p) /\ UNCHANGED <<filePath, astray>>

-----------------------------------------------------------------------------
\* WriteFileBackup, one file operation after the other.
At(at)   == writing.at = at
Goto(at) == writing' = [writing EXCEPT !.at = at]
Silent   == UNCHANGED <<docVars, filePath, selectedVk, recent, preview, astray, worth, writes>>
File     == files[writing.path]

\* Mutant of CopyStarts: the file is opened for writing before it is copied.
CopyStartsLate ==
  /\ At("backup") /\ File # NoFile
  /\ backups' = [backups EXCEPT ![writing.path] = Torn]
  /\ files' = [files EXCEPT ![writing.path] = Torn]
  /\ Goto("copying") /\ Silent /\ UNCHANGED faults

CopyStarts ==
  /\ At("backup") /\ File # NoFile
  /\ backups' = [backups EXCEPT ![writing.path] = Torn]
  /\ Goto("copying") /\ Silent /\ UNCHANGED <<files, faults>>

CopyEnds ==
  /\ At("copying")
  /\ backups' = [backups EXCEPT ![writing.path] = File]
  /\ Goto("open") /\ Silent /\ UNCHANGED <<files, faults>>

\* There is nothing to copy, or the copy fails at its start or half-way, which
\* is ignored.
NoCopy ==
  /\ At("backup") \/ At("copying")
  /\ IF File = NoFile THEN UNCHANGED faults ELSE Fault
  /\ Goto("open") /\ Silent /\ UNCHANGED <<files, backups>>

OpenTruncates ==
  /\ At("open")
  /\ files' = [files EXCEPT ![writing.path] = Torn]
  /\ Goto("write") /\ Silent /\ UNCHANGED <<backups, faults>>

\* What the caller does with the result; astray is kept up with the file.
Returned(ok) ==
  /\ writing' = Idle
  /\ IF ok /\ writing.op = "save" THEN markSaved /\ AddRecent(filePath)
     ELSE UNCHANGED <<docVars, recent>>
  /\ UNCHANGED <<filePath, selectedVk, preview, backups, writes>>

\* Mutant of WriteEnds: exporting marks the document saved.
WriteEndsAsSave ==
  /\ At("write")
  /\ files' = [files EXCEPT ![writing.path] = By("designer", layout)]
  /\ worth' = [worth EXCEPT ![writing.path] = By("designer", layout)]
  /\ astray' = (astray /\ writing.path # filePath)
  /\ writing' = Idle /\ markSaved /\ AddRecent(writing.path)
  /\ UNCHANGED <<filePath, selectedVk, preview, backups, writes, faults>>

WriteEnds ==
  /\ At("write")
  /\ files' = [files EXCEPT ![writing.path] = By("designer", layout)]
  /\ worth' = [worth EXCEPT ![writing.path] = By("designer", layout)]
  /\ astray' = (astray /\ writing.path # filePath)
  /\ Returned(TRUE) /\ UNCHANGED faults

\* The file cannot be opened (and is what it was), or the data cannot be written;
\* when that shows only as the stream is closed, the write counts as done.
WriteFails(ok) ==
  /\ At("write") \/ (At("open") /\ ~ok)
  /\ Fault
  /\ astray' = (astray \/ (At("write") /\ writing.path = filePath))
  /\ Returned(ok) /\ UNCHANGED <<files, worth>>

-----------------------------------------------------------------------------
\* The program is closed, or killed, and started again.
Restart ==
  /\ IF writing = Idle THEN UNCHANGED faults ELSE Fault
  /\ newLayout
  /\ filePath' = NoPath /\ selectedVk' = 0 /\ preview' = NoTyping /\ astray' = FALSE
  /\ writing' = Idle
  /\ UNCHANGED <<recent, files, backups, worth, writes>>

\* Another program writes or deletes a file.
OtherWrites(p, c) ==
  /\ writing = Idle /\ writes < MaxWrites /\ writes' = writes + 1
  /\ files[p] # c
  /\ files' = [files EXCEPT ![p] = c] /\ worth' = [worth EXCEPT ![p] = c]
  /\ astray' = (astray \/ p = filePath)
  /\ UNCHANGED <<docVars, filePath, selectedVk, recent, preview, backups, writing, faults>>

DesignerNext ==
  \/ DoNew \/ Undo \/ Redo \/ Copy \/ Paste
  \/ \E entries \in DialogEntries : DoEditSelectedKey(entries)
  \/ \E m \in Metas : DoMetadata(m)
  \/ DoDuplicate
  \/ \E vk \in KeyVks \cup {0} : Select(vk)
  \/ FeedPreviewChar
  \/ DoSave
  \/ \E p \in Paths : DoOpen(p) \/ DoSaveAs(p) \/ DeclinedSaveAs(p) \/ DoExport(p)
  \/ CopyStarts \/ CopyEnds \/ NoCopy \/ OpenTruncates \/ WriteEnds
  \/ \E ok \in BOOLEAN : WriteFails(ok)
  \/ Restart
  \/ \E p \in Paths : \E c \in {NoFile} \cup {By("user", l) : l \in Opened} : OtherWrites(p, c)

DesignerSpec == DesignerInit /\ [][DesignerNext]_designerVars

-----------------------------------------------------------------------------
\* Types, and a recent list without repetitions and of bounded length.
TypeOK ==
  /\ dirty \in BOOLEAN /\ astray \in BOOLEAN
  /\ filePath \in Paths \cup {NoPath} /\ selectedVk \in KeyVks \cup {0}
  /\ recent \in Seq(Paths) /\ Len(recent) <= kMaxRecent /\ IsInjective(recent)
  /\ writing # Idle => writing.path \in Paths /\ (writing.op = "save" => writing.path = filePath)
  /\ faults \in 0..MaxFaults /\ writes \in 0..MaxWrites

\* README.md:363-364, a copy of the previous file is written first: between two
\* commands, one failed operation or kill in the whole life of the files costs
\* no file its last complete text, in place or in its .bak, in whatever order
\* saves, exports, restarts and other programs' writes followed each other.
OneFaultLosesNothing ==
  writing = Idle /\ faults <= 1 =>
    \A p \in Paths : worth[p] = NoFile \/ worth[p] \in {files[p], backups[p]}

\* A title without a star tells the truth: what the file named there reads as
\* is the document, meta and all.  Excepted are what the code does not do: a
\* key without action or with another key's cased flag does not read back, and
\* Save As keeps a path it did not write (astray).
Rereadable(l) == Readable(l) /\ Recased(l) = l

CleanMeansOnDisk ==
  writing = Idle /\ ~dirty /\ filePath # NoPath /\ ~astray /\ Rereadable(layout) =>
    ReadBack(files[filePath]) = {layout}

\* What the preview's composer holds (its window, a pending dead key, a compose
\* buffer) was typed with the mappings that the document has now: every command
\* that can change them resets it.
PreviewIsCurrent == preview # NoTyping => preview = [layout EXCEPT !.meta = NewMeta]

\* LayoutSerializer.hpp:3-5: the text that is written yields, read back, the
\* layout it was written from, if none of its keys is without action.  The code
\* does not keep this.
SavedTextReadsBack ==
  [][WriteEnds /\ Readable(layout) => ReadBack(files'[writing.path]) = {layout}]_designerVars
=============================================================================
