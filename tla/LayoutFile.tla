----------------------------- MODULE LayoutFile -----------------------------
(***************************************************************************)
(* From a layout file to a layout and back: core/LayoutParser.cpp,         *)
(* core/LayoutValidator.cpp and core/LayoutSerializer.cpp, over JSON       *)
(* documents that a user edits and the designer opens and saves.           *)
(*                                                                         *)
(* A document is the record of its sections.  Its values are nodes: Null,  *)
(* Text (every spelling of a text), Id (a string that names a dead key),   *)
(* True, Bad (a value of a type that fits nowhere), Obj and Table (objects *)
(* with field names and with codepoints as keys).  What may fail returns a *)
(* set: empty for an error.  Warnings change nothing and are left out.     *)
(***************************************************************************)
EXTENDS KeyboardLayout, SequencesExt

CONSTANTS
  Scalar,        \* the codepoints that are Unicode scalar values
  fromName,      \* [key names -> virtual keys, or NoVk for a name that is none]
  toName,        \* [virtual keys -> key names]
  NoVk,
  Templates,     \* the keys of the files that are edited
  KeyNodes,      \* [key names -> nodes that are written for that key]
  DeadNodes,     \* [dead-key ids -> nodes that are written for that id]
  LigatureNodes, ComposeNodes,   \* [sequence, result] and [keys, output] of nodes
  Behaviors,     \* what is written in the behavior section: caps_mode, normalize
  Buffers,       \* the texts that are looked up
  MaxEntries     \* bound: entries written in all sections together

\* Every key that can be named has a name of its own to be written with
\* (VirtualKeys.hpp:138-141; toName has room for five hexadecimal digits, so
\* the numbers a file may give for a key are those below 16^5).
ASSUME LayoutFileAssumption ==
  /\ \A n \in DOMAIN fromName : fromName[n] # NoVk => fromName[n] \in DOMAIN toName
  /\ \A vk \in DOMAIN toName :
       toName[vk] \in DOMAIN fromName /\ vk # NoVk /\ fromName[toName[vk]] = vk
  /\ \A keys \in Templates : DOMAIN keys \subseteq DOMAIN fromName
  /\ DOMAIN KeyNodes \subseteq DOMAIN fromName
  /\ \A b \in Behaviors : b.normalize \in BOOLEAN
  /\ Buffers \subseteq Seq(Scalar)
  /\ MaxEntries \in Nat

VARIABLE text   \* the document in the file

-----------------------------------------------------------------------------
\* Nodes.
Null     == [t |-> "null"]
Bad      == [t |-> "bad"]
True     == [t |-> "true"]
Text(s)  == [t |-> "text", text |-> s]
Id(id)   == [t |-> "id", id |-> id]
Obj(f)   == [t |-> "obj", obj |-> f]
Table(f) == [t |-> "table", table |-> f]

Has(node, field)   == node.t = "obj" /\ field \in DOMAIN node.obj
Field(node, field) == IF Has(node, field) THEN node.obj[field] ELSE Null

-----------------------------------------------------------------------------
\* LayoutParser.

allScalar(s) == s \in Seq(Scalar)

\* parseOutput: a text, every codepoint of which must be a scalar value.
parseOutput(node) == IF node.t = "text" /\ allScalar(node.text) THEN {node.text} ELSE {}

EmitAction(s)  == [NoAction EXCEPT !.kind = "Emit", !.output = s]
DeadAction(id) == [NoAction EXCEPT !.kind = "DeadKey", !.deadKey = id]
ComposeAction  == [NoAction EXCEPT !.kind = "Compose"]

\* parseAction: a text, or an object whose first known field decides.
parseAction(node) ==
  CASE node.t = "text" -> {EmitAction(s) : s \in parseOutput(node)}
    [] Has(node, "dead") -> {DeadAction(d.id) : d \in {n \in {node.obj["dead"]} : n.t = "id"}}
    [] Has(node, "compose") /\ ~Has(node, "dead") ->
         {ComposeAction : n \in {m \in {node.obj["compose"]} : m.t = "true"}}
    [] Has(node, "emit") /\ ~Has(node, "dead") /\ ~Has(node, "compose") ->
         {EmitAction(s) : s \in parseOutput(node.obj["emit"])}
    [] OTHER -> {}

\* The node of each level: the fields of an object that has a level among
\* them; every other node is the Base level.
LevelNodes(node) ==
  IF \E lvl \in Level : Has(node, lvl)
  THEN [lvl \in Level |-> Field(node, lvl)]
  ELSE [lvl \in Level |-> IF lvl = "Base" THEN node ELSE Null]

\* Mutant of BadLevel: only the Base level is looked at.
BadLevelBaseOnly(node) == LevelNodes(node)["Base"] # Null /\ parseAction(LevelNodes(node)["Base"]) = {}

\* A level of a key cannot be parsed.
BadLevel(node) == \E lvl \in Level : LevelNodes(node)[lvl] # Null /\ parseAction(LevelNodes(node)[lvl]) = {}

KeyOfNode(vk, node) ==
  LET actions == [lvl \in Level |->
                    IF parseAction(LevelNodes(node)[lvl]) = {} THEN NoAction
                    ELSE CHOOSE a \in parseAction(LevelNodes(node)[lvl]) : TRUE]
  IN  [cased  |-> isLetter(vk) /\ \E lvl \in Level : LevelNodes(node)[lvl] # Null,
       levels |-> actions]

\* The names of keys; an unknown name is skipped.  A document without keys, or
\* without that section, is rejected.
Names(doc) == {n \in DOMAIN doc.keys : fromName[n] # NoVk}

BadKeys(doc) ==
  \/ \E n, m \in Names(doc) : n # m /\ fromName[n] = fromName[m]
  \/ \E n \in Names(doc) : BadLevel(doc.keys[n])
  \/ Names(doc) = {}

KeysOf(doc) ==
  [vk \in {fromName[n] : n \in Names(doc)} |->
     KeyOfNode(vk, doc.keys[CHOOSE n \in Names(doc) : fromName[n] = vk])]

\* A dead key: standalone and compose table may be missing.
BadDeadKey(spec) ==
  \/ Field(spec, "standalone") # Null /\ parseOutput(Field(spec, "standalone")) = {}
  \/ /\ Field(spec, "compose").t = "table"
     /\ LET comps == spec.obj["compose"].table
        IN  \E cp \in DOMAIN comps : cp \notin Scalar \/ parseOutput(comps[cp]) = {}

DeadKeyOf(spec) ==
  LET comps == IF Field(spec, "compose").t = "table" THEN spec.obj["compose"].table ELSE [cp \in {} |-> Null]
  IN  [standalone   |-> IF Field(spec, "standalone") = Null THEN <<>> ELSE spec.obj["standalone"].text,
       compositions |-> [cp \in DOMAIN comps |-> comps[cp].text]]

\* An element of the ligature and the compose list: two texts; one whose first
\* text is empty is skipped.
BadPair(a, b) == parseOutput(a) = {} \/ parseOutput(b) = {}

Ligatures(doc) ==
  LET kept == Kept(doc.ligatures, {i \in DOMAIN doc.ligatures : doc.ligatures[i].sequence.text # <<>>})
  IN  [i \in DOMAIN kept |-> [sequence |-> kept[i].sequence.text, result |-> kept[i].result.text]]

\* Mutant of LigatureOrders: the list stays in the order of the file.
LigatureOrdersUnsorted(ligs) == {ligs}

\* addLigature sorts after every addition; equal lengths may end in any order.
LigatureOrders(ligs) == {o \in Orders(ligs) : SortedLongestFirst(o)}

ComposeSequences(doc) ==
  LET kept == Kept(doc.compose, {i \in DOMAIN doc.compose : doc.compose[i].keys.text # <<>>})
  IN  [i \in DOMAIN kept |-> [keys |-> kept[i].keys.text, output |-> kept[i].output.text]]

Rejected(doc) ==
  \/ BadKeys(doc)
  \/ \E id \in DOMAIN doc.deadKeys : BadDeadKey(doc.deadKeys[id])
  \/ \E i \in DOMAIN doc.ligatures : BadPair(doc.ligatures[i].sequence, doc.ligatures[i].result)
  \/ \E i \in DOMAIN doc.compose : BadPair(doc.compose[i].keys, doc.compose[i].output)

\* The layout without its two lists.
Bare(doc) ==
  [capsMode  |-> IF doc.capsMode \in CapsMode THEN doc.capsMode ELSE "Ignore",
   normalize |-> doc.normalize,
   keys      |-> KeysOf(doc),
   deadKeys  |-> [id \in DOMAIN doc.deadKeys |-> DeadKeyOf(doc.deadKeys[id])],
   ligatures |-> <<>>, compose |-> <<>>,
   composeExact |-> [k \in {} |-> <<>>], composePrefix |-> {}, composeMaxLen |-> 0]

\* The layout of a document that is not rejected, for each order of ligatures.
Built(doc) ==
  {[addComposes(Bare(doc), ComposeSequences(doc)) EXCEPT !.ligatures = o] :
     o \in LigatureOrders(Ligatures(doc))}

\* parse: one error anywhere rejects the document.
parse(doc) == IF Rejected(doc) THEN {} ELSE Built(doc)

-----------------------------------------------------------------------------
\* LayoutValidator::validate without its warnings.

\* Mutant of DeadKeysDefined: only the unshifted level is looked at.
DeadKeysDefinedBaseOnly(l) ==
  \A vk \in DOMAIN l.keys :
    l.keys[vk].levels["Base"].kind = "DeadKey" => l.keys[vk].levels["Base"].deadKey \in DOMAIN l.deadKeys

DeadKeysDefined(l) ==
  \A vk \in DOMAIN l.keys, lvl \in Level :
    LET a == l.keys[vk].levels[lvl] IN a.kind = "DeadKey" => a.deadKey \in DOMAIN l.deadKeys

validate(l) ==
  /\ DOMAIN l.keys # {}
  /\ DeadKeysDefined(l)
  /\ \A vk \in DOMAIN l.keys, lvl \in Level : allScalar(l.keys[vk].levels[lvl].output)
  /\ \A id \in DOMAIN l.deadKeys :
       /\ allScalar(l.deadKeys[id].standalone)
       /\ \A cp \in DOMAIN l.deadKeys[id].compositions : allScalar(l.deadKeys[id].compositions[cp])
  /\ \A i \in DOMAIN l.compose :
       LET seq == l.compose[i]
       IN  seq.keys # <<>> /\ seq.output # <<>> => allScalar(seq.keys) /\ allScalar(seq.output)

-----------------------------------------------------------------------------
\* LayoutSerializer.

\* actionJson of an action that is not None.
actionJson(a) ==
  CASE a.kind = "Emit"    -> Text(a.output)
    [] a.kind = "DeadKey" -> Obj([dead |-> Id(a.deadKey)])
    [] a.kind = "Compose" -> Obj([compose |-> True])

\* Mutant of WrittenLevels: the AltGr levels are written only together.
WrittenLevelsPaired(def) ==
  {lvl \in Level : /\ def.levels[lvl].kind # "None"
                   /\ lvl = "AltGr" => def.levels["ShiftAltGr"].kind # "None"}

\* The levels toJson writes of a key.
WrittenLevels(def) == {lvl \in Level : def.levels[lvl].kind # "None"}

toJson(l) ==
  [capsMode  |-> l.capsMode,
   normalize |-> l.normalize,
   keys      |-> [n \in {toName[vk] : vk \in DOMAIN l.keys} |->
                    LET def == l.keys[fromName[n]]
                    IN  Obj([lvl \in WrittenLevels(def) |-> actionJson(def.levels[lvl])])],
   deadKeys  |-> [id \in DOMAIN l.deadKeys |->
                    Obj([standalone |-> Text(l.deadKeys[id].standalone),
                         compose    |-> Table([cp \in DOMAIN l.deadKeys[id].compositions |->
                                                 Text(l.deadKeys[id].compositions[cp])])])],
   ligatures |-> [i \in DOMAIN l.ligatures |->
                    [sequence |-> Text(l.ligatures[i].sequence), result |-> Text(l.ligatures[i].result)]],
   compose   |-> [i \in DOMAIN l.compose |->
                    [keys |-> Text(l.compose[i].keys), output |-> Text(l.compose[i].output)]]]

-----------------------------------------------------------------------------
\* The user edits the file; the designer opens it and saves it again.

\* A file with the keys of a template.
FileInit ==
  \E keys \in Templates :
    text = [capsMode |-> "Ignore", normalize |-> TRUE, keys |-> keys,
            deadKeys |-> [id \in {} |-> Null], ligatures |-> <<>>, compose |-> <<>>]

Room ==
  Cardinality(DOMAIN text.keys \cap DOMAIN KeyNodes) + Cardinality(DOMAIN text.deadKeys)
    + Len(text.ligatures) + Len(text.compose) < MaxEntries

With(f, k, v) == [x \in DOMAIN f \cup {k} |-> IF x = k THEN v ELSE f[x]]

WriteKey(n, node)   == Room /\ text' = [text EXCEPT !.keys = With(@, n, node)]
WriteDead(id, node) == Room /\ text' = [text EXCEPT !.deadKeys = With(@, id, node)]
WriteLigature(e)    == Room /\ text' = [text EXCEPT !.ligatures = Append(@, e)]
WriteCompose(e)     == Room /\ text' = [text EXCEPT !.compose = Append(@, e)]
WriteBehavior(b)    == text' = [text EXCEPT !.capsMode = b.capsMode, !.normalize = b.normalize]

Resave == \E l \in parse(text) : text' = toJson(l)

FileNext ==
  \/ \E n \in DOMAIN KeyNodes : \E node \in KeyNodes[n] : WriteKey(n, node)
  \/ \E id \in DOMAIN DeadNodes : \E node \in DeadNodes[id] : WriteDead(id, node)
  \/ \E e \in LigatureNodes : WriteLigature(e)
  \/ \E e \in ComposeNodes : WriteCompose(e)
  \/ \E b \in Behaviors : WriteBehavior(b)
  \/ Resave

FileSpec == FileInit /\ [][FileNext]_text

-----------------------------------------------------------------------------
\* Saving a layout that was opened keeps it: the new text can be read as
\* exactly the layouts the old one could be read as.  A key that has no action
\* (a file may define one by null) is the exception: see ResavedLoads.
EveryKeyMapped(l) == \A vk \in DOMAIN l.keys : WrittenLevels(l.keys[vk]) # {}

SavingKeepsTheLayout ==
  [][Resave /\ (\A l \in parse(text) : EveryKeyMapped(l)) => parse(text') = parse(text)]_text

\* LayoutSerializer.hpp:3-5: what is saved can be read back.
ResavedLoads == [][Resave => parse(text') # {}]_text

\* A layout that is accepted has all its file says: no level, ligature or
\* compose sequence is dropped on the way because something in it is malformed.
AcceptedIsComplete ==
  \A l \in parse(text) :
    /\ \A n \in Names(text) : \A lvl \in Level :
         LevelNodes(text.keys[n])[lvl] # Null => l.keys[fromName[n]].levels[lvl].kind # "None"
    /\ \A i \in DOMAIN text.ligatures : text.ligatures[i].sequence.text # <<>> =>
         \E j \in DOMAIN l.ligatures : l.ligatures[j].sequence = text.ligatures[i].sequence.text
    /\ \A i \in DOMAIN text.compose : text.compose[i].keys.text # <<>> =>
         text.compose[i].keys.text \in DOMAIN l.composeExact

\* What the keyboard activates is what the Composer assumes of a layout, and
\* every dead key a key refers to is there.
ActivatedIsComposable ==
  \A l \in parse(text) : validate(l) =>
    IsLayout(l, Scalar, Seq(Scalar), DOMAIN l.deadKeys \cup {NoDead})

\* The hash indexes answer what a scan of the list would: an exact sequence wins
\* over a longer one it begins, and of two definitions of the same keys the
\* later one wins.
ScanLookup(l, buffer) ==
  LET seqs == l.compose
  IN  IF \E i \in DOMAIN seqs : buffer # <<>> /\ seqs[i].keys = buffer THEN "Exact"
      ELSE IF \E i \in DOMAIN seqs : IsPrefix(buffer, seqs[i].keys) THEN "Prefix"
      ELSE "None"

LookupIsScan ==
  \A l \in parse(text), buffer \in Buffers :
    /\ composeLookup(l, buffer) = ScanLookup(l, buffer)
    /\ composeLookup(l, buffer) = "Exact" =>
         LET at == {i \in DOMAIN l.compose : l.compose[i].keys = buffer}
         IN  \E i \in at : (\A j \in at : j <= i) /\ l.composeExact[buffer] = l.compose[i].output

\* The ligature that is applied is one of the longest that match the text,
\* whatever the order of the file.
LongestLigatureWins ==
  \A l \in parse(text), s \in Buffers : \A i \in Matches(l, s) :
    Len(matchLigature(l, s).sequence) >= Len(l.ligatures[i].sequence)

\* Caps Lock changes nothing on a key that is not a cased letter or in a layout
\* that ignores it; else it is Shift, or its inversion, to the letter.
CapsLockFollowsPolicy ==
  \A l \in parse(text) : \A vk \in DOMAIN l.keys : \A shift, altgr \in BOOLEAN :
    LET of(s, caps) == resolve(l, [vk |-> vk, shift |-> s, altgr |-> altgr, caps |-> caps])
    IN  of(shift, TRUE) =
          IF ~(l.keys[vk].cased /\ isLetter(vk)) THEN of(shift, FALSE)
          ELSE CASE l.capsMode = "Ignore"       -> of(shift, FALSE)
                 [] l.capsMode = "ShiftLetters" -> of(TRUE, FALSE)
                 [] l.capsMode = "Invert"       -> of(~shift, FALSE)
=============================================================================
