--------------------------- MODULE KeyboardLayout ---------------------------
(***************************************************************************)
(* The in-memory keyboard layout of core/KeyboardLayout.{hpp,cpp}: pure    *)
(* data and the lookups the Composer makes on it.                          *)
(*                                                                         *)
(* A text is a sequence of codepoints, a virtual key is the number the     *)
(* code gives it (core/VirtualKeys.hpp), and a layout is a record          *)
(*   capsMode, normalize        behaviour flags                            *)
(*   keys                       virtual key -> KeyDef                      *)
(*   deadKeys                   dead-key id -> standalone and compositions *)
(*   ligatures                  sequence of Ligature, longest first        *)
(*   compose                    the compose sequences as they were added   *)
(*   composeExact, composePrefix, composeMaxLen   the indexes over them    *)
(* A null pointer to an action is the action of kind "None": resolve never *)
(* returns a pointer to such an action.                                    *)
(***************************************************************************)
EXTENDS Integers, Sequences, Lists

Level      == {"Base", "Shift", "AltGr", "ShiftAltGr"}
CapsMode   == {"Ignore", "ShiftLetters", "Invert"}
ActionKind == {"None", "Emit", "DeadKey", "Compose"}

\* The empty dead-key id: Composer uses it for "no dead key pending".
NoDead == ""

NoAction == [kind |-> "None", output |-> <<>>, deadKey |-> NoDead]

KeyAction(outputs, ids) == [kind : ActionKind, output : outputs, deadKey : ids]

-----------------------------------------------------------------------------
\* Virtual keys the code tests for by name.
Back   == 8
Tab    == 9
Enter  == 13
Escape == 27
Space  == 32

isLetter(vk)     == vk \in 65..90
isModifierVk(vk) == vk \in {16, 17, 18, 20, 91, 92}

-----------------------------------------------------------------------------
\* Mutant of EffectiveShift: Caps Lock shifts the keys that are not cased too.
EffectiveShiftAllKeys(L, cased, shift, caps) ==
  CASE ~caps \/ L.capsMode = "Ignore"  -> shift
    [] caps /\ L.capsMode = "ShiftLetters" -> TRUE
    [] caps /\ L.capsMode = "Invert"       -> ~shift

\* Shift after the Caps Lock policy of the layout.
EffectiveShift(L, cased, shift, caps) ==
  CASE ~(cased /\ caps) \/ L.capsMode = "Ignore"    -> shift
    [] cased /\ caps /\ L.capsMode = "ShiftLetters" -> TRUE
    [] cased /\ caps /\ L.capsMode = "Invert"       -> ~shift

\* The first of two actions that is defined.
OrElse(a, b) == IF a.kind # "None" THEN a ELSE b

\* The action of a key event: pick the level, fall back from undefined levels
\* (Shift falls back to Base only for cased letters).
resolve(L, in) ==
  IF in.vk \notin DOMAIN L.keys THEN NoAction
  ELSE LET def   == L.keys[in.vk]
           cased == def.cased /\ isLetter(in.vk)
           shift == EffectiveShift(L, cased, in.shift, in.caps)
           at(lvl) == def.levels[lvl]
       IN  CASE in.altgr /\ shift   -> OrElse(at("ShiftAltGr"), OrElse(at("AltGr"), at("Base")))
             [] in.altgr /\ ~shift  -> OrElse(at("AltGr"), at("Base"))
             [] ~in.altgr /\ shift  -> IF cased THEN OrElse(at("Shift"), at("Base")) ELSE at("Shift")
             [] ~in.altgr /\ ~shift -> at("Base")

-----------------------------------------------------------------------------
\* s is the tail of t.
IsTail(s, t) ==
  /\ Len(s) <= Len(t)
  /\ \A i \in 1..Len(s) : s[i] = t[Len(t) - Len(s) + i]

\* The ligatures of L that match the tail of text, by position in the list.
Matches(L, text) ==
  {i \in DOMAIN L.ligatures : /\ L.ligatures[i].sequence # <<>>
                              /\ IsTail(L.ligatures[i].sequence, text)}

\* matchLigature: the first entry of the longest-first list that matches.
matchLigature(L, text) ==
  L.ligatures[CHOOSE i \in Matches(L, text) : \A j \in Matches(L, text) : i <= j]

\* What addLigature keeps true of the list: std::sort by decreasing length.
SortedLongestFirst(ligs) ==
  \A i, j \in DOMAIN ligs : i < j => Len(ligs[i].sequence) >= Len(ligs[j].sequence)

-----------------------------------------------------------------------------
\* A layout without compose sequences.
clearCompose(L) == [L EXCEPT !.compose = <<>>, !.composeExact = <<>>,
                             !.composePrefix = {}, !.composeMaxLen = 0]

\* Mutant of addCompose: the index of maximal length keeps the last length.
addComposeLastLen(L, c) ==
  IF c.keys = <<>> THEN [L EXCEPT !.compose = Append(@, c)]
  ELSE [L EXCEPT !.compose       = Append(@, c),
                 !.composeExact  = [k \in DOMAIN @ \cup {c.keys} |->
                                      IF k = c.keys THEN c.output ELSE @[k]],
                 !.composePrefix = @ \cup {SubSeq(c.keys, 1, i) : i \in 1..(Len(c.keys) - 1)},
                 !.composeMaxLen = Len(c.keys)]

\* addCompose: append to the list and, unless the keys are empty, index the
\* sequence (the last definition of the same keys wins) and its proper prefixes.
addCompose(L, c) ==
  IF c.keys = <<>> THEN [L EXCEPT !.compose = Append(@, c)]
  ELSE [L EXCEPT !.compose       = Append(@, c),
                 !.composeExact  = [k \in DOMAIN @ \cup {c.keys} |->
                                      IF k = c.keys THEN c.output ELSE @[k]],
                 !.composePrefix = @ \cup {SubSeq(c.keys, 1, i) : i \in 1..(Len(c.keys) - 1)},
                 !.composeMaxLen = IF Len(c.keys) > @ THEN Len(c.keys) ELSE @]

\* addCompose for one entry of a list after the other.
addComposes(L, seqs) ==
  LET upto[n \in 0..Len(seqs)] == IF n = 0 THEN L ELSE addCompose(upto[n - 1], seqs[n])
  IN  upto[Len(seqs)]

\* composeLookup: how a partial buffer stands in the compose table.
composeLookup(L, buffer) ==
  CASE buffer = <<>>                    -> IF L.compose = <<>> THEN "None" ELSE "Prefix"
    [] buffer # <<>> /\ Len(buffer) > L.composeMaxLen -> "None"
    [] buffer # <<>> /\ Len(buffer) <= L.composeMaxLen ->
         IF buffer \in DOMAIN L.composeExact THEN "Exact"
         ELSE IF buffer \in L.composePrefix THEN "Prefix" ELSE "None"
-----------------------------------------------------------------------------
\* What a layout is made of: texts over `code`, the strings it produces among
\* `outputs`, dead keys among `ids`, and the indexes addCompose and addLigature
\* keep.
IsLayout(L, code, outputs, ids) ==
  /\ L.capsMode \in CapsMode /\ L.normalize \in BOOLEAN
  /\ \A vk \in DOMAIN L.keys :
       /\ L.keys[vk].cased \in BOOLEAN
       /\ \A lvl \in Level : L.keys[vk].levels[lvl] \in KeyAction(outputs, ids)
  /\ \A id \in DOMAIN L.deadKeys :
       /\ L.deadKeys[id].standalone \in outputs
       /\ \A cp \in DOMAIN L.deadKeys[id].compositions :
            L.deadKeys[id].compositions[cp] \in outputs
  /\ L.ligatures \in Seq([sequence : Seq(code), result : Seq(code)])
  /\ SortedLongestFirst(L.ligatures)
  /\ L.composeMaxLen \in Nat
  /\ \A k \in DOMAIN L.composeExact : L.composeExact[k] \in outputs
  /\ \A p \in L.composePrefix :
       /\ p \in Seq(code) /\ p # <<>>
       /\ Len(p) = 1 \/ SubSeq(p, 1, Len(p) - 1) \in L.composePrefix
=============================================================================
