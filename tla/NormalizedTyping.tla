-------------------------- MODULE NormalizedTyping --------------------------
(***************************************************************************)
(* What Composer::commit relies on in core/Normalizer.cpp: a text whose    *)
(* last codepoints (the window) are normalised again after every key       *)
(* shows what normalising everything typed at once would show.  `raw` is   *)
(* everything the keys produced; the screen is older \o window, and commit *)
(* reads and rewrites only the window.                                     *)
(***************************************************************************)
EXTENDS Normalizer

CONSTANTS Alphabet,   \* codepoints the keys of a layout produce
          KWindow,    \* Composer::kWindow
          MaxRaw      \* bound: codepoints typed

ASSUME TypingAssumption == KWindow \in Nat \ {0} /\ MaxRaw \in Nat

VARIABLES raw, older, window
vars == <<raw, older, window>>

shown == older \o window

Init == raw = <<>> /\ older = <<>> /\ window = <<>>

\* Mutant of Cut: the window loses one codepoint more than the cap asks for.
CutTooMuch(text) == IF Len(text) >= KWindow THEN Len(text) - KWindow + 1 ELSE 0

\* How many codepoints of a processed text fall out of the window.
Cut(text) == IF Len(text) > KWindow THEN Len(text) - KWindow ELSE 0

\* commit with a normalising layout and no ligature.
Type(cp) ==
  LET processed == toNFC(Append(window, cp))
      cut       == Cut(processed)
  IN  /\ Len(raw) < MaxRaw
      /\ raw'    = Append(raw, cp)
      /\ older'  = older \o SubSeq(processed, 1, cut)
      /\ window' = SubSeq(processed, cut + 1, Len(processed))

Next == \E cp \in Alphabet : Type(cp)
Spec == Init /\ [][Next]_vars

-----------------------------------------------------------------------------
\* The maximal runs of combining marks of s, as <<first, last>> positions.
MarkRuns(s) ==
  LET mark(i) == i \in DOMAIN s /\ combiningClass(s[i]) # 0
  IN  {r \in (DOMAIN s) \X (DOMAIN s) :
         /\ r[1] <= r[2] /\ \A i \in r[1]..r[2] : mark(i)
         /\ ~mark(r[1] - 1) /\ ~mark(r[2] + 1)}

\* The window still holds the starter of every run of marks while it grows.
RunsFitWindow == \A run \in MarkRuns(raw) : run[2] - run[1] < KWindow

\* Where a stable sort of its run of marks puts s[i]: after the marks of a
\* lower class and the earlier ones of the same class.
StableRank(s, run, i) ==
  run[1] + Cardinality({j \in run[1]..run[2] :
                          \/ combiningClass(s[j]) < combiningClass(s[i])
                          \/ combiningClass(s[j]) = combiningClass(s[i]) /\ j < i})

\* canonicalOrder moves each mark to its rank in a stable sort of its run by
\* combining class and leaves every starter where it is.
OrderIsStableSort ==
  LET ordered == canonicalOrder(raw)
  IN  /\ Len(ordered) = Len(raw)
      /\ \A run \in MarkRuns(raw) : \A i \in run[1]..run[2] :
           ordered[StableRank(raw, run, i)] = raw[i]
      /\ \A i \in DOMAIN raw : combiningClass(raw[i]) = 0 => ordered[i] = raw[i]

\* Normalising the window after every key gives the normal form of everything
\* typed, as long as no letter carries more marks than the window holds: the
\* text on screen depends neither on the grouping of the keys nor on the cap.
IncrementalIsBatch == RunsFitWindow => shown = toNFC(raw)

\* The canonical decomposition of a text: each composite is its pair again.
Pieces(cp) ==
  LET pairs == {t \in Compositions : t[3] = cp}
  IN  IF pairs = {} THEN <<cp>> ELSE LET t == CHOOSE t \in pairs : TRUE IN <<t[1], t[2]>>

Decompose(s) ==
  LET upto[i \in 0..Len(s)] == IF i = 0 THEN <<>> ELSE upto[i - 1] \o Pieces(s[i])
  IN  upto[Len(s)]

\* The text on screen is canonically equivalent to what was typed: composition
\* loses no mark and never moves one across another of its class.
ShownIsEquivalent ==
  RunsFitWindow => canonicalOrder(Decompose(shown)) = canonicalOrder(Decompose(raw))

\* No starter on screen is followed by a mark that composes with it and is not
\* blocked by a mark of the same or a higher class in between.
FullyComposed ==
  RunsFitWindow =>
    \A i, j \in DOMAIN shown :
      (/\ i < j /\ combiningClass(shown[i]) = 0
       /\ \A k \in (i + 1)..(j - 1) : combiningClass(shown[k]) \in 1..(combiningClass(shown[j]) - 1))
      => composePair(shown[i], shown[j]) = 0
=============================================================================
