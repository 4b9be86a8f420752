----------------------------- MODULE Normalizer -----------------------------
(***************************************************************************)
(* The curated NFC of core/Normalizer.cpp: canonical ordering of the runs  *)
(* of combining marks, then canonical composition.  Codepoints are         *)
(* numbers; 0 stands for "no composition", as in the code.                 *)
(***************************************************************************)
EXTENDS Integers, Sequences, FiniteSets

\* Canonical combining classes of the marks the table knows; 0 is a starter.
combiningClass(cp) ==
  CASE cp \in {\h0300, \h0301, \h0302, \h0303, \h0304, \h0306, \h0307, \h0308,
               \h030A, \h030B, \h030C, \h10F82, \h10F84}                      -> 230
    [] cp \in {\h0323, \h0324, \h0325, \h0331, \h0332, \h10F83, \h10F85}       -> 220
    [] cp \in {\h0327, \h0328}                                                 -> 202
    [] OTHER                                                                   -> 0

\* <<starter, mark, composed>>
Compositions ==
  {<<\h41, \h0308, \hC4>>, <<\h61, \h0308, \hE4>>, <<\h4F, \h0308, \hD6>>, <<\h6F, \h0308, \hF6>>,
   <<\h55, \h0308, \hDC>>, <<\h75, \h0308, \hFC>>, <<\h41, \h0301, \hC1>>, <<\h61, \h0301, \hE1>>,
   <<\h45, \h0301, \hC9>>, <<\h65, \h0301, \hE9>>, <<\h41, \h0300, \hC0>>, <<\h61, \h0300, \hE0>>,
   <<\h4E, \h0303, \hD1>>, <<\h6E, \h0303, \hF1>>, <<\h43, \h0327, \hC7>>, <<\h63, \h0327, \hE7>>}

composePair(a, b) ==
  LET hits == {t \in Compositions : t[1] = a /\ t[2] = b}
  IN  IF hits = {} THEN 0 ELSE (CHOOSE t \in hits : TRUE)[3]

-----------------------------------------------------------------------------
\* A maximal run of combining marks ends at position i, ...
EndsRun(s, i) == combiningClass(s[i]) # 0 /\ (i = Len(s) \/ combiningClass(s[i + 1]) = 0)

\* ... and begins there.
RunStart(s, i) ==
  CHOOSE a \in 1..i : /\ \A k \in a..i : combiningClass(s[k]) # 0
                      /\ a = 1 \/ combiningClass(s[a - 1]) = 0

\* Mutant of SwapAt: equal classes are swapped, so the sort is not stable.
SwapAtUnstable(s, b) ==
  IF combiningClass(s[b]) >= combiningClass(s[b + 1])
  THEN [s EXCEPT ![b] = s[b + 1], ![b + 1] = s[b]] ELSE s

\* One comparison of the bubble sort.
SwapAt(s, b) ==
  IF combiningClass(s[b]) > combiningClass(s[b + 1])
  THEN [s EXCEPT ![b] = s[b + 1], ![b + 1] = s[b]] ELSE s

\* One pass: the positions first..last are compared pairwise from the left.
Pass(s, first, last) ==
  LET upto[b \in first..last] == IF b = first THEN s ELSE SwapAt(upto[b - 1], b - 1)
  IN  upto[last]

\* The bubble sort of a run: each pass leaves out one position more.
BubbleSort(s, first, last) ==
  LET after[n \in 0..(last - first + 1)] ==
        IF n = 0 THEN s ELSE Pass(after[n - 1], first, last - n + 1)
  IN  after[last - first + 1]

\* The runs are sorted one after the other: upto[i] has those that end by i.
canonicalOrder(s) ==
  LET upto[i \in 0..Len(s)] ==
        IF i = 0 THEN s
        ELSE IF EndsRun(s, i) THEN BubbleSort(upto[i - 1], RunStart(s, i), i) ELSE upto[i - 1]
  IN  upto[Len(s)]

\* Mutant of Absorb: a mark composes across marks of its own class.
AbsorbUnblocked(acc, cp) ==
  LET ccc  == combiningClass(cp)
      pair == IF acc.starter > 0 /\ ccc > 0 THEN composePair(acc.out[acc.starter], cp) ELSE 0
      out  == Append(acc.out, cp)
  IN  IF pair # 0 THEN [acc EXCEPT !.out[acc.starter] = pair]
      ELSE IF ccc = 0 THEN [out |-> out, starter |-> Len(out), ccc |-> 0]
      ELSE [acc EXCEPT !.out = out, !.ccc = ccc]

\* Mutant of Absorb: only the mark right after the starter composes.
AbsorbAdjacent(acc, cp) ==
  LET ccc  == combiningClass(cp)
      pair == IF acc.starter > 0 /\ ccc > 0 /\ acc.ccc = 0
              THEN composePair(acc.out[acc.starter], cp) ELSE 0
      out  == Append(acc.out, cp)
  IN  IF pair # 0 THEN [acc EXCEPT !.out[acc.starter] = pair]
      ELSE IF ccc = 0 THEN [out |-> out, starter |-> Len(out), ccc |-> 0]
      ELSE [acc EXCEPT !.out = out, !.ccc = ccc]

\* One codepoint of compose: a mark not blocked by the marks after the last
\* starter may be absorbed into it, anything else is appended.
Absorb(acc, cp) ==
  LET ccc  == combiningClass(cp)
      pair == IF acc.starter > 0 /\ ccc > 0 /\ ccc > acc.ccc
              THEN composePair(acc.out[acc.starter], cp) ELSE 0
      out  == Append(acc.out, cp)
  IN  IF pair # 0 THEN [acc EXCEPT !.out[acc.starter] = pair]
      ELSE IF ccc = 0 THEN [out |-> out, starter |-> Len(out), ccc |-> 0]
      ELSE [acc EXCEPT !.out = out, !.ccc = ccc]

compose(s) ==
  LET after[i \in 0..Len(s)] ==
        IF i = 0 THEN [out |-> <<>>, starter |-> 0, ccc |-> -1] ELSE Absorb(after[i - 1], s[i])
  IN  after[Len(s)].out

toNFC(s) == compose(canonicalOrder(s))

\* A text in normal form that nothing in front of it can change: it is empty
\* or begins with a starter.
StandsAlone(s) == s = <<>> \/ (combiningClass(s[1]) = 0 /\ toNFC(s) = s)
=============================================================================
