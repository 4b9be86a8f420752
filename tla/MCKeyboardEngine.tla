-------------------------- MODULE MCKeyboardEngine --------------------------
(***************************************************************************)
(* The hook engine typing with the sample layouts.                         *)
(***************************************************************************)
EXTENDS KeyboardEngine, Normalizer, SampleLayouts

MCOtherDocs == {<<Foreign>>}

\* No action reads op, so states that differ only in the last edit are one.
WithoutOp == <<layout, recent, pendingDead, composing, composeBuf, hook, enabled, doc, synced>>

NoDocs        == {}

\* The ligatures of the sample layouts compose with nothing in front of them,
\* and after <<a, a>> and then <<x, x>> no other can follow.
ASSUME SampleLigatures ==
  LET rank(cp) == CASE cp = a -> 2 [] cp = x -> 1 [] OTHER -> 0
  IN  \A id \in DOMAIN MCLayouts : \A i \in DOMAIN MCLayouts[id].ligatures :
        LET lig == MCLayouts[id].ligatures[i]
        IN  /\ StandsAlone(lig.result) /\ lig.result # <<>>
            /\ rank(lig.result[Len(lig.result)]) < rank(lig.sequence[Len(lig.sequence)])
=============================================================================
