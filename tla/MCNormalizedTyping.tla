------------------------- MODULE MCNormalizedTyping -------------------------
(***************************************************************************)
(* Letters with and without compositions, a composed letter, marks of the  *)
(* three classes, and an Old Uyghur letter with one of its marks.          *)
(***************************************************************************)
EXTENDS NormalizedTyping

MCAlphabet == {\h61, \hE4, \h63, \h10F70, \h0308, \h0304, \h0327, \h10F83}
=============================================================================
