----------------------------- MODULE MCHotReload -----------------------------
(***************************************************************************)
(* Two layout files; the first has a second revision, an invalid one and   *)
(* one under the id of the other file.                                     *)
(***************************************************************************)
EXTENDS HotReload

CONSTANTS p1, p2

Text(id, valid, rev) == [id |-> id, valid |-> valid, rev |-> rev]

MCPaths   == {p1, p2}
MCStem    == [p \in MCPaths |-> IF p = p1 THEN "a" ELSE "b"]
MCTexts   == {Text("a", TRUE, 1), Text("a", TRUE, 2), Text("a", FALSE, 3), Text("b", TRUE, 1)}
MCInitial == [p \in MCPaths |-> IF p = p1 THEN Text("a", TRUE, 1) ELSE Text("b", TRUE, 1)]
=============================================================================
