----------------------------- MODULE EditHistory -----------------------------
(***************************************************************************)
(* What an editor's undo promises: the versions of the document form one   *)
(* line, and a cursor moves on it.  An edit cuts the line behind the       *)
(* cursor and adds the new version; only the oldest version may be         *)
(* forgotten, and only to keep at most Depth versions behind the cursor.   *)
(***************************************************************************)
EXTENDS Naturals, Sequences

CONSTANT Depth     \* how many versions can be undone

VARIABLES
  line,   \* the versions, oldest first
  pos     \* the cursor: line[pos] is the document

vars == <<line, pos>>

Present == line[pos]

Init == Len(line) = 1 /\ pos = 1

\* The newest version is whatever the editor made of the document.
Edit ==
  LET longer == Append(SubSeq(line, 1, pos), line'[Len(line')])
  IN  /\ line' = IF pos > Depth THEN Tail(longer) ELSE longer
      /\ pos'  = Len(line')

Undo == pos > 1         /\ pos' = pos - 1 /\ UNCHANGED line
Redo == pos < Len(line) /\ pos' = pos + 1 /\ UNCHANGED line

\* A document is opened or started: no way back.
Open == Len(line') = 1 /\ pos' = 1

Next == Edit \/ Undo \/ Redo \/ Open

Spec == Init /\ [][Next]_vars
=============================================================================
