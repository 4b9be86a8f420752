-------------------------------- MODULE Lists --------------------------------
(***************************************************************************)
(* What the components do with their lists beyond what Sequences has.      *)
(***************************************************************************)
EXTENDS Naturals, Sequences

\* The entries of a list at the positions in S, in their order: a loop that
\* skips the others.
Kept(list, S) ==
  LET upto[n \in 0..Len(list)] ==
        IF n = 0 THEN <<>>
        ELSE IF n \in S THEN Append(upto[n - 1], list[n]) ELSE upto[n - 1]
  IN  upto[Len(list)]

\* The lists that hold the same entries in any order.
Orders(list) ==
  {[i \in DOMAIN list |-> list[f[i]]] :
     f \in {g \in [DOMAIN list -> DOMAIN list] : \A i, j \in DOMAIN list : g[i] = g[j] => i = j}}
=============================================================================
