---------------------------- MODULE MCLayoutFile ----------------------------
(***************************************************************************)
(* A letter key with every combination of levels, a second spelling of the *)
(* same key, a dead-key key and an unknown name; compose sequences that    *)
(* repeat, extend and begin each other; ligatures of which some end others;*)
(* and one malformed value of every kind.  3 is a surrogate.               *)
(***************************************************************************)
EXTENDS LayoutFile

MCScalar == {1, 2}
Strings  == UNION {[1..n -> MCScalar] : n \in 0..3}

MCFromName == [n \in {"A", "a", "B", "OEM_3", "other"} |->
                 CASE n \in {"A", "a"} -> 65 [] n = "B" -> 66 [] n = "OEM_3" -> 192 [] OTHER -> NoVk]
MCToName   == [vk \in {65, 66, 192} |-> CASE vk = 65 -> "A" [] vk = 66 -> "B" [] OTHER -> "OEM_3"]

Surrogate == Text(<<3>>)
One       == Text(<<1>>)

Emits(lvl)    == IF lvl = "Base" THEN One ELSE Text(<<2>>)
Levels(lvls)  == Obj([lvl \in lvls |-> Emits(lvl)])
DeadNode(id)  == Obj([dead |-> Id(id)])
StartNode     == Obj([compose |-> True])

MCTemplates == {[n \in {} |-> Null], [n \in {"B"} |-> Levels({"Base"})]}

MCKeyNodes ==
  [n \in {"A", "a", "OEM_3", "other"} |->
     CASE n = "A"     -> {Levels(s) : s \in SUBSET Level} \cup {One, Null, Bad, Obj([emit |-> One])}
       [] n = "a"     -> {One}
       [] n = "OEM_3" -> {DeadNode("d"), StartNode, Levels({"Base"}), Obj([Shift |-> DeadNode("d"), Base |-> One]),
                          Obj([AltGr |-> Surrogate]), Obj([AltGr |-> StartNode]), Obj([dead |-> Bad]),
                          Obj([compose |-> Bad])}
       [] OTHER       -> {Bad}]

MCDeadNodes ==
  [id \in {"d"} |->
     {Obj([standalone |-> One, compose |-> Table([cp \in {1} |-> Text(<<2>>)])]),
      Obj([standalone |-> One]), Obj([standalone |-> Surrogate]), Null,
      Obj([compose |-> Table([cp \in {1} |-> Bad])])}]

MCBehaviors ==
  {[capsMode |-> "Invert", normalize |-> FALSE], [capsMode |-> "ShiftLetters", normalize |-> TRUE],
   [capsMode |-> "other", normalize |-> TRUE]}

MCLigatureNodes ==
  {[sequence |-> Text(s), result |-> One] : s \in {<<>>, <<1>>, <<2, 1>>, <<1, 2, 1>>, <<2, 2, 1>>}}
  \cup {[sequence |-> Surrogate, result |-> One]}

MCComposeNodes ==
  {[keys |-> Text(k), output |-> One] : k \in {<<>>, <<1>>, <<1, 2>>, <<1, 2, 1>>, <<2, 2, 1>>}}
  \cup {[keys |-> Text(<<1, 2>>), output |-> Text(<<2>>)], [keys |-> One, output |-> Bad]}
=============================================================================
