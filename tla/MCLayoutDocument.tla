-------------------------- MODULE MCLayoutDocument --------------------------
(***************************************************************************)
(* Two keys, a letter and a digit, one text to emit, and one alternative   *)
(* value for each other part of a layout.                                  *)
(***************************************************************************)
EXTENDS LayoutDocument

VkA   == 65
VkOne == 49

EmitText == [NoAction EXCEPT !.kind = "Emit", !.output = <<97>>]

MCKeyVks        == {VkA, VkOne}
MCKeyActions    == {NoAction, EmitText}
MCDeadKeyDefs   == {[id |-> "acute", def |-> [standalone |-> <<180>>, compositions |-> [cp \in {} |-> <<>>]]]}
MCComposeLists  == {<<[keys |-> <<97>>, output |-> <<120>>]>>}
MCLigatureLists == {<<[sequence |-> <<97>>, result |-> <<120>>],
                      [sequence |-> <<120, 120>>, result |-> <<97>>],
                      [sequence |-> <<97, 97>>, result |-> <<120>>]>>}

\* A layout read from a file: its letter key is cased, and its digit key is
\* mapped to null, which the parser keeps as a key without action.
OpenedLayout ==
  [EmptyLayout EXCEPT !.meta = "opened",
     !.keys = [vk \in {VkA, VkOne} |->
                 IF vk = VkA THEN [cased |-> TRUE, levels |-> [NoKey.levels EXCEPT !["Base"] = EmitText]]
                 ELSE NoKey]]

MCOpened == {OpenedLayout}
=============================================================================
