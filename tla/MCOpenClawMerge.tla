--------------------------- MODULE MCOpenClawMerge ---------------------------
(***************************************************************************)
(* Two providers: one that only the control plane describes and one that   *)
(* somebody at the node has as well, with another model.                   *)
(***************************************************************************)
EXTENDS OpenClawMerge

MCBindingLists == {<<>>, <<<<"p1", "m1">>>>, <<<<"p1", "m1">>, <<"p2", "m1">>>>}

MCKeepConfigs ==
    {NoKeep,
     [providers |-> {"p2"}, models |-> {}],
     [providers |-> {}, models |-> {<<"p2", "m2">>}]}

MCLocalKeys == {<<"p2", "m2">>}
=============================================================================
