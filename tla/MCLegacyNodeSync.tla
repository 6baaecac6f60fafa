-------------------------- MODULE MCLegacyNodeSync --------------------------
\* An instance of LegacyNodeSync for TLC: one list repeats a model.
EXTENDS LegacyNodeSync

MCBindingLists == {<<"m1", "m2">>, <<"m2", "m2">>}

MCBound == [p \in Profiles |-> IF p = "p1" THEN {"m1"} ELSE {}]
=============================================================================
