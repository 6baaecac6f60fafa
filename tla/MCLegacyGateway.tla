-------------------------- MODULE MCLegacyGateway --------------------------
\* An instance of LegacyGateway for TLC.
EXTENDS LegacyGateway

CONSTANTS p1, p2, p3

ThreeProviders == {p1, p2, p3}
ByName == [p \in ThreeProviders |-> IF p = p1 THEN 2 ELSE IF p = p2 THEN 1 ELSE 3]

\* All providers, a table that lost one, and one in which nobody serves the model.
ThreeTables == {<<p1, p2, p3>>, <<p1, p3>>, <<>>}
=============================================================================
