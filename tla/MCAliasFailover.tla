-------------------------- MODULE MCAliasFailover --------------------------
\* Instances of AliasFailover for TLC: two accounts, the first with two models.
EXTENDS AliasFailover, TLC

CONSTANTS a1, a2, m1, m2, m3

TwoAccounts == {a1, a2}
ThreeModels == {m1, m2, m3}
Owner == (m1 :> a1) @@ (m2 :> a1) @@ (m3 :> a2)

Row(m, enabled, flag, onTimeout, cools) ==
    [model |-> m, enabled |-> enabled, on429 |-> flag, on5xx |-> flag,
     onTimeout |-> onTimeout, cools |-> cools]
Plain(m) == Row(m, TRUE, TRUE, TRUE, TRUE)

\* Both models of one account before the other account, without and with a
\* cooldown; a target that must not fail over; a disabled one; a duplicate.
Lists == {
    <<Plain(m1), Plain(m2), Plain(m3)>>,
    <<Row(m1, TRUE, TRUE, TRUE, FALSE), Plain(m2), Plain(m3)>>,
    <<Row(m1, TRUE, FALSE, FALSE, TRUE), Plain(m3)>>,
    <<Row(m1, FALSE, TRUE, TRUE, TRUE), Plain(m3), Plain(m3)>> }
=============================================================================
