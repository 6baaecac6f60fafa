---------------------------- MODULE MCLegacyFree ----------------------------
\* An instance of LegacyFree for TLC: listings of one to three free models.
EXTENDS LegacyFree

Item(id, marks, context, params) ==
    [id |-> id, marks |-> marks, inputs |-> {"text"}, price |-> 0,
     context |-> context, params |-> params, oddSize |-> FALSE]

a == Item("a", {"reason", "vendor", ":free"}, 128, 70)
b == Item("b", {"code", ":free"}, 32, 0)
c == Item("c", {":free"}, 8, 7)
d == [a EXCEPT !.id = "d", !.price = 1]
e == [c EXCEPT !.id = "e", !.params = 0, !.oddSize = TRUE]
f == Item("f", {"r1:free", "code"}, 0, 120)
g == [f EXCEPT !.id = ""]

MCOffers == {<<a, b, c>>, <<d, b>>, <<b, g, a>>, <<g>>}
MCListings == {l \in UNION {[1..n -> {a, b, c, d, e, f, g}] : n \in 0..5} :
                  \A j, k \in DOMAIN l : l[j] = l[k] => j = k}
MCBatches == {<<<<"mine", "x">>, <<"general", "b">>>>, <<>>}

Symmetry == Permutations(Requests)
=============================================================================
