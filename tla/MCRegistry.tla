----------------------------- MODULE MCRegistry -----------------------------
\* An instance of Registry for TLC: a few listings of four models, of which
\* two are kept, and an answer that lists nothing.
EXTENDS Registry, TLC

Item(id, marks, inputs, context, params) ==
    [id |-> id, marks |-> marks, inputs |-> inputs, price |-> 0,
     context |-> context, params |-> params, oddSize |-> FALSE]

a == Item("a", {"reason", "vendor", ":free"}, {"text"}, 128, 70)
b == Item("b", {"code", ":free"}, {"text"}, 32, 0)
c == Item("c", {":free"}, {"text", "image"}, 8, 0)
d == [a EXCEPT !.id = "d", !.price = 1]
e == Item("e", {"vision"}, {}, 0, 12)
f == Item("f", {"vendor2"}, {"audio"}, 200, 0)
g == [f EXCEPT !.id = ""]

MCAnswers == {<<a, b, c, d>>, <<d, b, a>>, <<>>}
MCListings == {l \in UNION {[1..n -> {a, b, c, d, e, f, g}] : n \in 0..5} :
                  \A j, k \in DOMAIN l : l[j] = l[k] => j = k}
MCLists == {<<"x", "y">>, <<"z">>}
MCModels == {"a"}
MCFreeNamed == {"a"}

Symmetry == Permutations(Requests)
=============================================================================
