----------------------------- MODULE MCPairing -----------------------------
\* Instances of Pairing for TLC.
EXTENDS Pairing, TLC

\* Devices, tokens, machines and threads are interchangeable.
Symmetry ==
    Permutations(Devices) \cup Permutations(Tokens) \cup
    Permutations(Machines) \cup Permutations(Handlers)
=============================================================================
