--------------------------- MODULE MCReasoningStore ---------------------------
EXTENDS ReasoningStore, TLC

CONSTANTS g1, g2, main, k1, k2, k3, r1, r2

\* Two messages, each with a signature and a shared alias.
MCTwoMessages == {<<k1, k3>>, <<k2, k3>>}

\* A message with a signature and an alias, and one with the alias only.
MCAlias == {<<k1, k2>>, <<k2>>}

MCForward == {1}
MCUneven == {1, -1}

MCSymmetry == Permutations({g1, g2}) \cup Permutations({r1, r2})
=============================================================================
