----------------------------- MODULE MCMuxCache -----------------------------
EXTENDS MuxCache, TLC

CONSTANTS r1, r2, s1, s2

OneRegistrar == {r1}
TwoRegistrars == {r1, r2}
TwoServers == {s1, s2}

Symmetric == Permutations(TwoRegistrars) \cup Permutations(TwoServers)
=============================================================================
