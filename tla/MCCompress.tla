----------------------------- MODULE MCCompress -----------------------------
EXTENDS Compress, TLC

Symmetry == Permutations(Requests) \cup Permutations(Encoders) \cup Permutations(Names)
=============================================================================
