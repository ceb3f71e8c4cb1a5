----------------------- MODULE MCGemmaInferencePool -----------------------
EXTENDS GemmaInferencePool, TLC

CONSTANTS k1, k2, k3, a, b

MCSize == [m \in Message |-> IF m = a THEN 1 ELSE 2]
Symmetry == Permutations({k1, k2, k3})
===========================================================================
