--------------------------- MODULE MC_ShadowLogger ---------------------------
(* Model-checking instance of ShadowLogger: two producers, thresholds scaled *)
(* down so that both the async and the sync flush paths are taken.          *)
EXTENDS ShadowLogger, TLC

\* Producers are interchangeable; only sound for the safety-only runs.
ProducerSymmetry == Permutations(Producers)
=============================================================================
