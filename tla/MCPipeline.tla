----------------------------- MODULE MCPipeline -----------------------------
(* Instances of Pipeline for TLC, with the sources Renditions is asked      *)
(* about: on both sides of every threshold of its arithmetic.              *)
EXTENDS RenditionsProperties, TLC

CONSTANTS w1, w2, r1, r2
WorkerSymmetry == Permutations(Workers)
RungSymmetry == Permutations(Rungs)
Symmetry == WorkerSymmetry \cup RungSymmetry

\* Landscape, portrait, old television, a screen recording wider than it is high.
MCShapes == {<<16, 9>>, <<9, 16>>, <<4, 3>>, <<21, 9>>}
=============================================================================
