--------------------------- MODULE MCMediaPipeline ---------------------------
(***************************************************************************)
(* Small instances of MediaPipeline.                                        *)
(***************************************************************************)
EXTENDS MediaPipeline, TLC

\* No action tells two sources apart.
SourceSymmetry == Permutations(Sources)
=============================================================================
