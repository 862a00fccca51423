--------------------------- MODULE MCJobPipeline ----------------------------
(* The instances of JobPipeline that TLC checks; the bounds are in the cfgs. *)
EXTENDS JobPipeline, TLC

\* The pages of a job are interchangeable in the safety runs.
Pages == Permutations(Page)
=============================================================================
