----------------------------- MODULE MCPipeline -----------------------------
(***************************************************************************)
(* Instances of the export pipeline for TLC.                               *)
(***************************************************************************)
EXTENDS PipelineProperties, TLC

CONSTANTS s1, s2, s3, s4, c1, c2

FourSpans  == {s1, s2, s3, s4}
ThreeSpans == {s1, s2, s3}
TwoSpans   == {s1, s2}
TwoCallers == {c1, c2}
OneCaller  == {c1}

\* Spans and callers are interchangeable in every safety property.
Symmetry == Permutations(Spans) \cup Permutations(Callers)
=============================================================================
