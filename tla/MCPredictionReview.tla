------------------------- MODULE MCPredictionReview -------------------------
(***************************************************************************)
(* A small instance of PredictionReview: two runs of the document give one *)
(* label with low and another with high confidence.                        *)
(***************************************************************************)
EXTENDS PredictionReview

CONSTANTS l1, l2

MCResult == {[label |-> l1, confidence |-> "low"], [label |-> l2, confidence |-> "high"]}

Symmetry == Permutations(Req)
=============================================================================
