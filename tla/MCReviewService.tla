--------------------------- MODULE MCReviewService ---------------------------
(* The instance of ReviewService for TLC. *)
EXTENDS ReviewService

CONSTANTS r1, i1, c1, c2, e1, e2

\* A request that enters its appraisal stage, and another event of it.
OneRequest ==
  {[id |-> e1, request |-> r1, creates |-> TRUE],
   [id |-> e2, request |-> r1, creates |-> FALSE]}

OnOneHost == [c \in Call |-> i1]
TwoKinds == {"complete", "report"}
NoPatches == {}
===============================================================================
