--------------------------- MODULE MCRequestConsumer ---------------------------
(* Instances of RequestConsumer for TLC; the runs check liveness, so there is no symmetry. *)
EXTENDS RequestConsumer

CONSTANTS r1, r2, e1, e2, e3, e4

\* r1 enters its appraisal stage twice, r2 once; e4 is none of our business.
TwoRequests ==
  {[id |-> e1, request |-> r1, creates |-> TRUE],
   [id |-> e2, request |-> r1, creates |-> TRUE],
   [id |-> e3, request |-> r2, creates |-> TRUE],
   [id |-> e4, request |-> r2, creates |-> FALSE]}
===============================================================================
