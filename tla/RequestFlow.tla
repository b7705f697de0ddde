------------------------------ MODULE RequestFlow ------------------------------
(***************************************************************************)
(* What review-service promises of a request from one end to the other     *)
(* (README.md, Responsibilities): a request that enters its appraisal      *)
(* stage gets an appraisal, the appraisal is completed at most once and    *)
(* stays so, and what is completed is announced.                           *)
(***************************************************************************)
CONSTANT Request

VARIABLE stage  \* how far each request has come

vars == stage

Init == stage = [r \in Request |-> "none"]

Advance(r, from, to) ==
  /\ stage[r] = from
  /\ stage' = [stage EXCEPT ![r] = to]

\* request.status_changed is published, with new_status "appraisal".
Ask(r) == Advance(r, "none", "asked")

\* The consumer creates the appraisal.
Open(r) == Advance(r, "asked", "in_progress")

\* An appraiser completes it.
Close(r) == Advance(r, "in_progress", "completed")

\* report.ready is in review.events.
Announce(r) == Advance(r, "completed", "announced")

Next == \E r \in Request : Ask(r) \/ Open(r) \/ Close(r) \/ Announce(r)

Spec == Init /\ [][Next]_vars

\* To ask and to close is up to others; the service owes the two steps between.
FairSpec == Spec /\ \A r \in Request : WF_vars(Open(r)) /\ WF_vars(Announce(r))
================================================================================
