----------------------------- MODULE MCAppraisals -----------------------------
(* Instances of Appraisals for TLC. *)
EXTENDS Appraisals, TLC

\* Calls and appraisals differ by what happens to them, not by their names.
Symmetric == Permutations(Call) \cup Permutations(Appraisal)

AllKinds == Kind
DeleteKinds == {"add", "delete", "complete"}
InsertKinds == {"add", "complete"}
ApplyKinds == {"apply", "complete"}
ReportKinds == {"report", "complete"}
EventKinds == {"update", "report", "complete"}
SomePatches == {{"appraiser_id"}, {"appraiser_id", "notes"}}
NoPatches == {}
===============================================================================
