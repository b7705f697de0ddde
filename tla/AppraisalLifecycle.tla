-------------------------- MODULE AppraisalLifecycle --------------------------
(***************************************************************************)
(* What the appraisal row promises its callers: it is opened once, edited  *)
(* field by field while the work is in progress, and closed once, with one *)
(* announcement.  Every operation is atomic: there are no snapshots, no    *)
(* stamps and no lock here.  Appraisals implements it.                     *)
(***************************************************************************)
CONSTANTS
  Appraisal,
  Author,     \* who edits or closes an appraisal
  Field,
  NULL

VARIABLES
  status,     \* "absent", "in_progress" or "completed"
  content,    \* the author of each field's value
  announced   \* <<appraisal, author>> of every announced completion

vars == <<status, content, announced>>

Init ==
  /\ status = [a \in Appraisal |-> "absent"]
  /\ content = [a \in Appraisal |-> [f \in Field |-> NULL]]
  /\ announced = {}

Open(a) ==
  /\ status[a] = "absent"
  /\ status' = [status EXCEPT ![a] = "in_progress"]
  /\ UNCHANGED <<content, announced>>

\* An edit gives its fields its values and leaves the others as they are.
Edit(a, by, edited) ==
  /\ status[a] = "in_progress"
  /\ content' = [content EXCEPT ![a] =
                   [f \in Field |-> IF f \in edited THEN by ELSE content[a][f]]]
  /\ UNCHANGED <<status, announced>>

Close(a, by) ==
  /\ status[a] = "in_progress"
  /\ status' = [status EXCEPT ![a] = "completed"]
  /\ announced' = announced \cup {<<a, by>>}
  /\ UNCHANGED content

Next ==
  \E a \in Appraisal :
    \/ Open(a)
    \/ \E by \in Author : \/ \E edited \in SUBSET Field : Edit(a, by, edited)
                          \/ Close(a, by)

Spec == Init /\ [][Next]_vars
===============================================================================
