---------------------------- MODULE AppraisalsProofs ----------------------------
(***************************************************************************)
(* Theorems about Appraisals, for every set of appraisals and of calls,    *)
(* every number of analogs and every bound on the faults.  Only what rests  *)
(* on the optimistic lock assumes DistinctStamps.                          *)
(***************************************************************************)
EXTENDS Appraisals, TLAPS

\* A call past its first read knows what it was asked, and only add and apply
\* reach the statements on comparables that follow.
Requested ==
  \A c \in Call :
    /\ pc[c] \in Running => op[c] \in Request
    /\ pc[c] \in {"listing", "deleting", "adding", "replying"} => op[c].kind = "apply"
    /\ pc[c] = "inserting" => op[c].kind \in {"add", "apply"}

TypeInv == TypeOK /\ Requested

-------------------------------------------------------------------------------
(* Type correctness. *)

LEMMA NoRowType == NoRow \in Row
BY NullAssumption DEF NoRow, Row, Stamp

\* What Return leaves in the local variables.
LEMMA ReturnType ==
  ASSUME TypeOK, NEW c \in Call, NEW o \in Outcome, Return(c, o)
  PROVE  /\ pc' \in [Call -> {"idle"} \cup Running \cup Outcome]
         /\ seen' \in [Call -> Row]
         /\ old' \in [Call -> SUBSET Comparable]
         /\ next' \in [Call -> 0..NumAnalogs]
BY NoRowType, NumAnalogsAssumption DEF TypeOK, Return

LEMMA FaultType ==
  ASSUME TypeOK, Fault
  PROVE  faults' \in 0..MaxFaults
BY MaxFaultsAssumption DEF TypeOK, Fault

LEMMA AnswerType ==
  ASSUME TypeOK, NEW c \in Call, NEW o \in Outcome, Answer(c, o)
  PROVE  /\ pc' \in [Call -> {"idle"} \cup Running \cup Outcome]
         /\ seen' \in [Call -> Row]
         /\ old' \in [Call -> SUBSET Comparable]
         /\ next' \in [Call -> 0..NumAnalogs]
         /\ faults' \in 0..MaxFaults
<1>1. CASE Return(c, o) /\ UNCHANGED faults
  BY <1>1, ReturnType DEF TypeOK
<1>2. CASE Return(c, "error") /\ Fault
  BY <1>2, ReturnType, FaultType, "error" \in Outcome DEF Outcome
<1> QED BY <1>1, <1>2 DEF Answer

\* After Return and Answer a call runs no more, so Requested holds of it.
LEMMA AnswerRequested ==
  ASSUME TypeInv, NEW c \in Call, NEW o \in Outcome,
         Answer(c, o) \/ Return(c, o), op' = op
  PROVE  Requested'
<1>1. PICK q \in Outcome : pc' = [pc EXCEPT ![c] = q]
  BY DEF Answer, Return, Outcome
<1>2. q \notin Running \cup {"idle"}
  BY DEF Outcome, Running
<1> QED BY <1>1, <1>2 DEF Requested, TypeInv, TypeOK, Running

\* The UPDATE of a row keeps the row a row.
LEMMA StampType ==
  ASSUME TypeOK, NEW c \in Call, op[c] \in Request, NEW t \in Stamps(c)
  PROVE  t \in Stamp
<1>1. row[op[c].target].updatedAt \in Nat /\ seen[c].updatedAt \in Nat
  BY DEF TypeOK, Row, Stamp, Request
<1> QED BY <1>1 DEF Stamps, Stamp

LEMMA WriteRowType ==
  ASSUME TypeOK, NEW c \in Call, op[c] \in Request, WriteRow(c)
  PROVE  row' \in [Appraisal -> Row]
<1>1. PICK t \in Stamps(c) :
        row' = [row EXCEPT ![op[c].target].fields = Patched(c),
                           ![op[c].target].updatedAt = t]
  BY DEF WriteRow
<1>2. Patched(c) \in [Field -> Call \cup {NULL}]
  BY DEF Patched, TypeOK, Row
<1>3. op[c].target \in Appraisal
  BY DEF Request
<1>4. t \in Stamp
  BY <1>1, StampType
<1>5. ASSUME NEW a \in Appraisal
      PROVE  row'[a] \in Row
  <2>1. row[a] \in Row
    BY DEF TypeOK
  <2>2. CASE a # op[c].target
    BY <1>1, <2>1, <2>2 DEF TypeOK
  <2>3. CASE a = op[c].target
    <3>1. row'[a] = [row[a] EXCEPT !.fields = Patched(c), !.updatedAt = t]
      BY <1>1, <2>3 DEF TypeOK
    <3> QED BY <1>2, <1>4, <2>1, <3>1 DEF Row
  <2> QED BY <2>2, <2>3
<1> QED BY <1>1, <1>5 DEF TypeOK

LEMMA CompletionType ==
  ASSUME TypeOK, NEW c \in Call, op[c] \in Request, CommitCompletion(c)
  PROVE  row' \in [Appraisal -> Row] /\ outbox' \subseteq Event
<1>1. PICK t \in Stamps(c) :
        /\ row' = [row EXCEPT ![op[c].target].status = "completed",
                              ![op[c].target].completedAt = t,
                              ![op[c].target].updatedAt = t]
        /\ outbox' = outbox \cup {ReportReady(c, t)}
  BY DEF CommitCompletion
<1>2. op[c].target \in Appraisal
  BY DEF Request
<1>3. t \in Stamp
  BY <1>1, StampType
<1>4. ASSUME NEW a \in Appraisal
      PROVE  row'[a] \in Row
  <2>1. row[a] \in Row
    BY DEF TypeOK
  <2>2. CASE a # op[c].target
    BY <1>1, <2>1, <2>2 DEF TypeOK
  <2>3. CASE a = op[c].target
    <3>1. row'[a] = [row[a] EXCEPT !.status = "completed", !.completedAt = t,
                                   !.updatedAt = t]
      BY <1>1, <2>3 DEF TypeOK
    <3> QED BY <1>3, <2>1, <3>1 DEF Row
  <2> QED BY <2>2, <2>3
<1>5. ReportReady(c, t) \in Event
  <2>1. /\ seen[c].fields["appraiser_id"] \in Call \cup {NULL}
        /\ seen[c].fields["report_s3_key"] \in Call \cup {NULL}
    BY DEF TypeOK, Row, Field, PatchField
  <2> QED BY <1>2, <1>3, <2>1 DEF ReportReady, Event
<1> QED BY <1>1, <1>4, <1>5 DEF TypeOK

LEMMA NextAnalogType ==
  ASSUME TypeInv, NEW c \in Call, NextAnalog(c), op' = op,
         op[c] \in Request, op[c].kind = "apply"
  PROVE  /\ pc' \in [Call -> {"idle"} \cup Running \cup Outcome]
         /\ seen' \in [Call -> Row]
         /\ old' \in [Call -> SUBSET Comparable]
         /\ next' \in [Call -> 0..NumAnalogs]
         /\ Requested'
BY NumAnalogsAssumption DEF NextAnalog, TypeInv, TypeOK, Requested, Running

\* Every step keeps the types, and what Requested says of calls in flight.
LEMMA TypeStep ==
  ASSUME TypeInv, [Next]_vars
  PROVE  TypeInv'
<1> USE DEF TypeInv
<1>1. ASSUME NEW a \in Appraisal, CreateFromRequest(a)
      PROVE  TypeInv'
  <2>1. Fresh \in Row
    BY NoRowType DEF Fresh, Row, Stamp
  <2>2. row' \in [Appraisal -> Row]
    BY <1>1, <2>1 DEF CreateFromRequest, TypeOK
  <2> QED BY <1>1, <2>2 DEF CreateFromRequest, TypeOK, Requested
<1>2. ASSUME NEW c \in Call, Load(c)
      PROVE  TypeInv'
  <2>1. PICK r \in Requests :
          /\ op' = [op EXCEPT ![c] = r]
          /\ \/ Return(c, "not_found")
             \/ Return(c, "invalid_status")
             \/ /\ pc' = [pc EXCEPT ![c] = IF r.kind = "apply" THEN "listing" ELSE "loaded"]
                /\ seen' = [seen EXCEPT ![c] = row[r.target]]
                /\ UNCHANGED <<old, next>>
    BY <1>2 DEF Load
  <2>2. r \in Request
    BY PatchesAssumption DEF Requests, Request, TypeOK
  <2>3. op' \in [Call -> Request \cup {NoRequest}]
    BY <2>1, <2>2 DEF TypeOK
  <2>4. UNCHANGED <<dbVars, faults>>
    BY <1>2 DEF Load
  <2>5. CASE Return(c, "not_found") \/ Return(c, "invalid_status")
    <3>1. PICK o \in Outcome : Return(c, o)
      BY <2>5 DEF Outcome
    <3>2. o \notin Running \cup {"idle"}
      BY DEF Outcome, Running
    <3>3. Requested'
      BY <2>1, <3>1, <3>2 DEF Return, Requested, TypeOK, Running
    <3> QED BY <2>3, <2>4, <3>1, <3>3, ReturnType DEF TypeOK, dbVars
  <2>6. CASE /\ pc' = [pc EXCEPT ![c] = IF r.kind = "apply" THEN "listing" ELSE "loaded"]
             /\ seen' = [seen EXCEPT ![c] = row[r.target]]
             /\ UNCHANGED <<old, next>>
    <3>1. row[r.target] \in Row
      BY <2>2 DEF Request, TypeOK
    <3>2. Requested'
      BY <2>1, <2>2, <2>6 DEF Requested, TypeOK, Running
    <3>3. pc' \in [Call -> {"idle"} \cup Running \cup Outcome]
      BY <2>6 DEF TypeOK, Running
    <3> QED BY <2>3, <2>4, <2>6, <3>1, <3>2, <3>3 DEF TypeOK, dbVars
  <2> QED BY <2>1, <2>5, <2>6
<1>3. ASSUME NEW c \in Call, FailStatement(c)
      PROVE  TypeInv'
  <2>1. "error" \in Outcome
    BY DEF Outcome
  <2> QED BY <1>3, <2>1, ReturnType, FaultType, AnswerRequested
          DEF FailStatement, TypeOK, dbVars
<1>4. ASSUME NEW c \in Call, Update(c)
      PROVE  TypeInv'
  <2>1. op[c] \in Request
    BY <1>4 DEF Update, Requested, Running
  <2>2. PICK o \in Outcome : Answer(c, o)
    BY <1>4 DEF Update, Conflict, Outcome
  <2>3. row' \in [Appraisal -> Row] /\ UNCHANGED <<comparables, outbox, op>>
    BY <1>4, <2>1, WriteRowType DEF Update, Conflict, WriteRow, dbVars, TypeOK
  <2> QED BY <2>2, <2>3, AnswerType, AnswerRequested DEF TypeOK
<1>5. ASSUME NEW c \in Call, Complete(c)
      PROVE  TypeInv'
  <2>1. op[c] \in Request
    BY <1>5 DEF Complete, Requested, Running
  <2>2. PICK o \in Outcome : Answer(c, o)
    BY <1>5 DEF Complete, CommitCompletion, RollBackCompletion, Outcome
  <2>3. /\ row' \in [Appraisal -> Row] /\ outbox' \subseteq Event
        /\ UNCHANGED <<comparables, op>>
    BY <1>5, <2>1, CompletionType
       DEF Complete, CommitCompletion, RollBackCompletion, dbVars, TypeOK
  <2> QED BY <2>2, <2>3, AnswerType, AnswerRequested DEF TypeOK
<1>6. ASSUME NEW c \in Call, BeginInsert(c)
      PROVE  TypeInv'
  <2>1. op[c] \in Request
    BY <1>6 DEF BeginInsert, Requested, Running
  <2>2. UNCHANGED <<dbVars, op>>
    BY <1>6 DEF BeginInsert
  <2>3. CASE Continue(c, "inserting") /\ UNCHANGED <<old, next>>
    <3>1. op[c].kind \in {"add", "apply"}
      BY <1>6 DEF BeginInsert, Requested
    <3> QED BY <2>1, <2>2, <2>3, <3>1
            DEF Continue, TypeOK, Requested, Running, dbVars
  <2>4. CASE Answer(c, "invalid_status")
    <3>1. "invalid_status" \in Outcome
      BY DEF Outcome
    <3> QED BY <2>2, <2>4, <3>1, AnswerType, AnswerRequested DEF TypeOK, dbVars
  <2>5. CASE op[c].kind = "apply" /\ NextAnalog(c) /\ UNCHANGED faults
    BY <2>1, <2>2, <2>5, NextAnalogType DEF TypeOK, dbVars
  <2> QED BY <1>6, <2>3, <2>4, <2>5 DEF BeginInsert
<1>7. ASSUME NEW c \in Call, CommitInsert(c)
      PROVE  TypeInv'
  <2>1. op[c] \in Request
    BY <1>7 DEF CommitInsert, Requested, Running
  <2>2. Inserting(c) \in Comparable
    BY <2>1 DEF Inserting, Comparable, Request, TypeOK
  <2>3. comparables' \subseteq Comparable /\ UNCHANGED <<row, outbox, op>>
    BY <1>7, <2>2 DEF CommitInsert, TypeOK
  <2>4. CASE Answer(c, "ok")
    <3>1. "ok" \in Outcome
      BY DEF Outcome
    <3> QED BY <2>3, <2>4, <3>1, AnswerType, AnswerRequested DEF TypeOK
  <2>5. CASE op[c].kind = "apply" /\ NextAnalog(c) /\ UNCHANGED faults
    BY <2>1, <2>3, <2>5, NextAnalogType DEF TypeOK
  <2> QED BY <1>7, <2>4, <2>5 DEF CommitInsert
<1>8. ASSUME NEW c \in Call, FailInsert(c)
      PROVE  TypeInv'
  <2>1. op[c] \in Request
    BY <1>8 DEF FailInsert, Requested, Running
  <2>2. UNCHANGED <<dbVars, op>> /\ faults' \in 0..MaxFaults
    BY <1>8, FaultType DEF FailInsert
  <2>3. CASE Return(c, "error")
    <3>1. "error" \in Outcome
      BY DEF Outcome
    <3> QED BY <2>2, <2>3, <3>1, ReturnType, AnswerRequested DEF TypeOK, dbVars
  <2>4. CASE op[c].kind = "apply" /\ NextAnalog(c)
    BY <2>1, <2>2, <2>4, NextAnalogType DEF TypeOK, dbVars
  <2> QED BY <1>8, <2>3, <2>4 DEF FailInsert
<1>9. ASSUME NEW c \in Call, DeleteComparable(c)
      PROVE  TypeInv'
  <2>1. PICK o \in Outcome : Answer(c, o)
    BY <1>9 DEF DeleteComparable, Outcome
  <2>2. comparables' \subseteq Comparable /\ UNCHANGED <<row, outbox, op>>
    BY <1>9 DEF DeleteComparable, TypeOK
  <2> QED BY <2>1, <2>2, AnswerType, AnswerRequested DEF TypeOK
<1>10. ASSUME NEW c \in Call, ListComparables(c)
       PROVE  TypeInv'
  BY <1>10 DEF ListComparables, Continue, TypeOK, Requested, Running, dbVars
<1>11. ASSUME NEW c \in Call, NotCalculated(c)
       PROVE  TypeInv'
  <2>1. "not_calculated" \in Outcome
    BY DEF Outcome
  <2> QED BY <1>11, <2>1, ReturnType, AnswerRequested DEF NotCalculated, TypeOK, dbVars
<1>12. ASSUME NEW c \in Call, ApplyCalculation(c)
       PROVE  TypeInv'
  <2>1. op[c] \in Request /\ op[c].kind = "apply"
    BY <1>12 DEF ApplyCalculation, Requested, Running
  <2>2. row' \in [Appraisal -> Row] /\ UNCHANGED <<comparables, outbox, op>>
    BY <1>12, <2>1, WriteRowType DEF ApplyCalculation, Conflict, WriteRow, dbVars, TypeOK
  <2>3. CASE /\ Continue(c, IF old[c] = {} THEN "adding" ELSE "deleting")
             /\ next' = [next EXCEPT ![c] = 1]
             /\ UNCHANGED old
    BY <2>1, <2>2, <2>3, NumAnalogsAssumption DEF Continue, TypeOK, Requested, Running
  <2>4. CASE \E o \in Outcome : Answer(c, o)
    BY <2>2, <2>4, AnswerType, AnswerRequested DEF TypeOK
  <2>5. Answer(c, "error") \/ Answer(c, "conflict") => \E o \in Outcome : Answer(c, o)
    BY DEF Outcome
  <2> QED BY <1>12, <2>3, <2>4, <2>5 DEF ApplyCalculation, Conflict, Answer
<1>13. ASSUME NEW c \in Call, DeleteOld(c)
       PROVE  TypeInv'
  <2>1. op[c] \in Request /\ op[c].kind = "apply"
    BY <1>13 DEF DeleteOld, Requested, Running
  <2>2. PICK x \in old[c] :
          /\ comparables' \subseteq comparables
          /\ faults' = faults \/ Fault
          /\ old' = [old EXCEPT ![c] = @ \ {x}]
          /\ pc' = [pc EXCEPT ![c] = IF old[c] = {x} THEN "adding" ELSE "deleting"]
          /\ UNCHANGED <<row, outbox, op, seen, next>>
    BY <1>13 DEF DeleteOld
  <2>3. faults' \in 0..MaxFaults
    BY <2>2, FaultType DEF TypeOK
  <2>4. Requested'
    BY <2>1, <2>2 DEF Requested, TypeOK, Running
  <2> QED BY <2>2, <2>3, <2>4 DEF TypeOK, Running
<1>14. ASSUME NEW c \in Call, ReplyApplied(c)
       PROVE  TypeInv'
  <2>1. "ok" \in Outcome
    BY DEF Outcome
  <2> QED BY <1>14, <2>1, AnswerType, AnswerRequested DEF ReplyApplied, TypeOK, dbVars
<1>15. CASE Crash
  <2> PICK calls \in SUBSET InFlight : Lose(calls)
    BY <1>15 DEF Crash
  <2>1. /\ pc' = [c \in Call |-> IF c \in calls THEN "lost" ELSE pc[c]]
        /\ UNCHANGED <<dbVars, op>>
    BY DEF Lose
  <2>2. pc' \in [Call -> {"idle"} \cup Running \cup Outcome]
    BY <2>1 DEF TypeOK, Outcome
  <2>3. Requested'
    BY <2>1 DEF Requested, Running
  <2>4. /\ seen' \in [Call -> Row]
        /\ old' \in [Call -> SUBSET Comparable]
        /\ next' \in [Call -> 0..NumAnalogs]
    BY NoRowType, NumAnalogsAssumption DEF Lose, TypeOK
  <2> QED BY <2>1, <2>2, <2>3, <2>4, FaultType DEF Lose, TypeOK, dbVars
<1>16. CASE UNCHANGED vars
  BY <1>16 DEF vars, TypeOK, Requested
<1> QED
  BY <1>1, <1>2, <1>3, <1>4, <1>5, <1>6, <1>7, <1>8, <1>9, <1>10, <1>11, <1>12,
     <1>13, <1>14, <1>15, <1>16 DEF Next, Step

\* In every reachable state the calls in flight have their requests.
LEMMA TypeInvariant == Spec => []TypeInv
<1>1. Init => TypeInv
  BY NoRowType, NumAnalogsAssumption, MaxFaultsAssumption
     DEF Init, TypeInv, TypeOK, Requested, Running
<1>2. TypeInv /\ [Next]_vars => TypeInv'
  BY TypeStep
<1> QED BY <1>1, <1>2, PTL DEF Spec

\* Type correctness: the rows of the tables and the locals of the handlers are
\* what the code assumes they are, in every step of every call.
THEOREM TypeCorrect == Spec => []TypeOK
<1>1. TypeInv => TypeOK
  BY DEF TypeInv
<1> QED BY <1>1, TypeInvariant, PTL

-------------------------------------------------------------------------------
(* The inductive invariant. *)

\* Calls that have sent no statement that could have taken effect.
Traceless == {"idle", "listing", "loaded"} \cup Rejected

\* A row that was never created has nothing in it.
AbsentIsBlank == \A a \in Appraisal : row[a].status = "absent" => row[a] = NoRow

\* SnapshotIsCurrent, and why a later write cannot bring an old stamp back: the
\* stamps of a row grow.
SnapshotInv ==
  \A c \in Call : pc[c] \in {"listing", "loaded"} =>
    LET r == row[op[c].target]
    IN  /\ seen[c].status = "in_progress"
        /\ seen[c].updatedAt <= r.updatedAt
        /\ seen[c].updatedAt = r.updatedAt => seen[c] = r

NoTrace == \A c \in Call : pc[c] \in Traceless => ~LeftTrace(c)

\* The values a call has read, and may write back, are of calls that left a trace.
SnapshotsTraced ==
  \A c \in Call : pc[c] \in {"listing", "loaded"} =>
    \A d \in Call, f \in Field : seen[c].fields[f] = d => pc[d] \notin Traceless

\* What holds whatever the stamps are.
FactInv ==
  /\ TypeInv
  /\ OneEventPerCompletion
  /\ NoTrace
  /\ SnapshotsTraced

\* What rests on the optimistic lock.
LockInv ==
  /\ TypeInv
  /\ AbsentIsBlank
  /\ SnapshotInv

\* A call that still holds its snapshot either has just taken it or keeps it.
KeepsSnapshots ==
  \A d \in Call : pc'[d] \in {"listing", "loaded"} =>
    \/ pc[d] \in {"listing", "loaded"} /\ op'[d] = op[d] /\ seen'[d] = seen[d]
    \/ /\ op'[d].target \in Appraisal
       /\ seen'[d] = row[op'[d].target]
       /\ row[op'[d].target].status = "in_progress"
       /\ row' = row

\* c has sent a statement that took effect.
Leaves(c) ==
  /\ pc[c] \in Running
  /\ pc'[c] \notin Traceless
  /\ \A d \in Call \ {c} : pc'[d] = pc[d]

\* Calls that have left no trace stay so or were so.
NoneLeaves == \A d \in Call : pc'[d] \in Traceless => pc[d] \in Traceless

ReadOrDelete ==
  /\ UNCHANGED <<row, outbox>>
  /\ comparables' \subseteq comparables
  /\ NoneLeaves

InsertsComparable(c) ==
  /\ UNCHANGED <<row, outbox>>
  /\ comparables' = comparables \cup {Inserting(c)}
  /\ Leaves(c)

WritesRow(c) ==
  /\ pc[c] = "loaded"
  /\ op[c] \in Request
  /\ WriteRow(c)
  /\ Leaves(c)

Completes(c) ==
  /\ pc[c] = "loaded"
  /\ op[c] \in Request
  /\ CommitCompletion(c)
  /\ Leaves(c)

\* What a step does to the database, whatever action it is.
Effect ==
  \/ ReadOrDelete
  \/ \E a \in Appraisal : CreateFromRequest(a)
  \/ \E c \in Call : InsertsComparable(c) \/ WritesRow(c) \/ Completes(c)

LEMMA AnswerLeaves ==
  ASSUME TypeOK, NEW c \in Call, pc[c] \in Running, Answer(c, "ok")
  PROVE  Leaves(c)
<1>1. \/ pc' = [pc EXCEPT ![c] = "ok"]
      \/ pc' = [pc EXCEPT ![c] = "error"]
  BY DEF Answer, Return
<1> QED BY <1>1 DEF Leaves, Traceless, Rejected, TypeOK

\* A call that is answered has its snapshot no more; the others keep theirs.
LEMMA AnswerKeeps ==
  ASSUME TypeOK, NEW c \in Call, NEW o \in Outcome,
         Answer(c, o) \/ Return(c, o), op' = op
  PROVE  KeepsSnapshots
<1>1. PICK q \in Outcome : /\ pc' = [pc EXCEPT ![c] = q]
                           /\ seen' = [seen EXCEPT ![c] = NoRow]
  BY DEF Answer, Return, Outcome
<1>2. q \notin {"listing", "loaded"}
  BY DEF Outcome
<1> QED BY <1>1, <1>2 DEF KeepsSnapshots, TypeOK

\* An answer to a call that had left no trace is no news of one.
LEMMA AnswerNoneLeaves ==
  ASSUME TypeOK, NEW c \in Call, pc[c] \in Traceless, NEW o,
         Answer(c, o) \/ Return(c, o)
  PROVE  NoneLeaves
<1>1. PICK q : pc' = [pc EXCEPT ![c] = q]
  BY DEF Answer, Return
<1> QED BY <1>1 DEF NoneLeaves, TypeOK

\* Every step has one of these effects on the database and keeps the snapshots.
LEMMA EffectStep ==
  ASSUME TypeInv, Next
  PROVE  Effect /\ KeepsSnapshots
<1> USE DEF TypeInv
<1>1. ASSUME NEW a \in Appraisal, CreateFromRequest(a)
      PROVE  Effect /\ KeepsSnapshots
  BY <1>1 DEF CreateFromRequest, Effect, KeepsSnapshots
<1>2. ASSUME NEW c \in Call, Load(c)
      PROVE  Effect /\ KeepsSnapshots
  <2>1. PICK r \in Requests :
          /\ op' = [op EXCEPT ![c] = r]
          /\ \/ Return(c, "not_found")
             \/ Return(c, "invalid_status")
             \/ /\ pc' = [pc EXCEPT ![c] = IF r.kind = "apply" THEN "listing" ELSE "loaded"]
                /\ seen' = [seen EXCEPT ![c] = row[r.target]]
                /\ row[r.target].status = "in_progress"
    BY <1>2 DEF Load, StatusCheck
  <2>2. r.target \in Appraisal
    BY DEF Requests
  <2>3. pc[c] = "idle" /\ UNCHANGED dbVars
    BY <1>2 DEF Load
  <2>4. PICK q : pc' = [pc EXCEPT ![c] = q]
    BY <2>1 DEF Return
  <2>5. ReadOrDelete
    BY <2>3, <2>4 DEF ReadOrDelete, NoneLeaves, Traceless, TypeOK, dbVars
  <2>6. KeepsSnapshots
    BY <2>1, <2>2, <2>3 DEF KeepsSnapshots, Return, TypeOK, dbVars
  <2> QED BY <2>5, <2>6 DEF Effect
<1>3. ASSUME NEW c \in Call, FailStatement(c)
      PROVE  Effect /\ KeepsSnapshots
  <2>1. pc' = [pc EXCEPT ![c] = "error"] /\ UNCHANGED <<dbVars, op>>
    BY <1>3 DEF FailStatement, Return
  <2>2. ReadOrDelete
    BY <2>1 DEF ReadOrDelete, NoneLeaves, Traceless, Rejected, TypeOK, dbVars
  <2>3. KeepsSnapshots
    BY <1>3, <2>1 DEF FailStatement, Return, KeepsSnapshots, TypeOK
  <2> QED BY <2>2, <2>3 DEF Effect
<1>4. ASSUME NEW c \in Call, Update(c)
      PROVE  Effect /\ KeepsSnapshots
  <2>1. /\ pc[c] = "loaded" /\ pc[c] \in Running /\ pc[c] \in Traceless
        /\ op[c] \in Request
    BY <1>4 DEF Update, Requested, Running, Traceless
  <2>2. CASE WriteRow(c) /\ Answer(c, "ok")
    <3>1. WritesRow(c)
      BY <2>1, <2>2, AnswerLeaves DEF WritesRow
    <3>2. KeepsSnapshots
      BY <2>2, AnswerKeeps, "ok" \in Outcome DEF WriteRow, Outcome
    <3> QED BY <3>1, <3>2 DEF Effect
  <2>3. CASE Conflict(c)
    <3>1. ReadOrDelete
      BY <2>1, <2>3, AnswerNoneLeaves DEF Conflict, ReadOrDelete, dbVars
    <3>2. KeepsSnapshots
      BY <2>3, AnswerKeeps, "conflict" \in Outcome DEF Conflict, Outcome
    <3> QED BY <3>1, <3>2 DEF Effect
  <2> QED BY <1>4, <2>2, <2>3 DEF Update
<1>5. ASSUME NEW c \in Call, Complete(c)
      PROVE  Effect /\ KeepsSnapshots
  <2>1. /\ pc[c] = "loaded" /\ pc[c] \in Running /\ pc[c] \in Traceless
        /\ op[c] \in Request
    BY <1>5 DEF Complete, Requested, Running, Traceless
  <2>2. CASE CommitCompletion(c)
    <3>1. Completes(c)
      BY <2>1, <2>2, AnswerLeaves DEF Completes, CommitCompletion
    <3>2. KeepsSnapshots
      BY <2>2, AnswerKeeps, "ok" \in Outcome DEF CommitCompletion, Outcome
    <3> QED BY <3>1, <3>2 DEF Effect
  <2>3. CASE RollBackCompletion(c)
    <3>1. ReadOrDelete
      BY <2>1, <2>3, AnswerNoneLeaves DEF RollBackCompletion, ReadOrDelete, dbVars
    <3>2. KeepsSnapshots
      BY <2>3, AnswerKeeps, "conflict" \in Outcome DEF RollBackCompletion, Outcome
    <3> QED BY <3>1, <3>2 DEF Effect
  <2> QED BY <1>5, <2>2, <2>3 DEF Complete
<1>6. ASSUME NEW c \in Call, BeginInsert(c)
      PROVE  Effect /\ KeepsSnapshots
  <2>1. UNCHANGED <<dbVars, op>>
    BY <1>6 DEF BeginInsert
  <2>2. CASE Continue(c, "inserting") \/ NextAnalog(c)
    <3>1. PICK q \in {"inserting", "adding", "replying"} :
            pc' = [pc EXCEPT ![c] = q] /\ UNCHANGED seen
      BY <2>2 DEF Continue, NextAnalog
    <3>2. ReadOrDelete
      BY <2>1, <3>1 DEF ReadOrDelete, NoneLeaves, Traceless, Rejected, TypeOK, dbVars
    <3>3. KeepsSnapshots
      BY <2>1, <3>1 DEF KeepsSnapshots, TypeOK
    <3> QED BY <3>2, <3>3 DEF Effect
  <2>3. CASE op[c].kind = "add" /\ Answer(c, "invalid_status")
    <3>1. pc[c] \in Traceless
      BY <1>6, <2>3 DEF BeginInsert, Requested, Traceless
    <3>2. ReadOrDelete
      BY <2>1, <2>3, <3>1, AnswerNoneLeaves DEF ReadOrDelete, dbVars
    <3>3. KeepsSnapshots
      BY <2>1, <2>3, AnswerKeeps, "invalid_status" \in Outcome DEF Outcome
    <3> QED BY <3>2, <3>3 DEF Effect
  <2> QED BY <1>6, <2>2, <2>3 DEF BeginInsert
<1>7. ASSUME NEW c \in Call, CommitInsert(c)
      PROVE  Effect /\ KeepsSnapshots
  <2>1. /\ pc[c] \in Running
        /\ comparables' = comparables \cup {Inserting(c)}
        /\ UNCHANGED <<row, outbox, op>>
    BY <1>7 DEF CommitInsert, Running
  <2>2. CASE Answer(c, "ok")
    <3>1. InsertsComparable(c)
      BY <2>1, <2>2, AnswerLeaves DEF InsertsComparable
    <3>2. KeepsSnapshots
      BY <2>1, <2>2, AnswerKeeps, "ok" \in Outcome DEF Outcome
    <3> QED BY <3>1, <3>2 DEF Effect
  <2>3. CASE NextAnalog(c)
    <3>1. PICK q \in {"adding", "replying"} :
            pc' = [pc EXCEPT ![c] = q] /\ UNCHANGED seen
      BY <2>3 DEF NextAnalog
    <3>2. InsertsComparable(c)
      BY <2>1, <3>1 DEF InsertsComparable, Leaves, Traceless, Rejected, TypeOK
    <3>3. KeepsSnapshots
      BY <2>1, <3>1 DEF KeepsSnapshots, TypeOK
    <3> QED BY <3>2, <3>3 DEF Effect
  <2> QED BY <1>7, <2>2, <2>3 DEF CommitInsert
<1>8. ASSUME NEW c \in Call, FailInsert(c)
      PROVE  Effect /\ KeepsSnapshots
  <2>1. UNCHANGED <<dbVars, op>>
    BY <1>8 DEF FailInsert
  <2>2. PICK q \in {"error", "adding", "replying"} :
          /\ pc' = [pc EXCEPT ![c] = q]
          /\ \A d \in Call \ {c} : seen'[d] = seen[d]
    BY <1>8 DEF FailInsert, Return, NextAnalog, TypeOK
  <2>3. ReadOrDelete
    BY <2>1, <2>2 DEF ReadOrDelete, NoneLeaves, Traceless, Rejected, TypeOK, dbVars
  <2>4. KeepsSnapshots
    BY <2>1, <2>2 DEF KeepsSnapshots, TypeOK
  <2> QED BY <2>3, <2>4 DEF Effect
<1>9. ASSUME NEW c \in Call, DeleteComparable(c)
      PROVE  Effect /\ KeepsSnapshots
  <2>1. /\ pc[c] \in Traceless
        /\ comparables' \subseteq comparables
        /\ UNCHANGED <<row, outbox, op>>
    BY <1>9 DEF DeleteComparable, Traceless
  <2>2. PICK o \in Outcome : Answer(c, o)
    BY <1>9 DEF DeleteComparable, Outcome
  <2>3. ReadOrDelete
    BY <2>1, <2>2, AnswerNoneLeaves DEF ReadOrDelete
  <2>4. KeepsSnapshots
    BY <2>1, <2>2, AnswerKeeps
  <2> QED BY <2>3, <2>4 DEF Effect
<1>10. ASSUME NEW c \in Call, ListComparables(c)
       PROVE  Effect /\ KeepsSnapshots
  <2>1. /\ pc[c] = "listing" /\ pc' = [pc EXCEPT ![c] = "loaded"]
        /\ UNCHANGED <<dbVars, op, seen>>
    BY <1>10 DEF ListComparables, Continue
  <2>2. ReadOrDelete
    BY <2>1 DEF ReadOrDelete, NoneLeaves, Traceless, TypeOK, dbVars
  <2>3. KeepsSnapshots
    BY <2>1 DEF KeepsSnapshots, TypeOK
  <2> QED BY <2>2, <2>3 DEF Effect
<1>11. ASSUME NEW c \in Call, NotCalculated(c)
       PROVE  Effect /\ KeepsSnapshots
  <2>1. /\ pc[c] \in Traceless
        /\ Return(c, "not_calculated")
        /\ UNCHANGED <<dbVars, op>>
    BY <1>11 DEF NotCalculated, Traceless
  <2>2. ReadOrDelete
    BY <2>1, AnswerNoneLeaves DEF ReadOrDelete, dbVars
  <2>3. KeepsSnapshots
    BY <2>1, AnswerKeeps, "not_calculated" \in Outcome DEF Outcome
  <2> QED BY <2>2, <2>3 DEF Effect
<1>12. ASSUME NEW c \in Call, ApplyCalculation(c)
       PROVE  Effect /\ KeepsSnapshots
  <2>1. /\ pc[c] = "loaded" /\ pc[c] \in Running /\ pc[c] \in Traceless
        /\ op[c] \in Request
    BY <1>12 DEF ApplyCalculation, Requested, Running, Traceless
  <2>2. CASE WriteRow(c) /\ ~Conflict(c)
    <3>1. PICK q \in {"adding", "deleting", "error"} :
            /\ pc' = [pc EXCEPT ![c] = q]
            /\ \A d \in Call \ {c} : seen'[d] = seen[d]
      BY <1>12, <2>2 DEF ApplyCalculation, Continue, Return, TypeOK
    <3>2. op' = op
      BY <2>2 DEF WriteRow
    <3>3. WritesRow(c)
      BY <2>1, <2>2, <3>1 DEF WritesRow, Leaves, Traceless, Rejected, TypeOK
    <3>4. KeepsSnapshots
      BY <3>1, <3>2 DEF KeepsSnapshots, TypeOK
    <3> QED BY <3>3, <3>4 DEF Effect
  <2>3. CASE Conflict(c)
    <3>1. ReadOrDelete
      BY <2>1, <2>3, AnswerNoneLeaves DEF Conflict, ReadOrDelete, dbVars
    <3>2. KeepsSnapshots
      BY <2>3, AnswerKeeps, "conflict" \in Outcome DEF Conflict, Outcome
    <3> QED BY <3>1, <3>2 DEF Effect
  <2> QED BY <1>12, <2>2, <2>3 DEF ApplyCalculation
<1>13. ASSUME NEW c \in Call, DeleteOld(c)
       PROVE  Effect /\ KeepsSnapshots
  <2>1. PICK q \in {"adding", "deleting"} :
          /\ pc' = [pc EXCEPT ![c] = q]
          /\ comparables' \subseteq comparables
          /\ UNCHANGED <<row, outbox, op, seen>>
    BY <1>13 DEF DeleteOld
  <2>2. ReadOrDelete
    BY <2>1 DEF ReadOrDelete, NoneLeaves, Traceless, Rejected, TypeOK
  <2>3. KeepsSnapshots
    BY <2>1 DEF KeepsSnapshots, TypeOK
  <2> QED BY <2>2, <2>3 DEF Effect
<1>14. ASSUME NEW c \in Call, ReplyApplied(c)
       PROVE  Effect /\ KeepsSnapshots
  <2>1. Answer(c, "ok") /\ UNCHANGED <<dbVars, op>>
    BY <1>14 DEF ReplyApplied
  <2>2. pc' = [pc EXCEPT ![c] = "ok"] \/ pc' = [pc EXCEPT ![c] = "error"]
    BY <2>1 DEF Answer, Return
  <2>3. ReadOrDelete
    BY <2>1, <2>2 DEF ReadOrDelete, NoneLeaves, Traceless, Rejected, TypeOK, dbVars
  <2>4. KeepsSnapshots
    BY <2>1, AnswerKeeps, "ok" \in Outcome DEF Outcome
  <2> QED BY <2>3, <2>4 DEF Effect
<1>15. CASE Crash
  <2> PICK calls \in SUBSET InFlight : Lose(calls)
    BY <1>15 DEF Crash
  <2>1. /\ pc' = [c \in Call |-> IF c \in calls THEN "lost" ELSE pc[c]]
        /\ UNCHANGED <<dbVars, op>>
    BY DEF Lose
  <2>2. ReadOrDelete
    BY <2>1 DEF ReadOrDelete, NoneLeaves, Traceless, Rejected, InFlight, dbVars
  <2>3. KeepsSnapshots
    BY <2>1 DEF Lose, KeepsSnapshots
  <2> QED BY <2>2, <2>3 DEF Effect
<1> QED
  BY <1>1, <1>2, <1>3, <1>4, <1>5, <1>6, <1>7, <1>8, <1>9, <1>10, <1>11, <1>12,
     <1>13, <1>14, <1>15 DEF Next, Step

-------------------------------------------------------------------------------
(* What the two UPDATEs write. *)

\* Update writes the columns of its list and a stamp, whatever the stamp is.
LEMMA WrittenColumns ==
  ASSUME TypeInv, NEW c \in Call, WritesRow(c), NEW b, b = op[c].target
  PROVE  /\ b \in Appraisal
         /\ row'[b].status = row[b].status
         /\ row'[b].completedAt = row[b].completedAt
         /\ row'[b].fields = Patched(c)
         /\ row'[b].updatedAt \in Stamps(c)
         /\ \A a \in Appraisal \ {b} : row'[a] = row[a]
         /\ UNCHANGED <<comparables, outbox, op>>
<1>1. b \in Appraisal
  BY DEF WritesRow, Request
<1>2. PICK t \in Stamps(c) :
        row' = [row EXCEPT ![b].fields = Patched(c), ![b].updatedAt = t]
  BY DEF WritesRow, WriteRow
<1>3. row \in [Appraisal -> Row] /\ row[b] \in Row
  BY <1>1 DEF TypeInv, TypeOK
<1>4. row'[b] = [row[b] EXCEPT !.fields = Patched(c), !.updatedAt = t]
  BY <1>1, <1>2, <1>3
<1>5. /\ row'[b].status = row[b].status
      /\ row'[b].completedAt = row[b].completedAt
      /\ row'[b].fields = Patched(c)
      /\ row'[b].updatedAt = t
  BY <1>3, <1>4 DEF Row
<1>6. \A a \in Appraisal \ {b} : row'[a] = row[a]
  BY <1>2, <1>3
<1>7. UNCHANGED <<comparables, outbox, op>>
  BY DEF WritesRow, WriteRow
<1> QED BY <1>1, <1>2, <1>5, <1>6, <1>7

\* Complete sets the status and the moment, and writes the event of that moment.
LEMMA CompletedColumns ==
  ASSUME TypeInv, NEW c \in Call, Completes(c), NEW b, b = op[c].target
  PROVE  /\ b \in Appraisal
         /\ row[b].status = "in_progress"
         /\ row'[b].status = "completed"
         /\ row'[b].fields = row[b].fields
         /\ row'[b].updatedAt \in Stamps(c)
         /\ \A a \in Appraisal \ {b} : row'[a] = row[a]
         /\ \E e : /\ outbox' = outbox \cup {e}
                   /\ e.by = c
                   /\ e.appraisal = b
                   /\ e.completedAt = row'[b].completedAt
         /\ UNCHANGED <<comparables, op>>
<1>1. b \in Appraisal
  BY DEF Completes, Request
<1>2. row \in [Appraisal -> Row] /\ row[b] \in Row
  BY <1>1 DEF TypeInv, TypeOK
<1>3. PICK t \in Stamps(c) :
        /\ row' = [row EXCEPT ![b].status = "completed",
                              ![b].completedAt = t,
                              ![b].updatedAt = t]
        /\ outbox' = outbox \cup {ReportReady(c, t)}
  BY DEF Completes, CommitCompletion
<1>4. row'[b] = [row[b] EXCEPT !.status = "completed", !.completedAt = t, !.updatedAt = t]
  BY <1>1, <1>2, <1>3
<1>5. /\ row'[b].status = "completed"
      /\ row'[b].fields = row[b].fields
      /\ row'[b].completedAt = t
      /\ row'[b].updatedAt = t
  BY <1>2, <1>4 DEF Row
<1>6. \A a \in Appraisal \ {b} : row'[a] = row[a]
  BY <1>2, <1>3
<1>7. \E e : /\ outbox' = outbox \cup {e}
             /\ e.by = c
             /\ e.appraisal = b
             /\ e.completedAt = row'[b].completedAt
  <2> WITNESS ReportReady(c, t)
  <2> QED BY <1>3, <1>5 DEF ReportReady
<1>8. row[b].status = "in_progress" /\ UNCHANGED <<comparables, op>>
  BY DEF Completes, CommitCompletion, CompleteGuard
<1> QED BY <1>1, <1>3, <1>5, <1>6, <1>7, <1>8

-------------------------------------------------------------------------------
(* FactInv is inductive. *)

LEMMA EventStep ==
  ASSUME FactInv, [Next]_vars
  PROVE  OneEventPerCompletion'
<1> USE DEF FactInv, TypeInv
<1>1. CASE UNCHANGED <<row, outbox>>
  BY <1>1 DEF OneEventPerCompletion, Completed
<1>2. ASSUME NEW b \in Appraisal, CreateFromRequest(b)
      PROVE  OneEventPerCompletion'
  <2>1. /\ ~Completed(b) /\ ~Completed(b)'
        /\ \A a \in Appraisal \ {b} : row'[a] = row[a]
        /\ outbox' = outbox
    BY <1>2 DEF CreateFromRequest, CreateGuard, Fresh, NoRow, Completed, TypeOK
  <2> QED BY <2>1 DEF OneEventPerCompletion, Completed
<1>3. ASSUME NEW c \in Call, WritesRow(c)
      PROVE  OneEventPerCompletion'
  <2> DEFINE b == op[c].target
  <2>1. \A a \in Appraisal : /\ row'[a].status = row[a].status
                             /\ row'[a].completedAt = row[a].completedAt
    BY <1>3, WrittenColumns
  <2>2. outbox' = outbox
    BY <1>3, WrittenColumns
  <2> QED BY <2>1, <2>2 DEF OneEventPerCompletion, Completed
<1>4. ASSUME NEW c \in Call, Completes(c)
      PROVE  OneEventPerCompletion'
  <2> DEFINE b == op[c].target
  <2>1. b \in Appraisal /\ ~Completed(b)
    BY <1>4, CompletedColumns DEF Completed
  <2>2. row'[b].status = "completed"
    BY <1>4, CompletedColumns
  <2>3. \A a \in Appraisal \ {b} : row'[a] = row[a]
    BY <1>4, CompletedColumns
  <2>4. PICK ev : /\ outbox' = outbox \cup {ev}
                  /\ ev.appraisal = b
                  /\ ev.completedAt = row'[b].completedAt
    BY <1>4, CompletedColumns
  <2>5. \A e \in outbox : e.appraisal # b
    BY <2>1 DEF OneEventPerCompletion
  <2>6. ASSUME NEW a \in Appraisal
        PROVE  /\ row'[a].status = "completed" <=> \E e \in outbox' : e.appraisal = a
               /\ \A e \in outbox' : e.appraisal = a => e.completedAt = row'[a].completedAt
               /\ \A e, f \in outbox' : e.appraisal = a /\ f.appraisal = a => e = f
    <3> HIDE DEF b
    <3>1. CASE a = b
      BY <2>2, <2>4, <2>5, <3>1
    <3>2. CASE a # b
      BY <2>3, <2>4, <3>2 DEF OneEventPerCompletion, Completed
    <3> QED BY <3>1, <3>2
  <2> QED BY <2>6 DEF OneEventPerCompletion, Completed
<1> QED BY <1>1, <1>2, <1>3, <1>4, EffectStep
        DEF Effect, ReadOrDelete, InsertsComparable, vars

LEMMA NoTraceStep ==
  ASSUME FactInv, [Next]_vars
  PROVE  NoTrace'
<1> USE DEF FactInv, TypeInv
<1>1. CASE UNCHANGED vars
  BY <1>1 DEF vars, NoTrace, LeftTrace
<1>2. CASE ReadOrDelete
  BY <1>2 DEF ReadOrDelete, NoneLeaves, NoTrace, LeftTrace
<1>3. ASSUME NEW b \in Appraisal, CreateFromRequest(b)
      PROVE  NoTrace'
  <2>1. \A a \in Appraisal, f \in Field :
          row'[a].fields[f] = row[a].fields[f] \/ row'[a].fields[f] = NULL
    BY <1>3 DEF CreateFromRequest, Fresh, NoRow, TypeOK
  <2>2. UNCHANGED <<comparables, outbox, pc>>
    BY <1>3 DEF CreateFromRequest
  <2> QED BY <2>1, <2>2, NullAssumption DEF NoTrace, LeftTrace
<1>4. ASSUME NEW c \in Call, InsertsComparable(c)
      PROVE  NoTrace'
  <2>1. Inserting(c).by = c
    BY DEF Inserting
  <2> QED BY <1>4, <2>1 DEF InsertsComparable, Leaves, NoTrace, LeftTrace
<1>5. ASSUME NEW c \in Call, WritesRow(c)
      PROVE  NoTrace'
  <2> DEFINE b == op[c].target
  <2>1. /\ row'[b].fields = Patched(c)
        /\ \A a \in Appraisal \ {b} : row'[a] = row[a]
        /\ UNCHANGED <<comparables, outbox>>
    BY <1>5, WrittenColumns
  <2>2. Leaves(c) /\ pc[c] = "loaded"
    BY <1>5 DEF WritesRow
  <2>3. ASSUME NEW d \in Call, pc'[d] \in Traceless
        PROVE  /\ d # c
               /\ pc[d] \in Traceless
               /\ ~LeftTrace(d)
    BY <2>2, <2>3 DEF Leaves, NoTrace
  <2>4. ASSUME NEW d \in Call, pc'[d] \in Traceless, NEW f \in Field
        PROVE  Patched(c)[f] # d
    BY <2>2, <2>3, <2>4 DEF Patched, SnapshotsTraced
  <2> QED BY <2>1, <2>3, <2>4 DEF NoTrace, LeftTrace
<1>6. ASSUME NEW c \in Call, Completes(c)
      PROVE  NoTrace'
  <2>1. \A a \in Appraisal : row'[a].fields = row[a].fields
    <3> DEFINE b == op[c].target
    <3> QED BY <1>6, CompletedColumns
  <2>2. PICK ev : outbox' = outbox \cup {ev} /\ ev.by = c
    BY <1>6, CompletedColumns
  <2>3. UNCHANGED comparables /\ Leaves(c)
    BY <1>6, CompletedColumns DEF Completes
  <2> QED BY <2>1, <2>2, <2>3 DEF Leaves, NoTrace, LeftTrace
<1> QED BY <1>1, <1>2, <1>3, <1>4, <1>5, <1>6, EffectStep DEF Effect

\* What a call has just read was in the row, and no call that has left a trace is
\* ever again one that has left none.
LEMMA TracedStep ==
  ASSUME FactInv, [Next]_vars
  PROVE  SnapshotsTraced'
<1> USE DEF FactInv, TypeInv
<1>1. CASE UNCHANGED vars
  BY <1>1 DEF vars, SnapshotsTraced
<1>2. CASE Next
  <2>1. Effect /\ KeepsSnapshots
    BY <1>2, EffectStep
  <2>2. NoneLeaves
    BY <2>1 DEF Effect, ReadOrDelete, CreateFromRequest, InsertsComparable, WritesRow,
       Completes, Leaves, NoneLeaves
  <2>3. ASSUME NEW c \in Call, pc'[c] \in {"listing", "loaded"},
               NEW d \in Call, NEW f \in Field, seen'[c].fields[f] = d
        PROVE  pc'[d] \notin Traceless
    <3>1. CASE pc[c] \in {"listing", "loaded"} /\ seen'[c] = seen[c]
      BY <2>2, <2>3, <3>1 DEF SnapshotsTraced, NoneLeaves
    <3>2. CASE op'[c].target \in Appraisal /\ seen'[c] = row[op'[c].target]
      <4>1. LeftTrace(d)
        BY <2>3, <3>2 DEF LeftTrace
      <4> QED BY <2>2, <4>1 DEF NoTrace, NoneLeaves
    <3> QED BY <2>1, <2>3, <3>1, <3>2 DEF KeepsSnapshots
  <2> QED BY <2>3 DEF SnapshotsTraced
<1> QED BY <1>1, <1>2

\* FactInv holds of every reachable state.
LEMMA FactInvariance == Spec => []FactInv
<1>1. Init => FactInv
  <2> SUFFICES ASSUME Init PROVE FactInv
    OBVIOUS
  <2>1. TypeInv
    BY NoRowType, NumAnalogsAssumption, MaxFaultsAssumption
       DEF Init, TypeInv, TypeOK, Requested, Running
  <2>2. OneEventPerCompletion /\ SnapshotsTraced
    BY DEF Init, OneEventPerCompletion, Completed, SnapshotsTraced, NoRow
  <2>3. NoTrace
    BY NullAssumption DEF Init, NoTrace, LeftTrace, NoRow
  <2> QED BY <2>1, <2>2, <2>3 DEF FactInv
<1>2. FactInv /\ [Next]_vars => FactInv'
  BY TypeStep, EventStep, NoTraceStep, TracedStep DEF FactInv
<1> QED BY <1>1, <1>2, PTL DEF Spec

-------------------------------------------------------------------------------
(* LockInv is inductive when stamps are distinct. *)

\* While no two readings of the clock are equal, a stamp is the next number.
LEMMA StampGrows ==
  ASSUME DistinctStamps, TypeInv, NEW c \in Call, op[c].target \in Appraisal,
         NEW t \in Stamps(c)
  PROVE  row[op[c].target].updatedAt < t
<1>1. row[op[c].target].updatedAt \in Nat
  BY DEF TypeInv, TypeOK, Row, Stamp
<1> QED BY <1>1 DEF Stamps

\* Under the lock the call holds the row as it is: in progress, and equal to its
\* snapshot.
LEMMA LockedRow ==
  ASSUME SnapshotInv, NEW c \in Call, WritesRow(c), NEW b, b = op[c].target
  PROVE  seen[c] = row[b] /\ row[b].status = "in_progress"
BY DEF WritesRow, WriteRow, LockHolds, SnapshotInv

LEMMA AbsentStep ==
  ASSUME DistinctStamps, LockInv, [Next]_vars
  PROVE  AbsentIsBlank'
<1> USE DEF LockInv, TypeInv
<1>1. CASE UNCHANGED row
  BY <1>1 DEF AbsentIsBlank
<1>2. ASSUME NEW a \in Appraisal, CreateFromRequest(a)
      PROVE  AbsentIsBlank'
  BY <1>2 DEF CreateFromRequest, Fresh, NoRow, AbsentIsBlank, TypeOK
<1>3. ASSUME NEW c \in Call, WritesRow(c)
      PROVE  AbsentIsBlank'
  <2>1. ASSUME NEW a \in Appraisal, row'[a].status = "absent"
        PROVE  row'[a] = NoRow
    <3>1. a # op[c].target
      BY <1>3, <2>1, WrittenColumns, LockedRow
    <3>2. row'[a] = row[a]
      BY <1>3, <3>1, WrittenColumns
    <3> QED BY <2>1, <3>2 DEF AbsentIsBlank
  <2> QED BY <2>1 DEF AbsentIsBlank
<1>4. ASSUME NEW c \in Call, Completes(c)
      PROVE  AbsentIsBlank'
  <2>1. ASSUME NEW a \in Appraisal, row'[a].status = "absent"
        PROVE  row'[a] = NoRow
    <3>1. a # op[c].target
      BY <1>4, <2>1, CompletedColumns
    <3>2. row'[a] = row[a]
      BY <1>4, <3>1, CompletedColumns
    <3> QED BY <2>1, <3>2 DEF AbsentIsBlank
  <2> QED BY <2>1 DEF AbsentIsBlank
<1> QED BY <1>1, <1>2, <1>3, <1>4, EffectStep
        DEF Effect, ReadOrDelete, InsertsComparable, vars

\* The stamps of a row only grow, so a stamp that still matches was not changed.
LEMMA SnapshotStep ==
  ASSUME DistinctStamps, LockInv, [Next]_vars
  PROVE  SnapshotInv'
<1> USE DEF LockInv, TypeInv
<1>1. CASE UNCHANGED vars
  BY <1>1 DEF vars, SnapshotInv
<1>2. CASE Next
  <2>1. Effect /\ KeepsSnapshots
    BY <1>2, EffectStep
  <2>2. ASSUME NEW a \in Appraisal
        PROVE  \/ row'[a] = row[a]
               \/ row[a].status = "absent"
               \/ row[a].updatedAt < row'[a].updatedAt
    <3>1. CASE UNCHANGED row
      BY <3>1
    <3>2. ASSUME NEW b \in Appraisal, CreateFromRequest(b)
          PROVE  row'[a] = row[a] \/ row[a].status = "absent"
      BY <3>2 DEF CreateFromRequest, CreateGuard, TypeOK
    <3>3. ASSUME NEW c \in Call, WritesRow(c)
          PROVE  row'[a] = row[a] \/ row[a].updatedAt < row'[a].updatedAt
      BY <3>3, WrittenColumns, StampGrows
    <3>4. ASSUME NEW c \in Call, Completes(c)
          PROVE  row'[a] = row[a] \/ row[a].updatedAt < row'[a].updatedAt
      BY <3>4, CompletedColumns, StampGrows
    <3> QED BY <2>1, <3>1, <3>2, <3>3, <3>4 DEF Effect, ReadOrDelete, InsertsComparable
  <2>3. ASSUME NEW d \in Call, pc'[d] \in {"listing", "loaded"}
        PROVE  LET r == row'[op'[d].target]
               IN  /\ seen'[d].status = "in_progress"
                   /\ seen'[d].updatedAt <= r.updatedAt
                   /\ seen'[d].updatedAt = r.updatedAt => seen'[d] = r
    <3>1. CASE /\ op'[d].target \in Appraisal
               /\ seen'[d] = row[op'[d].target]
               /\ row[op'[d].target].status = "in_progress"
               /\ row' = row
      <4>1. row[op'[d].target].updatedAt \in Nat
        BY <3>1 DEF TypeOK, Row, Stamp
      <4> QED BY <3>1, <4>1
    <3>2. CASE pc[d] \in {"listing", "loaded"} /\ op'[d] = op[d] /\ seen'[d] = seen[d]
      <4> DEFINE a == op[d].target
      <4>1. a \in Appraisal
        BY <3>2 DEF Requested, Request, Running
      <4>2. /\ seen[d].status = "in_progress"
            /\ seen[d].updatedAt <= row[a].updatedAt
            /\ seen[d].updatedAt = row[a].updatedAt => seen[d] = row[a]
        BY <3>2 DEF SnapshotInv
      <4>3. seen[d].updatedAt \in Nat /\ row[a].updatedAt \in Nat
        BY <4>1 DEF TypeOK, Row, Stamp
      <4>4. row[a].status # "absent"
        <5>1. SUFFICES ASSUME row[a].status = "absent" PROVE FALSE
          OBVIOUS
        <5>2. row[a] = NoRow
          BY <4>1, <5>1 DEF AbsentIsBlank
        <5>3. seen[d].updatedAt = row[a].updatedAt
          BY <4>2, <4>3, <5>2 DEF NoRow
        <5> QED BY <4>2, <5>1, <5>3
      <4>5. CASE row'[a] = row[a]
        BY <3>2, <4>2, <4>5
      <4>6. CASE row[a].updatedAt < row'[a].updatedAt
        <5>1. row'[a].updatedAt \in Nat
          BY <1>2, <4>1, TypeStep DEF TypeOK, Row, Stamp
        <5> QED BY <3>2, <4>2, <4>3, <4>6, <5>1
      <4> QED BY <2>2, <4>1, <4>4, <4>5, <4>6
    <3> QED BY <2>1, <2>3, <3>1, <3>2 DEF KeepsSnapshots
  <2> QED BY <2>3 DEF SnapshotInv
<1> QED BY <1>1, <1>2

\* LockInv holds of every reachable state.
LEMMA LockInvariance ==
  ASSUME DistinctStamps
  PROVE  Spec => []LockInv
<1>1. Init => LockInv
  <2> SUFFICES ASSUME Init PROVE LockInv
    OBVIOUS
  <2>1. TypeInv
    BY NoRowType, NumAnalogsAssumption, MaxFaultsAssumption
       DEF Init, TypeInv, TypeOK, Requested, Running
  <2> QED BY <2>1 DEF Init, LockInv, AbsentIsBlank, SnapshotInv, NoRow
<1>2. LockInv /\ [Next]_vars => LockInv'
  BY TypeStep, AbsentStep, SnapshotStep DEF LockInv
<1> QED BY <1>1, <1>2, PTL DEF Spec

-------------------------------------------------------------------------------
(* What a 2xx has promised: nothing here rests on the stamps. *)

\* Only apply has a list to delete and analogs to number, and only of its own
\* appraisal.
Locals ==
  \A c \in Call :
    /\ pc[c] = "idle" => op[c] = NoRequest
    /\ op[c].kind # "apply" => next[c] = 0 /\ old[c] = {}
    /\ \A x \in old[c] : x.appraisal = op[c].target

\* The call that inserts x has done so, or will never do so.
Used(x) ==
  /\ pc[x.by] \notin {"idle", "listing", "loaded", "deleting"}
  /\ pc[x.by] \in {"adding", "inserting"} => op[x.by].kind = "apply" /\ x.no < next[x.by]

AllUsed ==
  /\ \A x \in comparables : Used(x)
  /\ \A c \in Call : op[c].kind = "delete" => op[c].victim \in Comparable /\ Used(op[c].victim)

Ok(c, kind) == pc[c] = "ok" /\ op[c].kind = kind

Added(c) == [appraisal |-> op[c].target, by |-> c, no |-> 0]

Promises ==
  \A c \in Call :
    /\ Ok(c, "complete") => /\ Completed(op[c].target)
                            /\ \E e \in outbox : e.by = c /\ e.appraisal = op[c].target
    /\ Ok(c, "delete") => op[c].victim \notin comparables
    /\ Ok(c, "add") => Added(c) \in comparables \/ \E d \in Call : MayRemove(d, Added(c))

KeptInv == TypeInv /\ Locals /\ AllUsed /\ Promises

\* What a call was asked stays, from its first read on.
LEMMA OpKept ==
  ASSUME TypeInv, [Next]_vars, NEW c \in Call, pc[c] # "idle"
  PROVE  op'[c] = op[c] /\ pc'[c] # "idle"
<1> USE DEF TypeInv
<1>1. CASE UNCHANGED vars
  BY <1>1 DEF vars
<1>2. ASSUME NEW a \in Appraisal, CreateFromRequest(a) PROVE op' = op /\ pc' = pc
  BY <1>2 DEF CreateFromRequest
<1>3. ASSUME NEW d \in Call, Load(d) PROVE op'[c] = op[c] /\ pc'[c] # "idle"
  <2>1. d # c
    BY <1>3 DEF Load
  <2> QED BY <1>3, <2>1 DEF Load, Return, TypeOK
<1>4. ASSUME NEW d \in Call, NEW o \in Outcome, Answer(d, o) \/ Return(d, o)
      PROVE  pc'[c] # "idle"
  BY <1>4 DEF Answer, Return, TypeOK, Outcome
<1>5. ASSUME NEW d \in Call, Step(d), ~Load(d)
      PROVE  /\ op' = op
             /\ \/ \E o \in Outcome : Answer(d, o) \/ Return(d, o)
                \/ \E l \in Running : pc' = [pc EXCEPT ![d] = l]
  BY <1>5 DEF Step, FailStatement, Update, WriteRow, Conflict, Complete, CommitCompletion,
     RollBackCompletion, BeginInsert, CommitInsert, FailInsert, DeleteComparable,
     ListComparables, NotCalculated, ApplyCalculation, DeleteOld, ReplyApplied, Continue,
     NextAnalog, Outcome, Running
<1>6. CASE Crash
  BY <1>6 DEF Crash, Lose
<1>7. ASSUME NEW d \in Call, Step(d) PROVE op'[c] = op[c] /\ pc'[c] # "idle"
  BY <1>3, <1>4, <1>5, <1>7 DEF TypeOK, Running
<1> QED BY <1>1, <1>2, <1>6, <1>7 DEF Next

LEMMA LocalsStep ==
  ASSUME TypeInv, Locals, [Next]_vars
  PROVE  Locals'
<1> USE DEF TypeInv
<1>1. CASE UNCHANGED vars
  BY <1>1 DEF vars, Locals
<1>2. ASSUME NEW a \in Appraisal, CreateFromRequest(a) PROVE Locals'
  BY <1>2 DEF CreateFromRequest, Locals
<1>3. ASSUME NEW d \in Call, Load(d) PROVE Locals'
  <2>1. op[d] = NoRequest /\ next[d] = 0 /\ old[d] = {}
    <3>1. pc[d] = "idle"
      BY <1>3 DEF Load
    <3>2. NoRequest.kind # "apply"
      BY DEF NoRequest
    <3> QED BY <3>1, <3>2 DEF Locals
  <2>2. \A c \in Call \ {d} : UNCHANGED <<op[c], pc[c], next[c], old[c]>>
    BY <1>3 DEF Load, Return, TypeOK
  <2>3. pc'[d] # "idle" /\ next'[d] = 0 /\ old'[d] = {}
    BY <1>3, <2>1 DEF Load, Return, TypeOK
  <2> QED BY <2>2, <2>3 DEF Locals
<1>4. ASSUME NEW d \in Call, NEW o \in Outcome, Answer(d, o) \/ Return(d, o), op' = op
      PROVE  Locals'
  <2>1. PICK q \in Outcome : /\ pc' = [pc EXCEPT ![d] = q]
                             /\ old' = [old EXCEPT ![d] = {}]
                             /\ next' = [next EXCEPT ![d] = 0]
    BY <1>4 DEF Answer, Return, Outcome
  <2>2. q # "idle"
    BY DEF Outcome
  <2> QED BY <1>4, <2>1, <2>2 DEF Locals, TypeOK
<1>5. ASSUME NEW d \in Call, op[d].kind = "apply", op' = op,
             \A c \in Call \ {d} : UNCHANGED <<pc[c], next[c], old[c]>>,
             pc'[d] # "idle", old'[d] \subseteq old[d]
      PROVE  Locals'
  BY <1>5 DEF Locals
<1>6. ASSUME NEW d \in Call, NextAnalog(d), op[d].kind = "apply", op' = op
      PROVE  Locals'
  BY <1>5, <1>6 DEF NextAnalog, TypeOK
<1>7. ASSUME NEW d \in Call, NEW l \in Running, Continue(d, l), UNCHANGED <<op, old, next>>
      PROVE  Locals'
  BY <1>7 DEF Continue, Locals, TypeOK, Running
<1>8. ASSUME NEW d \in Call, ListComparables(d) PROVE Locals'
  <2>1. op[d].kind = "apply"
    BY <1>8 DEF ListComparables, Requested
  <2> QED BY <1>8, <2>1 DEF ListComparables, Continue, Locals, TypeOK
<1>9. ASSUME NEW d \in Call, ApplyCalculation(d) PROVE Locals'
  <2>1. CASE /\ Continue(d, IF old[d] = {} THEN "adding" ELSE "deleting")
             /\ next' = [next EXCEPT ![d] = 1]
             /\ UNCHANGED old
    BY <1>5, <1>9, <2>1 DEF ApplyCalculation, WriteRow, Conflict, Continue, TypeOK
  <2> QED BY <1>4, <1>9, <2>1 DEF ApplyCalculation, WriteRow, Conflict, Outcome
<1>10. ASSUME NEW d \in Call, DeleteOld(d) PROVE Locals'
  BY <1>5, <1>10 DEF DeleteOld, Requested, TypeOK
<1>11. ASSUME NEW d \in Call,
              \/ FailStatement(d) \/ Update(d) \/ Complete(d) \/ DeleteComparable(d)
              \/ NotCalculated(d) \/ ReplyApplied(d)
       PROVE  op' = op /\ \E o \in Outcome : Answer(d, o) \/ Return(d, o)
  BY <1>11 DEF FailStatement, Update, WriteRow, Conflict, Complete, CommitCompletion,
     RollBackCompletion, DeleteComparable, NotCalculated, ReplyApplied, Outcome
<1>12. ASSUME NEW d \in Call, BeginInsert(d) \/ CommitInsert(d) \/ FailInsert(d)
       PROVE  /\ op' = op
              /\ \/ \E o \in Outcome : Answer(d, o) \/ Return(d, o)
                 \/ Continue(d, "inserting") /\ UNCHANGED <<old, next>>
                 \/ NextAnalog(d) /\ op[d].kind = "apply"
  BY <1>12 DEF BeginInsert, CommitInsert, FailInsert, Outcome
<1>13. CASE Crash
  BY <1>13 DEF Crash, Lose, Locals
<1>14. "inserting" \in Running
  BY DEF Running
<1>15. ASSUME NEW d \in Call, Step(d) PROVE Locals'
  BY <1>3, <1>4, <1>6, <1>7, <1>8, <1>9, <1>10, <1>11, <1>12, <1>14, <1>15 DEF Step
<1> QED BY <1>1, <1>2, <1>13, <1>15 DEF Next

LEMMA UsedKept ==
  ASSUME TypeInv, Locals, [Next]_vars, NEW x \in Comparable, Used(x)
  PROVE  Used(x)'
<1> USE DEF TypeInv
<1> DEFINE d == x.by
<1>1. d \in Call /\ x.no \in Nat /\ next[d] \in Nat /\ pc[d] # "idle"
  BY NumAnalogsAssumption DEF Comparable, Used, TypeOK
<1>2. op'[d] = op[d]
  BY <1>1, OpKept
<1>3. CASE UNCHANGED <<pc[d], next[d]>>
  BY <1>2, <1>3 DEF Used
<1>4. CASE pc'[d] \in Outcome \cup {"replying"}
  BY <1>4 DEF Used, Outcome
<1>5. ASSUME NEW c \in Call, NEW o \in Outcome, Answer(c, o) \/ Return(c, o)
      PROVE  Used(x)'
  <2>1. PICK q \in Outcome : /\ pc' = [pc EXCEPT ![c] = q]
                             /\ next' = [next EXCEPT ![c] = 0]
    BY <1>5 DEF Answer, Return, Outcome
  <2> QED BY <1>3, <1>4, <2>1 DEF TypeOK
<1>6. ASSUME NEW c \in Call, NextAnalog(c), pc[c] \in {"adding", "inserting"}
      PROVE  Used(x)'
  <2>1. CASE c # d
    BY <1>3, <1>6, <2>1 DEF NextAnalog, TypeOK
  <2>2. CASE c = d
    <3>1. /\ op[d].kind = "apply" /\ x.no < next[d]
          /\ pc'[d] = "replying" \/ (pc'[d] = "adding" /\ next'[d] = next[d] + 1)
      BY <1>6, <2>2 DEF NextAnalog, Used, TypeOK
    <3> QED BY <1>1, <1>2, <3>1 DEF Used
  <2> QED BY <2>1, <2>2
<1>7. ASSUME NEW c \in Call, BeginInsert(c) \/ CommitInsert(c) \/ FailInsert(c)
      PROVE  \/ \E o \in Outcome : Answer(c, o) \/ Return(c, o)
             \/ /\ pc' = [pc EXCEPT ![c] = "inserting"] /\ next' = next
                /\ pc[c] = "adding" \/ pc[c] = "loaded"
             \/ NextAnalog(c) /\ pc[c] \in {"adding", "inserting"}
  BY <1>7 DEF BeginInsert, CommitInsert, FailInsert, Continue, Outcome
<1>8. ASSUME NEW c \in Call, pc' = [pc EXCEPT ![c] = "inserting"], next' = next,
             pc[c] = "adding" \/ pc[c] = "loaded"
      PROVE  Used(x)'
  BY <1>2, <1>3, <1>8 DEF Used, TypeOK
<1>9. ASSUME NEW c \in Call, c # d,
             Load(c) \/ ListComparables(c) \/ ApplyCalculation(c) \/ DeleteOld(c)
      PROVE  Used(x)'
  <2>1. CASE \E o \in Outcome : Answer(c, o) \/ Return(c, o)
    BY <1>5, <2>1
  <2>2. CASE Load(c) \/ ListComparables(c) \/ DeleteOld(c)
    BY <1>1, <1>3, <1>5, <1>9, <2>2
       DEF Load, ListComparables, DeleteOld, Continue, Return, TypeOK
  <2>3. CASE /\ Continue(c, IF old[c] = {} THEN "adding" ELSE "deleting")
             /\ next' = [next EXCEPT ![c] = 1]
    BY <1>1, <1>3, <1>9, <2>3 DEF Continue, TypeOK
  <2>4. ApplyCalculation(c) =>
          \/ \E o \in Outcome : Answer(c, o) \/ Return(c, o)
          \/ /\ Continue(c, IF old[c] = {} THEN "adding" ELSE "deleting")
             /\ next' = [next EXCEPT ![c] = 1]
    BY DEF ApplyCalculation, Conflict, Outcome
  <2> QED BY <1>9, <2>1, <2>2, <2>3, <2>4
<1>10. ASSUME NEW c \in Call,
              Load(c) \/ ListComparables(c) \/ ApplyCalculation(c) \/ DeleteOld(c)
       PROVE  c # d
  BY <1>10 DEF Load, ListComparables, ApplyCalculation, DeleteOld, Used
<1>11. ASSUME NEW c \in Call,
              \/ FailStatement(c) \/ Update(c) \/ Complete(c) \/ DeleteComparable(c)
              \/ NotCalculated(c) \/ ReplyApplied(c)
       PROVE  \E o \in Outcome : Answer(c, o) \/ Return(c, o)
  BY <1>11 DEF FailStatement, Update, Conflict, Complete, CommitCompletion,
     RollBackCompletion, DeleteComparable, NotCalculated, ReplyApplied, Outcome
<1>12. ASSUME NEW c \in Call, Step(c) PROVE Used(x)'
  BY <1>3, <1>5, <1>6, <1>7, <1>8, <1>9, <1>10, <1>11, <1>12 DEF Step
<1>13. CASE Crash
  <2>1. pc'[d] = "lost" \/ UNCHANGED <<pc[d], next[d]>>
    BY <1>1, <1>13 DEF Crash, Lose
  <2> QED BY <1>3, <1>4, <2>1 DEF Outcome
<1> QED BY <1>3, <1>12, <1>13 DEF Next, CreateFromRequest, vars

\* An insert inserts what no call has inserted yet, and then has.
LEMMA InsertUses ==
  ASSUME TypeInv, Locals, NEW c \in Call, CommitInsert(c),
         NEW x \in Comparable, x = Inserting(c)
  PROVE  ~Used(x) /\ Used(x)'
<1> USE DEF TypeInv
<1>1. /\ pc[c] = "inserting" /\ op'[c] = op[c] /\ next[c] \in Nat
      /\ x.by = c /\ x.no = next[c]
  BY NumAnalogsAssumption DEF CommitInsert, Inserting, TypeOK
<1>2. ~Used(x)
  BY <1>1 DEF Used
<1>3. pc'[c] \in Outcome \cup {"replying"}
      \/ (op[c].kind = "apply" /\ pc'[c] = "adding" /\ next'[c] = next[c] + 1)
  BY <1>1 DEF CommitInsert, Answer, Return, NextAnalog, TypeOK, Outcome
<1> QED BY <1>1, <1>2, <1>3 DEF Used, Outcome

\* How a step changes the comparables: an insert, or a removal by a call that was
\* asked for it.
LEMMA ComparablesStep ==
  ASSUME TypeInv, Locals, [Next]_vars
  PROVE  \/ UNCHANGED comparables
         \/ \E c \in Call : CommitInsert(c)
         \/ \E c \in Call, x \in Comparable :
              comparables' = comparables \ {x} /\ MayRemove(c, x) /\ op'[c] = op[c]
<1> USE DEF TypeInv
<1> DEFINE Goal == \/ UNCHANGED comparables
                   \/ \E c \in Call : CommitInsert(c)
                   \/ \E c \in Call, x \in Comparable :
                        comparables' = comparables \ {x} /\ MayRemove(c, x) /\ op'[c] = op[c]
<1>1. CASE UNCHANGED vars
  BY <1>1 DEF vars
<1>2. CASE Crash \/ \E a \in Appraisal : CreateFromRequest(a)
  BY <1>2 DEF Crash, Lose, CreateFromRequest, dbVars
<1>3. ASSUME NEW c \in Call, DeleteComparable(c) PROVE Goal
  <2>1. op'[c] = op[c] /\ op[c].kind = "delete"
    BY <1>3 DEF DeleteComparable
  <2>2. CASE UNCHANGED comparables
    BY <2>2
  <2>3. CASE DeleteGuard(c) /\ comparables' = comparables \ {op[c].victim}
    <3>1. op[c].victim \in Comparable /\ MayRemove(c, op[c].victim)
      BY <2>1, <2>3 DEF DeleteGuard, MayRemove, TypeOK
    <3> QED BY <2>1, <2>3, <3>1
  <2> QED BY <1>3, <2>2, <2>3 DEF DeleteComparable
<1>4. ASSUME NEW c \in Call, DeleteOld(c) PROVE Goal
  <2>1. PICK x \in old[c] : comparables' = comparables \ {x} \/ UNCHANGED comparables
    BY <1>4 DEF DeleteOld
  <2>2. x \in Comparable /\ x.appraisal = op[c].target
    BY DEF Locals, TypeOK
  <2>3. op[c].kind = "apply" /\ op'[c] = op[c]
    BY <1>4 DEF DeleteOld, Requested
  <2> QED BY <2>1, <2>2, <2>3 DEF MayRemove
<1>5. ASSUME NEW c \in Call, Step(c), ~DeleteComparable(c), ~DeleteOld(c) PROVE Goal
  <2>1. UNCHANGED comparables \/ CommitInsert(c)
    BY <1>5 DEF Step, Load, FailStatement, Update, WriteRow, Conflict, Complete,
       CommitCompletion, RollBackCompletion, BeginInsert, FailInsert, ListComparables,
       NotCalculated, ApplyCalculation, ReplyApplied, dbVars
  <2> QED BY <2>1
<1> QED BY <1>1, <1>2, <1>3, <1>4, <1>5 DEF Next

\* What can be in the table after a step was there, or has just been inserted.
LEMMA InsertedOrKept ==
  ASSUME TypeInv, Locals, [Next]_vars, NEW x \in comparables', x \notin comparables
  PROVE  x \in Comparable /\ ~Used(x) /\ Used(x)'
<1>1. PICK c \in Call : CommitInsert(c)
  BY ComparablesStep
<1>2. x = Inserting(c)
  BY <1>1 DEF CommitInsert
<1>3. x \in Comparable
  BY TypeStep DEF TypeInv, TypeOK
<1> QED BY <1>1, <1>2, <1>3, InsertUses

LEMMA AllUsedStep ==
  ASSUME TypeInv, Locals, AllUsed, [Next]_vars
  PROVE  AllUsed'
<1> USE DEF TypeInv
<1>1. ASSUME NEW x \in comparables' PROVE Used(x)'
  <2>1. CASE x \in comparables
    BY <2>1, UsedKept DEF AllUsed, TypeOK
  <2>2. CASE x \notin comparables
    BY <2>2, InsertedOrKept
  <2> QED BY <2>1, <2>2
<1>2. ASSUME NEW c \in Call, op'[c].kind = "delete"
      PROVE  op'[c].victim \in Comparable /\ Used(op[c].victim)'
  <2>1. CASE op'[c] = op[c]
    <3>1. op[c].victim \in Comparable /\ Used(op[c].victim)
      BY <1>2, <2>1 DEF AllUsed
    <3>2. PICK x \in Comparable : x = op[c].victim
      BY <3>1
    <3>3. Used(x)'
      BY <3>1, <3>2, UsedKept
    <3>4. op'[c].victim = x
      BY <2>1, <3>2
    <3> QED BY <3>3, <3>4 DEF Used
  <2>2. CASE op'[c] # op[c]
    <3>1. PICK d \in Call : Load(d)
      BY <2>2 DEF Next, vars, CreateFromRequest, Crash, Lose, Step, FailStatement, Update,
         WriteRow, Conflict, Complete, CommitCompletion, RollBackCompletion, BeginInsert,
         CommitInsert, FailInsert, DeleteComparable, ListComparables, NotCalculated,
         ApplyCalculation, DeleteOld, ReplyApplied
    <3>2. PICK r \in Requests : op' = [op EXCEPT ![d] = r]
      BY <3>1 DEF Load
    <3>3. op'[c] = r
      BY <2>2, <3>2 DEF TypeOK
    <3>4. r.victim \in comparables
      BY <1>2, <3>3 DEF Requests
    <3>5. PICK x \in comparables : x = r.victim
      BY <3>4
    <3>6. x \in Comparable /\ Used(x)'
      BY UsedKept DEF AllUsed, TypeOK
    <3>7. op'[c].victim = x
      BY <3>3, <3>5
    <3> QED BY <3>6, <3>7 DEF Used
  <2> QED BY <2>1, <2>2
<1> QED BY <1>1, <1>2 DEF AllUsed

\* A completed row stays completed and an event stays in the outbox.
LEMMA RowsKept ==
  ASSUME TypeInv, [Next]_vars
  PROVE  /\ outbox \subseteq outbox'
         /\ \A a \in Appraisal : Completed(a) => Completed(a)'
<1> USE DEF TypeInv
<1>1. CASE UNCHANGED <<row, outbox>>
  BY <1>1 DEF Completed
<1>2. ASSUME NEW a \in Appraisal, CreateFromRequest(a)
      PROVE  outbox' = outbox /\ \A b \in Appraisal : Completed(b) => Completed(b)'
  BY <1>2 DEF CreateFromRequest, CreateGuard, Completed, TypeOK
<1>3. ASSUME NEW c \in Call, WritesRow(c)
      PROVE  outbox' = outbox /\ \A b \in Appraisal : Completed(b) => Completed(b)'
  BY <1>3 DEF WritesRow, WriteRow, Completed, TypeOK, Row
<1>4. ASSUME NEW c \in Call, Completes(c)
      PROVE  /\ outbox \subseteq outbox'
             /\ \A b \in Appraisal : Completed(b) => Completed(b)'
  BY <1>4 DEF Completes, CommitCompletion, Completed, TypeOK, Row
<1> QED BY <1>1, <1>2, <1>3, <1>4, EffectStep
        DEF Effect, ReadOrDelete, InsertsComparable, vars

\* What a call has done by the step that answers it 2xx.
LEMMA NewlyOk ==
  ASSUME TypeInv, Locals, [Next]_vars, NEW c \in Call, pc[c] # "ok", pc'[c] = "ok"
  PROVE  /\ op'[c] = op[c]
         /\ op[c].kind = "complete" => CommitCompletion(c)
         /\ op[c].kind = "delete" => op[c].victim \notin comparables'
         /\ op[c].kind = "add" => Added(c) \in comparables'
<1> USE DEF TypeInv
<1>1. PICK d \in Call : Step(d)
  BY DEF Next, CreateFromRequest, Crash, Lose, vars, TypeOK
<1>2. ~Load(d) /\ ~FailStatement(d) /\ ~ListComparables(d) /\ ~NotCalculated(d) /\ ~DeleteOld(d)
  BY DEF Load, FailStatement, ListComparables, NotCalculated, DeleteOld, Continue, Return, TypeOK
<1>3. ~BeginInsert(d) /\ ~FailInsert(d)
  BY DEF BeginInsert, FailInsert, NextAnalog, Continue, Answer, Return, TypeOK
<1>4. CASE ReplyApplied(d)
  BY <1>4 DEF ReplyApplied, Answer, Return, Requested, TypeOK
<1>5. CASE Update(d)
  BY <1>5 DEF Update, WriteRow, Conflict, Answer, Return, TypeOK
<1>6. CASE ApplyCalculation(d)
  BY <1>6 DEF ApplyCalculation, WriteRow, Conflict, Continue, Answer, Return, TypeOK
<1>7. CASE Complete(d)
  BY <1>7 DEF Complete, CommitCompletion, RollBackCompletion, Answer, Return, TypeOK
<1>8. CASE DeleteComparable(d)
  BY <1>8 DEF DeleteComparable, Answer, Return, TypeOK
<1>9. CASE CommitInsert(d)
  <2>1. c = d
    BY <1>9 DEF CommitInsert, NextAnalog, Answer, Return, TypeOK
  <2>2. op'[c] = op[c] /\ Inserting(c) \in comparables' /\ op[c].kind \in {"add", "apply"}
    BY <1>9, <2>1 DEF CommitInsert
  <2>3. op[c].kind = "add" => Inserting(c) = Added(c)
    BY DEF Inserting, Added, Locals
  <2> QED BY <2>2, <2>3
<1> QED BY <1>1, <1>2, <1>3, <1>4, <1>5, <1>6, <1>7, <1>8, <1>9 DEF Step

\* No call is asked later not to remove what it was asked to remove.
LEMMA RemovalKept ==
  ASSUME TypeInv, Locals, [Next]_vars, NEW d \in Call, NEW x, MayRemove(d, x)
  PROVE  MayRemove(d, x)'
<1>1. op[d] # NoRequest
  BY DEF MayRemove, NoRequest
<1>2. op'[d] = op[d]
  BY <1>1, OpKept DEF Locals
<1> QED BY <1>2 DEF MayRemove

LEMMA PromisesStep ==
  ASSUME KeptInv, [Next]_vars
  PROVE  Promises'
<1> USE DEF KeptInv
<1> SUFFICES ASSUME NEW c \in Call, pc'[c] = "ok"
             PROVE  /\ op'[c].kind = "complete" =>
                         /\ Completed(op[c].target)'
                         /\ \E e \in outbox' : e.by = c /\ e.appraisal = op'[c].target
                    /\ op'[c].kind = "delete" => op'[c].victim \notin comparables'
                    /\ op'[c].kind = "add" =>
                         Added(c)' \in comparables' \/ \E d \in Call : MayRemove(d, Added(c))'
  BY DEF Promises, Ok
<1>1. op'[c] = op[c]
  BY NewlyOk, OpKept
<1>2. op'[c].kind \in {"complete", "delete", "add"} => op[c].target \in Appraisal
  BY <1>1 DEF TypeInv, TypeOK, Request, NoRequest
<1>3. ASSUME op[c].kind = "complete"
      PROVE  /\ Completed(op[c].target)'
             /\ \E e \in outbox' : e.by = c /\ e.appraisal = op[c].target
  <2>1. CASE pc[c] = "ok"
    BY <1>1, <1>2, <1>3, <2>1, RowsKept DEF Promises, Ok
  <2>2. CASE CommitCompletion(c)
    <3>1. PICK t \in Stamps(c) :
            /\ row' = [row EXCEPT ![op[c].target].status = "completed",
                                  ![op[c].target].completedAt = t,
                                  ![op[c].target].updatedAt = t]
            /\ outbox' = outbox \cup {ReportReady(c, t)}
      BY <2>2 DEF CommitCompletion
    <3>2. row'[op[c].target].status = "completed"
      BY <1>1, <1>2, <1>3, <3>1 DEF TypeInv, TypeOK, Row
    <3>3. ReportReady(c, t).by = c /\ ReportReady(c, t).appraisal = op[c].target
      BY DEF ReportReady
    <3> QED BY <1>1, <3>1, <3>2, <3>3 DEF Completed
  <2> QED BY <1>3, <2>1, <2>2, NewlyOk
<1>4. ASSUME op[c].kind = "delete"
      PROVE  op[c].victim \notin comparables'
  <2>1. CASE pc[c] = "ok"
    BY <1>4, <2>1, InsertedOrKept DEF Promises, Ok, AllUsed
  <2> QED BY <1>4, <2>1, NewlyOk
<1>5. ASSUME op[c].kind = "add", NEW x, x = Added(c)
      PROVE  x \in comparables' \/ \E d \in Call : MayRemove(d, x)'
  <2>1. CASE pc[c] # "ok"
    BY <1>5, <2>1, NewlyOk
  <2>2. CASE pc[c] = "ok" /\ x \in comparables
    <3>1. x \in comparables' \/ \E d \in Call : MayRemove(d, x)
      BY <2>2, ComparablesStep DEF CommitInsert
    <3> QED BY <3>1, RemovalKept
  <2>3. CASE \E d \in Call : MayRemove(d, x)
    BY <2>3, RemovalKept
  <2> QED BY <1>5, <2>1, <2>2, <2>3 DEF Promises, Ok
<1>6. Added(c)' = Added(c)
  BY <1>1 DEF Added
<1>7. ASSUME op[c].kind = "add"
      PROVE  Added(c)' \in comparables' \/ \E d \in Call : MayRemove(d, Added(c))'
  <2>1. PICK x : x = Added(c)
    OBVIOUS
  <2>2. x \in comparables' \/ \E d \in Call : MayRemove(d, x)'
    BY <1>5, <1>7, <2>1
  <2>3. x = Added(c)'
    BY <1>6, <2>1
  <2> QED BY <2>2, <2>3 DEF MayRemove
<1> QED BY <1>1, <1>3, <1>4, <1>7 DEF Completed

-------------------------------------------------------------------------------
(* Theorems. *)

\* What a 2xx has promised is kept: a completed appraisal keeps its event, a deleted
\* comparable never comes back and an added one stays until some call is asked to
\* remove it.  The stamps play no part in it.
THEOREM PromisesKept == Spec => []AcknowledgedIsKept
<1>1. Init => KeptInv
  <2>1. Init => TypeInv
    BY NoRowType, NumAnalogsAssumption, MaxFaultsAssumption
       DEF Init, TypeInv, TypeOK, Requested, Running
  <2>2. NoRequest.kind \notin {"apply", "delete"}
    BY DEF NoRequest
  <2> QED BY <2>1, <2>2 DEF Init, KeptInv, Locals, AllUsed, Promises, Ok
<1>2. KeptInv /\ [Next]_vars => KeptInv'
  BY TypeStep, LocalsStep, AllUsedStep, PromisesStep DEF KeptInv
<1>3. KeptInv => AcknowledgedIsKept
  BY DEF KeptInv, Promises, Ok, Added, AcknowledgedIsKept
<1> QED BY <1>1, <1>2, <1>3, PTL DEF Spec

\* An appraisal is completed exactly when one report.ready of it is in the
\* outbox: the transaction of Complete under its guard on the status is enough,
\* whatever fails or crashes around it and whatever stamps the clock gives.
THEOREM CompletionAnnouncedOnce == Spec => []OneEventPerCompletion
<1>1. FactInv => OneEventPerCompletion
  BY DEF FactInv
<1> QED BY <1>1, FactInvariance, PTL

\* A call whose stamp matches holds the row as it is: the reason why it is safe
\* for every UPDATE to write all the columns.
THEOREM SnapshotsAreCurrent ==
  ASSUME DistinctStamps
  PROVE  Spec => []SnapshotIsCurrent
<1>1. LockInv => SnapshotIsCurrent
  BY DEF LockInv, SnapshotInv, SnapshotIsCurrent
<1> QED BY <1>1, LockInvariance, PTL

\* A call answered with a 4xx has changed nothing, whatever ran between its check
\* and its statement and whatever stamps the clock gave: not even through another
\* call that has read its values and writes them back.
THEOREM RejectionsAreClean == Spec => []RejectedLeavesNoTrace
<1>1. FactInv => RejectedLeavesNoTrace
  BY DEF FactInv, NoTrace, RejectedLeavesNoTrace, Traceless
<1> QED BY <1>1, FactInvariance, PTL

\* A completed row is never written again: the optimistic lock is enough for the
\* UPDATE, which does not look at the status.
THEOREM CompletedIsFrozen ==
  ASSUME DistinctStamps
  PROVE  Spec => FrozenRow
<1>1. ASSUME LockInv, [Next]_vars, NEW a \in Appraisal, Completed(a)
      PROVE  row'[a] = row[a]
  <2> USE DEF LockInv
  <2>1. CASE UNCHANGED row
    BY <2>1
  <2>2. ASSUME NEW b \in Appraisal, CreateFromRequest(b)
        PROVE  row'[a] = row[a]
    BY <1>1, <2>2 DEF CreateFromRequest, CreateGuard, Completed, TypeInv, TypeOK
  <2>3. ASSUME NEW c \in Call, WritesRow(c)
        PROVE  row'[a] = row[a]
    BY <1>1, <2>3, WrittenColumns, LockedRow DEF Completed
  <2>4. ASSUME NEW c \in Call, Completes(c)
        PROVE  row'[a] = row[a]
    BY <1>1, <2>4, CompletedColumns DEF Completed
  <2> QED BY <1>1, <2>1, <2>2, <2>3, <2>4, EffectStep
          DEF Effect, ReadOrDelete, InsertsComparable, vars
<1>2. LockInv /\ [Next]_vars => [\A a \in Appraisal : Completed(a) => row'[a] = row[a]]_vars
  BY <1>1
<1> QED BY <1>2, LockInvariance, PTL DEF Spec, FrozenRow

\* A column changes only by a call asked to change it that had read the row as
\* it is: writing all the columns loses no accepted update.
THEOREM NoUpdateLost ==
  ASSUME DistinctStamps
  PROVE  Spec => NoLostUpdate
<1> DEFINE Written(a, f) ==
      \E c \in Call : /\ row'[a].fields[f] = c
                      /\ op[c].target = a
                      /\ f \in Writes(op[c])
                      /\ seen[c] = row[a]
<1>1. ASSUME LockInv, [Next]_vars, NEW a \in Appraisal, NEW f \in Field,
             row'[a].fields[f] # row[a].fields[f]
      PROVE  Written(a, f)
  <2> USE DEF LockInv
  <2>1. ~UNCHANGED row
    BY <1>1
  <2>2. ~\E b \in Appraisal : CreateFromRequest(b)
    <3> SUFFICES ASSUME NEW b \in Appraisal, CreateFromRequest(b) PROVE FALSE
      OBVIOUS
    <3>1. row[b] = NoRow /\ row' = [row EXCEPT ![b] = Fresh]
      BY <1>1 DEF CreateFromRequest, CreateGuard, AbsentIsBlank
    <3>2. Fresh.fields = NoRow.fields
      BY DEF Fresh, NoRow
    <3>3. row'[a].fields = row[a].fields
      BY <1>1, <3>1, <3>2 DEF TypeInv, TypeOK
    <3> QED BY <1>1, <3>3
  <2>3. ASSUME NEW c \in Call, Completes(c) PROVE FALSE
    BY <1>1, <2>3, CompletedColumns
  <2>4. ASSUME NEW c \in Call, WritesRow(c) PROVE Written(a, f)
    <3>1. a = op[c].target
      BY <1>1, <2>4, WrittenColumns
    <3>2. seen[c] = row[a] /\ row'[a].fields = Patched(c)
      BY <1>1, <2>4, <3>1, WrittenColumns, LockedRow
    <3>3. f \in Writes(op[c]) /\ Patched(c)[f] = c
      BY <1>1, <3>2 DEF Patched
    <3> QED BY <3>1, <3>2, <3>3
  <2> QED BY <1>1, <2>1, <2>2, <2>3, <2>4, EffectStep
          DEF Effect, ReadOrDelete, InsertsComparable, vars
<1>2. LockInv /\ [Next]_vars =>
        [\A a \in Appraisal, f \in Field :
           row'[a].fields[f] # row[a].fields[f] => Written(a, f)]_vars
  BY <1>1
<1> QED BY <1>2, LockInvariance, PTL DEF Spec, NoLostUpdate

-------------------------------------------------------------------------------
(* Refinement. *)

LEMMA LifecycleInit == Init => Lifecycle!Init
BY DEF Init, Lifecycle!Init, NoRow

\* Every step is a step of the atomic lifecycle or a stutter.
LEMMA LifecycleStep ==
  ASSUME DistinctStamps, LockInv, [Next]_vars
  PROVE  [Lifecycle!Next]_(Lifecycle!vars)
<1> USE DEF LockInv
<1> DEFINE Status == [a \in Appraisal |-> row[a].status]
           Content == [a \in Appraisal |-> row[a].fields]
           Announced == {<<e.appraisal, e.by>> : e \in outbox}
<1>1. CASE UNCHANGED <<row, outbox>>
  BY <1>1 DEF Lifecycle!vars
<1>2. ASSUME NEW b \in Appraisal, CreateFromRequest(b)
      PROVE  Lifecycle!Next
  <2>1. /\ row[b] = NoRow /\ row[b].status = "absent"
        /\ row' = [row EXCEPT ![b] = Fresh] /\ outbox' = outbox
    BY <1>2 DEF CreateFromRequest, CreateGuard, AbsentIsBlank
  <2>2. row \in [Appraisal -> Row]
    BY DEF TypeInv, TypeOK
  <2>3. Fresh.fields = NoRow.fields /\ Fresh.status = "in_progress"
    BY DEF Fresh, NoRow
  <2>4. Status' = [Status EXCEPT ![b] = "in_progress"] /\ Status[b] = "absent"
    BY <2>1, <2>2, <2>3
  <2>5. Content' = Content /\ Announced' = Announced
    BY <2>1, <2>2, <2>3
  <2>6. Lifecycle!Open(b)
    BY <2>4, <2>5 DEF Lifecycle!Open
  <2> QED BY <2>6 DEF Lifecycle!Next
<1>3. ASSUME NEW c \in Call, WritesRow(c)
      PROVE  Lifecycle!Next
  <2>0. PICK b \in Appraisal, edited \in SUBSET Field :
          b = op[c].target /\ edited = Writes(op[c]) \cap Field
    <3>1. op[c].target \in Appraisal
      BY <1>3, WrittenColumns
    <3> QED BY <3>1
  <2>1. /\ b \in Appraisal
        /\ row[b].status = "in_progress"
        /\ row'[b].status = "in_progress"
        /\ seen[c] = row[b]
        /\ row'[b].fields = Patched(c)
        /\ \A a \in Appraisal \ {b} : row'[a] = row[a]
        /\ outbox' = outbox
    BY <1>3, <2>0, WrittenColumns, LockedRow
  <2>2. row'[b].fields = [f \in Field |-> IF f \in edited THEN c ELSE row[b].fields[f]]
    BY <2>0, <2>1 DEF Patched
  <2>3. Status' = Status /\ Announced' = Announced /\ Status[b] = "in_progress"
    BY <2>1
  <2>4. Content' = [Content EXCEPT ![b] =
                      [f \in Field |-> IF f \in edited THEN c ELSE Content[b][f]]]
    BY <2>1, <2>2
  <2>5. Lifecycle!Edit(b, c, edited)
    BY <2>3, <2>4 DEF Lifecycle!Edit
  <2> QED BY <2>5 DEF Lifecycle!Next
<1>4. ASSUME NEW c \in Call, Completes(c)
      PROVE  Lifecycle!Next
  <2>0. PICK b \in Appraisal : b = op[c].target
    BY <1>4, CompletedColumns
  <2>1. /\ b \in Appraisal
        /\ row[b].status = "in_progress"
        /\ row'[b].status = "completed"
        /\ row'[b].fields = row[b].fields
        /\ \A a \in Appraisal \ {b} : row'[a] = row[a]
    BY <1>4, <2>0, CompletedColumns
  <2>2. PICK e : outbox' = outbox \cup {e} /\ e.by = c /\ e.appraisal = b
    BY <1>4, <2>0, CompletedColumns
  <2>3. Status' = [Status EXCEPT ![b] = "completed"] /\ Status[b] = "in_progress"
    BY <2>1
  <2>4. Content' = Content
    BY <2>1
  <2>5. Announced' = Announced \cup {<<b, c>>}
    BY <2>2
  <2>6. Lifecycle!Close(b, c)
    BY <2>3, <2>4, <2>5 DEF Lifecycle!Close
  <2> QED BY <2>6 DEF Lifecycle!Next
<1> QED BY <1>1, <1>2, <1>3, <1>4, EffectStep
        DEF Effect, ReadOrDelete, InsertsComparable, vars

\* The concurrent calls implement the atomic lifecycle of an appraisal: opened
\* once, edited field by field, closed once with one announcement.
THEOREM LifecycleImplemented ==
  ASSUME DistinctStamps
  PROVE  Spec => RefinesLifecycle
<1>1. LockInv /\ [Next]_vars => [Lifecycle!Next]_(Lifecycle!vars)
  BY LifecycleStep
<1> QED BY <1>1, LifecycleInit, LockInvariance, PTL
        DEF Spec, RefinesLifecycle, Lifecycle!Spec
================================================================================
