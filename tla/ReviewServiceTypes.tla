--------------------------- MODULE ReviewServiceTypes ---------------------------
(***************************************************************************)
(* The types of the service as a whole.  The calls, the loops and the      *)
(* relays of the service are what their modules say (ComponentsCompose),   *)
(* so what keeps the types there keeps them here, with the rows in place   *)
(* of the consumer's view of them and a call's name for its event.         *)
(***************************************************************************)
EXTENDS ReviewServiceProofs, FiniteSetTheorems

-------------------------------------------------------------------------------
(* The calls. *)

\* A call past its first read knows what it was asked, and only add and apply
\* reach the statements on comparables that follow.
CallRequested ==
  \A c \in Call :
    /\ pc[c] \in A!Running => op[c] \in A!Request
    /\ pc[c] \in {"listing", "deleting", "adding", "replying"} => op[c].kind = "apply"
    /\ pc[c] = "inserting" => op[c].kind \in {"add", "apply"}

CallInv == A!TypeOK /\ CallRequested

LEMMA NoRowType == A!NoRow \in A!Row
BY CallsAssumption DEF A!NoRow, A!Row, A!Stamp

\* What Return leaves in the local variables.
LEMMA ReturnType ==
  ASSUME A!TypeOK, NEW c \in Call, NEW o \in A!Outcome, A!Return(c, o)
  PROVE  /\ pc' \in [Call -> {"idle"} \cup A!Running \cup A!Outcome]
         /\ seen' \in [Call -> A!Row]
         /\ old' \in [Call -> SUBSET A!Comparable]
         /\ next' \in [Call -> 0..NumAnalogs]
BY NoRowType, CallsAssumption DEF A!TypeOK, A!Return

LEMMA FaultType ==
  ASSUME A!TypeOK, A!Fault
  PROVE  callFaults' \in 0..MaxCallFaults
BY CallsAssumption DEF A!TypeOK, A!Fault

LEMMA AnswerType ==
  ASSUME A!TypeOK, NEW c \in Call, NEW o \in A!Outcome, A!Answer(c, o)
  PROVE  /\ pc' \in [Call -> {"idle"} \cup A!Running \cup A!Outcome]
         /\ seen' \in [Call -> A!Row]
         /\ old' \in [Call -> SUBSET A!Comparable]
         /\ next' \in [Call -> 0..NumAnalogs]
         /\ callFaults' \in 0..MaxCallFaults
<1>1. CASE A!Return(c, o) /\ UNCHANGED callFaults
  BY <1>1, ReturnType DEF A!TypeOK
<1>2. CASE A!Return(c, "error") /\ A!Fault
  BY <1>2, ReturnType, FaultType, "error" \in A!Outcome DEF A!Outcome
<1> QED BY <1>1, <1>2 DEF A!Answer

\* After Return and Answer a call runs no more, so CallRequested holds of it.
LEMMA AnswerRequested ==
  ASSUME CallInv, NEW c \in Call, NEW o \in A!Outcome,
         A!Answer(c, o) \/ A!Return(c, o), op' = op
  PROVE  CallRequested'
<1>1. PICK q \in A!Outcome : pc' = [pc EXCEPT ![c] = q]
  BY DEF A!Answer, A!Return, A!Outcome
<1>2. q \notin A!Running \cup {"idle"}
  BY DEF A!Outcome, A!Running
<1> QED BY <1>1, <1>2 DEF CallRequested, CallInv, A!TypeOK, A!Running

\* The UPDATE of a row keeps the row a row.
LEMMA StampType ==
  ASSUME A!TypeOK, NEW c \in Call, op[c] \in A!Request, NEW t \in A!Stamps(c)
  PROVE  t \in A!Stamp
<1>1. row[op[c].target].updatedAt \in Nat /\ seen[c].updatedAt \in Nat
  BY DEF A!TypeOK, A!Row, A!Stamp, A!Request
<1> QED BY <1>1 DEF A!Stamps, A!Stamp

LEMMA WriteRowType ==
  ASSUME A!TypeOK, NEW c \in Call, op[c] \in A!Request, A!WriteRow(c)
  PROVE  row' \in [Appraisal -> A!Row]
<1>1. PICK t \in A!Stamps(c) :
        row' = [row EXCEPT ![op[c].target].fields = A!Patched(c),
                           ![op[c].target].updatedAt = t]
  BY DEF A!WriteRow
<1>2. A!Patched(c) \in [A!Field -> Call \cup {NULL}]
  BY DEF A!Patched, A!TypeOK, A!Row
<1>3. op[c].target \in Appraisal
  BY DEF A!Request
<1>4. t \in A!Stamp
  BY <1>1, StampType
<1>5. ASSUME NEW a \in Appraisal
      PROVE  row'[a] \in A!Row
  <2>1. row[a] \in A!Row
    BY DEF A!TypeOK
  <2>2. CASE a # op[c].target
    BY <1>1, <2>1, <2>2 DEF A!TypeOK
  <2>3. CASE a = op[c].target
    <3>1. row'[a] = [row[a] EXCEPT !.fields = A!Patched(c), !.updatedAt = t]
      BY <1>1, <2>3 DEF A!TypeOK
    <3> QED BY <1>2, <1>4, <2>1, <3>1 DEF A!Row
  <2> QED BY <2>2, <2>3
<1> QED BY <1>1, <1>5 DEF A!TypeOK

LEMMA CompletionType ==
  ASSUME A!TypeOK, NEW c \in Call, op[c] \in A!Request, A!CommitCompletion(c)
  PROVE  row' \in [Appraisal -> A!Row] /\ outbox' \subseteq A!Event
<1>1. PICK t \in A!Stamps(c) :
        /\ row' = [row EXCEPT ![op[c].target].status = "completed",
                              ![op[c].target].completedAt = t,
                              ![op[c].target].updatedAt = t]
        /\ outbox' = outbox \cup {A!ReportReady(c, t)}
  BY DEF A!CommitCompletion
<1>2. op[c].target \in Appraisal
  BY DEF A!Request
<1>3. t \in A!Stamp
  BY <1>1, StampType
<1>4. ASSUME NEW a \in Appraisal
      PROVE  row'[a] \in A!Row
  <2>1. row[a] \in A!Row
    BY DEF A!TypeOK
  <2>2. CASE a # op[c].target
    BY <1>1, <2>1, <2>2 DEF A!TypeOK
  <2>3. CASE a = op[c].target
    <3>1. row'[a] = [row[a] EXCEPT !.status = "completed", !.completedAt = t,
                                   !.updatedAt = t]
      BY <1>1, <2>3 DEF A!TypeOK
    <3> QED BY <1>3, <2>1, <3>1 DEF A!Row
  <2> QED BY <2>2, <2>3
<1>5. A!ReportReady(c, t) \in A!Event
  <2>1. /\ seen[c].fields["appraiser_id"] \in Call \cup {NULL}
        /\ seen[c].fields["report_s3_key"] \in Call \cup {NULL}
    BY DEF A!TypeOK, A!Row, A!Field, A!PatchField
  <2> QED BY <1>2, <1>3, <2>1 DEF A!ReportReady, A!Event
<1> QED BY <1>1, <1>4, <1>5 DEF A!TypeOK

LEMMA NextAnalogType ==
  ASSUME CallInv, NEW c \in Call, A!NextAnalog(c), op' = op,
         op[c] \in A!Request, op[c].kind = "apply"
  PROVE  /\ pc' \in [Call -> {"idle"} \cup A!Running \cup A!Outcome]
         /\ seen' \in [Call -> A!Row]
         /\ old' \in [Call -> SUBSET A!Comparable]
         /\ next' \in [Call -> 0..NumAnalogs]
         /\ CallRequested'
BY CallsAssumption DEF A!NextAnalog, CallInv, A!TypeOK, CallRequested, A!Running

\* Every step keeps the types, and what CallRequested says of calls in flight.
LEMMA CallTypeStep ==
  ASSUME CallInv, [A!Next]_(A!vars)
  PROVE  CallInv'
<1> USE DEF CallInv
<1>1. ASSUME NEW a \in Appraisal, A!CreateFromRequest(a)
      PROVE  CallInv'
  <2>1. A!Fresh \in A!Row
    BY NoRowType DEF A!Fresh, A!Row, A!Stamp
  <2>2. row' \in [Appraisal -> A!Row]
    BY <1>1, <2>1 DEF A!CreateFromRequest, A!TypeOK
  <2> QED BY <1>1, <2>2 DEF A!CreateFromRequest, A!TypeOK, CallRequested
<1>2. ASSUME NEW c \in Call, A!Load(c)
      PROVE  CallInv'
  <2>1. PICK r \in A!Requests :
          /\ op' = [op EXCEPT ![c] = r]
          /\ \/ A!Return(c, "not_found")
             \/ A!Return(c, "invalid_status")
             \/ /\ pc' = [pc EXCEPT ![c] = IF r.kind = "apply" THEN "listing" ELSE "loaded"]
                /\ seen' = [seen EXCEPT ![c] = row[r.target]]
                /\ UNCHANGED <<old, next>>
    BY <1>2 DEF A!Load
  <2>2. r \in A!Request
    BY CallsAssumption DEF A!Requests, A!Request, A!TypeOK
  <2>3. op' \in [Call -> A!Request \cup {A!NoRequest}]
    BY <2>1, <2>2 DEF A!TypeOK
  <2>4. UNCHANGED <<A!dbVars, callFaults>>
    BY <1>2 DEF A!Load
  <2>5. CASE A!Return(c, "not_found") \/ A!Return(c, "invalid_status")
    <3>1. PICK o \in A!Outcome : A!Return(c, o)
      BY <2>5 DEF A!Outcome
    <3>2. o \notin A!Running \cup {"idle"}
      BY DEF A!Outcome, A!Running
    <3>3. CallRequested'
      BY <2>1, <3>1, <3>2 DEF A!Return, CallRequested, A!TypeOK, A!Running
    <3> QED BY <2>3, <2>4, <3>1, <3>3, ReturnType DEF A!TypeOK, A!dbVars
  <2>6. CASE /\ pc' = [pc EXCEPT ![c] = IF r.kind = "apply" THEN "listing" ELSE "loaded"]
             /\ seen' = [seen EXCEPT ![c] = row[r.target]]
             /\ UNCHANGED <<old, next>>
    <3>1. row[r.target] \in A!Row
      BY <2>2 DEF A!Request, A!TypeOK
    <3>2. CallRequested'
      BY <2>1, <2>2, <2>6 DEF CallRequested, A!TypeOK, A!Running
    <3>3. pc' \in [Call -> {"idle"} \cup A!Running \cup A!Outcome]
      BY <2>6 DEF A!TypeOK, A!Running
    <3> QED BY <2>3, <2>4, <2>6, <3>1, <3>2, <3>3 DEF A!TypeOK, A!dbVars
  <2> QED BY <2>1, <2>5, <2>6
<1>3. ASSUME NEW c \in Call, A!FailStatement(c)
      PROVE  CallInv'
  <2>1. "error" \in A!Outcome
    BY DEF A!Outcome
  <2> QED BY <1>3, <2>1, ReturnType, FaultType, AnswerRequested
          DEF A!FailStatement, A!TypeOK, A!dbVars
<1>4. ASSUME NEW c \in Call, A!Update(c)
      PROVE  CallInv'
  <2>1. op[c] \in A!Request
    BY <1>4 DEF A!Update, CallRequested, A!Running
  <2>2. PICK o \in A!Outcome : A!Answer(c, o)
    BY <1>4 DEF A!Update, A!Conflict, A!Outcome
  <2>3. row' \in [Appraisal -> A!Row] /\ UNCHANGED <<comparables, outbox, op>>
    BY <1>4, <2>1, WriteRowType DEF A!Update, A!Conflict, A!WriteRow, A!dbVars, A!TypeOK
  <2> QED BY <2>2, <2>3, AnswerType, AnswerRequested DEF A!TypeOK
<1>5. ASSUME NEW c \in Call, A!Complete(c)
      PROVE  CallInv'
  <2>1. op[c] \in A!Request
    BY <1>5 DEF A!Complete, CallRequested, A!Running
  <2>2. PICK o \in A!Outcome : A!Answer(c, o)
    BY <1>5 DEF A!Complete, A!CommitCompletion, A!RollBackCompletion, A!Outcome
  <2>3. /\ row' \in [Appraisal -> A!Row] /\ outbox' \subseteq A!Event
        /\ UNCHANGED <<comparables, op>>
    BY <1>5, <2>1, CompletionType
       DEF A!Complete, A!CommitCompletion, A!RollBackCompletion, A!dbVars, A!TypeOK
  <2> QED BY <2>2, <2>3, AnswerType, AnswerRequested DEF A!TypeOK
<1>6. ASSUME NEW c \in Call, A!BeginInsert(c)
      PROVE  CallInv'
  <2>1. op[c] \in A!Request
    BY <1>6 DEF A!BeginInsert, CallRequested, A!Running
  <2>2. UNCHANGED <<A!dbVars, op>>
    BY <1>6 DEF A!BeginInsert
  <2>3. CASE A!Continue(c, "inserting") /\ UNCHANGED <<old, next>>
    <3>1. op[c].kind \in {"add", "apply"}
      BY <1>6 DEF A!BeginInsert, CallRequested
    <3> QED BY <2>1, <2>2, <2>3, <3>1
            DEF A!Continue, A!TypeOK, CallRequested, A!Running, A!dbVars
  <2>4. CASE A!Answer(c, "invalid_status")
    <3>1. "invalid_status" \in A!Outcome
      BY DEF A!Outcome
    <3> QED BY <2>2, <2>4, <3>1, AnswerType, AnswerRequested DEF A!TypeOK, A!dbVars
  <2>5. CASE op[c].kind = "apply" /\ A!NextAnalog(c) /\ UNCHANGED callFaults
    BY <2>1, <2>2, <2>5, NextAnalogType DEF A!TypeOK, A!dbVars
  <2> QED BY <1>6, <2>3, <2>4, <2>5 DEF A!BeginInsert
<1>7. ASSUME NEW c \in Call, A!CommitInsert(c)
      PROVE  CallInv'
  <2>1. op[c] \in A!Request
    BY <1>7 DEF A!CommitInsert, CallRequested, A!Running
  <2>2. A!Inserting(c) \in A!Comparable
    BY <2>1 DEF A!Inserting, A!Comparable, A!Request, A!TypeOK
  <2>3. comparables' \subseteq A!Comparable /\ UNCHANGED <<row, outbox, op>>
    BY <1>7, <2>2 DEF A!CommitInsert, A!TypeOK
  <2>4. CASE A!Answer(c, "ok")
    <3>1. "ok" \in A!Outcome
      BY DEF A!Outcome
    <3> QED BY <2>3, <2>4, <3>1, AnswerType, AnswerRequested DEF A!TypeOK
  <2>5. CASE op[c].kind = "apply" /\ A!NextAnalog(c) /\ UNCHANGED callFaults
    BY <2>1, <2>3, <2>5, NextAnalogType DEF A!TypeOK
  <2> QED BY <1>7, <2>4, <2>5 DEF A!CommitInsert
<1>8. ASSUME NEW c \in Call, A!FailInsert(c)
      PROVE  CallInv'
  <2>1. op[c] \in A!Request
    BY <1>8 DEF A!FailInsert, CallRequested, A!Running
  <2>2. UNCHANGED <<A!dbVars, op>> /\ callFaults' \in 0..MaxCallFaults
    BY <1>8, FaultType DEF A!FailInsert
  <2>3. CASE A!Return(c, "error")
    <3>1. "error" \in A!Outcome
      BY DEF A!Outcome
    <3> QED BY <2>2, <2>3, <3>1, ReturnType, AnswerRequested DEF A!TypeOK, A!dbVars
  <2>4. CASE op[c].kind = "apply" /\ A!NextAnalog(c)
    BY <2>1, <2>2, <2>4, NextAnalogType DEF A!TypeOK, A!dbVars
  <2> QED BY <1>8, <2>3, <2>4 DEF A!FailInsert
<1>9. ASSUME NEW c \in Call, A!DeleteComparable(c)
      PROVE  CallInv'
  <2>1. PICK o \in A!Outcome : A!Answer(c, o)
    BY <1>9 DEF A!DeleteComparable, A!Outcome
  <2>2. comparables' \subseteq A!Comparable /\ UNCHANGED <<row, outbox, op>>
    BY <1>9 DEF A!DeleteComparable, A!TypeOK
  <2> QED BY <2>1, <2>2, AnswerType, AnswerRequested DEF A!TypeOK
<1>10. ASSUME NEW c \in Call, A!ListComparables(c)
       PROVE  CallInv'
  BY <1>10 DEF A!ListComparables, A!Continue, A!TypeOK, CallRequested, A!Running, A!dbVars
<1>11. ASSUME NEW c \in Call, A!NotCalculated(c)
       PROVE  CallInv'
  <2>1. "not_calculated" \in A!Outcome
    BY DEF A!Outcome
  <2> QED BY <1>11, <2>1, ReturnType, AnswerRequested DEF A!NotCalculated, A!TypeOK, A!dbVars
<1>12. ASSUME NEW c \in Call, A!ApplyCalculation(c)
       PROVE  CallInv'
  <2>1. op[c] \in A!Request /\ op[c].kind = "apply"
    BY <1>12 DEF A!ApplyCalculation, CallRequested, A!Running
  <2>2. row' \in [Appraisal -> A!Row] /\ UNCHANGED <<comparables, outbox, op>>
    BY <1>12, <2>1, WriteRowType DEF A!ApplyCalculation, A!Conflict, A!WriteRow, A!dbVars, A!TypeOK
  <2>3. CASE /\ A!Continue(c, IF old[c] = {} THEN "adding" ELSE "deleting")
             /\ next' = [next EXCEPT ![c] = 1]
             /\ UNCHANGED old
    BY <2>1, <2>2, <2>3, CallsAssumption DEF A!Continue, A!TypeOK, CallRequested, A!Running
  <2>4. CASE \E o \in A!Outcome : A!Answer(c, o)
    BY <2>2, <2>4, AnswerType, AnswerRequested DEF A!TypeOK
  <2>5. A!Answer(c, "error") \/ A!Answer(c, "conflict") => \E o \in A!Outcome : A!Answer(c, o)
    BY DEF A!Outcome
  <2> QED BY <1>12, <2>3, <2>4, <2>5 DEF A!ApplyCalculation, A!Conflict, A!Answer
<1>13. ASSUME NEW c \in Call, A!DeleteOld(c)
       PROVE  CallInv'
  <2>1. op[c] \in A!Request /\ op[c].kind = "apply"
    BY <1>13 DEF A!DeleteOld, CallRequested, A!Running
  <2>2. PICK x \in old[c] :
          /\ comparables' \subseteq comparables
          /\ callFaults' = callFaults \/ A!Fault
          /\ old' = [old EXCEPT ![c] = @ \ {x}]
          /\ pc' = [pc EXCEPT ![c] = IF old[c] = {x} THEN "adding" ELSE "deleting"]
          /\ UNCHANGED <<row, outbox, op, seen, next>>
    BY <1>13 DEF A!DeleteOld
  <2>3. callFaults' \in 0..MaxCallFaults
    BY <2>2, FaultType DEF A!TypeOK
  <2>4. CallRequested'
    BY <2>1, <2>2 DEF CallRequested, A!TypeOK, A!Running
  <2> QED BY <2>2, <2>3, <2>4 DEF A!TypeOK, A!Running
<1>14. ASSUME NEW c \in Call, A!ReplyApplied(c)
       PROVE  CallInv'
  <2>1. "ok" \in A!Outcome
    BY DEF A!Outcome
  <2> QED BY <1>14, <2>1, AnswerType, AnswerRequested DEF A!ReplyApplied, A!TypeOK, A!dbVars
<1>15. CASE A!Crash
  <2> PICK calls \in SUBSET A!InFlight : A!Lose(calls)
    BY <1>15 DEF A!Crash
  <2>1. /\ pc' = [c \in Call |-> IF c \in calls THEN "lost" ELSE pc[c]]
        /\ UNCHANGED <<A!dbVars, op>>
    BY DEF A!Lose
  <2>2. pc' \in [Call -> {"idle"} \cup A!Running \cup A!Outcome]
    BY <2>1 DEF A!TypeOK, A!Outcome
  <2>3. CallRequested'
    BY <2>1 DEF CallRequested, A!Running
  <2>4. /\ seen' \in [Call -> A!Row]
        /\ old' \in [Call -> SUBSET A!Comparable]
        /\ next' \in [Call -> 0..NumAnalogs]
    BY NoRowType, CallsAssumption DEF A!Lose, A!TypeOK
  <2> QED BY <2>1, <2>2, <2>3, <2>4, FaultType DEF A!Lose, A!TypeOK, A!dbVars
<1>16. CASE UNCHANGED A!vars
  BY <1>16 DEF A!vars, A!TypeOK, CallRequested
<1> QED
  BY <1>1, <1>2, <1>3, <1>4, <1>5, <1>6, <1>7, <1>8, <1>9, <1>10, <1>11, <1>12,
     <1>13, <1>14, <1>15, <1>16 DEF A!Next, A!Step

\* In every reachable state the calls in flight have their requests.
LEMMA CallsTyped == A!Spec => []CallInv
<1>1. A!Init => CallInv
  BY NoRowType, CallsAssumption
     DEF A!Init, CallInv, A!TypeOK, CallRequested, A!Running
<1>2. CallInv /\ [A!Next]_(A!vars) => CallInv'
  BY CallTypeStep
<1> QED BY <1>1, <1>2, PTL DEF A!Spec

-------------------------------------------------------------------------------
(* The loops.  Their view of the rows has the types of the rows. *)

LoopTypeOK ==
  /\ log \in Seq(Record)
  /\ committed \in 0..Len(log)
  /\ owner \in Instance
  /\ loop \in [Instance -> C!Label]
  /\ position \in [Instance -> 0..Len(log)]
  /\ offset \in [Instance -> 0..Len(log)]
  /\ marked \subseteq EventId
  /\ loopFaults \in 0..MaxLoopFaults

Busy == {"checking", "creating", "marking", "committing"}

\* An instance works on a record it has fetched.
HasRecord == \A m \in Instance : loop[m] \in Busy => offset[m] \in 1..Len(log)

LoopInv == LoopTypeOK /\ HasRecord

LEMMA LoopTypeStep ==
  ASSUME LoopInv, [C!Next]_(C!vars)
  PROVE  LoopInv'
<1> USE DEF LoopInv
<1>1. CASE C!Publish
  <2>1. PICK r \in Record : log' = Append(log, r)
    BY <1>1 DEF C!Publish
  <2>2. /\ log' \in Seq(Record) /\ Len(log') = Len(log) + 1
    BY <2>1 DEF LoopTypeOK
  <2> QED BY <1>1, <2>2 DEF C!Publish, C!readerVars, LoopTypeOK, HasRecord
<1>2. ASSUME NEW m \in Instance, C!Fetch(m)
      PROVE  LoopInv'
  BY <1>2 DEF C!Fetch, C!Goto, LoopTypeOK, HasRecord, C!Label, Busy
<1>3. ASSUME NEW m \in Instance, C!CheckSeen(m)
      PROVE  LoopInv'
  BY <1>3 DEF C!CheckSeen, C!Goto, C!readerVars, LoopTypeOK, HasRecord, C!Label, Busy
<1>4. ASSUME NEW m \in Instance, loop[m] \in Busy
      PROVE  /\ C!Working(m) \in Record
             /\ C!Working(m).id \in EventId
             /\ C!Working(m).request \in Appraisal
  BY <1>4, RecordAssumption DEF C!Working, LoopTypeOK, HasRecord
<1>6. ASSUME NEW m \in Instance, loop[m] \in Busy, C!Mark(m)
      PROVE  marked' \subseteq EventId
  BY <1>4, <1>6 DEF C!Mark, LoopTypeOK
<1>7. ASSUME NEW m \in Instance, C!CreateFromRequest(m)
      PROVE  LoopInv'
  BY <1>7 DEF C!CreateFromRequest, C!Create, C!Goto, C!readerVars, LoopTypeOK, HasRecord,
              C!Label, Busy
<1>8. ASSUME NEW m \in Instance, C!MarkSeen(m)
      PROVE  LoopInv'
  <2>1. marked' \subseteq EventId
    BY <1>6, <1>8 DEF C!MarkSeen, Busy
  <2> QED BY <1>8, <2>1
          DEF C!MarkSeen, C!Mark, C!Goto, C!readerVars, LoopTypeOK, HasRecord, C!Label, Busy
<1>9. ASSUME NEW m \in Instance, C!Commit(m)
      PROVE  LoopInv'
  <2>1. loop[m] \in Busy /\ committed' \in 0..Len(log)
    BY <1>9 DEF C!Commit, C!CommitOffset, LoopTypeOK, HasRecord, Busy
  <2>2. \E l \in {"fetching", "failed"} : loop' = [loop EXCEPT ![m] = l]
    BY <1>9 DEF C!Commit, C!Goto
  <2>3. UNCHANGED <<log, owner, position, offset, marked, loopFaults>>
    BY <1>9 DEF C!Commit
  <2> QED BY <2>1, <2>2, <2>3 DEF LoopTypeOK, HasRecord, C!Label, Busy
<1>10. ASSUME NEW m \in Instance, C!Fail(m)
       PROVE  LoopInv'
  <2>1. loopFaults' \in 0..MaxLoopFaults
    BY <1>10, LoopsAssumption DEF C!Fail, C!Fault, LoopTypeOK
  <2>3. marked' \subseteq EventId
    BY <1>6, <1>10 DEF C!Fail, C!Create, Busy, LoopTypeOK
  <2>4. committed' \in 0..Len(log)
    BY <1>10 DEF C!Fail, C!CommitOffset, LoopTypeOK
  <2> QED BY <1>10, <2>1, <2>3, <2>4 DEF C!Fail, C!Goto, LoopTypeOK, HasRecord, C!Label, Busy
<1>11. ASSUME NEW m \in Instance, C!Stop(m)
       PROVE  LoopInv'
  BY <1>11, LoopsAssumption DEF C!Stop, C!Fault, C!Goto, C!readerVars, LoopTypeOK, HasRecord, C!Label, Busy
<1>12. ASSUME NEW m \in Instance, C!TakeOver(m) \/ C!Rebalance(m)
       PROVE  LoopInv'
  <2>1. loopFaults' \in 0..MaxLoopFaults
    BY <1>12, LoopsAssumption DEF C!TakeOver, C!Rebalance, C!Fault, LoopTypeOK
  <2> QED BY <1>12, <2>1 DEF C!TakeOver, C!Rebalance, C!Assign, LoopTypeOK, HasRecord, Busy
<1>13. ASSUME NEW m \in Instance, C!Restart(m)
       PROVE  LoopInv'
  BY <1>13 DEF C!Restart, C!Goto, LoopTypeOK, HasRecord, C!Label, Busy
<1>14. CASE C!Expire
  BY <1>14 DEF C!Expire, C!readerVars, LoopTypeOK, HasRecord
<1>15. ASSUME NEW r \in Appraisal, C!CompleteAppraisal(r)
       PROVE  LoopInv'
  BY <1>15 DEF C!CompleteAppraisal, C!readerVars, LoopTypeOK, HasRecord
<1>16. CASE UNCHANGED C!vars
  BY <1>16 DEF C!vars, LoopTypeOK, HasRecord
<1> QED
  BY <1>1, <1>2, <1>3, <1>7, <1>8, <1>9, <1>10, <1>11, <1>12, <1>13, <1>14, <1>15,
     <1>16 DEF C!Next, C!Step

LEMMA LoopsTyped == C!Spec => []LoopInv
<1>1. C!Init => LoopInv
  BY LoopsAssumption DEF C!Init, C!Label, LoopInv, LoopTypeOK, HasRecord, Busy
<1>2. LoopInv /\ [C!Next]_(C!vars) => LoopInv'
  BY LoopTypeStep
<1> QED BY <1>1, <1>2, PTL DEF C!Spec

-------------------------------------------------------------------------------
(* The relays. *)

\* An event has its identity value from its transaction's insert on.
RowsNumbered == \A e \in Call : tx[e] = "none" => id[e] = 0

RelayInv == O!TypeOK /\ RowsNumbered

LEMMA SameCardinality == \A S : O!Cardinality(S) = Cardinality(S)
BY Zenon DEF O!Cardinality, Cardinality

\* A poll is a batch of at most BatchSize committed, unmarked events in id order.
LEMMA PollType ==
  ASSUME O!TypeOK, NEW b \in O!Poll
  PROVE  /\ b \in Seq(Call)
         /\ Len(b) <= BatchSize
         /\ \A i \in 1..Len(b) : tx[b[i]] = "committed" /\ b[i] \notin published
         /\ \A i, j \in 1..Len(b) : i < j => id[b[i]] < id[b[j]]
<1>1. PICK n \in 0..BatchSize : b \in [1..n -> O!Unpublished]
  BY DEF O!Poll
<1>2. n \in Nat /\ n <= BatchSize
  BY BatchSizeAssumption
<1>3. b \in Seq(O!Unpublished) /\ Len(b) = n /\ DOMAIN b = 1..n
  BY <1>1, <1>2
<1>4. \A i, j \in DOMAIN b : i < j => id[b[i]] < id[b[j]]
  BY DEF O!Poll
<1>5. \A i \in 1..n : b[i] \in O!Unpublished
  BY <1>1
<1> QED BY <1>1, <1>2, <1>3, <1>4, <1>5 DEF O!Unpublished

\* An empty poll is impossible while a row waits.
LEMMA PollNotEmpty ==
  ASSUME NEW b \in O!Poll, O!Unpublished # {}, O!TypeOK
  PROVE  b # <<>>
<1> SUFFICES ASSUME b = <<>> PROVE FALSE
  OBVIOUS
<1>1. PICK e \in O!Unpublished : TRUE
  OBVIOUS
<1>2. Len(b) = BatchSize \/ \E i \in DOMAIN b : b[i] = e
  BY <1>1 DEF O!Poll
<1>3. Len(b) = 0 /\ DOMAIN b = {}
  OBVIOUS
<1> QED BY <1>2, <1>3, BatchSizeAssumption

\* The next identity value is at most the number of events.
LEMMA NextIdType ==
  ASSUME RelayInv, NEW e \in Call, tx[e] = "none"
  PROVE  O!NextId \in 1..O!Cardinality(Call)
<1> DEFINE S == {f \in Call : id[f] # 0}
<1>1. S \subseteq Call /\ e \notin S
  BY DEF RelayInv, RowsNumbered
<1>2. IsFiniteSet(S) /\ O!Cardinality(S) <= O!Cardinality(Call)
  BY <1>1, FS_Subset, SameCardinality, RelaysAssumption
<1>3. O!Cardinality(S) # O!Cardinality(Call)
  BY <1>1, FS_Subset, SameCardinality, RelaysAssumption
<1>4. O!Cardinality(S) \in Nat /\ O!Cardinality(Call) \in Nat
  BY <1>2, FS_CardinalityType, SameCardinality, RelaysAssumption
<1> QED BY <1>2, <1>3, <1>4 DEF O!NextId

\* A relay that publishes or marks has an event in hand.
LEMMA InHandType ==
  ASSUME O!TypeOK, NEW m \in Instance, relay[m] \in {"publishing", "marking"}
  PROVE  /\ batch[m] \in Seq(Call)
         /\ Len(batch[m]) \in Nat \ {0}
         /\ O!InHand(m) = batch[m][1]
         /\ O!InHand(m) \in Call
<1>1. batch[m] \in Seq(Call) /\ batch[m] # <<>>
  BY DEF O!TypeOK
<1>2. Len(batch[m]) \in Nat \ {0}
  BY <1>1, EmptySeq
<1> QED BY <1>1, <1>2 DEF O!InHand

LEMMA TailType ==
  ASSUME O!TypeOK, NEW m \in Instance, relay[m] \in {"publishing", "marking"}
  PROVE  /\ Tail(batch[m]) \in Seq(Call)
         /\ Len(Tail(batch[m])) = Len(batch[m]) - 1
         /\ \A i \in 1 .. Len(batch[m]) - 1 : Tail(batch[m])[i] = batch[m][i + 1]
         /\ Tail(batch[m]) = <<>> <=> Len(batch[m]) = 1
<1>1. batch[m] \in Seq(Call) /\ batch[m] # <<>> /\ Len(batch[m]) \in Nat \ {0}
  BY InHandType DEF O!TypeOK
<1>2. /\ Tail(batch[m]) \in Seq(Call)
      /\ Len(Tail(batch[m])) = Len(batch[m]) - 1
      /\ \A i \in 1 .. Len(Tail(batch[m])) : Tail(batch[m])[i] = batch[m][i + 1]
  BY <1>1, HeadTailProperties
<1>3. Tail(batch[m]) = <<>> <=> Len(Tail(batch[m])) = 0
  BY <1>2, EmptySeq
<1> QED BY <1>1, <1>2, <1>3

LEMMA SendDelivers ==
  ASSUME O!TypeOK, NEW m \in Instance, relay[m] \in {"publishing", "marking"}, O!Send(m)
  PROVE  /\ copies' \in [Call -> Nat]
         /\ copies'[O!InHand(m)] = copies[O!InHand(m)] + 1
         /\ \A e \in Call \ {O!InHand(m)} : copies'[e] = copies[e]
         /\ O!Delivered' = O!Delivered \cup {O!InHand(m)}
<1>1. O!InHand(m) \in Call
  BY InHandType
<1>2. /\ copies' \in [Call -> Nat]
      /\ copies'[O!InHand(m)] = copies[O!InHand(m)] + 1
      /\ copies[O!InHand(m)] \in Nat
      /\ \A e \in Call \ {O!InHand(m)} : copies'[e] = copies[e]
  BY <1>1 DEF O!Send, O!TypeOK
<1> QED BY <1>1, <1>2 DEF O!Delivered

-------------------------------------------------------------------------------
(* Type correctness. *)

\* What each control operator does to the program counter and the batch.
LEMMA GiveUpType ==
  ASSUME O!TypeOK, NEW m \in Instance, O!GiveUp(m)
  PROVE  /\ relay' \in [Instance -> {"waiting", "publishing", "marking", "stopped"}]
         /\ batch' \in [Instance -> Seq(Call)]
         /\ \A k \in Instance : /\ Len(batch'[k]) <= BatchSize
                                /\ relay'[k] \in {"publishing", "marking"} <=> batch'[k] # <<>>
BY BatchSizeAssumption DEF O!GiveUp, O!TypeOK

LEMMA NextRowType ==
  ASSUME O!TypeOK, NEW m \in Instance, relay[m] = "marking", O!NextRow(m)
  PROVE  /\ relay' \in [Instance -> {"waiting", "publishing", "marking", "stopped"}]
         /\ batch' \in [Instance -> Seq(Call)]
         /\ \A k \in Instance : /\ Len(batch'[k]) <= BatchSize
                                /\ relay'[k] \in {"publishing", "marking"} <=> batch'[k] # <<>>
<1>1. /\ Tail(batch[m]) \in Seq(Call)
      /\ Len(Tail(batch[m])) = Len(batch[m]) - 1
      /\ Tail(batch[m]) = <<>> <=> Len(batch[m]) = 1
      /\ Len(batch[m]) \in Nat
  BY TailType, InHandType
<1>2. Len(Tail(batch[m])) <= BatchSize
  BY <1>1, BatchSizeAssumption DEF O!TypeOK
<1> QED BY <1>1, <1>2 DEF O!NextRow, O!TypeOK

LEMMA RelayTypeStep ==
  ASSUME RelayInv, [O!Next]_(O!vars)
  PROVE  RelayInv'
<1> USE DEF RelayInv
<1>1. ASSUME NEW e \in Call, O!InsertOutbox(e)
      PROVE  RelayInv'
  <2>1. O!NextId \in 0..O!Cardinality(Call)
    BY <1>1, NextIdType DEF O!InsertOutbox
  <2> QED BY <1>1, <2>1 DEF O!InsertOutbox, O!bounds, O!TypeOK, RowsNumbered
<1>2. ASSUME NEW e \in Call, O!CommitTx(e) \/ O!RollBackTx(e)
      PROVE  RelayInv'
  BY <1>2 DEF O!CommitTx, O!RollBackTx, O!End, O!bounds, O!TypeOK, RowsNumbered
<1>3. ASSUME NEW m \in Instance, O!Tick(m)
      PROVE  RelayInv'
  <2>1. PICK b \in O!Poll : batch' = [batch EXCEPT ![m] = b]
    BY <1>3 DEF O!Tick
  <2>2. b \in Seq(Call) /\ Len(b) <= BatchSize /\ b # <<>>
    BY <1>3, <2>1, PollType, PollNotEmpty DEF O!Tick
  <2> QED BY <1>3, <2>1, <2>2 DEF O!Tick, O!dbVars, O!bounds, O!TypeOK, RowsNumbered
<1>4. ASSUME O!Fault
      PROVE  relayFaults' \in 0..MaxRelayFaults /\ stops' \in 0..MaxStops
  BY <1>4, RelaysAssumption DEF O!Fault, O!TypeOK
<1>5. ASSUME NEW m \in Instance, O!Publish(m)
      PROVE  RelayInv'
  <2>1. copies' \in [Call -> Nat]
    BY <1>5, SendDelivers DEF O!Publish
  <2> QED BY <1>5, <2>1 DEF O!Publish, O!dbVars, O!bounds, O!TypeOK, RowsNumbered
<1>6. ASSUME NEW m \in Instance, O!PublishAgain(m)
      PROVE  RelayInv'
  <2>1. copies' \in [Call -> Nat]
    BY <1>6, SendDelivers DEF O!PublishAgain
  <2> QED BY <1>4, <1>6, <2>1 DEF O!PublishAgain, O!dbVars, O!TypeOK, RowsNumbered
<1>7. ASSUME NEW m \in Instance, O!PublishFails(m)
      PROVE  RelayInv'
  <2>1. copies' \in [Call -> Nat]
    BY <1>7, SendDelivers DEF O!PublishFails, O!TypeOK
  <2>2. relayFaults' \in 0..MaxRelayFaults /\ stops' \in 0..MaxStops
    BY <1>4, <1>7 DEF O!PublishFails, O!bounds, O!TypeOK
  <2>3. O!GiveUp(m) /\ UNCHANGED <<tx, id, published, stopping>>
    BY <1>7 DEF O!PublishFails, O!dbVars
  <2> QED BY <2>1, <2>2, <2>3, GiveUpType DEF O!TypeOK, RowsNumbered
<1>8. ASSUME NEW m \in Instance, O!Mark(m)
      PROVE  RelayInv'
  <2>1. published' \subseteq Call
    BY <1>8, InHandType DEF O!Mark, O!Marked, O!TypeOK
  <2>2. O!NextRow(m) /\ relay[m] = "marking" /\ UNCHANGED <<tx, id, copies, stopping, relayFaults, stops>>
    BY <1>8 DEF O!Mark, O!bounds
  <2> QED BY <2>1, <2>2, NextRowType DEF O!TypeOK, RowsNumbered
<1>9. ASSUME NEW m \in Instance, O!MarkFails(m)
      PROVE  RelayInv'
  <2>1. published' \subseteq Call
    BY <1>9, InHandType DEF O!MarkFails, O!Marked, O!TypeOK
  <2>2. O!GiveUp(m) /\ UNCHANGED <<tx, id, copies, stopping>>
    BY <1>9 DEF O!MarkFails
  <2>3. relayFaults' \in 0..MaxRelayFaults /\ stops' \in 0..MaxStops
    BY <1>4, <1>9 DEF O!MarkFails
  <2> QED BY <2>1, <2>2, <2>3, GiveUpType DEF O!TypeOK, RowsNumbered
<1>10. ASSUME NEW m \in Instance, O!Shutdown(m)
       PROVE  RelayInv'
  BY <1>10, RelaysAssumption DEF O!Shutdown, O!dbVars, O!TypeOK, RowsNumbered
<1>11. ASSUME NEW m \in Instance, O!RunReturns(m)
       PROVE  RelayInv'
  BY <1>11 DEF O!RunReturns, O!dbVars, O!bounds, O!TypeOK, RowsNumbered
<1>12. ASSUME NEW m \in Instance, O!Crash(m)
       PROVE  RelayInv'
  <2>1. /\ relay' \in [Instance -> {"waiting", "publishing", "marking", "stopped"}]
        /\ batch' \in [Instance -> Seq(Call)]
        /\ \A k \in Instance : /\ Len(batch'[k]) <= BatchSize
                               /\ relay'[k] \in {"publishing", "marking"} <=> batch'[k] # <<>>
    BY <1>12, BatchSizeAssumption DEF O!Crash, O!TypeOK
  <2> QED BY <1>4, <1>12, <2>1 DEF O!Crash, O!dbVars, O!TypeOK, RowsNumbered
<1>13. ASSUME NEW m \in Instance, O!Start(m)
       PROVE  RelayInv'
  BY <1>13 DEF O!Start, O!dbVars, O!bounds, O!TypeOK, RowsNumbered
<1>14. CASE UNCHANGED O!vars
  BY <1>14 DEF O!vars, O!TypeOK, RowsNumbered
<1> QED
  BY <1>1, <1>2, <1>3, <1>5, <1>6, <1>7, <1>8, <1>9, <1>10, <1>11, <1>12, <1>13, <1>14
  DEF O!Next, O!Step

LEMMA RelaysTyped == O!Spec => []RelayInv
<1>1. O!Init => RelayInv
  <2>1. O!Cardinality(Call) \in Nat
    BY FS_CardinalityType, SameCardinality, RelaysAssumption
  <2>2. O!Init => /\ batch \in [Instance -> Seq(Call)]
                  /\ \A m \in Instance : Len(batch[m]) <= BatchSize /\ batch[m] = <<>>
    BY BatchSizeAssumption DEF O!Init
  <2>3. O!Init => /\ tx \in [Call -> {"none", "open", "committed", "rolled_back"}]
                  /\ id \in [Call -> 0..O!Cardinality(Call)]
                  /\ copies \in [Call -> Nat]
    BY <2>1 DEF O!Init
  <2>4. O!Init => relayFaults \in 0..MaxRelayFaults /\ stops \in 0..MaxStops
    BY RelaysAssumption DEF O!Init
  <2> QED BY <2>2, <2>3, <2>4 DEF O!Init, RelayInv, O!TypeOK, RowsNumbered
<1>2. RelayInv /\ [O!Next]_(O!vars) => RelayInv'
  BY RelayTypeStep
<1> QED BY <1>1, <1>2, PTL DEF O!Spec

-------------------------------------------------------------------------------

\* Type correctness of the service: the tables, the locals of the calls, the loops
\* and the relays of all its instances.
THEOREM TypeCorrect == Spec => []TypeOK
<1>1. CallInv /\ LoopInv /\ RelayInv => TypeOK
  <2> SUFFICES ASSUME CallInv, LoopInv, RelayInv PROVE TypeOK
    OBVIOUS
  <2>1. [r \in Appraisal |-> row[r].status]
          \in [Appraisal -> {"absent", "in_progress", "completed"}]
    BY DEF CallInv, A!TypeOK, A!Row
  <2>2. C!TypeOK
    BY <2>1 DEF LoopInv, LoopTypeOK, C!TypeOK
  <2> QED BY <2>2 DEF CallInv, RelayInv, TypeOK
<1> QED BY <1>1, ComponentsCompose, CallsTyped, LoopsTyped, RelaysTyped, PTL
===============================================================================
