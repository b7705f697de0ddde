------------------------------ MODULE Appraisals ------------------------------
(***************************************************************************)
(* The appraisal aggregate of review-service: the tables `appraisals`,     *)
(* `comparables` and `outbox`, and the calls of the HTTP API that write    *)
(* them (internal/service/appraisal.go over internal/repository/           *)
(* postgres.go).  Calls run in concurrent goroutines and share nothing but *)
(* the database, so a call is a program counter, the row it read and one   *)
(* action for each SQL statement it sends.                                 *)
(*                                                                         *)
(* The data is abstract.  A column holds the call whose value it is, so    *)
(* two calls never write the same value.  `updated_at` only ever meets     *)
(* another `updated_at` of its row in an equality, so a stamp is a number. *)
(*                                                                         *)
(* PostgreSQL is external and runs every statement at READ COMMITTED.  An  *)
(* UPDATE evaluates its WHERE on the newest version of the row and locks   *)
(* it, hence one step; INSERT ... WHERE EXISTS reads the other table in    *)
(* the statement's snapshot and commits later, hence two.                  *)
(***************************************************************************)
EXTENDS Naturals, FiniteSets

CONSTANTS
  Appraisal,      \* appraisal ids; request_id is UNIQUE, so requests as well
  Call,           \* calls of the HTTP API; each is made once
  Kinds,          \* the kinds of calls the clients make
  Patches,        \* the sets of fields an update call may carry
  NumAnalogs,     \* analogs of one calculation (4 in the code)
  DistinctStamps, \* TRUE: time.Now() never gives one row the same microsecond twice
  MaxFaults,      \* bound on failed statements and process crashes
  NULL

Kind == {"update", "report", "add", "delete", "complete", "apply"}

PatchField == {"appraiser_id", "notes", "market_value"}
Field == PatchField \cup {"report_s3_key", "calculation_data"}

ASSUME KindsAssumption == Kinds \subseteq Kind
ASSUME PatchesAssumption == Patches \subseteq SUBSET PatchField
ASSUME NumAnalogsAssumption == NumAnalogs \in Nat \ {0}
ASSUME MaxFaultsAssumption == MaxFaults \in Nat
ASSUME DistinctStampsAssumption == DistinctStamps \in BOOLEAN
ASSUME NullAssumption == NULL \notin Call

VARIABLES
  row,         \* appraisals: one row per appraisal, "absent" until created
  comparables, \* comparables: the set of rows
  outbox,      \* outbox: the report.ready events written
  pc,          \* where each call is, or how it was answered
  op,          \* what each call was asked to do
  seen,        \* the row a call in flight has read
  old,         \* apply: comparables of the snapshot still to be deleted
  next,        \* apply: number of the next analog to be added
  faults       \* failed statements and crashes so far

vars == <<row, comparables, outbox, pc, op, seen, old, next, faults>>
dbVars == <<row, comparables, outbox>>

-------------------------------------------------------------------------------
(* Types. *)

Stamp == Nat

\* Stamp 0 in completedAt is SQL NULL; the first stamp of a row is 1.
Row == [status      : {"absent", "in_progress", "completed"},
        fields      : [Field -> Call \cup {NULL}],
        completedAt : Stamp,
        updatedAt   : Stamp]

NoRow == [status |-> "absent", fields |-> [f \in Field |-> NULL],
          completedAt |-> 0, updatedAt |-> 0]

\* A comparable is identified by the call that inserted it: number 0 for a
\* comparable added by hand, the analog's number for one that apply added.
Comparable == [appraisal : Appraisal, by : Call, no : 0..NumAnalogs]

\* report.ready: the envelope and the data the properties tell apart.
Event == [by          : Call,
          appraisal   : Appraisal,
          appraiser   : Call \cup {NULL},
          report      : Call \cup {NULL},
          completedAt : Stamp]

\* What a call asks for; nothing until it has read its appraisal.
Request == [kind   : Kinds,
            target : Appraisal,
            patch  : SUBSET PatchField,
            victim : Comparable \cup {NULL}]

NoRequest == [kind |-> "none", target |-> NULL, patch |-> {}, victim |-> NULL]

Outcome == {"ok", "not_found", "conflict", "invalid_status", "not_calculated",
            "error", "lost"}
Running == {"listing", "loaded", "deleting", "adding", "inserting", "replying"}

Completed(a) == row[a].status = "completed"

-------------------------------------------------------------------------------
(* How a call ends. *)

Fault == faults < MaxFaults /\ faults' = faults + 1

\* The handler returns and its locals are gone.
Return(c, outcome) ==
  /\ pc' = [pc EXCEPT ![c] = outcome]
  /\ seen' = [seen EXCEPT ![c] = NoRow]
  /\ old' = [old EXCEPT ![c] = {}]
  /\ next' = [next EXCEPT ![c] = 0]

\* The last statement of a call has run.  Its reply reaches the service, or is
\* lost and the call answers 500 although the statement took effect.
Answer(c, outcome) ==
  \/ Return(c, outcome) /\ UNCHANGED faults
  \/ Return(c, "error") /\ Fault

\* The call goes on to its next statement.
Continue(c, label) ==
  /\ pc' = [pc EXCEPT ![c] = label]
  /\ UNCHANGED <<seen, faults>>

-------------------------------------------------------------------------------
(* A row appears when the request enters its appraisal stage. *)

Fresh == [NoRow EXCEPT !.status = "in_progress", !.updatedAt = 1]

\* Mutant: ON CONFLICT (request_id) DO UPDATE.
CreateOrReset(a) == TRUE

\* ON CONFLICT (request_id) DO NOTHING
CreateGuard(a) == row[a].status = "absent"

CreateFromRequest(a) ==
  /\ CreateGuard(a)
  /\ row' = [row EXCEPT ![a] = Fresh]
  /\ UNCHANGED <<comparables, outbox, pc, op, seen, old, next, faults>>

-------------------------------------------------------------------------------
(* Every call starts with GetByID: the SELECT of the row, the check of its *)
(* status, and a second SELECT for its comparables, which only apply uses. *)

Requests ==
  {r \in [kind   : Kinds,
          target : Appraisal,
          patch  : Patches \cup {{}},
          victim : comparables \cup {NULL}] :
     /\ IF r.kind = "update" THEN r.patch \in Patches ELSE r.patch = {}
     /\ (r.kind = "delete") = (r.victim # NULL)}

\* Mutant: the status is not checked.
NoStatusCheck(a) == TRUE

StatusCheck(a) == row[a].status = "in_progress"

Load(c) ==
  /\ pc[c] = "idle"
  /\ \E r \in Requests :
       /\ op' = [op EXCEPT ![c] = r]
       /\ \/ /\ row[r.target].status = "absent"
             /\ Return(c, "not_found")
          \/ /\ row[r.target].status # "absent"
             /\ ~StatusCheck(r.target)
             /\ Return(c, "invalid_status")
          \/ /\ row[r.target].status # "absent"
             /\ StatusCheck(r.target)
             /\ pc' = [pc EXCEPT ![c] = IF r.kind = "apply" THEN "listing" ELSE "loaded"]
             /\ seen' = [seen EXCEPT ![c] = row[r.target]]
             /\ UNCHANGED <<old, next>>
  /\ UNCHANGED <<dbVars, faults>>

\* One request of the store or of the object storage fails: 500.
FailStatement(c) ==
  /\ pc[c] \in {"idle", "listing", "loaded"}
  /\ Return(c, "error")
  /\ Fault
  /\ UNCHANGED <<dbVars, op>>

-------------------------------------------------------------------------------
(* The calls that write the row under the optimistic lock: UPDATE ... WHERE *)
(* id = $7 AND updated_at = $8.  The statement writes every column it       *)
(* names: those the call does not change get the value the call has read.   *)

\* Mutant: the UPDATE leaves updated_at alone.
KeepStamp(c) == {row[op[c].target].updatedAt}

\* time.Now() taken after the row was read.  While no two readings are equal, only
\* that matters and the stamp is the number of the write.  Otherwise it is later
\* than the stamp read, and may be one that another writer of the row has used.
Stamps(c) ==
  LET newest == row[op[c].target].updatedAt + 1
  IN  IF DistinctStamps THEN {newest} ELSE (seen[c].updatedAt + 1) .. newest

Writes(r) == CASE r.kind = "update" -> r.patch
               [] r.kind = "report" -> {"report_s3_key"}
               [] r.kind = "apply"  -> {"market_value", "calculation_data"}
               [] OTHER             -> {}

\* Mutant: WHERE id = $7.
NoLock(c) == TRUE

LockHolds(c) == row[op[c].target].updatedAt = seen[c].updatedAt

Patched(c) == [f \in Field |-> IF f \in Writes(op[c]) THEN c ELSE seen[c].fields[f]]

\* postgresRepository.Update when it matches the row.
WriteRow(c) ==
  /\ LockHolds(c)
  /\ \E t \in Stamps(c) :
       row' = [row EXCEPT ![op[c].target].fields = Patched(c),
                          ![op[c].target].updatedAt = t]
  /\ UNCHANGED <<comparables, outbox, op>>

\* ... and when it matches no row: ErrConflict, 409.
Conflict(c) ==
  /\ ~LockHolds(c)
  /\ Answer(c, "conflict")
  /\ UNCHANGED <<dbVars, op>>

\* PATCH /appraisals/:id and POST /appraisals/:id/report
Update(c) ==
  /\ pc[c] = "loaded"
  /\ op[c].kind \in {"update", "report"}
  /\ \/ WriteRow(c) /\ Answer(c, "ok")
     \/ Conflict(c)

-------------------------------------------------------------------------------
(* POST /appraisals/:id/complete: one transaction sets the status under a  *)
(* guard on the status, not on updated_at, and writes the event built from *)
(* the row read before it.                                                 *)

\* Mutant: WHERE id = $3.
CompleteAgain(c) == TRUE

CompleteGuard(c) == row[op[c].target].status = "in_progress"

ReportReady(c, t) == [by          |-> c,
                      appraisal   |-> op[c].target,
                      appraiser   |-> seen[c].fields["appraiser_id"],
                      report      |-> seen[c].fields["report_s3_key"],
                      completedAt |-> t]

\* The UPDATE matched: the event is inserted and the transaction commits.
CommitCompletion(c) ==
  /\ CompleteGuard(c)
  /\ \E t \in Stamps(c) :
       /\ row' = [row EXCEPT ![op[c].target].status = "completed",
                             ![op[c].target].completedAt = t,
                             ![op[c].target].updatedAt = t]
       /\ outbox' = outbox \cup {ReportReady(c, t)}
  /\ Answer(c, "ok")
  /\ UNCHANGED <<comparables, op>>

\* Mutant: the event is written in a statement of its own, whatever matched.
EventWithoutCompletion(c) ==
  /\ ~CompleteGuard(c)
  /\ outbox' = outbox \cup {ReportReady(c, seen[c].updatedAt + 1)}
  /\ Answer(c, "conflict")
  /\ UNCHANGED <<row, comparables, op>>

\* It matched no row: ErrConflict, and the transaction rolls back.
RollBackCompletion(c) ==
  /\ ~CompleteGuard(c)
  /\ Answer(c, "conflict")
  /\ UNCHANGED <<dbVars, op>>

Complete(c) ==
  /\ pc[c] = "loaded"
  /\ op[c].kind = "complete"
  /\ CommitCompletion(c) \/ RollBackCompletion(c)

-------------------------------------------------------------------------------
(* Comparables. *)

\* INSERT ... WHERE EXISTS (SELECT 1 ... AND status = 'in_progress')
InsertGuard(c) == row[op[c].target].status = "in_progress"

Inserting(c) == [appraisal |-> op[c].target, by |-> c, no |-> next[c]]

\* Mutant: the loop runs once too often.
OneAnalogTooMany(c) ==
  /\ pc' = [pc EXCEPT ![c] = IF next[c] <= NumAnalogs THEN "adding" ELSE "replying"]
  /\ next' = [next EXCEPT ![c] = IF next[c] <= NumAnalogs THEN next[c] + 1 ELSE next[c]]
  /\ UNCHANGED <<seen, old>>

\* apply goes on to its next analog, or to the GetByID that ends it.
NextAnalog(c) ==
  /\ pc' = [pc EXCEPT ![c] = IF next[c] < NumAnalogs THEN "adding" ELSE "replying"]
  /\ next' = [next EXCEPT ![c] = IF next[c] < NumAnalogs THEN next[c] + 1 ELSE next[c]]
  /\ UNCHANGED <<seen, old>>

\* The insert takes its snapshot and evaluates the guard.  apply calls the
\* whole of AddComparable: its GetByID check is weaker than the guard here.
BeginInsert(c) ==
  /\ \/ pc[c] = "loaded" /\ op[c].kind = "add"
     \/ pc[c] = "adding"
  /\ \/ InsertGuard(c) /\ Continue(c, "inserting") /\ UNCHANGED <<old, next>>
     \/ ~InsertGuard(c) /\ op[c].kind = "add" /\ Answer(c, "invalid_status")
     \/ ~InsertGuard(c) /\ op[c].kind = "apply" /\ NextAnalog(c) /\ UNCHANGED faults
  /\ UNCHANGED <<dbVars, op>>

\* The insert commits.  Its foreign key locks the appraisal FOR KEY SHARE,
\* which no UPDATE of a non-key column waits for.
CommitInsert(c) ==
  /\ pc[c] = "inserting"
  /\ comparables' = comparables \cup {Inserting(c)}
  /\ \/ op[c].kind = "add" /\ Answer(c, "ok")
     \/ op[c].kind = "apply" /\ NextAnalog(c) /\ UNCHANGED faults
  /\ UNCHANGED <<row, outbox, op>>

\* The insert fails: an add answers 500, apply ignores it.
FailInsert(c) ==
  /\ pc[c] \in {"adding", "inserting"}
  /\ Fault
  /\ \/ op[c].kind = "add" /\ Return(c, "error")
     \/ op[c].kind = "apply" /\ NextAnalog(c)
  /\ UNCHANGED <<dbVars, op>>

\* Mutant: DELETE FROM comparables WHERE id = $1.
DeleteAnyones(c) == op[c].victim \in comparables

\* DELETE FROM comparables WHERE id = $1 AND appraisal_id = $2
DeleteGuard(c) ==
  op[c].victim \in {x \in comparables : x.appraisal = op[c].target}

DeleteComparable(c) ==
  /\ pc[c] = "loaded"
  /\ op[c].kind = "delete"
  /\ \/ /\ DeleteGuard(c)
        /\ comparables' = comparables \ {op[c].victim}
        /\ Answer(c, "ok")
     \/ /\ ~DeleteGuard(c)
        /\ UNCHANGED comparables
        /\ Answer(c, "not_found")
  /\ UNCHANGED <<row, outbox, op>>

-------------------------------------------------------------------------------
(* POST /appraisals/:id/calculate-apartment: calculate, write the          *)
(* row under the lock, then replace the comparables one statement at a     *)
(* time, ignoring every error.                                             *)

ListComparables(c) ==
  /\ pc[c] = "listing"
  /\ old' = [old EXCEPT ![c] = {x \in comparables : x.appraisal = op[c].target}]
  /\ Continue(c, "loaded")
  /\ UNCHANGED <<dbVars, op, next>>

\* The calculation refuses its input.
NotCalculated(c) ==
  /\ pc[c] = "loaded"
  /\ op[c].kind = "apply"
  /\ Return(c, "not_calculated")
  /\ UNCHANGED <<dbVars, op, faults>>

ApplyCalculation(c) ==
  /\ pc[c] = "loaded"
  /\ op[c].kind = "apply"
  /\ \/ /\ WriteRow(c)
        /\ \/ /\ Continue(c, IF old[c] = {} THEN "adding" ELSE "deleting")
              /\ next' = [next EXCEPT ![c] = 1]
              /\ UNCHANGED old
           \/ Return(c, "error") /\ Fault
     \/ Conflict(c)

\* The delete takes effect, or fails and apply ignores it.
DeleteOld(c) ==
  /\ pc[c] = "deleting"
  /\ \E x \in old[c] :
       /\ \/ comparables' = comparables \ {x} /\ UNCHANGED faults
          \/ UNCHANGED comparables /\ Fault
       /\ old' = [old EXCEPT ![c] = @ \ {x}]
       /\ pc' = [pc EXCEPT ![c] = IF old[c] = {x} THEN "adding" ELSE "deleting"]
  /\ UNCHANGED <<row, outbox, op, seen, next>>

\* The GetByID that ends apply; the comparables are part of its answer.
ReplyApplied(c) ==
  /\ pc[c] = "replying"
  /\ Answer(c, "ok")
  /\ UNCHANGED <<dbVars, op>>

-------------------------------------------------------------------------------
(* A process dies with its goroutines; the database stays. *)

InFlight == {c \in Call : pc[c] \in Running}

\* The calls of one instance of the service are lost.
Lose(calls) ==
  /\ Fault
  /\ pc' = [c \in Call |-> IF c \in calls THEN "lost" ELSE pc[c]]
  /\ seen' = [c \in Call |-> IF c \in calls THEN NoRow ELSE seen[c]]
  /\ old' = [c \in Call |-> IF c \in calls THEN {} ELSE old[c]]
  /\ next' = [c \in Call |-> IF c \in calls THEN 0 ELSE next[c]]
  /\ UNCHANGED <<dbVars, op>>

Crash == \E calls \in SUBSET InFlight : calls # {} /\ Lose(calls)

-------------------------------------------------------------------------------

Init ==
  /\ row = [a \in Appraisal |-> NoRow]
  /\ comparables = {}
  /\ outbox = {}
  /\ pc = [c \in Call |-> "idle"]
  /\ op = [c \in Call |-> NoRequest]
  /\ seen = [c \in Call |-> NoRow]
  /\ old = [c \in Call |-> {}]
  /\ next = [c \in Call |-> 0]
  /\ faults = 0

Step(c) ==
  \/ Load(c)
  \/ FailStatement(c)
  \/ Update(c)
  \/ Complete(c)
  \/ BeginInsert(c)
  \/ CommitInsert(c)
  \/ FailInsert(c)
  \/ DeleteComparable(c)
  \/ ListComparables(c)
  \/ NotCalculated(c)
  \/ ApplyCalculation(c)
  \/ DeleteOld(c)
  \/ ReplyApplied(c)

Next ==
  \/ \E a \in Appraisal : CreateFromRequest(a)
  \/ \E c \in Call : Step(c)
  \/ Crash

Spec == Init /\ [][Next]_vars

-------------------------------------------------------------------------------
(* Properties. *)

TypeOK ==
  /\ row \in [Appraisal -> Row]
  /\ comparables \subseteq Comparable
  /\ outbox \subseteq Event
  /\ pc \in [Call -> {"idle"} \cup Running \cup Outcome]
  /\ op \in [Call -> Request \cup {NoRequest}]
  /\ seen \in [Call -> Row]
  /\ old \in [Call -> SUBSET Comparable]
  /\ next \in [Call -> 0..NumAnalogs]
  /\ faults \in 0..MaxFaults

\* An appraisal is completed exactly when one report.ready of it is in the
\* outbox, with the moment the row says: neither a lost reply of the commit, nor
\* a crash, nor two racing completions give none or two (postgres.go, Complete).
OneEventPerCompletion ==
  \A a \in Appraisal :
    /\ Completed(a) <=> \E e \in outbox : e.appraisal = a
    /\ \A e \in outbox : e.appraisal = a => e.completedAt = row[a].completedAt
    /\ \A e, f \in outbox : e.appraisal = a /\ f.appraisal = a => e = f

\* A completed row never changes again: not by a call that read it while it was
\* in progress, not by a redelivered creation event.  With equal stamps it does.
FrozenRow == [][\A a \in Appraisal : Completed(a) => row'[a] = row[a]]_vars

\* A column changes only by a call that was asked to change it and that read the
\* row as it is: no accepted patch is undone by a writer that had not seen it,
\* although every UPDATE writes all the columns.
NoLostUpdate ==
  [][\A a \in Appraisal, f \in Field :
       row'[a].fields[f] # row[a].fields[f] =>
         \E c \in Call : /\ row'[a].fields[f] = c
                         /\ op[c].target = a
                         /\ f \in Writes(op[c])
                         /\ seen[c] = row[a]]_vars

\* A call in flight whose stamp still matches holds the row as it is, its status
\* included, so what its UPDATE writes back to the columns it does not change is
\* what they contain: the equality of two stamps stands for that of two rows.
SnapshotIsCurrent ==
  \A c \in Call : pc[c] \in {"listing", "loaded"} =>
    LET r == row[op[c].target]
    IN  seen[c].updatedAt = r.updatedAt => seen[c] = r

Rejected == {"not_found", "conflict", "invalid_status", "not_calculated"}

LeftTrace(c) ==
  \/ \E a \in Appraisal, f \in Field : row[a].fields[f] = c
  \/ \E x \in comparables : x.by = c
  \/ \E e \in outbox : e.by = c

\* A call answered with a 4xx has changed nothing: no column, no comparable and
\* no event is its, whatever ran between its check and its statement.
RejectedLeavesNoTrace ==
  \A c \in Call : pc[c] \in Rejected => ~LeftTrace(c)

\* d is asked to remove the comparable, or all those of its appraisal.
MayRemove(d, x) ==
  /\ op[d].target = x.appraisal
  /\ op[d].kind = "apply" \/ (op[d].kind = "delete" /\ op[d].victim = x)

\* What a 2xx has promised holds from then on: a completion has its row and its
\* event, a deleted comparable never comes back, an added one stays until some
\* call is asked to remove it.
AcknowledgedIsKept ==
  \A c \in Call : pc[c] = "ok" =>
    LET a == op[c].target
    IN  CASE op[c].kind = "complete" -> /\ Completed(a)
                                        /\ \E e \in outbox : e.by = c /\ e.appraisal = a
          [] op[c].kind = "delete"   -> op[c].victim \notin comparables
          [] op[c].kind = "add"      ->
               LET x == [appraisal |-> a, by |-> c, no |-> 0]
               IN  x \in comparables \/ \E d \in Call : MayRemove(d, x)
          [] OTHER                   -> TRUE

-------------------------------------------------------------------------------
(* The row and its event implement the atomic lifecycle. *)

Lifecycle ==
  INSTANCE AppraisalLifecycle WITH
    Author    <- Call,
    status    <- [a \in Appraisal |-> row[a].status],
    content   <- [a \in Appraisal |-> row[a].fields],
    announced <- {<<e.appraisal, e.by>> : e \in outbox}

\* The concurrent calls over the database behave as atomic edits and one atomic
\* completion: each write of a whole stale-able row is an edit of its own fields.
RefinesLifecycle == Lifecycle!Spec

-------------------------------------------------------------------------------
(* Claims of the repository that the code does not keep. *)

\* README.md:31: the comparables of a completed appraisal are frozen.  DELETE
\* has no guard on the status, so a completion after the check does not stop it.
NoDeleteFromCompleted ==
  [][\A x \in comparables : Completed(x.appraisal) => x \in comparables']_vars

\* postgres.go:180: the guarded insert cannot reach a completed appraisal.  Its
\* EXISTS reads a snapshot, and the completion may commit before the insert.
NoInsertIntoCompleted ==
  [][\A x \in comparables' : Completed(x.appraisal) => x \in comparables]_vars

\* events.go:43: report.ready describes the completed appraisal.  It is built
\* from the row read before the guarded UPDATE.
EventMatchesRow ==
  \A e \in outbox :
    /\ e.report = row[e.appraisal].fields["report_s3_key"]
    /\ e.appraiser = row[e.appraisal].fields["appraiser_id"]

\* service/appraisal.go:313: apply syncs the comparables with the calculation, for
\* the consistency of the report.  Once every call has returned, and nothing failed,
\* the analogs among the comparables of an appraisal are those of the calculation
\* in its row, all of them and no other.
ComparablesMatchCalculation ==
  (faults = 0 /\ \A c \in Call : pc[c] \notin Running) =>
    \A a \in Appraisal :
      {x \in comparables : x.appraisal = a /\ x.no # 0} =
        {[appraisal |-> a, by |-> c, no |-> n] :
           c \in {row[a].fields["calculation_data"]} \ {NULL}, n \in 1..NumAnalogs}
===============================================================================
