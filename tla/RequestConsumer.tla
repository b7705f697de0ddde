---------------------------- MODULE RequestConsumer ----------------------------
(***************************************************************************)
(* The consumer of request.events: it creates an appraisal for a request   *)
(* that enters its appraisal stage (internal/kafka/consumer.go, with the   *)
(* deduplication of internal/dedup/redis.go and the loop's place in        *)
(* cmd/server/main.go).  Every instance of the service runs one loop; they *)
(* form a consumer group and share the database and Redis.                 *)
(*                                                                         *)
(* Kafka is external: a partition is a log of which a prefix is committed, *)
(* the group gives it to one instance whose process runs, and a new owner  *)
(* starts after the committed prefix.  One partition is modelled: others   *)
(* would be independent copies of it over the same store.                  *)
(***************************************************************************)
EXTENDS Naturals, Sequences

CONSTANTS
  Instance,   \* instances of the service, members of the consumer group
  EventId,
  Request,
  Record,     \* what request-service may publish
  MaxLog,     \* bound on the length of the log
  MaxFaults   \* bound on failed calls, stopped processes and rebalances

\* creates is FALSE for all that is committed unprocessed: another event type
\* or status, malformed JSON, no event_id.  An event_id names one event.
ASSUME RecordAssumption ==
  /\ Record \subseteq [id : EventId, request : Request, creates : BOOLEAN]
  /\ \A r, s \in Record : r.id = s.id => r = s
ASSUME MaxLogAssumption == MaxLog \in Nat
ASSUME MaxFaultsAssumption == MaxFaults \in Nat

VARIABLES
  log,        \* the partition
  committed,  \* offset of the group: records before it are done with
  owner,      \* the instance that holds the partition
  pc,         \* where the loop of each instance is
  position,   \* records the reader of each instance has fetched
  offset,     \* the record an instance is working on
  marked,     \* event ids in Redis
  appraisal,  \* status of each request's row in appraisals
  faults

vars == <<log, committed, owner, pc, position, offset, marked, appraisal, faults>>
readerVars == <<committed, owner, position, offset>>

\* "failed": Run has returned an error.  main logs it and the process goes on,
\* its reader still open and still a member of the group.
Label == {"down", "fetching", "checking", "creating", "marking", "committing", "failed"}
Alive(m) == pc[m] # "down"

Working(m) == log[offset[m]]

-------------------------------------------------------------------------------

Init ==
  /\ log = <<>>
  /\ committed = 0
  /\ owner \in Instance
  /\ pc = [m \in Instance |-> "fetching"]
  /\ position = [m \in Instance |-> 0]
  /\ offset = [m \in Instance |-> 0]
  /\ marked = {}
  /\ appraisal = [r \in Request |-> "absent"]
  /\ faults = 0

Goto(m, label) == pc' = [pc EXCEPT ![m] = label]

Fault == faults < MaxFaults /\ faults' = faults + 1

\* request-service publishes at least once: a record may come again.
Publish ==
  /\ Len(log) < MaxLog
  /\ \E r \in Record : log' = Append(log, r)
  /\ UNCHANGED <<readerVars, pc, marked, appraisal, faults>>

-------------------------------------------------------------------------------
(* The loop: Run and process. *)

\* Mutant: new_status is not looked at.
EveryStatus(r) == TRUE

\* What process looks at before it asks Redis.
Relevant(r) == r.creates

\* Mutant: ReadMessage, which commits what it hands out.
ReadAndCommit(m) ==
  /\ pc[m] = "fetching"
  /\ owner = m
  /\ position[m] < Len(log)
  /\ position' = [position EXCEPT ![m] = @ + 1]
  /\ offset' = [offset EXCEPT ![m] = position[m] + 1]
  /\ committed' = position[m] + 1
  /\ Goto(m, IF Relevant(log[position[m] + 1]) THEN "checking" ELSE "committing")
  /\ UNCHANGED <<log, owner, marked, appraisal, faults>>

\* Mutant: a message that is skipped is an error.
PoisonMessage(m) ==
  /\ pc[m] = "fetching"
  /\ owner = m
  /\ position[m] < Len(log)
  /\ position' = [position EXCEPT ![m] = @ + 1]
  /\ offset' = [offset EXCEPT ![m] = position[m] + 1]
  /\ Goto(m, IF Relevant(log[position[m] + 1]) THEN "checking" ELSE "failed")
  /\ UNCHANGED <<log, committed, owner, marked, appraisal, faults>>

Fetch(m) ==
  /\ pc[m] = "fetching"
  /\ owner = m
  /\ position[m] < Len(log)
  /\ position' = [position EXCEPT ![m] = @ + 1]
  /\ offset' = [offset EXCEPT ![m] = position[m] + 1]
  /\ Goto(m, IF Relevant(log[position[m] + 1]) THEN "checking" ELSE "committing")
  /\ UNCHANGED <<log, committed, owner, marked, appraisal, faults>>

\* Mutant: the check claims the key (SET NX).
CheckAndClaim(m) ==
  /\ pc[m] = "checking"
  /\ Goto(m, IF Working(m).id \in marked THEN "committing" ELSE "creating")
  /\ marked' = marked \cup {Working(m).id}
  /\ UNCHANGED <<log, readerVars, appraisal, faults>>

\* dedup.Seen: EXISTS of the event's key.
CheckSeen(m) ==
  /\ pc[m] = "checking"
  /\ Goto(m, IF Working(m).id \in marked THEN "committing" ELSE "creating")
  /\ UNCHANGED <<log, readerVars, marked, appraisal, faults>>

\* Mutant: ON CONFLICT (request_id) DO UPDATE.
Upsert(m) ==
  /\ appraisal' = [appraisal EXCEPT ![Working(m).request] = "in_progress"]
  /\ UNCHANGED marked

\* CreateFromRequest: INSERT ... ON CONFLICT (request_id) DO NOTHING.
Create(m) ==
  /\ appraisal' = [appraisal EXCEPT ![Working(m).request] =
                     IF @ = "absent" THEN "in_progress" ELSE @]
  /\ UNCHANGED marked

\* dedup.Mark: SET of the key, after the create.
Mark(m) ==
  /\ marked' = marked \cup {Working(m).id}
  /\ UNCHANGED appraisal

CreateFromRequest(m) ==
  /\ pc[m] = "creating"
  /\ Create(m)
  /\ Goto(m, "marking")
  /\ UNCHANGED <<log, readerVars, faults>>

MarkSeen(m) ==
  /\ pc[m] = "marking"
  /\ Mark(m)
  /\ Goto(m, "committing")
  /\ UNCHANGED <<log, readerVars, faults>>

\* Mutant: the offset of the next record but one.
CommitPast(m) == committed' = offset[m] + 1

\* CommitMessages.  An instance that has lost the partition meanwhile may still
\* move the offset of the group, back as well as forth, or be fenced off.
CommitOffset(m) == committed' = offset[m]

Commit(m) ==
  /\ pc[m] = "committing"
  /\ \/ CommitOffset(m) /\ Goto(m, "fetching")
     \/ owner # m /\ UNCHANGED committed /\ Goto(m, "fetching")
     \/ owner # m /\ UNCHANGED committed /\ Goto(m, "failed")
  /\ UNCHANGED <<log, owner, position, offset, marked, appraisal, faults>>

\* A call fails, before or after it took effect: Run returns the error.
Fail(m) ==
  /\ pc[m] \in Label \ {"down", "failed"}
  /\ Fault
  /\ Goto(m, "failed")
  /\ \/ UNCHANGED <<committed, marked, appraisal>>
     \/ pc[m] = "creating" /\ Create(m) /\ UNCHANGED committed
     \/ pc[m] = "marking" /\ Mark(m) /\ UNCHANGED committed
     \/ pc[m] = "committing" /\ CommitOffset(m) /\ UNCHANGED <<marked, appraisal>>
  /\ UNCHANGED <<log, owner, position, offset>>

Step(m) == Fetch(m) \/ CheckSeen(m) \/ CreateFromRequest(m) \/ MarkSeen(m) \/ Commit(m)

-------------------------------------------------------------------------------
(* Processes, the consumer group, Redis and the rest of the service. *)

\* The process dies or is shut down, wherever its loop is.
Stop(m) ==
  /\ Alive(m)
  /\ Fault
  /\ Goto(m, "down")
  /\ UNCHANGED <<log, readerVars, marked, appraisal>>

\* The group gives the partition away; its reader starts at the offset.
Assign(m) ==
  /\ Alive(m)
  /\ owner' = m
  /\ position' = [position EXCEPT ![m] = committed]
  /\ UNCHANGED <<log, committed, offset, pc, marked, appraisal>>

\* ... because its owner is gone,
TakeOver(m) ==
  /\ ~Alive(owner)
  /\ Assign(m)
  /\ UNCHANGED faults

\* ... or on a missed heartbeat.
Rebalance(m) ==
  /\ Alive(owner)
  /\ Assign(m)
  /\ Fault

\* A stopped process, or one whose loop has failed, is started again.
Restart(m) ==
  /\ pc[m] \in {"down", "failed"}
  /\ Goto(m, "fetching")
  /\ position' = [position EXCEPT ![m] = committed]
  /\ UNCHANGED <<log, committed, owner, offset, marked, appraisal, faults>>

\* The TTL of a key (48h).
Expire ==
  /\ \E e \in marked : marked' = marked \ {e}
  /\ UNCHANGED <<log, readerVars, pc, appraisal, faults>>

\* An appraiser completes the appraisal (module Appraisals).
CompleteAppraisal(r) ==
  /\ appraisal[r] = "in_progress"
  /\ appraisal' = [appraisal EXCEPT ![r] = "completed"]
  /\ UNCHANGED <<log, readerVars, pc, marked, faults>>

Next ==
  \/ Publish
  \/ \E m \in Instance : \/ Step(m)
                         \/ Fail(m)
                         \/ Stop(m)
                         \/ TakeOver(m)
                         \/ Rebalance(m)
                         \/ Restart(m)
  \/ Expire
  \/ \E r \in Request : CompleteAppraisal(r)

Spec == Init /\ [][Next]_vars

\* Go runs the loop, and the coordinator gives an orphaned partition away.
RunFairness ==
  /\ \A m \in Instance : WF_vars(Step(m))
  /\ WF_vars(\E m \in Instance : TakeOver(m))

\* What the code provides: a loop that has failed stays so.
CodeSpec == Spec /\ RunFairness

\* With an operator who starts again what stopped, the failed loops included.
OperatedSpec == CodeSpec /\ \A m \in Instance : WF_vars(Restart(m))

-------------------------------------------------------------------------------
(* Properties. *)

TypeOK ==
  /\ log \in Seq(Record)
  /\ committed \in 0..Len(log)
  /\ owner \in Instance
  /\ pc \in [Instance -> Label]
  /\ position \in [Instance -> 0..Len(log)]
  /\ offset \in [Instance -> 0..Len(log)]
  /\ marked \subseteq EventId
  /\ appraisal \in [Request -> {"absent", "in_progress", "completed"}]
  /\ faults \in 0..MaxFaults

Asks(r) == \E i \in 1..Len(log) : log[i].creates /\ log[i].request = r

\* No request is dropped: behind the committed offset every event that asks for
\* an appraisal has it, whoever committed, whatever failed, expired or was
\* delivered twice (the order check, create, mark, commit of process and Run).
NothingDropped ==
  \A i \in 1..committed : log[i].creates => appraisal[log[i].request] # "absent"

\* A key in Redis is never a promise: its event has been processed.  Marking
\* before creating would drop the event on a crash in between.
MarkedIsCreated ==
  \A r \in Record : r.creates /\ r.id \in marked => appraisal[r.request] # "absent"

\* An appraisal exists only for a request that entered the stage.
OnlyAskedFor == \A r \in Request : appraisal[r] # "absent" => Asks(r)

\* A redelivered event, its mark expired or not, leaves a completed appraisal
\* completed, and nothing takes an appraisal away.
NeverReopened ==
  [][\A r \in Request : appraisal[r] # "absent" =>
       appraisal'[r] \in {appraisal[r], "completed"}]_appraisal

\* README.md:3-4: a request that enters its appraisal stage gets an appraisal.
EveryRequestAppraised == \A r \in Request : Asks(r) ~> appraisal[r] # "absent"

\* The loop gets past every record: none, relevant or not, stops the partition
\* for good.  (The committed offset itself may stay behind: an instance that has
\* lost the partition can move it back, and the next start redelivers.)
BacklogDrains == \A n \in 1..MaxLog : Len(log) >= n ~> [](position[owner] >= n)
================================================================================
