----------------------------- MODULE ReviewService -----------------------------
(***************************************************************************)
(* review-service as a whole: the HTTP calls (Appraisals), the consumer    *)
(* loops (RequestConsumer) and the relays (OutboxRelay) of its instances   *)
(* over one database, one process each (cmd/server/main.go).               *)
(*                                                                         *)
(* Two pieces of state are shared.  The consumer's view of an appraisal is *)
(* the status of its row, and the event of a completion is the row of the  *)
(* outbox its transaction inserts, so an event has the name of its call.   *)
(* The transaction of Complete is a step in Appraisals; here it is as many *)
(* as it has statements, with the row locked from the UPDATE to its end.   *)
(***************************************************************************)
EXTENDS Naturals, Sequences, FiniteSets

CONSTANTS
  Appraisal,                                     \* one for each request
  Call, Kinds, Patches, NumAnalogs, DistinctStamps, NULL,
  Instance, EventId, Record, BatchSize,
  Host,                                          \* the instance a call is sent to
  MaxLog, MaxStops,                              \* bounds of the components, of
  MaxCallFaults, MaxLoopFaults, MaxRelayFaults   \* which each counts its faults

ASSUME HostAssumption == Host \in [Call -> Instance]
ASSUME RecordAssumption ==
  Record \subseteq [id : EventId, request : Appraisal, creates : BOOLEAN]
ASSUME BatchSizeAssumption == BatchSize \in Nat \ {0}

VARIABLES
  row, comparables, outbox, pc, op, seen, old, next, callFaults,
  log, committed, owner, loop, position, offset, marked, loopFaults,
  tx, id, published, copies, relay, batch, stopping, relayFaults, stops

callVars == <<row, comparables, outbox, pc, op, seen, old, next, callFaults>>
loopVars == <<log, committed, owner, loop, position, offset, marked, loopFaults>>
relayVars == <<tx, id, published, copies, relay, batch, stopping, relayFaults, stops>>
vars == <<callVars, loopVars, relayVars>>

A == INSTANCE Appraisals WITH
       MaxFaults <- MaxCallFaults, faults <- callFaults
C == INSTANCE RequestConsumer WITH
       Request <- Appraisal, appraisal <- [r \in Appraisal |-> row[r].status],
       pc <- loop, MaxFaults <- MaxLoopFaults, faults <- loopFaults
O == INSTANCE OutboxRelay WITH
       Event <- Call, Relay <- Instance,
       pc <- relay, MaxFaults <- MaxRelayFaults, faults <- relayFaults

\* What the components assume of the constants.
ASSUME CallsAssumption ==
  /\ Kinds \subseteq A!Kind /\ Patches \subseteq SUBSET A!PatchField
  /\ NumAnalogs \in Nat \ {0} /\ MaxCallFaults \in Nat
  /\ DistinctStamps \in BOOLEAN /\ NULL \notin Call
ASSUME LoopsAssumption == MaxLoopFaults \in Nat
ASSUME RelaysAssumption ==
  /\ IsFiniteSet(Call) /\ IsFiniteSet(Instance)
  /\ MaxRelayFaults \in Nat /\ MaxStops \in Nat

Init == A!Init /\ C!Init /\ O!Init

-------------------------------------------------------------------------------
(* HTTP calls. *)

\* Mutant: a call of one instance keeps no other from the row.
NeverLocked(r) == FALSE

\* A transaction that has updated the row and not ended.
Locked(r) == \E c \in Call : tx[c] = "open" /\ op[c].target = r

\* The instance accepts calls.
Serving(m) == relay[m] # "stopped" /\ m \notin stopping

\* A statement of a call outside of a transaction.
Statement(c) ==
  /\ tx[c] # "open"
  /\ \/ A!Load(c) /\ Serving(Host[c])
     \/ (A!Update(c) \/ A!ApplyCalculation(c)) /\ ~Locked(op[c].target)
     \/ A!Complete(c) /\ ~A!CompleteGuard(c) /\ ~Locked(op[c].target)
     \/ A!FailStatement(c)
     \/ A!BeginInsert(c)
     \/ A!CommitInsert(c)
     \/ A!FailInsert(c)
     \/ A!DeleteComparable(c)
     \/ A!ListComparables(c)
     \/ A!NotCalculated(c)
     \/ A!DeleteOld(c)
     \/ A!ReplyApplied(c)
  /\ UNCHANGED <<loopVars, relayVars>>

\* The transaction of Complete: its UPDATE matches and its event is inserted,
BeginTx(c) ==
  /\ pc[c] = "loaded"
  /\ op[c].kind = "complete"
  /\ A!CompleteGuard(c)
  /\ ~Locked(op[c].target)
  /\ O!InsertOutbox(c)
  /\ UNCHANGED <<callVars, loopVars>>

\* ... it commits,
CommitTx(c) ==
  /\ A!Complete(c) /\ A!CompleteGuard(c)
  /\ O!CommitTx(c)
  /\ UNCHANGED loopVars

\* ... a statement of it fails,
RollBackTx(c) ==
  /\ A!FailStatement(c)
  /\ O!RollBackTx(c)
  /\ UNCHANGED loopVars

\* ... or the database finds that its client is gone.
AbortTx(c) ==
  /\ pc[c] = "lost"
  /\ O!RollBackTx(c)
  /\ UNCHANGED <<callVars, loopVars>>

CallStep(c) == Statement(c) \/ BeginTx(c) \/ CommitTx(c) \/ RollBackTx(c)

-------------------------------------------------------------------------------
(* Consumer loops. *)

Requested(m) == log[offset[m]].request

\* What the insert of the consumer does to the table.
InsertAppraisal(r) ==
  \/ A!CreateFromRequest(r)
  \/ ~A!CreateGuard(r) /\ UNCHANGED callVars

LoopStep(m) ==
  /\ \/ loop[m] = "creating" /\ InsertAppraisal(Requested(m))
     \/ loop[m] # "creating" /\ UNCHANGED callVars
  /\ C!Step(m)
  /\ UNCHANGED relayVars

\* Run of the consumer returns from the call it is in.
LoopReturns(m) ==
  /\ \/ loop[m] = "creating" /\ InsertAppraisal(Requested(m))
     \/ UNCHANGED callVars
  /\ C!Fail(m)

LoopFails(m) == LoopReturns(m) /\ UNCHANGED relayVars

Environment ==
  /\ UNCHANGED <<callVars, relayVars>>
  /\ \/ C!Publish
     \/ C!Expire
     \/ \E m \in Instance : C!TakeOver(m) \/ C!Rebalance(m)

-------------------------------------------------------------------------------
(* Relays. *)

RelayStep(m) ==
  /\ \/ O!Tick(m)
     \/ O!Publish(m)
     \/ O!PublishAgain(m)
     \/ O!PublishFails(m)
     \/ O!Mark(m)
     \/ O!MarkFails(m)
     \/ O!RunReturns(m)
  /\ UNCHANGED <<callVars, loopVars>>

-------------------------------------------------------------------------------
(* Processes: what an instance runs ends together and starts together. *)

CallsAt(m) == {c \in A!InFlight : Host[c] = m}

LoseCalls(m) ==
  \/ CallsAt(m) # {} /\ A!Lose(CallsAt(m))
  \/ CallsAt(m) = {} /\ UNCHANGED callVars

Crash(m) ==
  /\ LoseCalls(m)
  /\ C!Stop(m)
  /\ \/ O!Crash(m)
     \/ relay[m] = "stopped" /\ UNCHANGED relayVars

\* A signal: it cancels the context of the consumer and of the relay, the consumer
\* at work or failed before.
Shutdown(m) ==
  /\ \/ LoopReturns(m)
     \/ loop[m] = "failed" /\ UNCHANGED <<callVars, loopVars>>
  /\ O!Shutdown(m)

\* Mutant: main starts the consumer and forgets the relay.
StartWithoutRelay(m) ==
  /\ CallsAt(m) = {}
  /\ relay[m] = "stopped"
  /\ UNCHANGED <<callVars, relayVars>>
  /\ C!Restart(m)

\* The process ends once its calls are answered, and is started again.
Start(m) ==
  /\ CallsAt(m) = {}
  /\ UNCHANGED callVars
  /\ C!Restart(m)
  /\ O!Start(m)

Next ==
  \/ \E c \in Call : CallStep(c) \/ AbortTx(c)
  \/ \E m \in Instance : \/ LoopStep(m)
                         \/ LoopFails(m)
                         \/ RelayStep(m)
                         \/ Crash(m)
                         \/ Shutdown(m)
                         \/ Start(m)
  \/ Environment

Spec == Init /\ [][Next]_vars

\* Loops and relays are scheduled, calls that run get their answers, the database
\* notices lost connections, the group hands over partitions, and an operator
\* stops what has failed and starts what is stopped.
Fairness ==
  /\ \A c \in Call : WF_vars(pc[c] # "idle" /\ CallStep(c)) /\ WF_vars(AbortTx(c))
  /\ \A m \in Instance :
       /\ WF_vars(LoopStep(m))
       /\ WF_vars(O!Tick(m) /\ UNCHANGED <<callVars, loopVars>>)
       /\ WF_vars((O!Publish(m) \/ O!PublishFails(m)) /\ UNCHANGED <<callVars, loopVars>>)
       /\ WF_vars(O!Mark(m) /\ UNCHANGED <<callVars, loopVars>>)
       /\ WF_vars(O!RunReturns(m) /\ UNCHANGED <<callVars, loopVars>>)
       /\ WF_vars(loop[m] = "failed" /\ Shutdown(m))
       /\ WF_vars(Start(m))
  /\ WF_vars(UNCHANGED <<callVars, relayVars>> /\ \E m \in Instance : C!TakeOver(m))

FairSpec == Spec /\ Fairness

-------------------------------------------------------------------------------
(* Properties. *)

TypeOK == A!TypeOK /\ C!TypeOK /\ O!TypeOK

\* The two views of the outbox agree at every moment: the events of the completed
\* rows are those of the committed transactions, and a transaction is open only
\* for an appraisal in progress.
OutboxIsOne ==
  \A c \in Call :
    /\ tx[c] = "committed" <=> \E e \in outbox : e.by = c
    /\ tx[c] = "open" => row[op[c].target].status = "in_progress"

Announced(r) == \E c \in O!Delivered : op[c].target = r

\* From review.events back to request.events: what is announced is completed and
\* was asked for, and no two different events announce it.
AnnouncedIsTrue ==
  \A c \in O!Delivered :
    LET r == op[c].target
    IN  /\ row[r].status = "completed"
        /\ C!Asks(r)
        /\ \A d \in O!Delivered : op[d].target = r => d = c

Flow ==
  INSTANCE RequestFlow WITH
    Request <- Appraisal,
    stage <- [r \in Appraisal |->
                CASE Announced(r)                   -> "announced"
                  [] row[r].status = "completed"
                     /\ ~Announced(r)               -> "completed"
                  [] row[r].status = "in_progress"
                     /\ ~Announced(r)               -> "in_progress"
                  [] row[r].status = "absent"
                     /\ C!Asks(r) /\ ~Announced(r)  -> "asked"
                  [] OTHER                          -> "none"]

\* End to end, every request goes through its stages in order and none is left
\* where the service owes the next step.
RefinesFlow == Flow!FairSpec

\* Composed, each component still is what its own module says.
RefinesComponents == A!Spec /\ C!OperatedSpec /\ O!FairSpec
================================================================================
