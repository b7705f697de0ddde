------------------------------ MODULE OutboxRelay ------------------------------
(***************************************************************************)
(* The transactional outbox and the relay that publishes it to Kafka       *)
(* (internal/outbox/relay.go, producer.go, migration 000002, and the place *)
(* of the relay in cmd/server/main.go).  Transactions of the service       *)
(* insert events; the relay of each instance of the service polls the      *)
(* committed rows, publishes them one by one and marks each.  The poll     *)
(* locks nothing, so two relays may publish the same row.                  *)
(*                                                                         *)
(* PostgreSQL and Kafka are external.  An identity value is taken when the *)
(* row is inserted and the row is visible once its transaction commits. A  *)
(* message Kafka has written may go unacknowledged; kafka.Writer then      *)
(* sends it again or gives up.                                             *)
(***************************************************************************)
EXTENDS Naturals, Sequences, FiniteSets

CONSTANTS
  Event,      \* events the service may emit, each in a transaction of its own
  Relay,      \* the relays, one in each instance of the service
  BatchSize,  \* rows of one poll (batchSize)
  MaxFaults,  \* bound on failed calls and crashes
  MaxStops    \* bound on graceful shutdowns

ASSUME EventAssumption == IsFiniteSet(Event)
ASSUME RelayAssumption == IsFiniteSet(Relay)
ASSUME BatchSizeAssumption == BatchSize \in Nat \ {0}
ASSUME MaxFaultsAssumption == MaxFaults \in Nat
ASSUME MaxStopsAssumption == MaxStops \in Nat

VARIABLES
  tx,         \* the transaction of each event
  id,         \* the identity value of its row, 0 before the insert
  published,  \* events whose published_at is set
  copies,     \* messages of each event that Kafka has written to review.events
  pc,         \* where each relay is
  batch,      \* for each relay, events of its poll still to be published
  stopping,   \* relays whose process has its context cancelled
  faults,
  stops

vars == <<tx, id, published, copies, pc, batch, stopping, faults, stops>>
dbVars == <<tx, id, published>>
bounds == <<faults, stops>>

Delivered == {e \in Event : copies[e] > 0}

Fault == faults < MaxFaults /\ faults' = faults + 1 /\ UNCHANGED stops

Init ==
  /\ tx = [e \in Event |-> "none"]
  /\ id = [e \in Event |-> 0]
  /\ published = {}
  /\ copies = [e \in Event |-> 0]
  /\ pc = [m \in Relay |-> "waiting"]
  /\ batch = [m \in Relay |-> <<>>]
  /\ stopping = {}
  /\ faults = 0
  /\ stops = 0

-------------------------------------------------------------------------------
(* Transactions of the service. *)

NextId == 1 + Cardinality({e \in Event : id[e] # 0})

\* insertOutbox, in the transaction of Complete.
InsertOutbox(e) ==
  /\ tx[e] = "none"
  /\ tx' = [tx EXCEPT ![e] = "open"]
  /\ id' = [id EXCEPT ![e] = NextId]
  /\ UNCHANGED <<published, copies, pc, batch, stopping, bounds>>

End(e, outcome) ==
  /\ tx[e] = "open"
  /\ tx' = [tx EXCEPT ![e] = outcome]
  /\ UNCHANGED <<id, published, copies, pc, batch, stopping, bounds>>

CommitTx(e) == End(e, "committed")
RollBackTx(e) == End(e, "rolled_back")

-------------------------------------------------------------------------------
(* The relay: Run and publishBatch. *)

\* Mutant: the relay remembers how far it got instead of what it published.
BeyondLast ==
  {e \in Event : /\ tx[e] = "committed"
                 /\ \A f \in published : id[f] < id[e]}

\* Mutant: the poll sees rows of transactions that have not committed.
Uncommitted == {e \in Event : tx[e] \in {"open", "committed"} /\ e \notin published}

\* SELECT ... WHERE published_at IS NULL
Unpublished == {e \in Event : tx[e] = "committed" /\ e \notin published}

\* ... ORDER BY id LIMIT batchSize
Poll ==
  {b \in UNION {[1..n -> Unpublished] : n \in 0..BatchSize} :
     /\ \A i, j \in DOMAIN b : i < j => id[b[i]] < id[b[j]]
     /\ \A e \in Unpublished :
          \/ \E i \in DOMAIN b : b[i] = e
          \/ Len(b) = BatchSize /\ \A i \in DOMAIN b : id[b[i]] < id[e]}

\* A tick: the query returns rows to publish.  When it returns none or fails,
\* nothing happens until the next tick.
Tick(m) ==
  /\ pc[m] = "waiting"
  /\ m \notin stopping
  /\ Unpublished # {}
  /\ \E b \in Poll : batch' = [batch EXCEPT ![m] = b]
  /\ pc' = [pc EXCEPT ![m] = "publishing"]
  /\ UNCHANGED <<dbVars, copies, stopping, bounds>>

InHand(m) == Head(batch[m])

Send(m) == copies' = [copies EXCEPT ![InHand(m)] = @ + 1]

\* Mutant: the next tick goes on with the old batch.
KeepBatch(m) ==
  /\ pc' = [pc EXCEPT ![m] = "waiting"]
  /\ UNCHANGED batch

\* publishBatch returns an error: the rows left are tried again next tick.
GiveUp(m) ==
  /\ batch' = [batch EXCEPT ![m] = <<>>]
  /\ pc' = [pc EXCEPT ![m] = "waiting"]

\* producer.Publish is acknowledged by all replicas.
Publish(m) ==
  /\ pc[m] = "publishing"
  /\ Send(m)
  /\ pc' = [pc EXCEPT ![m] = "marking"]
  /\ UNCHANGED <<dbVars, batch, stopping, bounds>>

\* Kafka has written the message and the writer sends it again.
PublishAgain(m) ==
  /\ pc[m] = "publishing"
  /\ Send(m)
  /\ Fault
  /\ UNCHANGED <<dbVars, pc, batch, stopping>>

\* Mutant: the row is marked although the publish failed.
MarkFailedPublish(m) ==
  /\ pc[m] = "publishing"
  /\ published' = published \cup {InHand(m)}
  /\ UNCHANGED copies
  /\ Fault
  /\ GiveUp(m)
  /\ UNCHANGED <<tx, id, stopping>>

\* The publish fails, on an error or because its context is cancelled; Kafka may
\* have written the message all the same.
PublishFails(m) ==
  /\ pc[m] = "publishing"
  /\ \/ m \in stopping /\ UNCHANGED <<copies, bounds>>
     \/ UNCHANGED copies /\ Fault
     \/ Send(m) /\ Fault
  /\ GiveUp(m)
  /\ UNCHANGED <<dbVars, stopping>>

\* UPDATE outbox SET published_at = NOW() WHERE id = $1, under markCtx, which a
\* shutdown does not cancel.
Marked(m) == published' = published \cup {InHand(m)}

\* The loop goes on to its next row.
NextRow(m) ==
  /\ batch' = [batch EXCEPT ![m] = Tail(@)]
  /\ pc' = [pc EXCEPT ![m] = IF Len(batch[m]) = 1 THEN "waiting" ELSE "publishing"]

\* Mutant: the UPDATE runs under the context of the process.
MarkUnderContext(m) ==
  /\ pc[m] = "marking"
  /\ IF m \in stopping
     THEN UNCHANGED published /\ GiveUp(m)
     ELSE Marked(m) /\ NextRow(m)
  /\ UNCHANGED <<tx, id, copies, stopping, bounds>>

Mark(m) ==
  /\ pc[m] = "marking"
  /\ Marked(m)
  /\ NextRow(m)
  /\ UNCHANGED <<tx, id, copies, stopping, bounds>>

\* The UPDATE fails, before or after it took effect.
MarkFails(m) ==
  /\ pc[m] = "marking"
  /\ Marked(m) \/ UNCHANGED published
  /\ Fault
  /\ GiveUp(m)
  /\ UNCHANGED <<tx, id, copies, stopping>>

-------------------------------------------------------------------------------
(* The process of an instance. *)

\* SIGTERM: the context is cancelled, and main waits for the relay to return.
Shutdown(m) ==
  /\ pc[m] # "stopped"
  /\ m \notin stopping
  /\ stops < MaxStops
  /\ stops' = stops + 1
  /\ stopping' = stopping \cup {m}
  /\ UNCHANGED <<dbVars, copies, pc, batch, faults>>

\* Run sees the cancelled context.
RunReturns(m) ==
  /\ pc[m] = "waiting"
  /\ m \in stopping
  /\ pc' = [pc EXCEPT ![m] = "stopped"]
  /\ UNCHANGED <<dbVars, copies, batch, stopping, bounds>>

Crash(m) ==
  /\ pc[m] # "stopped"
  /\ Fault
  /\ pc' = [pc EXCEPT ![m] = "stopped"]
  /\ batch' = [batch EXCEPT ![m] = <<>>]
  /\ UNCHANGED <<dbVars, copies, stopping>>

Start(m) ==
  /\ pc[m] = "stopped"
  /\ pc' = [pc EXCEPT ![m] = "waiting"]
  /\ stopping' = stopping \ {m}
  /\ UNCHANGED <<dbVars, copies, batch, bounds>>

Step(m) ==
  \/ Tick(m)
  \/ Publish(m)
  \/ PublishAgain(m)
  \/ PublishFails(m)
  \/ Mark(m)
  \/ MarkFails(m)
  \/ Shutdown(m)
  \/ RunReturns(m)
  \/ Crash(m)
  \/ Start(m)

Next ==
  \/ \E e \in Event : InsertOutbox(e) \/ CommitTx(e) \/ RollBackTx(e)
  \/ \E m \in Relay : Step(m)

\* The ticker ticks, the statements and requests are answered, and the process
\* is started again.  Nothing is assumed of the service's transactions.
Fairness ==
  \A m \in Relay :
    /\ WF_vars(Tick(m))
    /\ WF_vars(Publish(m) \/ PublishFails(m))
    /\ WF_vars(Mark(m))
    /\ WF_vars(RunReturns(m))
    /\ WF_vars(Start(m))

Spec == Init /\ [][Next]_vars
FairSpec == Spec /\ Fairness

-------------------------------------------------------------------------------
(* Properties. *)

TypeOK ==
  /\ tx \in [Event -> {"none", "open", "committed", "rolled_back"}]
  /\ id \in [Event -> 0..Cardinality(Event)]
  /\ published \subseteq Event
  /\ copies \in [Event -> Nat]
  /\ pc \in [Relay -> {"waiting", "publishing", "marking", "stopped"}]
  /\ batch \in [Relay -> Seq(Event)]
  /\ \A m \in Relay : /\ Len(batch[m]) <= BatchSize
                      /\ pc[m] \in {"publishing", "marking"} <=> batch[m] # <<>>
  /\ stopping \subseteq Relay
  /\ faults \in 0..MaxFaults
  /\ stops \in 0..MaxStops

\* A row is marked only once Kafka has its message: no failure, no crash between
\* the two and no other relay loses an event.
MarkedWasDelivered == published \subseteq Delivered

\* The world never hears of a completion whose transaction did not commit.
OnlyCommittedDelivered == \A e \in Delivered : tx[e] = "committed"

\* Each relay publishes an event at most once, and every further message takes a
\* fault of its own: a shutdown between the publish and the mark costs none, as
\* markCtx outlives it (relay.go:78).  One that cuts off a publish under way may;
\* the model counts that as a fault.
CopiesBounded == \A e \in Event : copies[e] <= Cardinality(Relay) + faults

\* Every committed event is delivered and its row marked in the end, the ones
\* that a later id has overtaken included.
EveryEventMarked == \A e \in Event : tx[e] = "committed" ~> e \in published
================================================================================
