--------------------------- MODULE OutboxRelayProofs ---------------------------
(***************************************************************************)
(* Theorems about OutboxRelay, for every finite set of events and of       *)
(* relays, every batch size and every bound on faults and shutdowns: at    *)
(* least once, and how much more than once.                                *)
(***************************************************************************)
EXTENDS OutboxRelay, FiniteSetTheorems, SequenceTheorems, TLAPS

\* An event has its identity value from its transaction's insert on.
RowsNumbered == \A e \in Event : tx[e] = "none" => id[e] = 0

TypeInv == TypeOK /\ RowsNumbered

\* What is left of a poll is committed and in id order, so that no event is in
\* it twice.  Another relay may have marked it.
BatchPending ==
  \A m \in Relay :
    /\ \A i \in 1..Len(batch[m]) : tx[batch[m][i]] = "committed"
    /\ \A i, j \in 1..Len(batch[m]) : i < j => id[batch[m][i]] < id[batch[m][j]]

\* Kafka has acknowledged what a relay is about to mark.
InFlightDelivered == \A m \in Relay : pc[m] = "marking" => InHand(m) \in Delivered

\* The relays that have had e acknowledged and have not marked it.
InFlight(e) == {m \in Relay : pc[m] = "marking" /\ InHand(m) = e}

\* The first row of its batch a relay has not published.
FirstUnsent(m) == IF pc[m] = "marking" THEN 2 ELSE 1

\* The relays that will still publish e.
Holding(e) ==
  {m \in Relay : \E i \in FirstUnsent(m) .. Len(batch[m]) : batch[m][i] = e}

\* Until it is marked, each message of e is in flight or was paid for by a fault.
\* Once it is, no poll returns it, and at worst the relays that hold it have still
\* to send theirs.
CopiesPaid(e) ==
  /\ e \notin published => copies[e] <= Cardinality(InFlight(e)) + faults
  /\ e \in published =>
       copies[e] + Cardinality(Holding(e)) <= Cardinality(Relay) + faults

AllCopiesPaid == \A e \in Event : CopiesPaid(e)

IInv ==
  /\ TypeInv
  /\ BatchPending
  /\ MarkedWasDelivered
  /\ InFlightDelivered
  /\ OnlyCommittedDelivered
  /\ AllCopiesPaid

-------------------------------------------------------------------------------
(* Lemmas about the data. *)

\* A poll is a batch of at most BatchSize committed, unmarked events in id order.
LEMMA PollType ==
  ASSUME TypeOK, NEW b \in Poll
  PROVE  /\ b \in Seq(Event)
         /\ Len(b) <= BatchSize
         /\ \A i \in 1..Len(b) : tx[b[i]] = "committed" /\ b[i] \notin published
         /\ \A i, j \in 1..Len(b) : i < j => id[b[i]] < id[b[j]]
<1>1. PICK n \in 0..BatchSize : b \in [1..n -> Unpublished]
  BY DEF Poll
<1>2. n \in Nat /\ n <= BatchSize
  BY BatchSizeAssumption
<1>3. b \in Seq(Unpublished) /\ Len(b) = n /\ DOMAIN b = 1..n
  BY <1>1, <1>2
<1>4. \A i, j \in DOMAIN b : i < j => id[b[i]] < id[b[j]]
  BY DEF Poll
<1>5. \A i \in 1..n : b[i] \in Unpublished
  BY <1>1
<1> QED BY <1>1, <1>2, <1>3, <1>4, <1>5 DEF Unpublished

\* An empty poll is impossible while a row waits.
LEMMA PollNotEmpty ==
  ASSUME NEW b \in Poll, Unpublished # {}, TypeOK
  PROVE  b # <<>>
<1> SUFFICES ASSUME b = <<>> PROVE FALSE
  OBVIOUS
<1>1. PICK e \in Unpublished : TRUE
  OBVIOUS
<1>2. Len(b) = BatchSize \/ \E i \in DOMAIN b : b[i] = e
  BY <1>1 DEF Poll
<1>3. Len(b) = 0 /\ DOMAIN b = {}
  OBVIOUS
<1> QED BY <1>2, <1>3, BatchSizeAssumption

\* The next identity value is at most the number of events.
LEMMA NextIdType ==
  ASSUME TypeInv, NEW e \in Event, tx[e] = "none"
  PROVE  NextId \in 1..Cardinality(Event)
<1> DEFINE S == {f \in Event : id[f] # 0}
<1>1. S \subseteq Event /\ e \notin S
  BY DEF TypeInv, RowsNumbered
<1>2. IsFiniteSet(S) /\ Cardinality(S) <= Cardinality(Event)
  BY <1>1, FS_Subset, EventAssumption
<1>3. Cardinality(S) # Cardinality(Event)
  BY <1>1, FS_Subset, EventAssumption
<1>4. Cardinality(S) \in Nat /\ Cardinality(Event) \in Nat
  BY <1>2, FS_CardinalityType, EventAssumption
<1> QED BY <1>2, <1>3, <1>4 DEF NextId

\* A relay that publishes or marks has an event in hand.
LEMMA InHandType ==
  ASSUME TypeOK, NEW m \in Relay, pc[m] \in {"publishing", "marking"}
  PROVE  /\ batch[m] \in Seq(Event)
         /\ Len(batch[m]) \in Nat \ {0}
         /\ InHand(m) = batch[m][1]
         /\ InHand(m) \in Event
<1>1. batch[m] \in Seq(Event) /\ batch[m] # <<>>
  BY DEF TypeOK
<1>2. Len(batch[m]) \in Nat \ {0}
  BY <1>1, EmptySeq
<1> QED BY <1>1, <1>2 DEF InHand

LEMMA TailType ==
  ASSUME TypeOK, NEW m \in Relay, pc[m] \in {"publishing", "marking"}
  PROVE  /\ Tail(batch[m]) \in Seq(Event)
         /\ Len(Tail(batch[m])) = Len(batch[m]) - 1
         /\ \A i \in 1 .. Len(batch[m]) - 1 : Tail(batch[m])[i] = batch[m][i + 1]
         /\ Tail(batch[m]) = <<>> <=> Len(batch[m]) = 1
<1>1. batch[m] \in Seq(Event) /\ batch[m] # <<>> /\ Len(batch[m]) \in Nat \ {0}
  BY InHandType DEF TypeOK
<1>2. /\ Tail(batch[m]) \in Seq(Event)
      /\ Len(Tail(batch[m])) = Len(batch[m]) - 1
      /\ \A i \in 1 .. Len(Tail(batch[m])) : Tail(batch[m])[i] = batch[m][i + 1]
  BY <1>1, HeadTailProperties
<1>3. Tail(batch[m]) = <<>> <=> Len(Tail(batch[m])) = 0
  BY <1>2, EmptySeq
<1> QED BY <1>1, <1>2, <1>3

LEMMA SendDelivers ==
  ASSUME TypeOK, NEW m \in Relay, pc[m] \in {"publishing", "marking"}, Send(m)
  PROVE  /\ copies' \in [Event -> Nat]
         /\ copies'[InHand(m)] = copies[InHand(m)] + 1
         /\ \A e \in Event \ {InHand(m)} : copies'[e] = copies[e]
         /\ Delivered' = Delivered \cup {InHand(m)}
<1>1. InHand(m) \in Event
  BY InHandType
<1>2. /\ copies' \in [Event -> Nat]
      /\ copies'[InHand(m)] = copies[InHand(m)] + 1
      /\ copies[InHand(m)] \in Nat
      /\ \A e \in Event \ {InHand(m)} : copies'[e] = copies[e]
  BY <1>1 DEF Send, TypeOK
<1> QED BY <1>1, <1>2 DEF Delivered

-------------------------------------------------------------------------------
(* Type correctness. *)

\* What each control operator does to the program counter and the batch.
LEMMA GiveUpType ==
  ASSUME TypeOK, NEW m \in Relay, GiveUp(m)
  PROVE  /\ pc' \in [Relay -> {"waiting", "publishing", "marking", "stopped"}]
         /\ batch' \in [Relay -> Seq(Event)]
         /\ \A k \in Relay : /\ Len(batch'[k]) <= BatchSize
                             /\ pc'[k] \in {"publishing", "marking"} <=> batch'[k] # <<>>
BY BatchSizeAssumption DEF GiveUp, TypeOK

LEMMA NextRowType ==
  ASSUME TypeOK, NEW m \in Relay, pc[m] = "marking", NextRow(m)
  PROVE  /\ pc' \in [Relay -> {"waiting", "publishing", "marking", "stopped"}]
         /\ batch' \in [Relay -> Seq(Event)]
         /\ \A k \in Relay : /\ Len(batch'[k]) <= BatchSize
                             /\ pc'[k] \in {"publishing", "marking"} <=> batch'[k] # <<>>
<1>1. /\ Tail(batch[m]) \in Seq(Event)
      /\ Len(Tail(batch[m])) = Len(batch[m]) - 1
      /\ Tail(batch[m]) = <<>> <=> Len(batch[m]) = 1
      /\ Len(batch[m]) \in Nat
  BY TailType, InHandType
<1>2. Len(Tail(batch[m])) <= BatchSize
  BY <1>1, BatchSizeAssumption DEF TypeOK
<1> QED BY <1>1, <1>2 DEF NextRow, TypeOK

LEMMA TypeStep ==
  ASSUME TypeInv, [Next]_vars
  PROVE  TypeInv'
<1> USE DEF TypeInv
<1>1. ASSUME NEW e \in Event, InsertOutbox(e)
      PROVE  TypeInv'
  <2>1. NextId \in 0..Cardinality(Event)
    BY <1>1, NextIdType DEF InsertOutbox
  <2> QED BY <1>1, <2>1 DEF InsertOutbox, bounds, TypeOK, RowsNumbered
<1>2. ASSUME NEW e \in Event, CommitTx(e) \/ RollBackTx(e)
      PROVE  TypeInv'
  BY <1>2 DEF CommitTx, RollBackTx, End, bounds, TypeOK, RowsNumbered
<1>3. ASSUME NEW m \in Relay, Tick(m)
      PROVE  TypeInv'
  <2>1. PICK b \in Poll : batch' = [batch EXCEPT ![m] = b]
    BY <1>3 DEF Tick
  <2>2. b \in Seq(Event) /\ Len(b) <= BatchSize /\ b # <<>>
    BY <1>3, <2>1, PollType, PollNotEmpty DEF Tick
  <2> QED BY <1>3, <2>1, <2>2 DEF Tick, dbVars, bounds, TypeOK, RowsNumbered
<1>4. ASSUME Fault
      PROVE  faults' \in 0..MaxFaults /\ stops' \in 0..MaxStops
  BY <1>4, MaxFaultsAssumption DEF Fault, TypeOK
<1>5. ASSUME NEW m \in Relay, Publish(m)
      PROVE  TypeInv'
  <2>1. copies' \in [Event -> Nat]
    BY <1>5, SendDelivers DEF Publish
  <2> QED BY <1>5, <2>1 DEF Publish, dbVars, bounds, TypeOK, RowsNumbered
<1>6. ASSUME NEW m \in Relay, PublishAgain(m)
      PROVE  TypeInv'
  <2>1. copies' \in [Event -> Nat]
    BY <1>6, SendDelivers DEF PublishAgain
  <2> QED BY <1>4, <1>6, <2>1 DEF PublishAgain, dbVars, TypeOK, RowsNumbered
<1>7. ASSUME NEW m \in Relay, PublishFails(m)
      PROVE  TypeInv'
  <2>1. copies' \in [Event -> Nat]
    BY <1>7, SendDelivers DEF PublishFails, TypeOK
  <2>2. faults' \in 0..MaxFaults /\ stops' \in 0..MaxStops
    BY <1>4, <1>7 DEF PublishFails, bounds, TypeOK
  <2>3. GiveUp(m) /\ UNCHANGED <<tx, id, published, stopping>>
    BY <1>7 DEF PublishFails, dbVars
  <2> QED BY <2>1, <2>2, <2>3, GiveUpType DEF TypeOK, RowsNumbered
<1>8. ASSUME NEW m \in Relay, Mark(m)
      PROVE  TypeInv'
  <2>1. published' \subseteq Event
    BY <1>8, InHandType DEF Mark, Marked, TypeOK
  <2>2. NextRow(m) /\ pc[m] = "marking" /\ UNCHANGED <<tx, id, copies, stopping, faults, stops>>
    BY <1>8 DEF Mark, bounds
  <2> QED BY <2>1, <2>2, NextRowType DEF TypeOK, RowsNumbered
<1>9. ASSUME NEW m \in Relay, MarkFails(m)
      PROVE  TypeInv'
  <2>1. published' \subseteq Event
    BY <1>9, InHandType DEF MarkFails, Marked, TypeOK
  <2>2. GiveUp(m) /\ UNCHANGED <<tx, id, copies, stopping>>
    BY <1>9 DEF MarkFails
  <2>3. faults' \in 0..MaxFaults /\ stops' \in 0..MaxStops
    BY <1>4, <1>9 DEF MarkFails
  <2> QED BY <2>1, <2>2, <2>3, GiveUpType DEF TypeOK, RowsNumbered
<1>10. ASSUME NEW m \in Relay, Shutdown(m)
       PROVE  TypeInv'
  BY <1>10, MaxStopsAssumption DEF Shutdown, dbVars, TypeOK, RowsNumbered
<1>11. ASSUME NEW m \in Relay, RunReturns(m)
       PROVE  TypeInv'
  BY <1>11 DEF RunReturns, dbVars, bounds, TypeOK, RowsNumbered
<1>12. ASSUME NEW m \in Relay, Crash(m)
       PROVE  TypeInv'
  <2>1. /\ pc' \in [Relay -> {"waiting", "publishing", "marking", "stopped"}]
        /\ batch' \in [Relay -> Seq(Event)]
        /\ \A k \in Relay : /\ Len(batch'[k]) <= BatchSize
                            /\ pc'[k] \in {"publishing", "marking"} <=> batch'[k] # <<>>
    BY <1>12, BatchSizeAssumption DEF Crash, TypeOK
  <2> QED BY <1>4, <1>12, <2>1 DEF Crash, dbVars, TypeOK, RowsNumbered
<1>13. ASSUME NEW m \in Relay, Start(m)
       PROVE  TypeInv'
  BY <1>13 DEF Start, dbVars, bounds, TypeOK, RowsNumbered
<1>14. CASE UNCHANGED vars
  BY <1>14 DEF vars, TypeOK, RowsNumbered
<1> QED
  BY <1>1, <1>2, <1>3, <1>5, <1>6, <1>7, <1>8, <1>9, <1>10, <1>11, <1>12, <1>13, <1>14
  DEF Next, Step

LEMMA TypeInvariant == Spec => []TypeInv
<1>1. Init => TypeInv
  <2>1. Cardinality(Event) \in Nat
    BY FS_CardinalityType, EventAssumption
  <2>2. Init => /\ batch \in [Relay -> Seq(Event)]
                /\ \A m \in Relay : Len(batch[m]) <= BatchSize /\ batch[m] = <<>>
    BY BatchSizeAssumption DEF Init
  <2>3. Init => /\ tx \in [Event -> {"none", "open", "committed", "rolled_back"}]
                /\ id \in [Event -> 0..Cardinality(Event)]
                /\ copies \in [Event -> Nat]
    BY <2>1 DEF Init
  <2>4. Init => faults \in 0..MaxFaults /\ stops \in 0..MaxStops
    BY MaxFaultsAssumption, MaxStopsAssumption DEF Init
  <2> QED BY <2>2, <2>3, <2>4 DEF Init, TypeInv, TypeOK, RowsNumbered
<1>2. TypeInv /\ [Next]_vars => TypeInv'
  BY TypeStep
<1> QED BY <1>1, <1>2, PTL DEF Spec

\* Every variable keeps its type.  That a batch never exceeds BatchSize and is
\* empty exactly while its relay waits or is stopped is part of it (publishBatch).
THEOREM TypeCorrect == Spec => []TypeOK
<1>1. TypeInv => TypeOK
  BY DEF TypeInv
<1> QED BY <1>1, TypeInvariant, PTL

-------------------------------------------------------------------------------
(* What a step leaves alone. *)

\* A committed row stays, with its identity value.
LEMMA RowsKept ==
  ASSUME TypeInv, [Next]_vars, NEW e \in Event, tx[e] = "committed"
  PROVE  tx'[e] = "committed" /\ id'[e] = id[e]
<1> USE DEF TypeInv, TypeOK
<1>1. CASE UNCHANGED <<tx, id>>
  BY <1>1
<1>2. ASSUME NEW f \in Event, InsertOutbox(f)
      PROVE  tx'[e] = "committed" /\ id'[e] = id[e]
  BY <1>2 DEF InsertOutbox
<1>3. ASSUME NEW f \in Event, CommitTx(f) \/ RollBackTx(f)
      PROVE  tx'[e] = "committed" /\ id'[e] = id[e]
  BY <1>3 DEF CommitTx, RollBackTx, End
<1> QED
  BY <1>1, <1>2, <1>3
  DEF Next, Step, Tick, Publish, PublishAgain, PublishFails, Mark, MarkFails, Shutdown,
      RunReturns, Crash, Start, dbVars, vars

\* A relay delivers the event it has in hand and nothing else, and Kafka forgets
\* nothing.
LEMMA DeliveredStep ==
  ASSUME TypeInv, [Next]_vars
  PROVE  \/ Delivered' = Delivered
         \/ \E m \in Relay : /\ pc[m] = "publishing"
                             /\ Delivered' = Delivered \cup {InHand(m)}
<1> USE DEF TypeInv
<1>1. CASE UNCHANGED copies
  BY <1>1 DEF Delivered
<1>2. ASSUME NEW m \in Relay, pc[m] = "publishing", Send(m)
      PROVE  Delivered' = Delivered \cup {InHand(m)}
  BY <1>2, SendDelivers
<1> QED
  BY <1>1, <1>2
  DEF Next, Step, InsertOutbox, CommitTx, RollBackTx, End, Tick, Publish, PublishAgain,
      PublishFails, Mark, MarkFails, Shutdown, RunReturns, Crash, Start, bounds, vars

\* Only Mark and MarkFails write published_at.
LEMMA PublishedStep ==
  ASSUME [Next]_vars
  PROVE  \/ published' = published
         \/ \E m \in Relay : /\ pc[m] = "marking"
                             /\ published' = published \cup {InHand(m)}
BY DEF Next, Step, InsertOutbox, CommitTx, RollBackTx, End, Tick, Publish, PublishAgain,
       PublishFails, Mark, MarkFails, Marked, Shutdown, RunReturns, Crash, Start,
       dbVars, vars

-------------------------------------------------------------------------------
(* The parts of the inductive invariant that look at one message at a time. *)

LEMMA BatchStep ==
  ASSUME TypeInv, BatchPending, [Next]_vars
  PROVE  BatchPending'
<1> USE DEF TypeInv
<1> SUFFICES ASSUME NEW k \in Relay
             PROVE  /\ \A i \in 1..Len(batch'[k]) : tx'[batch'[k][i]] = "committed"
                    /\ \A i, j \in 1..Len(batch'[k]) :
                         i < j => id'[batch'[k][i]] < id'[batch'[k][j]]
  BY DEF BatchPending
<1>1. batch[k] \in Seq(Event) /\ Len(batch[k]) \in Nat
  BY DEF TypeOK
<1>2. \A i \in 1..Len(batch[k]) : /\ batch[k][i] \in Event
                                 /\ tx'[batch[k][i]] = "committed"
                                 /\ id'[batch[k][i]] = id[batch[k][i]]
  BY <1>1, RowsKept DEF BatchPending
<1>3. CASE batch'[k] = batch[k]
  BY <1>2, <1>3 DEF BatchPending
<1>4. CASE batch'[k] = <<>>
  BY <1>4
<1>5. ASSUME NEW b \in Poll, batch'[k] = b, UNCHANGED dbVars
      PROVE  /\ \A i \in 1..Len(batch'[k]) : tx'[batch'[k][i]] = "committed"
             /\ \A i, j \in 1..Len(batch'[k]) :
                  i < j => id'[batch'[k][i]] < id'[batch'[k][j]]
  BY <1>5, PollType DEF dbVars
<1>6. CASE pc[k] = "marking" /\ batch'[k] = Tail(batch[k])
  <2>1. /\ Len(batch'[k]) = Len(batch[k]) - 1
        /\ \A i \in 1..Len(batch'[k]) : batch'[k][i] = batch[k][i + 1]
    BY <1>1, <1>6, TailType
  <2>2. \A i \in 1..Len(batch'[k]) : i + 1 \in 1..Len(batch[k])
    BY <1>1, <2>1
  <2>3. \A i, j \in 1..Len(batch'[k]) : i < j => id[batch[k][i + 1]] < id[batch[k][j + 1]]
    <3> SUFFICES ASSUME NEW i \in 1..Len(batch'[k]), NEW j \in 1..Len(batch'[k]), i < j
                 PROVE  id[batch[k][i + 1]] < id[batch[k][j + 1]]
      OBVIOUS
    <3>1. i + 1 < j + 1
      BY <1>1, <2>1
    <3> QED BY <2>2, <3>1 DEF BatchPending
  <2> QED BY <1>2, <2>1, <2>2, <2>3
<1>7. ASSUME NEW m \in Relay, Tick(m)
      PROVE  batch'[k] = batch[k] \/ \E b \in Poll : batch'[k] = b /\ UNCHANGED dbVars
  BY <1>7 DEF Tick, TypeOK
<1>8. ASSUME NEW m \in Relay, Step(m), ~Tick(m)
      PROVE  \/ batch'[k] = batch[k]
             \/ batch'[k] = <<>>
             \/ pc[k] = "marking" /\ batch'[k] = Tail(batch[k])
  BY <1>8 DEF Step, Publish, PublishAgain, PublishFails, GiveUp, Mark, NextRow,
              MarkFails, Shutdown, RunReturns, Crash, Start, TypeOK
<1>9. CASE (\E e \in Event : InsertOutbox(e) \/ CommitTx(e) \/ RollBackTx(e))
           \/ UNCHANGED vars
  BY <1>3, <1>9 DEF InsertOutbox, CommitTx, RollBackTx, End, vars
<1>10. ASSUME NEW m \in Relay, Step(m)
       PROVE  /\ \A i \in 1..Len(batch'[k]) : tx'[batch'[k][i]] = "committed"
              /\ \A i, j \in 1..Len(batch'[k]) :
                   i < j => id'[batch'[k][i]] < id'[batch'[k][j]]
  BY <1>3, <1>4, <1>5, <1>6, <1>7, <1>8, <1>10
<1> QED BY <1>9, <1>10 DEF Next

\* What a relay has in hand is committed, and no other row of its batch.
LEMMA HeadIsPending ==
  ASSUME TypeInv, BatchPending, NEW m \in Relay, pc[m] \in {"publishing", "marking"}
  PROVE  /\ InHand(m) \in Event
         /\ tx[InHand(m)] = "committed"
         /\ \A i \in 2..Len(batch[m]) : batch[m][i] # InHand(m)
<1>1. /\ batch[m] \in Seq(Event) /\ Len(batch[m]) \in Nat \ {0}
      /\ InHand(m) = batch[m][1] /\ InHand(m) \in Event
  BY InHandType DEF TypeInv
<1>2. \A e \in Event : id[e] \in Nat
  BY FS_CardinalityType, EventAssumption DEF TypeInv, TypeOK
<1>3. \A i \in 2..Len(batch[m]) : batch[m][i] \in Event /\ id[batch[m][1]] < id[batch[m][i]]
  BY <1>1 DEF BatchPending
<1> QED BY <1>1, <1>2, <1>3 DEF BatchPending

LEMMA MarkedStep ==
  ASSUME TypeInv, MarkedWasDelivered, InFlightDelivered, [Next]_vars
  PROVE  MarkedWasDelivered' /\ InFlightDelivered'
<1>1. Delivered \subseteq Delivered'
  BY DeliveredStep
<1>2. MarkedWasDelivered'
  BY <1>1, PublishedStep DEF MarkedWasDelivered, InFlightDelivered
<1>3. ASSUME NEW k \in Relay, pc'[k] = "marking"
      PROVE  Head(batch'[k]) \in Delivered'
  <2>1. CASE pc[k] = "marking" /\ batch'[k] = batch[k]
    BY <1>1, <2>1 DEF InFlightDelivered, InHand
  <2>2. CASE Publish(k)
    BY <2>2, SendDelivers DEF Publish, InHand, TypeInv
  <2> QED
    BY <1>3, <2>1, <2>2
    DEF Next, Step, InsertOutbox, CommitTx, RollBackTx, End, Tick, Publish, PublishAgain,
        PublishFails, Mark, NextRow, MarkFails, GiveUp, Shutdown, RunReturns, Crash,
        Start, vars, TypeInv, TypeOK
<1>4. InFlightDelivered'
  BY <1>3 DEF InFlightDelivered, InHand
<1> QED BY <1>2, <1>4

LEMMA CommittedStep ==
  ASSUME TypeInv, BatchPending, OnlyCommittedDelivered, [Next]_vars
  PROVE  OnlyCommittedDelivered'
<1>1. Delivered \subseteq Event
  BY DEF Delivered
<1>2. \A e \in Delivered' : e \in Event /\ tx[e] = "committed"
  BY <1>1, DeliveredStep, HeadIsPending DEF OnlyCommittedDelivered
<1> QED BY <1>2, RowsKept DEF OnlyCommittedDelivered

-------------------------------------------------------------------------------
(* How often a message can come. *)

LEMMA RelaysCounted ==
  ASSUME NEW S, S \subseteq Relay
  PROVE  /\ IsFiniteSet(S)
         /\ Cardinality(S) \in Nat
         /\ Cardinality(Relay) \in Nat
         /\ Cardinality(S) <= Cardinality(Relay)
BY FS_Subset, FS_CardinalityType, RelayAssumption

\* Nothing was sent, and no relay forgot an acknowledged message.
LEMMA NothingLost ==
  ASSUME TypeInv, TypeInv', NEW e \in Event, CopiesPaid(e),
         copies'[e] = copies[e],
         e \in published' <=> e \in published,
         e \notin published => InFlight(e) \subseteq InFlight(e)',
         e \in published => Holding(e)' \subseteq Holding(e),
         faults' \in {faults, faults + 1}
  PROVE  CopiesPaid(e)'
<1>1. InFlight(e) \subseteq Relay /\ InFlight(e)' \subseteq Relay
      /\ Holding(e) \subseteq Relay /\ Holding(e)' \subseteq Relay
  BY DEF InFlight, Holding
<1>2. copies[e] \in Nat /\ faults \in Nat
  BY MaxFaultsAssumption DEF TypeInv, TypeOK
<1>3. /\ Cardinality(InFlight(e)) \in Nat /\ Cardinality(InFlight(e)') \in Nat
      /\ Cardinality(Holding(e)) \in Nat /\ Cardinality(Holding(e)') \in Nat
      /\ Cardinality(Relay) \in Nat
  BY <1>1, RelaysCounted
<1>4. e \notin published => Cardinality(InFlight(e)) <= Cardinality(InFlight(e)')
  BY <1>1, RelaysCounted, FS_Subset
<1>5. e \in published => Cardinality(Holding(e)') <= Cardinality(Holding(e))
  BY <1>1, RelaysCounted, FS_Subset
<1> QED BY <1>2, <1>3, <1>4, <1>5 DEF CopiesPaid

\* A fault pays for one message, or for one relay that forgets it had one
\* acknowledged.
LEMMA FaultPays ==
  ASSUME TypeInv, TypeInv', NEW e \in Event, CopiesPaid(e), NEW m \in Relay,
         faults' = faults + 1,
         e \in published' <=> e \in published,
         Holding(e)' \subseteq Holding(e),
         \/ copies'[e] = copies[e] + 1 /\ InFlight(e) \subseteq InFlight(e)'
         \/ copies'[e] = copies[e] /\ InFlight(e) \subseteq InFlight(e)' \cup {m}
  PROVE  CopiesPaid(e)'
<1>1. InFlight(e) \subseteq Relay /\ InFlight(e)' \subseteq Relay
      /\ Holding(e) \subseteq Relay /\ Holding(e)' \subseteq Relay
      /\ InFlight(e)' \cup {m} \subseteq Relay
  BY DEF InFlight, Holding
<1>2. copies[e] \in Nat /\ faults \in Nat
  BY MaxFaultsAssumption DEF TypeInv, TypeOK
<1>3. /\ Cardinality(InFlight(e)) \in Nat /\ Cardinality(InFlight(e)') \in Nat
      /\ Cardinality(Holding(e)) \in Nat /\ Cardinality(Holding(e)') \in Nat
      /\ Cardinality(Relay) \in Nat /\ Cardinality(InFlight(e)' \cup {m}) \in Nat
  BY <1>1, RelaysCounted
<1>4. Cardinality(Holding(e)') <= Cardinality(Holding(e))
  BY <1>1, RelaysCounted, FS_Subset
<1>5. Cardinality(InFlight(e)' \cup {m}) <= Cardinality(InFlight(e)') + 1
  BY <1>1, <1>3, RelaysCounted, FS_AddElement
<1>6. InFlight(e) \subseteq InFlight(e)' =>
        Cardinality(InFlight(e)) <= Cardinality(InFlight(e)')
  BY <1>1, RelaysCounted, FS_Subset
<1>7. InFlight(e) \subseteq InFlight(e)' \cup {m} =>
        Cardinality(InFlight(e)) <= Cardinality(InFlight(e)' \cup {m})
  BY <1>1, RelaysCounted, FS_Subset
<1> QED BY <1>2, <1>3, <1>4, <1>5, <1>6, <1>7 DEF CopiesPaid

\* An acknowledged publish: one message more, one relay more in flight or one
\* fewer that holds the event.
LEMMA SendPays ==
  ASSUME TypeInv, TypeInv', NEW e \in Event, CopiesPaid(e), NEW m \in Relay,
         faults' = faults, published' = published,
         copies'[e] = copies[e] + 1,
         m \notin InFlight(e), InFlight(e)' = InFlight(e) \cup {m},
         m \in Holding(e), Holding(e)' = Holding(e) \ {m}
  PROVE  CopiesPaid(e)'
<1>1. InFlight(e) \subseteq Relay /\ Holding(e) \subseteq Relay
  BY DEF InFlight, Holding
<1>2. copies[e] \in Nat /\ faults \in Nat
  BY MaxFaultsAssumption DEF TypeInv, TypeOK
<1>3. /\ Cardinality(InFlight(e)) \in Nat /\ Cardinality(Holding(e)) \in Nat
      /\ Cardinality(Relay) \in Nat
  BY <1>1, RelaysCounted
<1>4. Cardinality(InFlight(e)') = Cardinality(InFlight(e)) + 1
  BY <1>1, RelaysCounted, FS_AddElement
<1>5. Cardinality(Holding(e)') = Cardinality(Holding(e)) - 1
  BY <1>1, RelaysCounted, FS_RemoveElement
<1> QED BY <1>2, <1>3, <1>4, <1>5 DEF CopiesPaid

\* The first mark: the relays in flight have sent theirs, so at most the others
\* still hold the event.
LEMMA FirstMark ==
  ASSUME TypeInv, TypeInv', NEW e \in Event, CopiesPaid(e),
         e \notin published, e \in published',
         copies'[e] = copies[e],
         Holding(e)' \subseteq Holding(e),
         InFlight(e) \cap Holding(e) = {},
         faults' \in {faults, faults + 1}
  PROVE  CopiesPaid(e)'
<1> DEFINE I == InFlight(e)
           H == Holding(e)'
<1>1. I \subseteq Relay /\ H \subseteq Relay /\ I \cap H = {}
  BY DEF InFlight, Holding
<1>2. copies[e] \in Nat /\ faults \in Nat
  BY MaxFaultsAssumption DEF TypeInv, TypeOK
<1> HIDE DEF I, H
<1>3. /\ IsFiniteSet(I) /\ IsFiniteSet(H)
      /\ Cardinality(I) \in Nat /\ Cardinality(H) \in Nat /\ Cardinality(Relay) \in Nat
  BY <1>1, RelaysCounted
<1>4. Cardinality(I \cup H) = Cardinality(I) + Cardinality(H)
  BY <1>1, <1>3, FS_Union, FS_EmptySet
<1>5. I \cup H \subseteq Relay
  BY <1>1
<1>6. Cardinality(I \cup H) <= Cardinality(Relay)
  BY <1>5, RelaysCounted
<1>7. copies[e] <= Cardinality(I) + faults
  BY DEF CopiesPaid, I
<1>8. copies'[e] + Cardinality(H) <= Cardinality(Relay) + faults'
  BY <1>2, <1>3, <1>4, <1>6, <1>7
<1> QED BY <1>8 DEF CopiesPaid, H

\* A step of one relay leaves what the others hold and have in flight.
LEMMA OthersKeep ==
  ASSUME NEW m \in Relay, NEW e \in Event,
         \A k \in Relay \ {m} : pc'[k] = pc[k] /\ batch'[k] = batch[k]
  PROVE  /\ InFlight(e)' \ {m} = InFlight(e) \ {m}
         /\ Holding(e)' \ {m} = Holding(e) \ {m}
BY DEF InFlight, InHand, Holding, FirstUnsent

\* A relay whose batch is gone holds nothing and has nothing in flight.
LEMMA Dropped ==
  ASSUME TypeInv, NEW m \in Relay, NEW e \in Event,
         \/ GiveUp(m)
         \/ pc' = [pc EXCEPT ![m] = "stopped"] /\ batch' = [batch EXCEPT ![m] = <<>>]
  PROVE  /\ InFlight(e)' = InFlight(e) \ {m}
         /\ Holding(e)' = Holding(e) \ {m}
<1>1. \A k \in Relay \ {m} : pc'[k] = pc[k] /\ batch'[k] = batch[k]
  BY DEF GiveUp, TypeInv, TypeOK
<1>2. pc'[m] \in {"waiting", "stopped"} /\ batch'[m] = <<>>
  BY DEF GiveUp, TypeInv, TypeOK
<1>3. m \notin InFlight(e)' /\ m \notin Holding(e)'
  BY <1>2 DEF InFlight, Holding, FirstUnsent
<1> QED BY <1>1, <1>3, OthersKeep

\* A relay that goes on to its next row holds what it held.
LEMMA WentOn ==
  ASSUME TypeInv, NEW m \in Relay, NEW e \in Event, pc[m] = "marking", NextRow(m)
  PROVE  /\ InFlight(e)' = InFlight(e) \ {m}
         /\ Holding(e)' = Holding(e)
<1>1. \A k \in Relay \ {m} : pc'[k] = pc[k] /\ batch'[k] = batch[k]
  BY DEF NextRow, TypeInv, TypeOK
<1>2. pc'[m] \in {"waiting", "publishing"} /\ batch'[m] = Tail(batch[m])
  BY DEF NextRow, TypeInv, TypeOK
<1>3. /\ Len(batch[m]) \in Nat
      /\ Len(batch'[m]) = Len(batch[m]) - 1
      /\ \A i \in 1 .. Len(batch[m]) - 1 : batch'[m][i] = batch[m][i + 1]
  BY <1>2, TailType, InHandType DEF TypeInv
<1>4. (\E i \in 1..Len(batch'[m]) : batch'[m][i] = e)
      <=> \E i \in 2..Len(batch[m]) : batch[m][i] = e
  <2>1. ASSUME NEW i \in 2..Len(batch[m]), batch[m][i] = e
        PROVE  i - 1 \in 1..Len(batch'[m]) /\ batch'[m][i - 1] = e
    BY <1>3, <2>1
  <2>2. ASSUME NEW i \in 1..Len(batch'[m]), batch'[m][i] = e
        PROVE  i + 1 \in 2..Len(batch[m]) /\ batch[m][i + 1] = e
    BY <1>3, <2>2
  <2> QED BY <2>1, <2>2
<1>5. m \in Holding(e)' <=> m \in Holding(e)
  BY <1>2, <1>4 DEF Holding, FirstUnsent
<1>6. m \notin InFlight(e)'
  BY <1>2 DEF InFlight
<1> QED BY <1>1, <1>5, <1>6, OthersKeep

\* A relay publishes the first row it holds, and no other row of it is the same.
LEMMA Sent ==
  ASSUME TypeInv, BatchPending, NEW m \in Relay, NEW e \in Event,
         pc[m] = "publishing", pc' = [pc EXCEPT ![m] = "marking"], batch' = batch
  PROVE  /\ m \notin InFlight(e)
         /\ e # InHand(m) => InFlight(e)' = InFlight(e) /\ Holding(e)' = Holding(e)
         /\ e = InHand(m) => /\ InFlight(e)' = InFlight(e) \cup {m}
                             /\ m \in Holding(e)
                             /\ Holding(e)' = Holding(e) \ {m}
<1>1. \A k \in Relay \ {m} : pc'[k] = pc[k] /\ batch'[k] = batch[k]
  BY DEF TypeInv, TypeOK
<1>2. pc'[m] = "marking" /\ batch'[m] = batch[m]
  BY DEF TypeInv, TypeOK
<1>3. /\ Len(batch[m]) \in Nat \ {0} /\ InHand(m) = batch[m][1]
      /\ \A i \in 2..Len(batch[m]) : batch[m][i] # InHand(m)
  BY InHandType, HeadIsPending DEF TypeInv
<1>4. /\ m \notin InFlight(e)
      /\ m \in InFlight(e)' <=> e = InHand(m)
  BY <1>2 DEF InFlight, InHand
<1>5. m \in Holding(e) <=> \E i \in 1..Len(batch[m]) : batch[m][i] = e
  BY DEF Holding, FirstUnsent
<1>6. m \in Holding(e)' <=> \E i \in 2..Len(batch[m]) : batch[m][i] = e
  BY <1>2 DEF Holding, FirstUnsent
<1>7. 1..Len(batch[m]) = {1} \cup 2..Len(batch[m])
  BY <1>3
<1>8. /\ e = InHand(m) => m \in Holding(e) /\ m \notin Holding(e)'
      /\ e # InHand(m) => (m \in Holding(e)' <=> m \in Holding(e))
  BY <1>3, <1>5, <1>6, <1>7
<1> QED BY <1>1, <1>4, <1>8, OthersKeep

\* A relay that polls, starts, is told to stop or returns sends nothing; what it
\* has polled is not marked yet.
LEMMA Idle ==
  ASSUME TypeInv, NEW m \in Relay, NEW e \in Event,
         Tick(m) \/ Shutdown(m) \/ RunReturns(m) \/ Start(m)
  PROVE  /\ InFlight(e)' = InFlight(e)
         /\ e \in published => Holding(e)' \subseteq Holding(e)
<1>1. \A k \in Relay \ {m} : pc'[k] = pc[k] /\ batch'[k] = batch[k]
  BY DEF Tick, Shutdown, RunReturns, Start, TypeInv, TypeOK
<1>2. CASE Tick(m)
  <2>1. PICK b \in Poll : batch'[m] = b
    BY <1>2 DEF Tick, TypeInv, TypeOK
  <2>2. pc[m] = "waiting" /\ pc'[m] = "publishing"
    BY <1>2 DEF Tick, TypeInv, TypeOK
  <2>3. e \in published => m \notin Holding(e)'
    BY <2>1, <2>2, PollType DEF Holding, FirstUnsent, TypeInv
  <2>4. m \notin InFlight(e) /\ m \notin InFlight(e)'
    BY <2>2 DEF InFlight
  <2> QED BY <1>1, <2>3, <2>4, OthersKeep
<1>3. CASE Shutdown(m) \/ RunReturns(m) \/ Start(m)
  <2>1. batch'[m] = batch[m] /\ (pc'[m] = "marking" <=> pc[m] = "marking")
    BY <1>3 DEF Shutdown, RunReturns, Start, TypeInv, TypeOK
  <2> QED BY <1>1, <2>1 DEF InFlight, InHand, Holding, FirstUnsent
<1> QED BY <1>2, <1>3

\* In flight and still to be sent exclude each other.
LEMMA InFlightNotHeld ==
  ASSUME TypeInv, BatchPending, NEW e \in Event
  PROVE  InFlight(e) \cap Holding(e) = {}
BY HeadIsPending DEF InFlight, Holding, FirstUnsent, TypeInv

LEMMA CopiesStep ==
  ASSUME TypeInv, TypeInv', BatchPending, AllCopiesPaid, [Next]_vars
  PROVE  AllCopiesPaid'
<1> SUFFICES ASSUME NEW e \in Event
             PROVE  CopiesPaid(e)'
  BY DEF AllCopiesPaid
<1>1. CopiesPaid(e)
  BY DEF AllCopiesPaid
<1>2. copies[e] \in Nat /\ faults \in Nat
  BY MaxFaultsAssumption DEF TypeInv, TypeOK
<1>3. ASSUME NEW m \in Relay, Tick(m) \/ Shutdown(m) \/ RunReturns(m) \/ Start(m)
      PROVE  CopiesPaid(e)'
  <2>1. UNCHANGED <<copies, published, faults>>
    BY <1>3 DEF Tick, Shutdown, RunReturns, Start, dbVars, bounds
  <2> QED BY <1>1, <1>3, <2>1, Idle, NothingLost
<1>4. ASSUME NEW m \in Relay, Publish(m)
      PROVE  CopiesPaid(e)'
  <2>1. /\ pc[m] = "publishing" /\ pc' = [pc EXCEPT ![m] = "marking"] /\ Send(m)
        /\ UNCHANGED <<batch, published, faults>>
    BY <1>4 DEF Publish, dbVars, bounds
  <2>2. CASE e = InHand(m)
    <3>1. copies'[e] = copies[e] + 1
      BY <2>1, <2>2, SendDelivers DEF TypeInv
    <3> QED BY <1>1, <2>1, <2>2, <3>1, Sent, SendPays
  <2>3. CASE e # InHand(m)
    <3>1. copies'[e] = copies[e]
      BY <2>1, <2>3, SendDelivers DEF TypeInv
    <3> QED BY <1>1, <2>1, <2>3, <3>1, Sent, NothingLost
  <2> QED BY <2>2, <2>3
<1>5. ASSUME NEW m \in Relay, PublishAgain(m)
      PROVE  CopiesPaid(e)'
  <2>1. /\ faults' = faults + 1 /\ UNCHANGED <<published, pc, batch>>
        /\ copies'[e] \in {copies[e], copies[e] + 1}
    BY <1>5, <1>2, SendDelivers DEF PublishAgain, Fault, dbVars, TypeInv
  <2>2. InFlight(e)' = InFlight(e) /\ Holding(e)' = Holding(e)
    BY <2>1 DEF InFlight, InHand, Holding, FirstUnsent
  <2> QED BY <1>1, <2>1, <2>2, FaultPays
<1>6. ASSUME NEW m \in Relay, PublishFails(m)
      PROVE  CopiesPaid(e)'
  <2>1. InFlight(e)' = InFlight(e) \ {m} /\ Holding(e)' = Holding(e) \ {m}
    BY <1>6, Dropped DEF PublishFails
  <2>2. m \notin InFlight(e) /\ published' = published
    BY <1>6 DEF PublishFails, InFlight, dbVars
  <2>3. CASE UNCHANGED <<copies, bounds>>
    BY <1>1, <2>1, <2>2, <2>3, NothingLost DEF bounds
  <2>4. CASE Fault /\ (UNCHANGED copies \/ Send(m))
    <3>1. faults' = faults + 1 /\ copies'[e] \in {copies[e], copies[e] + 1}
      BY <1>2, <1>6, <2>4, SendDelivers DEF PublishFails, Fault, TypeInv
    <3> QED BY <1>1, <2>1, <2>2, <3>1, FaultPays
  <2> QED BY <1>6, <2>3, <2>4 DEF PublishFails
<1>7. ASSUME NEW m \in Relay, Mark(m)
      PROVE  CopiesPaid(e)'
  <2>1. /\ pc[m] = "marking" /\ NextRow(m) /\ UNCHANGED <<copies, faults>>
        /\ published' = published \cup {InHand(m)}
    BY <1>7 DEF Mark, Marked, bounds
  <2>2. InFlight(e)' = InFlight(e) \ {m} /\ Holding(e)' = Holding(e)
    BY <2>1, WentOn
  <2>3. CASE e = InHand(m) /\ e \notin published
    BY <1>1, <2>1, <2>2, <2>3, InFlightNotHeld, FirstMark
  <2>4. CASE e # InHand(m) \/ e \in published
    <3>1. e \in published' <=> e \in published
      BY <2>1, <2>4
    <3>2. e \notin published => InFlight(e)' = InFlight(e)
      BY <2>2, <2>4 DEF InFlight
    <3> QED BY <1>1, <2>1, <2>2, <3>1, <3>2, NothingLost
  <2> QED BY <2>3, <2>4
<1>8. ASSUME NEW m \in Relay, MarkFails(m)
      PROVE  CopiesPaid(e)'
  <2>1. /\ pc[m] = "marking" /\ UNCHANGED copies /\ faults' = faults + 1
        /\ published' \in {published, published \cup {InHand(m)}}
    BY <1>8 DEF MarkFails, Marked, Fault
  <2>2. InFlight(e)' = InFlight(e) \ {m} /\ Holding(e)' = Holding(e) \ {m}
    BY <1>8, Dropped DEF MarkFails
  <2>3. CASE e \notin published /\ e \in published'
    BY <1>1, <2>1, <2>2, <2>3, InFlightNotHeld, FirstMark
  <2>4. CASE e \in published' <=> e \in published
    BY <1>1, <2>1, <2>2, <2>4, FaultPays
  <2> QED BY <2>1, <2>3, <2>4
<1>9. ASSUME NEW m \in Relay, Crash(m)
      PROVE  CopiesPaid(e)'
  <2>1. UNCHANGED <<copies, published>> /\ faults' = faults + 1
    BY <1>9 DEF Crash, Fault, dbVars
  <2>2. InFlight(e)' = InFlight(e) \ {m} /\ Holding(e)' = Holding(e) \ {m}
    BY <1>9, Dropped DEF Crash
  <2> QED BY <1>1, <2>1, <2>2, FaultPays
<1>10. CASE (\E f \in Event : InsertOutbox(f) \/ CommitTx(f) \/ RollBackTx(f))
            \/ UNCHANGED vars
  <2>1. UNCHANGED <<published, copies, pc, batch, faults>>
    BY <1>10 DEF InsertOutbox, CommitTx, RollBackTx, End, bounds, vars
  <2>2. InFlight(e)' = InFlight(e) /\ Holding(e)' = Holding(e)
    BY <2>1 DEF InFlight, InHand, Holding, FirstUnsent
  <2> QED BY <1>1, <2>1, <2>2, NothingLost
<1> QED
  BY <1>3, <1>4, <1>5, <1>6, <1>7, <1>8, <1>9, <1>10 DEF Next, Step

-------------------------------------------------------------------------------

LEMMA Invariance == Spec => []IInv
<1>1. Init /\ TypeInv => IInv
  <2> SUFFICES ASSUME Init, TypeInv PROVE IInv
    OBVIOUS
  <2>1. Delivered = {} /\ published = {} /\ faults = 0
    BY DEF Init, Delivered
  <2>2. \A m \in Relay : pc[m] = "waiting" /\ batch[m] = <<>>
    BY DEF Init
  <2>3. ASSUME NEW e \in Event
        PROVE  CopiesPaid(e)
    <3>1. InFlight(e) = {} /\ copies[e] = 0
      BY <2>2 DEF InFlight, Init
    <3>2. Cardinality(InFlight(e)) = 0
      BY <3>1, FS_EmptySet
    <3> QED BY <2>1, <3>1, <3>2 DEF CopiesPaid
  <2>4. BatchPending
    BY <2>2 DEF BatchPending
  <2>5. MarkedWasDelivered /\ InFlightDelivered /\ OnlyCommittedDelivered
    BY <2>1, <2>2 DEF MarkedWasDelivered, InFlightDelivered, OnlyCommittedDelivered
  <2> QED BY <2>3, <2>4, <2>5 DEF IInv, AllCopiesPaid
<1>2. TypeInv' /\ IInv /\ [Next]_vars => IInv'
  BY BatchStep, MarkedStep, CommittedStep, CopiesStep DEF IInv
<1> QED BY <1>1, <1>2, TypeInvariant, PTL DEF Spec

\* Publish before mark: no failed call, crash or shutdown between the two, and no
\* other relay, makes a relay believe an event was sent that was not.
THEOREM NoEventSkipped == Spec => []MarkedWasDelivered
<1>1. IInv => MarkedWasDelivered
  BY DEF IInv
<1> QED BY <1>1, Invariance, PTL

\* Nothing is published of a transaction that is open or was rolled back.
THEOREM OnlyFactsPublished == Spec => []OnlyCommittedDelivered
<1>1. IInv => OnlyCommittedDelivered
  BY DEF IInv
<1> QED BY <1>1, Invariance, PTL

\* A consumer of review.events sees an event at most once from each relay and once
\* more for each fault; a graceful shutdown of a relay that is not in the middle of
\* a publish adds none.
THEOREM DuplicatesBounded == Spec => []CopiesBounded
<1>1. TypeInv /\ IInv => CopiesBounded
  <2> SUFFICES ASSUME TypeInv, IInv, NEW e \in Event
               PROVE  copies[e] <= Cardinality(Relay) + faults
    BY DEF CopiesBounded
  <2>1. InFlight(e) \subseteq Relay /\ Holding(e) \subseteq Relay
    BY DEF InFlight, Holding
  <2>2. /\ Cardinality(InFlight(e)) \in Nat /\ Cardinality(Holding(e)) \in Nat
        /\ Cardinality(Relay) \in Nat
        /\ Cardinality(InFlight(e)) <= Cardinality(Relay)
    BY <2>1, RelaysCounted
  <2>3. copies[e] \in Nat /\ faults \in Nat
    BY MaxFaultsAssumption DEF TypeInv, TypeOK
  <2>4. CopiesPaid(e)
    BY DEF IInv, AllCopiesPaid
  <2> QED BY <2>2, <2>3, <2>4 DEF CopiesPaid
<1> QED BY <1>1, Invariance, TypeInvariant, PTL
===============================================================================
