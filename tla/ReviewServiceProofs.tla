-------------------------- MODULE ReviewServiceProofs --------------------------
(***************************************************************************)
(* Theorems about the service as a whole, for every set of calls,          *)
(* instances and requests: composed, each component still does what its    *)
(* module says, the two views of the outbox are one, and what the world    *)
(* hears of a request is true and in order.                                *)
(***************************************************************************)
EXTENDS ReviewService, SequenceTheorems, TLAPS

CallLabel == {"idle"} \cup A!Running \cup A!Outcome
Status == {"absent", "in_progress", "completed"}

\* Of the columns of a row only its status matters here.
Rows ==
  /\ row = [a \in Appraisal |-> row[a]]
  /\ \A a \in Appraisal : "status" \in DOMAIN row[a] /\ row[a].status \in Status

CallTypes ==
  /\ Rows
  /\ pc \in [Call -> CallLabel]
  /\ op = [c \in Call |-> op[c]]
  /\ \A c \in Call : pc[c] \in A!Running => op[c].target \in Appraisal

LoopTypes ==
  /\ log \in Seq(Record)
  /\ committed \in Nat
  /\ loop \in [Instance -> C!Label]
  /\ position \in [Instance -> Nat]
  /\ offset \in [Instance -> Nat]

RelayTypes ==
  /\ tx \in [Call -> {"none", "open", "committed", "rolled_back"}]
  /\ copies \in [Call -> Nat]
  /\ relay \in [Instance -> {"waiting", "publishing", "marking", "stopped"}]
  /\ batch \in [Instance -> Seq(Call)]

\* A loop past the filters works on a record of the log that asks for an appraisal,
\* and nothing but such a loop makes a row.
WorksOnAsked ==
  \A m \in Instance : loop[m] \in {"checking", "creating", "marking"} =>
    offset[m] \in 1..Len(log) /\ log[offset[m]].creates

Asked ==
  /\ WorksOnAsked
  /\ \A r \in Appraisal : row[r].status # "absent" => C!Asks(r)

\* The call of an open transaction is at its UPDATE, or lost; the row is locked, so
\* no other transaction is open for it, nor has one committed.
Holds(c) == tx[c] \in {"open", "committed"}

Transactions ==
  /\ \A c \in Call :
       /\ tx[c] # "none" => pc[c] # "idle" /\ op[c].target \in Appraisal
       /\ tx[c] = "open" => /\ pc[c] \in {"loaded", "lost"}
                            /\ row[op[c].target].status = "in_progress"
       /\ tx[c] = "committed" => row[op[c].target].status = "completed"
       /\ tx[c] = "committed" <=> \E e \in outbox : e.by = c
  /\ \A c, d \in Call : Holds(c) /\ Holds(d) /\ op[c].target = op[d].target => c = d

\* A relay has only committed events in hand, and only those are in Kafka.
Publishing ==
  /\ \A m \in Instance : relay[m] \in {"publishing", "marking"} => batch[m] # <<>>
  /\ \A m \in Instance : \A i \in 1..Len(batch[m]) : tx[batch[m][i]] = "committed"
  /\ \A c \in O!Delivered : tx[c] = "committed"

Types == CallTypes /\ LoopTypes /\ RelayTypes
Inv == Types /\ Asked /\ Transactions /\ Publishing

\* What Inv says of the relays is about these.
heldVars == <<tx, copies, relay, batch>>

-------------------------------------------------------------------------------
(* What the steps do to the rows. *)

StatusKept == \A a \in Appraisal : row'[a].status = row[a].status

\* A row replaced by another record with a status.
LEMMA RowWritten ==
  ASSUME Rows, NEW a \in Appraisal, NEW x, row' = [row EXCEPT ![a] = x],
         "status" \in DOMAIN x, x.status \in Status
  PROVE  /\ Rows' /\ row'[a] = x
         /\ \A b \in Appraisal \ {a} : row'[b] = row[b]
BY DEF Rows

\* An UPDATE under the optimistic lock leaves every status alone.
LEMMA WriteRowKeepsStatus ==
  ASSUME Rows, NEW c \in Call, op[c].target \in Appraisal, A!WriteRow(c)
  PROVE  Rows' /\ StatusKept /\ UNCHANGED <<outbox, op>>
<1> DEFINE a == op[c].target
<1>1. PICK t : row' = [row EXCEPT ![a].fields = A!Patched(c), ![a].updatedAt = t]
  BY DEF A!WriteRow
<1> DEFINE x == [row[a] EXCEPT !.fields = A!Patched(c), !.updatedAt = t]
<1>2. "status" \in DOMAIN x /\ x.status = row[a].status
  BY DEF Rows
<1>3. row' = [row EXCEPT ![a] = x]
  BY <1>1 DEF Rows
<1> HIDE DEF x
<1>4. Rows' /\ row'[a] = x /\ \A b \in Appraisal \ {a} : row'[b] = row[b]
  BY <1>2, <1>3, RowWritten DEF Rows
<1> QED BY <1>2, <1>4 DEF StatusKept, A!WriteRow

\* The insert of the consumer opens an appraisal.
Created(r) ==
  /\ row[r].status = "absent"
  /\ row'[r].status = "in_progress"
  /\ \A a \in Appraisal \ {r} : row'[a].status = row[a].status

LEMMA CreateOpens ==
  ASSUME Rows, NEW r \in Appraisal, A!CreateFromRequest(r)
  PROVE  Rows' /\ Created(r)
<1>1. "status" \in DOMAIN A!Fresh /\ A!Fresh.status = "in_progress"
  BY DEF A!Fresh, A!NoRow
<1>2. Rows' /\ row'[r] = A!Fresh /\ \A b \in Appraisal \ {r} : row'[b] = row[b]
  BY <1>1, RowWritten DEF A!CreateFromRequest, Status
<1> QED BY <1>1, <1>2 DEF Created, A!CreateFromRequest, A!CreateGuard

\* The UPDATE of a completion that commits closes it, and its event is the call's.
Closed(r) ==
  /\ row[r].status = "in_progress"
  /\ row'[r].status = "completed"
  /\ \A a \in Appraisal \ {r} : row'[a].status = row[a].status

LEMMA CompletionCloses ==
  ASSUME Rows, NEW c \in Call, op[c].target \in Appraisal,
         A!Complete(c), A!CompleteGuard(c)
  PROVE  /\ Rows' /\ Closed(op[c].target)
         /\ \E e : outbox' = outbox \cup {e} /\ e.by = c
<1> DEFINE a == op[c].target
<1>1. A!CommitCompletion(c)
  BY DEF A!Complete, A!RollBackCompletion
<1>2. PICK t : /\ row' = [row EXCEPT ![a].status = "completed",
                                     ![a].completedAt = t, ![a].updatedAt = t]
               /\ outbox' = outbox \cup {A!ReportReady(c, t)}
  BY <1>1 DEF A!CommitCompletion
<1> DEFINE x == [row[a] EXCEPT !.status = "completed",
                               !.completedAt = t, !.updatedAt = t]
<1>3. "status" \in DOMAIN x /\ x.status = "completed"
  BY DEF Rows
<1>4. row' = [row EXCEPT ![a] = x]
  BY <1>2 DEF Rows
<1> HIDE DEF x
<1>5. Rows' /\ row'[a] = x /\ \A b \in Appraisal \ {a} : row'[b] = row[b]
  BY <1>3, <1>4, RowWritten DEF Status
<1>6. \E e : outbox' = outbox \cup {e} /\ e.by = c
  <2> WITNESS A!ReportReady(c, t)
  <2> QED BY <1>2 DEF A!ReportReady
<1> QED BY <1>3, <1>5, <1>6 DEF Closed, A!CompleteGuard

-------------------------------------------------------------------------------
(* What the steps do to the calls. *)

\* The call has run one more statement, and the others are where they were.
CallMoves(c) ==
  /\ pc' \in [Call -> CallLabel]
  /\ op' = [d \in Call |-> op'[d]]
  /\ \A d \in Call \ {c} : pc'[d] = pc[d] /\ op'[d] = op[d]
  /\ pc'[c] # "idle"
  /\ pc[c] # "idle" => op'[c] = op[c]
  /\ pc'[c] \in A!Running => op'[c].target \in Appraisal

LEMMA GoesOn ==
  ASSUME CallTypes, NEW c \in Call, NEW q \in A!Running, pc[c] \in A!Running,
         pc' = [pc EXCEPT ![c] = q], UNCHANGED op
  PROVE  CallMoves(c)
BY DEF CallTypes, CallMoves, CallLabel, A!Running

LEMMA Ends ==
  ASSUME CallTypes, NEW c \in Call, NEW q \in A!Outcome,
         A!Return(c, q) \/ A!Answer(c, q), UNCHANGED op
  PROVE  CallMoves(c)
<1>1. PICK o \in A!Outcome : pc' = [pc EXCEPT ![c] = o]
  BY DEF A!Return, A!Answer, A!Outcome
<1>2. o \notin A!Running \cup {"idle"}
  BY DEF A!Outcome, A!Running
<1> QED BY <1>1, <1>2 DEF CallTypes, CallMoves, CallLabel

LEMMA AnalogMoves ==
  ASSUME CallTypes, NEW c \in Call, pc[c] \in A!Running, A!NextAnalog(c), UNCHANGED op
  PROVE  CallMoves(c)
<1>1. PICK q \in {"adding", "replying"} : pc' = [pc EXCEPT ![c] = q]
  BY DEF A!NextAnalog
<1> QED BY <1>1, GoesOn DEF A!Running

LEMMA LoadMoves ==
  ASSUME CallTypes, NEW c \in Call, A!Load(c)
  PROVE  CallMoves(c) /\ UNCHANGED <<row, outbox>>
<1>1. PICK r \in A!Requests : op' = [op EXCEPT ![c] = r]
  BY DEF A!Load
<1>2. r.target \in Appraisal
  BY DEF A!Requests
<1>3. PICK q \in A!Outcome \cup {"listing", "loaded"} : pc' = [pc EXCEPT ![c] = q]
  BY DEF A!Load, A!Return, A!Outcome
<1>4. q # "idle" /\ q \in CallLabel
  BY DEF CallLabel, A!Running, A!Outcome
<1>5. UNCHANGED <<row, outbox>> /\ pc[c] = "idle"
  BY DEF A!Load, A!dbVars
<1> QED BY <1>1, <1>2, <1>3, <1>4, <1>5 DEF CallTypes, CallMoves

\* A statement outside of a transaction moves its call and leaves every status
\* and every event as it is.
LEMMA StatementMoves ==
  ASSUME CallTypes, NEW c \in Call, Statement(c)
  PROVE  /\ CallMoves(c) /\ Rows' /\ StatusKept
         /\ tx[c] # "open" /\ UNCHANGED <<outbox, loopVars, relayVars>>
<1>1. /\ tx[c] # "open" /\ UNCHANGED <<loopVars, relayVars>>
  BY DEF Statement
<1>2. ASSUME UNCHANGED row PROVE Rows' /\ StatusKept
  BY <1>2 DEF Rows, StatusKept, CallTypes
<1>3. ASSUME pc[c] = "loaded", A!Conflict(c) PROVE CallMoves(c) /\ UNCHANGED <<row, outbox>>
  BY <1>3, Ends, "conflict" \in A!Outcome DEF A!Conflict, A!Outcome, A!dbVars
<1>4. ASSUME pc[c] = "loaded", A!WriteRow(c)
      PROVE  Rows' /\ StatusKept /\ UNCHANGED <<outbox, op>>
  BY <1>4, WriteRowKeepsStatus DEF CallTypes, A!Running
<1>5. CASE A!Load(c)
  BY <1>1, <1>2, <1>5, LoadMoves
<1>6. CASE A!Update(c)
  <2>1. CASE A!WriteRow(c) /\ A!Answer(c, "ok")
    BY <1>1, <1>4, <1>6, <2>1, Ends, "ok" \in A!Outcome DEF A!Update, A!Outcome
  <2> QED BY <1>1, <1>2, <1>3, <1>6, <2>1 DEF A!Update
<1>7. CASE A!ApplyCalculation(c)
  <2>1. pc[c] = "loaded"
    BY <1>7 DEF A!ApplyCalculation
  <2>2. CASE A!WriteRow(c) /\ A!Return(c, "error")
    BY <1>1, <1>4, <2>1, <2>2, Ends, "error" \in A!Outcome DEF A!Outcome
  <2>3. CASE A!WriteRow(c) /\ A!Continue(c, IF old[c] = {} THEN "adding" ELSE "deleting")
    <3>1. PICK q \in {"adding", "deleting"} : pc' = [pc EXCEPT ![c] = q]
      BY <2>3 DEF A!Continue
    <3> QED BY <1>1, <1>4, <2>1, <2>3, <3>1, GoesOn DEF A!Running
  <2> QED BY <1>1, <1>2, <1>3, <1>7, <2>1, <2>2, <2>3 DEF A!ApplyCalculation
<1>8. CASE A!Complete(c) /\ ~A!CompleteGuard(c)
  <2>1. A!RollBackCompletion(c)
    BY <1>8 DEF A!Complete, A!CommitCompletion
  <2> QED BY <1>1, <1>2, <2>1, Ends, "conflict" \in A!Outcome
          DEF A!RollBackCompletion, A!Outcome, A!dbVars
<1>9. CASE A!FailStatement(c)
  BY <1>1, <1>2, <1>9, Ends, "error" \in A!Outcome
     DEF A!FailStatement, A!Outcome, A!dbVars
<1>10. CASE A!BeginInsert(c)
  <2>1. pc[c] \in A!Running /\ UNCHANGED <<row, outbox, op>>
    BY <1>10 DEF A!BeginInsert, A!Running, A!dbVars
  <2>2. CASE A!Continue(c, "inserting")
    BY <1>1, <1>2, <2>1, <2>2, GoesOn DEF A!Continue, A!Running
  <2>3. CASE A!Answer(c, "invalid_status")
    BY <1>1, <1>2, <2>1, <2>3, Ends, "invalid_status" \in A!Outcome DEF A!Outcome
  <2>4. CASE A!NextAnalog(c)
    BY <1>1, <1>2, <2>1, <2>4, AnalogMoves
  <2> QED BY <1>10, <2>2, <2>3, <2>4 DEF A!BeginInsert
<1>11. CASE A!CommitInsert(c) \/ A!FailInsert(c)
  <2>1. pc[c] \in A!Running /\ UNCHANGED <<row, outbox, op>>
    BY <1>11 DEF A!CommitInsert, A!FailInsert, A!Running, A!dbVars
  <2>2. CASE A!Answer(c, "ok")
    BY <1>1, <1>2, <2>1, <2>2, Ends, "ok" \in A!Outcome DEF A!Outcome
  <2>3. CASE A!Return(c, "error")
    BY <1>1, <1>2, <2>1, <2>3, Ends, "error" \in A!Outcome DEF A!Outcome
  <2>4. CASE A!NextAnalog(c)
    BY <1>1, <1>2, <2>1, <2>4, AnalogMoves
  <2> QED BY <1>11, <2>2, <2>3, <2>4 DEF A!CommitInsert, A!FailInsert
<1>12. CASE A!DeleteComparable(c)
  <2>1. \/ A!Answer(c, "ok")
        \/ A!Answer(c, "not_found")
    BY <1>12 DEF A!DeleteComparable
  <2>2. UNCHANGED <<row, outbox, op>>
    BY <1>12 DEF A!DeleteComparable
  <2> QED BY <1>1, <1>2, <2>1, <2>2, Ends, "ok" \in A!Outcome, "not_found" \in A!Outcome
          DEF A!Outcome
<1>13. CASE A!ListComparables(c)
  BY <1>1, <1>2, <1>13, GoesOn DEF A!ListComparables, A!Continue, A!Running, A!dbVars
<1>14. CASE A!NotCalculated(c)
  BY <1>1, <1>2, <1>14, Ends, "not_calculated" \in A!Outcome
     DEF A!NotCalculated, A!Outcome, A!dbVars
<1>15. CASE A!DeleteOld(c)
  <2>1. PICK q \in {"adding", "deleting"} : pc' = [pc EXCEPT ![c] = q]
    BY <1>15 DEF A!DeleteOld
  <2>2. pc[c] \in A!Running /\ UNCHANGED <<row, outbox, op>>
    BY <1>15 DEF A!DeleteOld, A!Running
  <2> QED BY <1>1, <1>2, <2>1, <2>2, GoesOn DEF A!Running
<1>16. CASE A!ReplyApplied(c)
  BY <1>1, <1>2, <1>16, Ends, "ok" \in A!Outcome DEF A!ReplyApplied, A!Outcome, A!dbVars
<1> QED BY <1>5, <1>6, <1>7, <1>8, <1>9, <1>10, <1>11, <1>12, <1>13, <1>14, <1>15, <1>16
        DEF Statement

-------------------------------------------------------------------------------
(* The calls keep the invariant. *)

\* What a step of a call or of a relay leaves to the loops.
LEMMA LoopsAside ==
  ASSUME LoopTypes, Asked, UNCHANGED loopVars,
         \A r \in Appraisal : row'[r].status # "absent" => row[r].status # "absent"
  PROVE  LoopTypes' /\ Asked'
BY DEF LoopTypes, Asked, WorksOnAsked, loopVars, C!Asks

LEMMA StatementKeeps ==
  ASSUME Inv, NEW c \in Call, Statement(c)
  PROVE  Inv'
<1> USE DEF Inv, Types
<1>1. /\ CallMoves(c) /\ Rows' /\ StatusKept
      /\ tx[c] # "open" /\ UNCHANGED <<outbox, loopVars, relayVars>>
  BY StatementMoves
<1>2. CallTypes'
  BY <1>1 DEF CallTypes, CallMoves
<1>3. LoopTypes' /\ Asked'
  BY <1>1, LoopsAside DEF StatusKept
<1>4. RelayTypes' /\ Publishing'
  BY <1>1 DEF RelayTypes, Publishing, relayVars, O!Delivered
<1>5. tx' = tx /\ outbox' = outbox
  BY <1>1 DEF relayVars
<1>6. ASSUME NEW d \in Call, tx[d] # "none"
      PROVE  pc'[d] # "idle" /\ op'[d] = op[d] /\ (tx[d] = "open" => pc'[d] = pc[d])
  BY <1>1, <1>6 DEF Transactions, CallMoves
<1>7. Transactions'
  BY <1>1, <1>5, <1>6 DEF Transactions, Holds, StatusKept
<1> QED BY <1>2, <1>3, <1>4, <1>7

\* A transaction begins only on a row in progress that no other has locked.
LEMMA BeginKeeps ==
  ASSUME Inv, NEW c \in Call, BeginTx(c)
  PROVE  Inv'
<1> USE DEF Inv, Types
<1>1. /\ pc[c] = "loaded" /\ row[op[c].target].status = "in_progress"
      /\ ~Locked(op[c].target) /\ tx[c] = "none"
      /\ tx' = [tx EXCEPT ![c] = "open"]
      /\ UNCHANGED <<callVars, loopVars, copies, relay, batch>>
  BY DEF BeginTx, A!CompleteGuard, O!InsertOutbox
<1>2. op[c].target \in Appraisal
  BY <1>1 DEF CallTypes, A!Running
<1>3. CallTypes' /\ LoopTypes' /\ Asked'
  BY <1>1, LoopsAside DEF callVars, CallTypes, Rows
<1>4. \A d \in Call : tx[d] = "committed" <=> tx'[d] = "committed"
  BY <1>1 DEF RelayTypes
<1>5. RelayTypes'
  BY <1>1 DEF RelayTypes
<1>6. Publishing'
  <2>1. O!Delivered' = O!Delivered /\ O!Delivered \subseteq Call
    BY <1>1 DEF O!Delivered
  <2>2. \A m \in Instance : \A i \in 1..Len(batch[m]) : batch[m][i] \in Call
    BY DEF RelayTypes
  <2> QED BY <1>1, <1>4, <2>1, <2>2 DEF Publishing
<1>7. \A d \in Call \ {c} : Holds(d) => op[d].target # op[c].target
  BY <1>1 DEF Transactions, Holds, Locked
<1>8. Transactions'
  BY <1>1, <1>2, <1>7 DEF Transactions, Holds, callVars, RelayTypes
<1> QED BY <1>3, <1>5, <1>6, <1>8

\* What has committed stays so when a transaction ends.
LEMMA EndKeeps ==
  ASSUME RelayTypes, Publishing, NEW c \in Call,
         NEW o \in {"committed", "rolled_back"}, O!End(c, o)
  PROVE  /\ tx[c] = "open" /\ tx' = [tx EXCEPT ![c] = o]
         /\ RelayTypes' /\ Publishing'
<1>1. /\ tx[c] = "open" /\ tx' = [tx EXCEPT ![c] = o]
      /\ UNCHANGED <<copies, relay, batch>>
  BY DEF O!End
<1>2. RelayTypes'
  BY <1>1 DEF RelayTypes
<1>3. \A d \in Call : tx[d] = "committed" => tx'[d] = "committed"
  BY <1>1 DEF RelayTypes
<1>4. O!Delivered' = O!Delivered /\ O!Delivered \subseteq Call
  BY <1>1 DEF O!Delivered
<1>5. \A m \in Instance : \A i \in 1..Len(batch[m]) : batch[m][i] \in Call
  BY DEF RelayTypes
<1> QED BY <1>1, <1>2, <1>3, <1>4, <1>5 DEF Publishing

LEMMA CommitKeeps ==
  ASSUME Inv, NEW c \in Call, CommitTx(c)
  PROVE  Inv' /\ Closed(op[c].target) /\ tx[c] = "open" /\ CallMoves(c)
<1> USE DEF Inv, Types
<1>1. /\ tx[c] = "open" /\ tx' = [tx EXCEPT ![c] = "committed"]
      /\ RelayTypes' /\ Publishing'
  BY EndKeeps DEF CommitTx, O!CommitTx
<1>2. A!Complete(c) /\ A!CompleteGuard(c) /\ UNCHANGED loopVars
  BY DEF CommitTx
<1>3. op[c].target \in Appraisal /\ pc[c] = "loaded"
  BY <1>1, <1>2 DEF Transactions, A!Complete
<1>4. /\ Rows' /\ Closed(op[c].target)
      /\ \E e : outbox' = outbox \cup {e} /\ e.by = c
  BY <1>2, <1>3, CompletionCloses DEF CallTypes
<1>5. CallMoves(c) /\ op' = op
  BY <1>2, Ends, "ok" \in A!Outcome
     DEF A!Complete, A!CommitCompletion, A!RollBackCompletion, A!Outcome
<1>6. CallTypes'
  BY <1>4, <1>5 DEF CallTypes, CallMoves
<1>7. LoopTypes' /\ Asked'
  BY <1>2, <1>4, LoopsAside DEF Closed
<1>8. \A d \in Call \ {c} : Holds(d) => op[d].target # op[c].target
  BY <1>1 DEF Transactions, Holds
<1>9. \A d \in Call : Holds(d)' <=> Holds(d)
  BY <1>1 DEF Holds, RelayTypes
<1>10. Transactions'
  <2>1. ASSUME NEW d \in Call \ {c}
        PROVE  /\ tx'[d] = tx[d] /\ pc'[d] = pc[d]
               /\ Holds(d) => row'[op[d].target].status = row[op[d].target].status
    <3>1. Holds(d) => op[d].target \in Appraisal \ {op[c].target}
      BY <1>8 DEF Transactions, Holds
    <3>2. tx'[d] = tx[d] /\ pc'[d] = pc[d]
      BY <1>1, <1>5 DEF RelayTypes, CallMoves
    <3> QED BY <1>4, <3>1, <3>2 DEF Closed
  <2>2. \A d \in Call : (\E e \in outbox' : e.by = d) <=>
                        d = c \/ (\E e \in outbox : e.by = d)
    BY <1>4
  <2>3. tx'[c] = "committed" /\ pc'[c] # "idle" /\ row'[op[c].target].status = "completed"
    BY <1>1, <1>4, <1>5 DEF RelayTypes, CallMoves, Closed
  <2> QED BY <1>1, <1>3, <1>5, <1>9, <2>1, <2>2, <2>3 DEF Transactions, Holds
<1> QED BY <1>1, <1>4, <1>5, <1>6, <1>7, <1>10

\* The end of a transaction that does not commit.
LEMMA NotCommitted ==
  ASSUME Inv, NEW c \in Call, O!RollBackTx(c), CallMoves(c), op' = op,
         UNCHANGED <<row, outbox, loopVars>>
  PROVE  Inv'
<1> USE DEF Inv, Types
<1>1. /\ tx[c] = "open" /\ tx' = [tx EXCEPT ![c] = "rolled_back"]
      /\ RelayTypes' /\ Publishing'
  BY EndKeeps DEF O!RollBackTx
<1>2. CallTypes' /\ LoopTypes' /\ Asked'
  BY LoopsAside DEF CallTypes, CallMoves, Rows
<1>3. /\ \A d \in Call \ {c} : tx'[d] = tx[d] /\ pc'[d] = pc[d]
      /\ tx'[c] = "rolled_back" /\ pc'[c] # "idle"
  BY <1>1 DEF RelayTypes, CallMoves
<1>4. \A d \in Call : (Holds(d)' => Holds(d)) /\ (tx'[d] = "committed" <=> tx[d] = "committed")
  BY <1>1, <1>3 DEF Holds
<1>5. Transactions'
  BY <1>1, <1>3, <1>4 DEF Transactions
<1> QED BY <1>1, <1>2, <1>5

LEMMA RollBackKeeps ==
  ASSUME Inv, NEW c \in Call, RollBackTx(c)
  PROVE  Inv'
<1>1. CallMoves(c)
  BY Ends, "error" \in A!Outcome DEF RollBackTx, A!FailStatement, A!Outcome, Inv, Types
<1> QED BY <1>1, NotCommitted DEF RollBackTx, A!FailStatement, A!dbVars

LEMMA AbortKeeps ==
  ASSUME Inv, NEW c \in Call, AbortTx(c)
  PROVE  Inv'
<1>1. CallMoves(c)
  BY DEF AbortTx, callVars, CallMoves, CallTypes, Inv, Types
<1> QED BY <1>1, NotCommitted DEF AbortTx, callVars

-------------------------------------------------------------------------------
(* The loops keep the invariant. *)

\* Whatever a loop does, it passes only a record of the log that asks.
LEMMA LoopMoves ==
  ASSUME LoopTypes, WorksOnAsked, NEW m \in Instance,
         C!Step(m) \/ C!Fail(m) \/ C!Stop(m) \/ C!Restart(m)
  PROVE  LoopTypes' /\ WorksOnAsked' /\ UNCHANGED log
<1> USE DEF LoopTypes, WorksOnAsked, C!Label
<1>1. CASE C!Fetch(m)
  <2>1. /\ position[m] + 1 \in 1..Len(log)
        /\ position' = [position EXCEPT ![m] = position[m] + 1]
        /\ offset' = [offset EXCEPT ![m] = position[m] + 1]
        /\ UNCHANGED <<log, committed>>
    BY <1>1 DEF C!Fetch
  <2>2. PICK l \in {"checking", "committing"} :
          /\ loop' = [loop EXCEPT ![m] = l]
          /\ l = "checking" => log[position[m] + 1].creates
    BY <1>1 DEF C!Fetch, C!Goto, C!Relevant
  <2> QED BY <2>1, <2>2
<1>2. CASE C!CheckSeen(m)
  BY <1>2 DEF C!CheckSeen, C!Goto, C!readerVars
<1>3. CASE C!CreateFromRequest(m) \/ C!MarkSeen(m)
  BY <1>3 DEF C!CreateFromRequest, C!MarkSeen, C!Goto, C!readerVars
<1>4. CASE C!Commit(m)
  <2>1. PICK l \in {"fetching", "failed"} : loop' = [loop EXCEPT ![m] = l]
    BY <1>4 DEF C!Commit, C!Goto
  <2>2. /\ UNCHANGED <<log, position, offset>>
        /\ committed' \in {committed, offset[m]}
    BY <1>4 DEF C!Commit, C!CommitOffset
  <2> QED BY <2>1, <2>2
<1>5. CASE C!Fail(m)
  <2>1. /\ loop' = [loop EXCEPT ![m] = "failed"] /\ UNCHANGED <<log, position, offset>>
        /\ committed' \in {committed, offset[m]}
    BY <1>5 DEF C!Fail, C!Goto, C!CommitOffset
  <2> QED BY <2>1
<1>6. CASE C!Stop(m)
  BY <1>6 DEF C!Stop, C!Goto, C!readerVars
<1>7. CASE C!Restart(m)
  BY <1>7 DEF C!Restart, C!Goto
<1> QED BY <1>1, <1>2, <1>3, <1>4, <1>5, <1>6, <1>7 DEF C!Step

\* The loops have what they need, and the rest of the service is as it was.
LEMMA LoopsKeep ==
  ASSUME Inv, LoopTypes', WorksOnAsked', UNCHANGED <<callVars, heldVars>>,
         \A r \in Appraisal : C!Asks(r) => C!Asks(r)'
  PROVE  Inv'
<1> USE DEF Inv, Types
<1>1. CallTypes' /\ RelayTypes'
  BY DEF CallTypes, Rows, RelayTypes, callVars, heldVars
<1>2. Asked'
  BY DEF Asked, callVars
<1>3. Transactions' /\ Publishing'
  BY DEF Transactions, Holds, Publishing, O!Delivered, callVars, heldVars
<1> QED BY <1>1, <1>2, <1>3

\* The request a loop is about to open an appraisal for.
LEMMA RequestedIsAsked ==
  ASSUME LoopTypes, WorksOnAsked, NEW m \in Instance, loop[m] = "creating"
  PROVE  Requested(m) \in Appraisal /\ C!Asks(Requested(m))
<1>1. /\ offset[m] \in 1..Len(log) /\ log[offset[m]].creates
      /\ log[offset[m]] \in Record
  BY DEF LoopTypes, WorksOnAsked
<1> QED BY <1>1, RecordAssumption DEF Requested, C!Asks

LEMMA InsertKeeps ==
  ASSUME Inv, NEW m \in Instance, loop[m] = "creating", LoopTypes', WorksOnAsked',
         UNCHANGED <<log, heldVars>>, A!CreateFromRequest(Requested(m))
  PROVE  Inv' /\ Created(Requested(m))
<1> USE DEF Inv, Types
<1> DEFINE r == Requested(m)
<1>1. r \in Appraisal /\ C!Asks(r)
  BY RequestedIsAsked DEF Asked
<1>2. Rows' /\ Created(r) /\ UNCHANGED <<pc, op, outbox>>
  BY <1>1, CreateOpens DEF CallTypes, A!CreateFromRequest
<1>3. CallTypes' /\ RelayTypes'
  BY <1>2 DEF CallTypes, RelayTypes, heldVars
<1>4. Asked'
  BY <1>1, <1>2 DEF Asked, Created, C!Asks
<1>5. Publishing'
  BY DEF Publishing, O!Delivered, heldVars
<1>6. \A c \in Call : Holds(c) => op[c].target \in Appraisal \ {r}
  BY <1>2 DEF Holds, Transactions, Created
<1>7. UNCHANGED <<tx, pc, op, outbox>>
  BY <1>2 DEF heldVars
<1>8. Transactions'
  BY <1>2, <1>6, <1>7 DEF Transactions, Holds, Created
<1> QED BY <1>2, <1>3, <1>4, <1>5, <1>8

LEMMA LoopStepKeeps ==
  ASSUME Inv, NEW m \in Instance, LoopStep(m) \/ LoopFails(m) \/ Shutdown(m)
  PROVE  /\ Inv' /\ UNCHANGED <<log, heldVars>>
         /\ \/ UNCHANGED callVars
            \/ /\ loop[m] = "creating" /\ Created(Requested(m))
               /\ UNCHANGED <<op, outbox>>
<1>1. UNCHANGED heldVars
  BY DEF LoopStep, LoopFails, Shutdown, O!Shutdown, O!dbVars, relayVars, heldVars
<1>2. \/ C!Step(m) \/ C!Fail(m)
      \/ UNCHANGED <<callVars, loopVars>>
  BY DEF LoopStep, LoopFails, LoopReturns, Shutdown
<1>3. LoopTypes' /\ WorksOnAsked' /\ UNCHANGED log
  <2>1. CASE C!Step(m) \/ C!Fail(m)
    BY <2>1, LoopMoves DEF Inv, Types, Asked
  <2>2. CASE UNCHANGED <<callVars, loopVars>>
    BY <2>2 DEF LoopTypes, WorksOnAsked, loopVars, Inv, Types, Asked
  <2> QED BY <1>2, <2>1, <2>2
<1>4. CASE UNCHANGED callVars
  BY <1>1, <1>3, <1>4, LoopsKeep DEF C!Asks
<1>5. CASE loop[m] = "creating" /\ A!CreateFromRequest(Requested(m))
  BY <1>1, <1>3, <1>5, InsertKeeps DEF A!CreateFromRequest
<1> QED BY <1>1, <1>3, <1>4, <1>5
        DEF LoopStep, LoopFails, LoopReturns, Shutdown, InsertAppraisal

\* An event of request-service comes, a key expires, the partition changes hands.
LEMMA PublishedKeeps ==
  ASSUME Inv, NEW x \in Record, log' = Append(log, x),
         UNCHANGED <<committed, loop, position, offset, callVars, relayVars>>
  PROVE  /\ Inv'
         /\ \A r \in Appraisal : C!Asks(r)' <=> C!Asks(r) \/ (x.creates /\ x.request = r)
<1> USE DEF Inv, Types
<1>1. /\ log' \in Seq(Record) /\ Len(log') = Len(log) + 1
      /\ \A i \in 1..Len(log) : log'[i] = log[i]
      /\ log'[Len(log) + 1] = x
  BY AppendProperties DEF LoopTypes
<1>2. Len(log) \in Nat
  BY DEF LoopTypes
<1>3. \A r \in Appraisal : C!Asks(r)' <=> C!Asks(r) \/ (x.creates /\ x.request = r)
  BY <1>1, <1>2 DEF C!Asks
<1>4. LoopTypes' /\ WorksOnAsked'
  BY <1>1, <1>2 DEF LoopTypes, Asked, WorksOnAsked
<1> QED BY <1>3, <1>4, LoopsKeep DEF relayVars, heldVars

LEMMA EnvironmentKeeps ==
  ASSUME Inv, Environment
  PROVE  Inv'
<1>1. CASE C!Publish
  BY <1>1, PublishedKeeps DEF Environment, C!Publish, C!readerVars
<1>2. CASE C!Expire \/ \E m \in Instance : C!TakeOver(m) \/ C!Rebalance(m)
  <2>1. /\ UNCHANGED <<log, committed, loop, offset>>
        /\ \/ UNCHANGED position
           \/ \E m \in Instance : position' = [position EXCEPT ![m] = committed]
    BY <1>2 DEF C!Expire, C!TakeOver, C!Rebalance, C!Assign, C!readerVars
  <2>2. LoopTypes' /\ WorksOnAsked'
    BY <2>1 DEF Inv, Types, LoopTypes, Asked, WorksOnAsked
  <2> QED BY <2>1, <2>2, LoopsKeep DEF Environment, C!Asks, relayVars, heldVars
<1> QED BY <1>1, <1>2 DEF Environment

-------------------------------------------------------------------------------
(* The relays and the processes keep the invariant. *)

\* A batch a relay may hold.
CommittedBatch(b) == b \in Seq(Call) /\ \A i \in 1..Len(b) : tx[b[i]] = "committed"

\* A poll returns some committed events.
LEMMA PollIsCommitted ==
  ASSUME RelayTypes, O!Unpublished # {}, NEW b \in O!Poll
  PROVE  CommittedBatch(b) /\ b # <<>>
<1>1. PICK n \in 0..BatchSize : b \in [1..n -> O!Unpublished]
  BY DEF O!Poll
<1>2. n \in Nat
  BY BatchSizeAssumption
<1>3. b \in Seq(O!Unpublished) /\ Len(b) = n
  BY <1>1, <1>2
<1>4. \A e \in O!Unpublished : e \in Call /\ tx[e] = "committed"
  BY DEF O!Unpublished
<1>5. b \in Seq(Call) /\ \A i \in 1..n : tx[b[i]] = "committed"
  BY <1>1, <1>2, <1>4
<1>6. b # <<>>
  <2> SUFFICES ASSUME b = <<>> PROVE FALSE
    OBVIOUS
  <2>1. PICK e \in O!Unpublished : TRUE
    OBVIOUS
  <2>2. Len(b) = BatchSize \/ \E i \in DOMAIN b : b[i] = e
    BY <2>1 DEF O!Poll
  <2>3. Len(b) = 0 /\ DOMAIN b = {}
    OBVIOUS
  <2> QED BY <2>2, <2>3, BatchSizeAssumption
<1> QED BY <1>3, <1>5, <1>6 DEF CommittedBatch

\* What a relay has in hand is committed, and may now be in Kafka.
Sent(c) ==
  /\ c \in Call /\ tx[c] = "committed"
  /\ copies' \in [Call -> Nat]
  /\ O!Delivered' = O!Delivered \cup {c}

LEMMA SendSends ==
  ASSUME RelayTypes, Publishing, NEW m \in Instance, relay[m] = "publishing", O!Send(m)
  PROVE  Sent(O!InHand(m))
<1>1. batch[m] \in Seq(Call) /\ batch[m] # <<>>
  BY DEF RelayTypes, Publishing
<1>2. 1 \in 1..Len(batch[m]) /\ O!InHand(m) = batch[m][1]
  BY <1>1, EmptySeq DEF O!InHand
<1> DEFINE c == batch[m][1]
<1>3. c \in Call /\ tx[c] = "committed"
  BY <1>1, <1>2 DEF Publishing
<1>4. copies' = [copies EXCEPT ![c] = copies[c] + 1]
  BY <1>2 DEF O!Send
<1>5. copies[c] + 1 \in Nat /\ copies[c] + 1 > 0
  BY <1>3 DEF RelayTypes
<1> QED BY <1>2, <1>3, <1>4, <1>5 DEF Sent, RelayTypes, O!Delivered

\* The steps of a relay and of its process, by what they do to its batch.
LEMMA RelayMoves ==
  ASSUME RelayTypes, Publishing, NEW m \in Instance,
         tx' = tx, copies' \in [Call -> Nat], \A c \in O!Delivered' : tx[c] = "committed",
         NEW l \in {"waiting", "publishing", "marking", "stopped"}, NEW b, CommittedBatch(b),
         relay' = [relay EXCEPT ![m] = l], batch' = [batch EXCEPT ![m] = b],
         l \in {"publishing", "marking"} => b # <<>>
  PROVE  RelayTypes' /\ Publishing'
BY DEF RelayTypes, Publishing, CommittedBatch

LEMMA RelayStepKeeps ==
  ASSUME Inv, NEW m \in Instance, RelayStep(m)
  PROVE  /\ Inv' /\ UNCHANGED <<callVars, loopVars, tx>>
         /\ O!Delivered' = O!Delivered \/ \E c \in Call : Sent(c)
<1> USE DEF Inv, Types
<1>1. UNCHANGED <<callVars, loopVars>>
  BY DEF RelayStep
<1>2. CommittedBatch(batch[m])
  BY DEF RelayTypes, Publishing, CommittedBatch
<1>3. CommittedBatch(<<>>)
  BY DEF CommittedBatch
<1>4. batch' = [batch EXCEPT ![m] = batch[m]] <=> batch' = batch
  BY DEF RelayTypes
<1>5. relay' = [relay EXCEPT ![m] = relay[m]] <=> relay' = relay
  BY DEF RelayTypes
<1> DEFINE Goal == /\ RelayTypes' /\ Publishing' /\ tx' = tx
                   /\ O!Delivered' = O!Delivered \/ \E c \in Call : Sent(c)
<1>6. ASSUME UNCHANGED copies
      PROVE  /\ copies' \in [Call -> Nat] /\ O!Delivered' = O!Delivered
             /\ \A c \in O!Delivered' : tx[c] = "committed"
  BY <1>6 DEF RelayTypes, Publishing, O!Delivered
<1>7. ASSUME relay[m] = "publishing", O!Send(m)
      PROVE  /\ copies' \in [Call -> Nat] /\ \E c \in Call : Sent(c)
             /\ \A c \in O!Delivered' : tx[c] = "committed"
  <2>1. Sent(O!InHand(m))
    BY <1>7, SendSends
  <2> QED BY <2>1 DEF Sent, Publishing
<1>8. ASSUME O!Tick(m) PROVE Goal
  <2>1. PICK b \in O!Poll : batch' = [batch EXCEPT ![m] = b]
    BY <1>8 DEF O!Tick
  <2>2. /\ relay' = [relay EXCEPT ![m] = "publishing"] /\ UNCHANGED <<tx, copies>>
        /\ O!Unpublished # {}
    BY <1>8 DEF O!Tick, O!dbVars
  <2>3. CommittedBatch(b) /\ b # <<>>
    BY <2>2, PollIsCommitted
  <2> QED BY <1>6, <2>1, <2>2, <2>3, RelayMoves
<1>9. ASSUME O!Publish(m) PROVE Goal
  <2>1. /\ relay[m] = "publishing" /\ O!Send(m) /\ UNCHANGED <<tx, batch>>
        /\ relay' = [relay EXCEPT ![m] = "marking"]
    BY <1>9 DEF O!Publish, O!dbVars
  <2>2. batch[m] # <<>>
    BY <2>1 DEF Publishing
  <2> QED BY <1>2, <1>4, <1>7, <2>1, <2>2, RelayMoves
<1>10. ASSUME O!PublishAgain(m) PROVE Goal
  <2>1. relay[m] = "publishing" /\ O!Send(m) /\ UNCHANGED <<tx, batch, relay>>
    BY <1>10 DEF O!PublishAgain, O!dbVars
  <2>2. batch[m] # <<>>
    BY <2>1 DEF Publishing
  <2> QED BY <1>2, <1>4, <1>5, <1>7, <2>1, <2>2, RelayMoves
<1>11. ASSUME O!PublishFails(m) PROVE Goal
  <2>1. /\ relay[m] = "publishing" /\ tx' = tx /\ (UNCHANGED copies \/ O!Send(m))
        /\ relay' = [relay EXCEPT ![m] = "waiting"] /\ batch' = [batch EXCEPT ![m] = <<>>]
    BY <1>11 DEF O!PublishFails, O!GiveUp, O!dbVars
  <2>2. /\ copies' \in [Call -> Nat] /\ \A c \in O!Delivered' : tx[c] = "committed"
        /\ O!Delivered' = O!Delivered \/ \E c \in Call : Sent(c)
    BY <1>6, <1>7, <2>1
  <2> QED BY <1>3, <2>1, <2>2, RelayMoves
<1>12. ASSUME O!Mark(m) PROVE Goal
  <2>1. /\ relay[m] = "marking" /\ batch' = [batch EXCEPT ![m] = Tail(batch[m])]
        /\ UNCHANGED <<tx, copies>>
        /\ relay' = [relay EXCEPT ![m] = IF Len(batch[m]) = 1 THEN "waiting" ELSE "publishing"]
    BY <1>12 DEF O!Mark, O!NextRow
  <2>2. batch[m] # <<>>
    BY <2>1 DEF Publishing
  <2>3. /\ Tail(batch[m]) \in Seq(Call) /\ Len(Tail(batch[m])) = Len(batch[m]) - 1
        /\ \A i \in 1..Len(Tail(batch[m])) : Tail(batch[m])[i] = batch[m][i + 1]
    BY <1>2, <2>2, HeadTailProperties DEF CommittedBatch
  <2>4. Len(batch[m]) \in Nat
    BY <1>2 DEF CommittedBatch
  <2>5. Tail(batch[m]) = <<>> => Len(batch[m]) = 1
    <3> SUFFICES ASSUME Tail(batch[m]) = <<>> PROVE Len(batch[m]) = 1
      OBVIOUS
    <3>1. Len(Tail(batch[m])) = 0
      BY EmptySeq
    <3> QED BY <2>3, <2>4, <3>1
  <2>6. CommittedBatch(Tail(batch[m]))
    BY <1>2, <2>3, <2>4 DEF CommittedBatch
  <2> QED BY <1>6, <2>1, <2>5, <2>6, RelayMoves
<1>13. ASSUME O!MarkFails(m) PROVE Goal
  <2>1. /\ relay' = [relay EXCEPT ![m] = "waiting"] /\ batch' = [batch EXCEPT ![m] = <<>>]
        /\ UNCHANGED <<tx, copies>>
    BY <1>13 DEF O!MarkFails, O!GiveUp
  <2> QED BY <1>3, <1>6, <2>1, RelayMoves
<1>14. ASSUME O!RunReturns(m) PROVE Goal
  <2>1. relay' = [relay EXCEPT ![m] = "stopped"] /\ UNCHANGED <<tx, copies, batch>>
    BY <1>14 DEF O!RunReturns, O!dbVars
  <2> QED BY <1>2, <1>4, <1>6, <2>1, RelayMoves
<1>15. Goal
  BY <1>8, <1>9, <1>10, <1>11, <1>12, <1>13, <1>14 DEF RelayStep
<1>16. CallTypes' /\ LoopTypes' /\ Asked'
  BY <1>1, LoopsAside DEF CallTypes, Rows, callVars
<1>17. Transactions'
  BY <1>1, <1>15 DEF Transactions, Holds, callVars
<1> QED BY <1>1, <1>15, <1>16, <1>17

\* The calls, the loop and the relay of an instance, by what its process does to them.
LEMMA ProcessMoves ==
  ASSUME Inv, NEW m \in Instance, LoopTypes', WorksOnAsked', CallTypes',
         UNCHANGED <<row, outbox, op, log, tx, copies>>,
         \A c \in Call : pc'[c] = pc[c] \/ (pc'[c] = "lost" /\ pc[c] \in A!Running),
         relay' \in [Instance -> {"waiting", "publishing", "marking", "stopped"}],
         batch' \in [Instance -> Seq(Call)],
         \A i \in Instance : \/ relay'[i] = relay[i] /\ batch'[i] = batch[i]
                             \/ /\ relay'[i] \in {"waiting", "stopped"}
                                /\ batch'[i] \in {<<>>, batch[i]}
  PROVE  Inv'
<1> USE DEF Inv, Types
<1>1. RelayTypes'
  BY DEF RelayTypes
<1>2. Asked'
  BY DEF Asked, C!Asks
<1>3. Transactions'
  <2>1. \A c \in Call : pc[c] # "idle" => pc'[c] # "idle"
    OBVIOUS
  <2>2. \A c \in Call : pc[c] \in {"loaded", "lost"} => pc'[c] \in {"loaded", "lost"}
    OBVIOUS
  <2> QED BY <2>1, <2>2 DEF Transactions, Holds
<1>4. Publishing'
  <2>1. O!Delivered' = O!Delivered
    BY DEF O!Delivered
  <2>2. \A i \in Instance : CommittedBatch(batch[i])
    BY DEF RelayTypes, Publishing, CommittedBatch
  <2>3. CommittedBatch(<<>>)
    BY DEF CommittedBatch
  <2>4. \A i \in Instance : CommittedBatch(batch'[i])
    BY <2>2, <2>3
  <2> QED BY <2>1, <2>4 DEF Publishing, CommittedBatch
<1> QED BY <1>1, <1>2, <1>3, <1>4

LEMMA LoseMoves ==
  ASSUME CallTypes, NEW m \in Instance, LoseCalls(m)
  PROVE  /\ CallTypes' /\ UNCHANGED <<row, outbox, op>>
         /\ \A c \in Call : pc'[c] = pc[c] \/ (pc'[c] = "lost" /\ pc[c] \in A!Running)
<1>1. CASE A!Lose(CallsAt(m))
  <2>1. /\ UNCHANGED <<row, outbox, op>>
        /\ pc' = [c \in Call |-> IF c \in CallsAt(m) THEN "lost" ELSE pc[c]]
    BY <1>1 DEF A!Lose, A!dbVars
  <2>2. \A c \in CallsAt(m) : pc[c] \in A!Running
    BY DEF CallsAt, A!InFlight
  <2>3. "lost" \in CallLabel /\ "lost" \notin A!Running
    BY DEF CallLabel, A!Outcome, A!Running
  <2> QED BY <2>1, <2>2, <2>3 DEF CallTypes, Rows
<1>2. CASE UNCHANGED callVars
  BY <1>2 DEF CallTypes, Rows, callVars
<1> QED BY <1>1, <1>2 DEF LoseCalls

LEMMA ProcessKeeps ==
  ASSUME Inv, NEW m \in Instance, Crash(m) \/ Start(m)
  PROVE  Inv' /\ UNCHANGED <<row, outbox, op, log, tx, copies>>
<1> USE DEF Inv, Types
<1>1. CASE Crash(m)
  <2>1. LoopTypes' /\ WorksOnAsked' /\ UNCHANGED log
    BY <1>1, LoopMoves DEF Crash, Asked
  <2>2. /\ CallTypes' /\ UNCHANGED <<row, outbox, op>>
        /\ \A c \in Call : pc'[c] = pc[c] \/ (pc'[c] = "lost" /\ pc[c] \in A!Running)
    BY <1>1, LoseMoves DEF Crash
  <2>3. /\ UNCHANGED <<tx, copies>>
        /\ \/ UNCHANGED <<relay, batch>>
           \/ /\ relay' = [relay EXCEPT ![m] = "stopped"]
              /\ batch' = [batch EXCEPT ![m] = <<>>]
    BY <1>1 DEF Crash, O!Crash, O!dbVars, relayVars
  <2>4. <<>> \in Seq(Call)
    OBVIOUS
  <2> QED BY <2>1, <2>2, <2>3, <2>4, ProcessMoves DEF RelayTypes
<1>2. CASE Start(m)
  <2>1. /\ UNCHANGED <<callVars, tx, copies, batch>>
        /\ relay' = [relay EXCEPT ![m] = "waiting"]
    BY <1>2 DEF Start, O!Start, O!dbVars
  <2>2. LoopTypes' /\ WorksOnAsked' /\ UNCHANGED log
    BY <1>2, LoopMoves DEF Start, Asked
  <2>3. CallTypes'
    BY <2>1 DEF CallTypes, Rows, callVars
  <2> QED BY <2>1, <2>2, <2>3, ProcessMoves DEF RelayTypes, callVars
<1> QED BY <1>1, <1>2

-------------------------------------------------------------------------------

LEMMA Invariance == Spec => []Inv
<1>1. Init => Inv
  <2> SUFFICES ASSUME Init PROVE Inv
    OBVIOUS
  <2>1. CallTypes
    BY DEF Init, A!Init, CallTypes, Rows, A!NoRow, Status, CallLabel, A!Running
  <2>2. LoopTypes /\ Asked
    BY DEF Init, A!Init, C!Init, LoopTypes, Asked, WorksOnAsked, C!Label, A!NoRow
  <2>3. RelayTypes
    BY DEF Init, O!Init, RelayTypes
  <2>4. Transactions
    BY DEF Init, A!Init, O!Init, Transactions, Holds
  <2>5. Publishing
    BY DEF Init, O!Init, Publishing, O!Delivered
  <2> QED BY <2>1, <2>2, <2>3, <2>4, <2>5 DEF Inv, Types
<1>2. Inv /\ [Next]_vars => Inv'
  <2> SUFFICES ASSUME Inv, [Next]_vars PROVE Inv'
    OBVIOUS
  <2>1. ASSUME NEW c \in Call, CallStep(c) \/ AbortTx(c) PROVE Inv'
    BY <2>1, StatementKeeps, BeginKeeps, CommitKeeps, RollBackKeeps, AbortKeeps
       DEF CallStep
  <2>2. ASSUME NEW m \in Instance, LoopStep(m) \/ LoopFails(m) \/ Shutdown(m) PROVE Inv'
    BY <2>2, LoopStepKeeps
  <2>3. ASSUME NEW m \in Instance, RelayStep(m) PROVE Inv'
    BY <2>3, RelayStepKeeps
  <2>4. ASSUME NEW m \in Instance, Crash(m) \/ Start(m) PROVE Inv'
    BY <2>4, ProcessKeeps
  <2>5. CASE UNCHANGED vars
    BY <2>5, LoopsKeep
       DEF vars, loopVars, relayVars, heldVars, LoopTypes, Asked, WorksOnAsked, C!Asks, Inv, Types
  <2> QED BY <2>1, <2>2, <2>3, <2>4, <2>5, EnvironmentKeeps DEF Next
<1> QED BY <1>1, <1>2, PTL DEF Spec

\* The two views of the outbox agree whoever runs in between: a transaction that has
\* updated its row and not ended keeps every other from it.
THEOREM OutboxesAgree == Spec => []OutboxIsOne
<1>1. Inv => OutboxIsOne
  BY DEF Inv, Transactions, OutboxIsOne
<1> QED BY <1>1, Invariance, PTL

\* What review.events says of a request is so: it was asked for, it is completed,
\* and no other event says it again.
THEOREM AnnouncementsAreTrue == Spec => []AnnouncedIsTrue
<1>1. Inv => AnnouncedIsTrue
  <2> SUFFICES ASSUME Inv, NEW c \in O!Delivered
               PROVE  LET r == op[c].target
                      IN  /\ row[r].status = "completed"
                          /\ C!Asks(r)
                          /\ \A d \in O!Delivered : op[d].target = r => d = c
    BY DEF AnnouncedIsTrue
  <2>1. \A d \in O!Delivered : d \in Call /\ tx[d] = "committed"
    BY DEF O!Delivered, Inv, Publishing
  <2> QED BY <2>1 DEF Inv, Transactions, Holds, Asked
<1> QED BY <1>1, Invariance, PTL

-------------------------------------------------------------------------------
(* Composed, each component still is what its own module says. *)

LEMMA CallsAreAppraisals ==
  ASSUME Inv, [Next]_vars
  PROVE  [A!Next]_(A!vars)
<1>1. callVars = A!vars /\ callVars' = A!vars'
  BY DEF callVars, A!vars
<1>2. ASSUME NEW c \in Call, CallStep(c) \/ AbortTx(c)
      PROVE  A!Step(c) \/ UNCHANGED callVars
  BY <1>2 DEF CallStep, Statement, BeginTx, CommitTx, RollBackTx, AbortTx, A!Step
<1>3. ASSUME NEW m \in Instance, LoopStep(m) \/ LoopFails(m) \/ Shutdown(m)
      PROVE  UNCHANGED callVars \/ \E r \in Appraisal : A!CreateFromRequest(r)
  BY <1>3, RequestedIsAsked
     DEF LoopStep, LoopFails, LoopReturns, Shutdown, InsertAppraisal, Inv, Types, Asked
<1>4. ASSUME NEW m \in Instance, Crash(m)
      PROVE  UNCHANGED callVars \/ A!Crash
  BY <1>4 DEF Crash, LoseCalls, CallsAt, A!Crash
<1>5. ASSUME NEW m \in Instance, RelayStep(m) \/ Start(m)
      PROVE  UNCHANGED callVars
  BY <1>5 DEF RelayStep, Start
<1>6. CASE Environment \/ UNCHANGED vars
  BY <1>1, <1>6 DEF Environment, vars
<1> QED BY <1>1, <1>2, <1>3, <1>4, <1>5, <1>6 DEF Next, A!Next

\* The consumer's view of the rows changes with their status alone.
LEMMA ViewKept ==
  ASSUME UNCHANGED loopVars, StatusKept
  PROVE  UNCHANGED C!vars
BY DEF loopVars, StatusKept, C!vars

LEMMA LoopsAreConsumer ==
  ASSUME Inv, [Next]_vars
  PROVE  [C!Next]_(C!vars)
<1>1. ASSUME UNCHANGED <<row, loopVars>> PROVE UNCHANGED C!vars
  BY <1>1, ViewKept DEF StatusKept
<1>2. ASSUME NEW c \in Call, CallStep(c) \/ AbortTx(c)
      PROVE  UNCHANGED C!vars \/ \E r \in Appraisal : C!CompleteAppraisal(r)
  <2>1. CASE Statement(c)
    BY <2>1, StatementMoves, ViewKept DEF Inv, Types
  <2>2. CASE CommitTx(c)
    <3>1. Closed(op[c].target) /\ op[c].target \in Appraisal /\ UNCHANGED loopVars
      BY <2>2, CommitKeeps DEF Inv, Transactions, CommitTx
    <3> QED BY <3>1 DEF Closed, C!CompleteAppraisal, C!readerVars, loopVars
  <2>3. CASE BeginTx(c) \/ RollBackTx(c) \/ AbortTx(c)
    BY <1>1, <2>3 DEF BeginTx, RollBackTx, AbortTx, A!FailStatement, A!dbVars, callVars
  <2> QED BY <1>2, <2>1, <2>2, <2>3 DEF CallStep
<1>3. ASSUME NEW m \in Instance, LoopStep(m) \/ LoopFails(m) \/ Shutdown(m)
      PROVE  C!Step(m) \/ C!Fail(m) \/ UNCHANGED C!vars
  BY <1>1, <1>3 DEF LoopStep, LoopFails, LoopReturns, Shutdown, callVars
<1>4. ASSUME NEW m \in Instance, Crash(m) \/ Start(m)
      PROVE  C!Stop(m) \/ C!Restart(m)
  BY <1>4 DEF Crash, Start
<1>5. ASSUME NEW m \in Instance, RelayStep(m)
      PROVE  UNCHANGED C!vars
  BY <1>1, <1>5 DEF RelayStep, callVars
<1>6. CASE Environment
  BY <1>6 DEF Environment, C!Next
<1>7. CASE UNCHANGED vars
  BY <1>1, <1>7 DEF vars, callVars
<1> QED BY <1>2, <1>3, <1>4, <1>5, <1>6, <1>7 DEF Next, C!Next

LEMMA RelaysAreOutbox ==
  ASSUME [Next]_vars
  PROVE  [O!Next]_(O!vars)
<1>1. relayVars = O!vars /\ relayVars' = O!vars'
  BY DEF relayVars, O!vars
<1>2. ASSUME NEW c \in Call, CallStep(c) \/ AbortTx(c)
      PROVE  O!InsertOutbox(c) \/ O!CommitTx(c) \/ O!RollBackTx(c) \/ UNCHANGED relayVars
  BY <1>2 DEF CallStep, Statement, BeginTx, CommitTx, RollBackTx, AbortTx
<1>3. ASSUME NEW m \in Instance, RelayStep(m) \/ Crash(m) \/ Shutdown(m) \/ Start(m)
      PROVE  O!Step(m) \/ UNCHANGED relayVars
  BY <1>3 DEF RelayStep, Crash, Shutdown, Start, O!Step
<1>4. ASSUME NEW m \in Instance, LoopStep(m) \/ LoopFails(m)
      PROVE  UNCHANGED relayVars
  BY <1>4 DEF LoopStep, LoopFails
<1>5. CASE Environment \/ UNCHANGED vars
  BY <1>1, <1>5 DEF Environment, vars
<1> QED BY <1>1, <1>2, <1>3, <1>4, <1>5 DEF Next, O!Next

\* Neither the steps of a transaction, nor the rows the consumer shares with the
\* calls, nor processes that stop and start as wholes, take a component out of what
\* its own module allows: the theorems about the components hold of the service.
THEOREM ComponentsCompose == Spec => A!Spec /\ C!Spec /\ O!Spec
<1>1. Init => A!Init /\ C!Init /\ O!Init
  BY DEF Init
<1>2. Inv /\ [Next]_vars =>
        [A!Next]_(A!vars) /\ [C!Next]_(C!vars) /\ [O!Next]_(O!vars)
  BY CallsAreAppraisals, LoopsAreConsumer, RelaysAreOutbox
<1> QED BY <1>1, <1>2, Invariance, PTL DEF Spec, A!Spec, C!Spec, O!Spec

-------------------------------------------------------------------------------
(* From end to end, a request goes through its stages in order. *)

StageOf(r) ==
  CASE Announced(r)                   -> "announced"
    [] row[r].status = "completed"
       /\ ~Announced(r)               -> "completed"
    [] row[r].status = "in_progress"
       /\ ~Announced(r)               -> "in_progress"
    [] row[r].status = "absent"
       /\ C!Asks(r) /\ ~Announced(r)  -> "asked"
    [] OTHER                          -> "none"

Stage == [r \in Appraisal |-> StageOf(r)]

\* What the stage of a request is made of.
Still(r) ==
  /\ row'[r].status = row[r].status
  /\ Announced(r)' <=> Announced(r)
  /\ C!Asks(r)' <=> C!Asks(r)

LEMMA StillStage ==
  ASSUME NEW r \in Appraisal, Still(r)
  PROVE  StageOf(r)' = StageOf(r)
BY DEF Still, StageOf

LEMMA NoneMoves ==
  ASSUME \A r \in Appraisal : Still(r)
  PROVE  UNCHANGED Stage
BY StillStage DEF Stage

LEMMA OneMoves ==
  ASSUME NEW r \in Appraisal, \A a \in Appraisal \ {r} : Still(a),
         NEW to, StageOf(r)' = to
  PROVE  Stage' = [Stage EXCEPT ![r] = to]
<1>1. \A a \in Appraisal \ {r} : StageOf(a)' = StageOf(a)
  BY StillStage
<1> QED BY <1>1 DEF Stage

\* A call past its first statement does not change its appraisal.
OpsKept == \A c \in Call : tx[c] # "none" => op'[c] = op[c]

LEMMA AnnouncedKept ==
  ASSUME Inv, OpsKept, O!Delivered' = O!Delivered
  PROVE  \A r \in Appraisal : Announced(r)' <=> Announced(r)
<1>1. \A c \in O!Delivered : op'[c] = op[c]
  BY DEF OpsKept, Inv, Publishing, O!Delivered
<1> QED BY <1>1 DEF Announced

LEMMA OnlyCompletedAnnounced ==
  ASSUME Inv, NEW r \in Appraisal, Announced(r)
  PROVE  row[r].status = "completed"
BY DEF Inv, Transactions, Publishing, Announced, O!Delivered

\* Someone else's completion, or a creation, is no announcement.
LEMMA CallsFlow ==
  ASSUME Inv, NEW c \in Call, CallStep(c) \/ AbortTx(c)
  PROVE  UNCHANGED Stage \/ \E r \in Appraisal : Flow!Close(r)
<1>1. /\ UNCHANGED <<loopVars, copies>>
      /\ \A r \in Appraisal : C!Asks(r)' <=> C!Asks(r)
  BY DEF CallStep, Statement, BeginTx, CommitTx, RollBackTx, AbortTx, relayVars, loopVars,
         O!InsertOutbox, O!CommitTx, O!RollBackTx, O!End, C!Asks
<1>2. O!Delivered' = O!Delivered
  BY <1>1 DEF O!Delivered
<1>3. CASE Statement(c)
  <2>1. CallMoves(c) /\ StatusKept
    BY <1>3, StatementMoves DEF Inv, Types
  <2>2. OpsKept
    BY <2>1 DEF OpsKept, CallMoves, Inv, Transactions
  <2> QED BY <1>1, <1>2, <2>1, <2>2, AnnouncedKept, NoneMoves DEF Still, StatusKept
<1>4. CASE CommitTx(c)
  <2>0. PICK r \in Appraisal : r = op[c].target
    BY <1>4, CommitKeeps DEF Inv, Transactions
  <2>1. Closed(r) /\ CallMoves(c) /\ Inv'
    BY <1>4, <2>0, CommitKeeps
  <2>2. OpsKept
    BY <2>1 DEF OpsKept, CallMoves, Inv, Transactions
  <2>3. ~Announced(r) /\ ~Announced(r)'
    BY <1>2, <2>1, <2>2, AnnouncedKept, OnlyCompletedAnnounced DEF Closed
  <2>4. StageOf(r) = "in_progress" /\ StageOf(r)' = "completed"
    BY <2>1, <2>3 DEF StageOf, Closed
  <2>5. \A a \in Appraisal \ {r} : Still(a)
    BY <1>1, <1>2, <2>1, <2>2, AnnouncedKept DEF Still, Closed
  <2>6. Stage' = [Stage EXCEPT ![r] = "completed"] /\ Stage[r] = "in_progress"
    BY <2>4, <2>5, OneMoves DEF Stage
  <2> QED BY <2>6 DEF Flow!Close, Flow!Advance, Stage, StageOf
<1>5. CASE BeginTx(c) \/ RollBackTx(c) \/ AbortTx(c)
  <2>1. UNCHANGED <<row, op>>
    BY <1>5 DEF BeginTx, RollBackTx, AbortTx, A!FailStatement, A!dbVars, callVars
  <2> QED BY <1>1, <1>2, <2>1, AnnouncedKept, NoneMoves DEF Still, OpsKept
<1> QED BY <1>3, <1>4, <1>5 DEF CallStep

LEMMA LoopsFlow ==
  ASSUME Inv, NEW m \in Instance, LoopStep(m) \/ LoopFails(m) \/ Shutdown(m)
  PROVE  UNCHANGED Stage \/ \E r \in Appraisal : Flow!Open(r)
<1>1. /\ Inv' /\ UNCHANGED <<log, heldVars>>
      /\ \/ UNCHANGED callVars
         \/ loop[m] = "creating" /\ Created(Requested(m)) /\ UNCHANGED <<op, outbox>>
  BY LoopStepKeeps
<1>2. /\ op' = op /\ O!Delivered' = O!Delivered
      /\ \A r \in Appraisal : C!Asks(r)' <=> C!Asks(r)
  BY <1>1 DEF callVars, heldVars, O!Delivered, C!Asks
<1>3. \A r \in Appraisal : Announced(r)' <=> Announced(r)
  BY <1>2, AnnouncedKept DEF OpsKept
<1>4. CASE UNCHANGED callVars
  BY <1>2, <1>3, <1>4, NoneMoves DEF Still, callVars
<1>5. CASE loop[m] = "creating" /\ Created(Requested(m))
  <2>1. PICK r \in Appraisal : r = Requested(m) /\ C!Asks(r)
    BY <1>5, RequestedIsAsked DEF Inv, Types, Asked
  <2>2. ~Announced(r) /\ ~Announced(r)'
    BY <1>3, <1>5, <2>1, OnlyCompletedAnnounced DEF Created
  <2>3. StageOf(r) = "asked" /\ StageOf(r)' = "in_progress"
    BY <1>5, <2>1, <2>2 DEF StageOf, Created
  <2>4. \A a \in Appraisal \ {r} : Still(a)
    BY <1>2, <1>3, <1>5, <2>1 DEF Still, Created
  <2>5. Stage' = [Stage EXCEPT ![r] = "in_progress"] /\ Stage[r] = "asked"
    BY <2>1, <2>3, <2>4, OneMoves DEF Stage
  <2> QED BY <2>1, <2>5 DEF Flow!Open, Flow!Advance, Stage, StageOf
<1> QED BY <1>1, <1>4, <1>5

LEMMA RelaysFlow ==
  ASSUME Inv, NEW m \in Instance, RelayStep(m)
  PROVE  UNCHANGED Stage \/ \E r \in Appraisal : Flow!Announce(r)
<1>1. /\ UNCHANGED <<callVars, loopVars>>
      /\ O!Delivered' = O!Delivered \/ \E c \in Call : Sent(c)
  BY RelayStepKeeps
<1>2. /\ UNCHANGED <<row, op>>
      /\ \A r \in Appraisal : C!Asks(r)' <=> C!Asks(r)
  BY <1>1 DEF callVars, loopVars, C!Asks
<1>3. CASE O!Delivered' = O!Delivered
  BY <1>2, <1>3, AnnouncedKept, NoneMoves DEF Still, OpsKept
<1>4. ASSUME NEW c \in Call, Sent(c)
      PROVE  UNCHANGED Stage \/ \E r \in Appraisal : Flow!Announce(r)
  <2>1. PICK r \in Appraisal : r = op[c].target /\ row[r].status = "completed"
    BY <1>4 DEF Sent, Inv, Transactions
  <2>2. \A a \in Appraisal : Announced(a)' <=> Announced(a) \/ a = r
    BY <1>2, <1>4, <2>1 DEF Sent, Announced
  <2>3. CASE Announced(r)
    BY <1>2, <2>2, <2>3, NoneMoves DEF Still
  <2>4. CASE ~Announced(r)
    <3>1. StageOf(r) = "completed" /\ StageOf(r)' = "announced"
      BY <2>1, <2>2, <2>4 DEF StageOf
    <3>2. \A a \in Appraisal \ {r} : Still(a)
      BY <1>2, <2>2 DEF Still
    <3>3. Stage' = [Stage EXCEPT ![r] = "announced"] /\ Stage[r] = "completed"
      BY <2>1, <3>1, <3>2, OneMoves DEF Stage
    <3> QED BY <2>1, <3>3 DEF Flow!Announce, Flow!Advance, Stage, StageOf
  <2> QED BY <2>3, <2>4
<1> QED BY <1>1, <1>3, <1>4

LEMMA EnvironmentFlow ==
  ASSUME Inv, Environment
  PROVE  UNCHANGED Stage \/ \E r \in Appraisal : Flow!Ask(r)
<1>1. /\ UNCHANGED <<callVars, relayVars>>
      /\ O!Delivered' = O!Delivered /\ UNCHANGED <<row, op>>
  BY DEF Environment, callVars, relayVars, O!Delivered
<1>2. \A r \in Appraisal : Announced(r)' <=> Announced(r)
  BY <1>1, AnnouncedKept DEF OpsKept
<1>3. CASE UNCHANGED log
  BY <1>1, <1>2, <1>3, NoneMoves DEF Still, C!Asks
<1>4. CASE C!Publish
  <2>1. PICK x \in Record : log' = Append(log, x)
    BY <1>4 DEF C!Publish
  <2>2. \A r \in Appraisal : C!Asks(r)' <=> C!Asks(r) \/ (x.creates /\ x.request = r)
    BY <1>1, <1>4, <2>1, PublishedKeeps DEF C!Publish, C!readerVars
  <2>3. CASE x.creates /\ ~C!Asks(x.request)
    <3> DEFINE r == x.request
    <3>1. r \in Appraisal
      BY RecordAssumption
    <3>2. row[r].status = "absent" /\ row'[r].status = "absent"
      BY <1>1, <2>3, <3>1 DEF Inv, Asked
    <3>3. ~Announced(r) /\ ~Announced(r)'
      BY <1>2, <3>1, <3>2, OnlyCompletedAnnounced
    <3>4. StageOf(r) = "none" /\ StageOf(r)' = "asked"
      BY <2>2, <2>3, <3>1, <3>2, <3>3 DEF StageOf
    <3>5. \A a \in Appraisal \ {r} : Still(a)
      BY <1>1, <1>2, <2>2 DEF Still
    <3>6. Stage' = [Stage EXCEPT ![r] = "asked"] /\ Stage[r] = "none"
      BY <3>1, <3>4, <3>5, OneMoves DEF Stage
    <3> QED BY <3>1, <3>6 DEF Flow!Ask, Flow!Advance, Stage, StageOf
  <2>4. CASE ~(x.creates /\ ~C!Asks(x.request))
    BY <1>1, <1>2, <2>2, <2>4, NoneMoves DEF Still
  <2> QED BY <2>3, <2>4
<1>5. UNCHANGED log \/ C!Publish
  BY DEF Environment, C!Expire, C!TakeOver, C!Rebalance, C!Assign, C!readerVars
<1> QED BY <1>3, <1>4, <1>5

\* Each step of the service takes at most one request one stage further, whatever its
\* calls, loops and relays do meanwhile, and none ever goes back.
THEOREM FlowInOrder == Spec => Flow!Spec
<1>1. Init => Flow!Init
  <2> SUFFICES ASSUME Init PROVE Flow!Init
    OBVIOUS
  <2>1. \A r \in Appraisal : row[r].status = "absent" /\ ~Announced(r) /\ ~C!Asks(r)
    BY DEF Init, A!Init, A!NoRow, C!Init, O!Init, Announced, O!Delivered, C!Asks
  <2> QED BY <2>1 DEF Flow!Init
<1>2. Inv /\ [Next]_vars => [Flow!Next]_(Flow!vars)
  <2> SUFFICES ASSUME Inv, [Next]_vars PROVE [Flow!Next]_(Flow!vars)
    OBVIOUS
  <2>1. ASSUME UNCHANGED Stage PROVE UNCHANGED Flow!vars
    BY <2>1 DEF Stage, StageOf, Flow!vars
  <2>2. ASSUME NEW m \in Instance, Crash(m) \/ Start(m)
        PROVE  UNCHANGED Stage
    <3>1. UNCHANGED <<row, outbox, op, log, tx, copies>>
      BY <2>2, ProcessKeeps
    <3>2. \A r \in Appraisal : Still(r)
      BY <3>1 DEF Still, Announced, O!Delivered, C!Asks
    <3> QED BY <3>2, NoneMoves
  <2>3. CASE UNCHANGED vars
    <3>1. \A r \in Appraisal : Still(r)
      BY <2>3 DEF Still, Announced, O!Delivered, C!Asks, vars, callVars, loopVars, relayVars
    <3> QED BY <2>1, <3>1, NoneMoves
  <2> QED BY <2>1, <2>2, <2>3, CallsFlow, LoopsFlow, RelaysFlow, EnvironmentFlow
          DEF Next, Flow!Next
<1> QED BY <1>1, <1>2, Invariance, PTL DEF Spec, Flow!Spec
===============================================================================
