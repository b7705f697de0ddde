------------------------- MODULE RequestConsumerProofs -------------------------
(***************************************************************************)
(* Theorems about RequestConsumer, for every group of instances, every     *)
(* topic and every bound on faults: whatever is committed was processed.   *)
(***************************************************************************)
EXTENDS RequestConsumer, TLAPS

\* The event of a record has been processed, or asks for nothing.
Done(i) == log[i].creates => appraisal[log[i].request] # "absent"

Busy == {"checking", "creating", "marking", "committing"}

\* An instance works on a record it has fetched.
HasRecord == \A m \in Instance : pc[m] \in Busy => offset[m] \in 1..Len(log)

TypeInv == TypeOK /\ HasRecord

\* What an instance may rely on while its loop runs: the records before the one
\* it works on are done, and so are those it has fetched but for that one.
LoopAt(m) ==
  /\ pc[m] = "fetching" => \A i \in 1..position[m] : Done(i)
  /\ pc[m] \in Busy => /\ \A i \in 1..position[m] : Done(i) \/ i = offset[m]
                       /\ \A i \in 1..offset[m] : Done(i) \/ i = offset[m]
  /\ pc[m] \in {"marking", "committing"} => Done(offset[m])

LoopInOrder == \A m \in Instance : LoopAt(m)

IInv ==
  /\ TypeInv
  /\ NothingDropped
  /\ MarkedIsCreated
  /\ LoopInOrder

-------------------------------------------------------------------------------
(* Type correctness. *)

LEMMA TypeStep ==
  ASSUME TypeInv, [Next]_vars
  PROVE  TypeInv'
<1> USE DEF TypeInv
<1>1. CASE Publish
  <2>1. PICK r \in Record : log' = Append(log, r)
    BY <1>1 DEF Publish
  <2>2. /\ log' \in Seq(Record) /\ Len(log') = Len(log) + 1
    BY <2>1 DEF TypeOK
  <2> QED BY <1>1, <2>2 DEF Publish, readerVars, TypeOK, HasRecord
<1>2. ASSUME NEW m \in Instance, Fetch(m)
      PROVE  TypeInv'
  BY <1>2 DEF Fetch, Goto, TypeOK, HasRecord, Label, Busy
<1>3. ASSUME NEW m \in Instance, CheckSeen(m)
      PROVE  TypeInv'
  BY <1>3 DEF CheckSeen, Goto, readerVars, TypeOK, HasRecord, Label, Busy
<1>4. ASSUME NEW m \in Instance, pc[m] \in Busy
      PROVE  /\ Working(m) \in Record
             /\ Working(m).id \in EventId
             /\ Working(m).request \in Request
  BY <1>4, RecordAssumption DEF Working, TypeOK, HasRecord
<1>5. ASSUME NEW m \in Instance, pc[m] \in Busy, Create(m)
      PROVE  appraisal' \in [Request -> {"absent", "in_progress", "completed"}]
  BY <1>5 DEF Create, TypeOK
<1>6. ASSUME NEW m \in Instance, pc[m] \in Busy, Mark(m)
      PROVE  marked' \subseteq EventId
  BY <1>4, <1>6 DEF Mark, TypeOK
<1>7. ASSUME NEW m \in Instance, CreateFromRequest(m)
      PROVE  TypeInv'
  <2>1. appraisal' \in [Request -> {"absent", "in_progress", "completed"}]
    BY <1>5, <1>7 DEF CreateFromRequest, Busy
  <2> QED BY <1>7, <2>1
          DEF CreateFromRequest, Create, Goto, readerVars, TypeOK, HasRecord, Label, Busy
<1>8. ASSUME NEW m \in Instance, MarkSeen(m)
      PROVE  TypeInv'
  <2>1. marked' \subseteq EventId
    BY <1>6, <1>8 DEF MarkSeen, Busy
  <2> QED BY <1>8, <2>1
          DEF MarkSeen, Mark, Goto, readerVars, TypeOK, HasRecord, Label, Busy
<1>9. ASSUME NEW m \in Instance, Commit(m)
      PROVE  TypeInv'
  BY <1>9 DEF Commit, CommitOffset, Goto, TypeOK, HasRecord, Label, Busy
<1>10. ASSUME NEW m \in Instance, Fail(m)
       PROVE  TypeInv'
  <2>1. faults' \in 0..MaxFaults
    BY <1>10, MaxFaultsAssumption DEF Fail, Fault, TypeOK
  <2>2. appraisal' \in [Request -> {"absent", "in_progress", "completed"}]
    BY <1>5, <1>10 DEF Fail, Mark, Busy, TypeOK
  <2>3. marked' \subseteq EventId
    BY <1>6, <1>10 DEF Fail, Create, Busy, TypeOK
  <2>4. committed' \in 0..Len(log)
    BY <1>10 DEF Fail, CommitOffset, TypeOK
  <2> QED BY <1>10, <2>1, <2>2, <2>3, <2>4 DEF Fail, Goto, TypeOK, HasRecord, Label, Busy
<1>11. ASSUME NEW m \in Instance, Stop(m)
       PROVE  TypeInv'
  BY <1>11, MaxFaultsAssumption DEF Stop, Fault, Goto, readerVars, TypeOK, HasRecord, Label, Busy
<1>12. ASSUME NEW m \in Instance, TakeOver(m) \/ Rebalance(m)
       PROVE  TypeInv'
  <2>1. faults' \in 0..MaxFaults
    BY <1>12, MaxFaultsAssumption DEF TakeOver, Rebalance, Fault, TypeOK
  <2> QED BY <1>12, <2>1 DEF TakeOver, Rebalance, Assign, TypeOK, HasRecord, Busy
<1>13. ASSUME NEW m \in Instance, Restart(m)
       PROVE  TypeInv'
  BY <1>13 DEF Restart, Goto, TypeOK, HasRecord, Label, Busy
<1>14. CASE Expire
  BY <1>14 DEF Expire, readerVars, TypeOK, HasRecord
<1>15. ASSUME NEW r \in Request, CompleteAppraisal(r)
       PROVE  TypeInv'
  BY <1>15 DEF CompleteAppraisal, readerVars, TypeOK, HasRecord
<1>16. CASE UNCHANGED vars
  BY <1>16 DEF vars, TypeOK, HasRecord
<1> QED
  BY <1>1, <1>2, <1>3, <1>7, <1>8, <1>9, <1>10, <1>11, <1>12, <1>13, <1>14, <1>15,
     <1>16 DEF Next, Step

-------------------------------------------------------------------------------
(* A record that is done stays done. *)

\* No step takes an appraisal away.
LEMMA AppraisalKept ==
  ASSUME TypeInv, [Next]_vars, NEW r \in Request, appraisal[r] # "absent"
  PROVE  appraisal'[r] # "absent" /\ appraisal'[r] \in {appraisal[r], "completed"}
<1> USE DEF TypeInv
<1>1. CASE UNCHANGED appraisal
  BY <1>1
<1>2. ASSUME NEW m \in Instance, Create(m)
      PROVE  appraisal'[r] = appraisal[r]
  BY <1>2 DEF Create, TypeOK
<1>3. ASSUME NEW q \in Request, CompleteAppraisal(q)
      PROVE  appraisal'[r] # "absent" /\ appraisal'[r] \in {appraisal[r], "completed"}
  BY <1>3 DEF CompleteAppraisal, TypeOK
<1>4. ASSUME NEW m \in Instance, Step(m) \/ Fail(m)
      PROVE  UNCHANGED appraisal \/ Create(m)
  BY <1>4 DEF Step, Fetch, CheckSeen, CreateFromRequest, MarkSeen, Mark, Commit, Fail
<1> QED BY <1>1, <1>2, <1>3, <1>4
        DEF Next, Publish, Stop, TakeOver, Rebalance, Assign, Restart, Expire, vars

LEMMA LogKept ==
  ASSUME TypeInv, [Next]_vars, NEW i \in 1..Len(log)
  PROVE  i \in 1..Len(log') /\ log'[i] = log[i]
<1> USE DEF TypeInv
<1>1. CASE Publish
  BY <1>1 DEF Publish, TypeOK
<1>2. ASSUME NEW m \in Instance, Step(m) \/ Fail(m) PROVE UNCHANGED log
  BY <1>2 DEF Step, Fetch, CheckSeen, CreateFromRequest, MarkSeen, Commit, Fail
<1> QED BY <1>1, <1>2
        DEF Next, Stop, TakeOver, Rebalance, Assign, Restart, Expire,
            CompleteAppraisal, vars

LEMMA DoneKept ==
  ASSUME TypeInv, [Next]_vars, NEW i \in 1..Len(log), Done(i)
  PROVE  Done(i)'
<1>1. log'[i] = log[i]
  BY LogKept
<1>2. log[i].request \in Request
  BY RecordAssumption DEF TypeInv, TypeOK
<1> QED BY <1>1, <1>2, AppraisalKept DEF Done

-------------------------------------------------------------------------------
(* The invariant is inductive. *)

\* The create, wherever it is called from, does the record of the instance.
LEMMA CreateDoes ==
  ASSUME TypeInv, NEW m \in Instance, pc[m] \in Busy, Create(m)
  PROVE  appraisal'[log[offset[m]].request] # "absent"
<1>1. log[offset[m]].request \in Request
  BY RecordAssumption DEF TypeInv, TypeOK, HasRecord
<1> QED BY <1>1 DEF Create, Working, TypeInv, TypeOK

LEMMA MarkStep ==
  ASSUME IInv, [Next]_vars
  PROVE  MarkedIsCreated'
<1> USE DEF IInv
<1>1. ASSUME NEW r \in Record, r.creates, r.id \in marked'
      PROVE  appraisal'[r.request] # "absent"
  <2>1. r.request \in Request /\ r.id \in EventId
    BY RecordAssumption
  <2>2. CASE r.id \in marked
    <3>1. appraisal[r.request] # "absent"
      BY <1>1, <2>2 DEF MarkedIsCreated
    <3> QED BY <2>1, <3>1, AppraisalKept
  <2>3. CASE r.id \notin marked
    <3>1. PICK m \in Instance : pc[m] = "marking" /\ Mark(m)
      BY <1>1, <2>3 DEF Next, Step, Publish, Fetch, CheckSeen, CreateFromRequest, Create,
         MarkSeen, Commit, Fail, Stop, TakeOver, Rebalance, Assign, Restart, Expire,
         CompleteAppraisal, vars
    <3>2. log[offset[m]] \in Record
      BY <3>1 DEF TypeInv, TypeOK, HasRecord, Busy
    <3>3. log[offset[m]] = r
      BY <1>1, <2>3, <3>1, <3>2, RecordAssumption DEF Mark, Working
    <3>4. appraisal[r.request] # "absent"
      BY <1>1, <3>1, <3>3 DEF LoopInOrder, LoopAt, Done
    <3> QED BY <2>1, <3>4, AppraisalKept
  <2> QED BY <2>2, <2>3
<1> QED BY <1>1 DEF MarkedIsCreated

\* The loop keeps its order: an instance moves on only from a record it has done.
LEMMA LoopStep ==
  ASSUME IInv, [Next]_vars, NEW m \in Instance
  PROVE  LoopAt(m)'
<1> USE DEF IInv
<1>1. /\ TypeOK /\ LoopAt(m)
      /\ pc \in [Instance -> Label]
      /\ position \in [Instance -> 0..Len(log)]
      /\ offset \in [Instance -> 0..Len(log)]
      /\ Len(log) \in Nat
      /\ pc[m] \in Busy => offset[m] \in 1..Len(log)
  BY DEF TypeInv, TypeOK, HasRecord, LoopInOrder
<1>2. \A i \in 1..Len(log) : Done(i) => Done(i)'
  BY DoneKept
<1>3. CASE UNCHANGED <<pc[m], position[m], offset[m]>>
  <2>1. pc[m] \in {"marking", "committing"} => offset[m] \in 1..Len(log)
    BY <1>1 DEF Busy
  <2> QED BY <1>1, <1>2, <1>3, <2>1 DEF LoopAt
<1>4. CASE Fetch(m)
  <2>1. PICK n \in Nat : n = position[m]
    BY <1>1
  <2>2. /\ pc[m] = "fetching"
        /\ position'[m] = n + 1
        /\ offset'[m] = n + 1
        /\ pc'[m] = IF Relevant(log[n + 1]) THEN "checking" ELSE "committing"
        /\ n < Len(log)
    BY <1>1, <1>4, <2>1 DEF Fetch, Goto
  <2>3. ASSUME NEW i \in 1..n PROVE Done(i)'
    <3>1. Done(i)
      BY <1>1, <2>1, <2>2 DEF LoopAt
    <3>2. i \in 1..Len(log)
      BY <1>1, <2>2
    <3> QED BY <1>2, <3>1, <3>2
  <2>4. ASSUME pc'[m] # "checking" PROVE Done(n + 1)'
    <3>1. Done(n + 1)
      BY <2>2, <2>4 DEF Relevant, Done
    <3>2. n + 1 \in 1..Len(log)
      BY <1>1, <2>2
    <3> QED BY <1>2, <3>1, <3>2
  <2>5. \A i \in 1..(n + 1) : i \in 1..n \/ i = n + 1
    OBVIOUS
  <2> QED BY <2>2, <2>3, <2>4, <2>5 DEF LoopAt
<1>5. CASE CheckSeen(m)
  <2>1. /\ pc[m] = "checking"
        /\ pc'[m] = IF Working(m).id \in marked THEN "committing" ELSE "creating"
        /\ position' = position /\ offset' = offset
        /\ offset[m] \in 1..Len(log)
    BY <1>1, <1>5 DEF CheckSeen, Goto, readerVars, Busy
  <2>2. log[offset[m]] \in Record
    BY <1>1, <2>1 DEF TypeOK
  <2>3. pc'[m] = "committing" => Done(offset[m])
    BY <2>1, <2>2 DEF MarkedIsCreated, Done, Working
  <2> QED BY <1>1, <1>2, <2>1, <2>3 DEF LoopAt, Busy
<1>6. CASE CreateFromRequest(m)
  <2>1. /\ pc[m] = "creating" /\ pc'[m] = "marking"
        /\ position' = position /\ offset' = offset /\ log' = log
        /\ offset[m] \in 1..Len(log)
    BY <1>1, <1>6 DEF CreateFromRequest, Goto, readerVars, Busy
  <2>2. appraisal'[log[offset[m]].request] # "absent"
    BY <1>6, <2>1, CreateDoes DEF CreateFromRequest, Busy
  <2>3. Done(offset[m])'
    BY <2>1, <2>2 DEF Done
  <2> QED BY <1>1, <1>2, <2>1, <2>3 DEF LoopAt, Busy
<1>7. CASE MarkSeen(m)
  <2>1. /\ pc[m] = "marking" /\ pc'[m] = "committing"
        /\ position' = position /\ offset' = offset
        /\ offset[m] \in 1..Len(log)
    BY <1>1, <1>7 DEF MarkSeen, Goto, readerVars, Busy
  <2> QED BY <1>1, <1>2, <2>1 DEF LoopAt, Busy
<1>8. CASE Commit(m)
  <2>1. /\ pc[m] = "committing" /\ pc'[m] \in {"fetching", "failed"}
        /\ position' = position /\ offset' = offset
        /\ offset[m] \in 1..Len(log)
    BY <1>1, <1>8 DEF Commit, Goto, Busy
  <2> QED BY <1>1, <1>2, <2>1 DEF LoopAt, Busy
<1>9. CASE pc'[m] \in {"failed", "down"}
  BY <1>9 DEF LoopAt, Busy
<1>10. \A i \in 1..committed : Done(i)'
  <2>1. committed \in 0..Len(log)
    BY <1>1 DEF TypeOK
  <2> QED BY <1>1, <1>2, <2>1 DEF NothingDropped, Done
<1>11. CASE Assign(m)
  <2>1. /\ pc' = pc /\ offset' = offset /\ position'[m] = committed
    BY <1>1, <1>11 DEF Assign
  <2>2. pc[m] \in {"marking", "committing"} => offset[m] \in 1..Len(log)
    BY <1>1 DEF Busy
  <2> QED BY <1>1, <1>2, <1>10, <2>1, <2>2 DEF LoopAt
<1>12. CASE Restart(m)
  <2>1. pc'[m] = "fetching" /\ position'[m] = committed
    BY <1>1, <1>12 DEF Restart, Goto
  <2> QED BY <1>10, <2>1 DEF LoopAt, Busy
<1>13. CASE \E n \in Instance \ {m} : \/ Step(n) \/ Fail(n) \/ Stop(n)
                                      \/ Assign(n) \/ Restart(n)
  <2>1. UNCHANGED <<pc[m], position[m], offset[m]>>
    BY <1>1, <1>13 DEF Step, Fetch, CheckSeen, CreateFromRequest, MarkSeen, Commit, Fail,
       Stop, Assign, Restart, Goto, readerVars
  <2> QED BY <1>3, <2>1
<1>14. CASE Publish \/ Expire \/ (\E r \in Request : CompleteAppraisal(r)) \/ UNCHANGED vars
  <2>1. UNCHANGED <<pc[m], position[m], offset[m]>>
    BY <1>14 DEF Publish, Expire, CompleteAppraisal, readerVars, vars
  <2> QED BY <1>3, <2>1
<1>15. CASE Fail(m) \/ Stop(m)
  <2>1. pc'[m] \in {"failed", "down"}
    BY <1>1, <1>15 DEF Fail, Stop, Goto
  <2> QED BY <1>9, <2>1
<1> QED
  BY <1>4, <1>5, <1>6, <1>7, <1>8, <1>11, <1>12, <1>13, <1>14, <1>15
     DEF Next, Step, TakeOver, Rebalance

\* What is committed is the record an instance has just done, and all before it.
LEMMA CommittedStep ==
  ASSUME IInv, [Next]_vars
  PROVE  NothingDropped'
<1> USE DEF IInv
<1>1. TypeOK /\ HasRecord /\ committed \in 0..Len(log) /\ Len(log) \in Nat
  BY DEF TypeInv, TypeOK
<1>2. \A i \in 1..Len(log) : Done(i) => Done(i)'
  BY DoneKept
<1>3. CASE UNCHANGED committed
  <2>1. \A i \in 1..committed' : Done(i)'
    BY <1>1, <1>2, <1>3 DEF NothingDropped, Done
  <2> QED BY <2>1 DEF NothingDropped, Done
<1>4. ASSUME NEW m \in Instance, pc[m] = "committing", CommitOffset(m)
      PROVE  NothingDropped'
  <2>1. committed' = offset[m] /\ offset[m] \in 1..Len(log)
    BY <1>1, <1>4 DEF CommitOffset, HasRecord, Busy
  <2>2. \A i \in 1..offset[m] : Done(i)
    BY <1>4 DEF LoopInOrder, LoopAt, Busy
  <2>3. \A i \in 1..committed' : Done(i)'
    BY <1>1, <1>2, <2>1, <2>2
  <2> QED BY <2>3 DEF NothingDropped, Done
<1>5. ASSUME NEW m \in Instance, Step(m) \/ Fail(m)
      PROVE  UNCHANGED committed \/ (pc[m] = "committing" /\ CommitOffset(m))
  BY <1>5 DEF Step, Fetch, CheckSeen, CreateFromRequest, MarkSeen, Commit, Fail, readerVars
<1> QED BY <1>3, <1>4, <1>5
        DEF Next, Publish, Stop, TakeOver, Rebalance, Assign, Restart, Expire,
            CompleteAppraisal, readerVars, vars

LEMMA Invariance == Spec => []IInv
<1>1. Init => IInv
  <2> SUFFICES ASSUME Init PROVE IInv
    OBVIOUS
  <2>1. TypeInv
    BY MaxFaultsAssumption DEF Init, TypeInv, TypeOK, HasRecord, Label, Busy
  <2>2. NothingDropped /\ MarkedIsCreated
    BY DEF Init, NothingDropped, MarkedIsCreated
  <2>3. LoopInOrder
    <3>1. \A m \in Instance : pc[m] = "fetching" /\ position[m] = 0
      BY DEF Init
    <3>2. 1..0 = {}
      OBVIOUS
    <3> QED BY <3>1, <3>2 DEF LoopInOrder, LoopAt, Busy
  <2> QED BY <2>1, <2>2, <2>3 DEF IInv
<1>2. IInv /\ [Next]_vars => IInv'
  <2> SUFFICES ASSUME IInv, [Next]_vars PROVE IInv'
    OBVIOUS
  <2>1. TypeInv'
    BY TypeStep DEF IInv
  <2>2. LoopInOrder'
    BY LoopStep DEF LoopInOrder
  <2> QED BY <2>1, <2>2, MarkStep, CommittedStep DEF IInv
<1> QED BY <1>1, <1>2, PTL DEF Spec

-------------------------------------------------------------------------------
(* Nothing is created that was not asked for. *)

\* The loop asks Redis and creates only for a record that asks for an appraisal.
WorksOnAsked ==
  \A m \in Instance : pc[m] \in {"checking", "creating"} => log[offset[m]].creates

LEMMA AskedStep ==
  ASSUME TypeInv, [Next]_vars, NEW r \in Request, Asks(r)
  PROVE  Asks(r)'
<1>1. PICK i \in 1..Len(log) : log[i].creates /\ log[i].request = r
  BY DEF Asks
<1>2. i \in 1..Len(log') /\ log'[i] = log[i]
  BY LogKept
<1> QED BY <1>1, <1>2 DEF Asks

LEMMA WorksOnAskedStep ==
  ASSUME TypeInv, WorksOnAsked, [Next]_vars, NEW m \in Instance,
         pc'[m] \in {"checking", "creating"}
  PROVE  log'[offset'[m]].creates
<1> USE DEF TypeInv
<1>1. /\ pc \in [Instance -> Label]
      /\ position \in [Instance -> 0..Len(log)]
      /\ offset \in [Instance -> 0..Len(log)]
      /\ Len(log) \in Nat
      /\ pc[m] \in Busy => offset[m] \in 1..Len(log)
  BY DEF TypeOK, HasRecord
<1>2. \A i \in 1..Len(log) : log'[i] = log[i]
  BY LogKept
<1>3. CASE pc[m] \in {"checking", "creating"} /\ offset'[m] = offset[m]
  BY <1>1, <1>2, <1>3 DEF WorksOnAsked, Busy
<1>4. CASE Fetch(m)
  <2>1. PICK n \in Nat : n = position[m]
    BY <1>1
  <2>2. /\ offset'[m] = n + 1
        /\ pc'[m] = IF Relevant(log[n + 1]) THEN "checking" ELSE "committing"
        /\ n < Len(log)
    BY <1>1, <1>4, <2>1 DEF Fetch, Goto
  <2>3. log[n + 1].creates /\ n + 1 \in 1..Len(log)
    BY <1>1, <2>2 DEF Relevant
  <2> QED BY <1>2, <2>2, <2>3
<1>5. CASE CheckSeen(m)
  BY <1>1, <1>3, <1>5 DEF CheckSeen, readerVars
<1>6. CASE \/ CreateFromRequest(m) \/ MarkSeen(m) \/ Commit(m) \/ Fail(m) \/ Stop(m)
           \/ Restart(m)
  BY <1>1, <1>6 DEF CreateFromRequest, MarkSeen, Commit, Fail, Stop, Restart, Goto
<1>7. CASE \E n \in Instance \ {m} : Step(n) \/ Fail(n) \/ Stop(n) \/ Restart(n)
  <2>1. UNCHANGED <<pc[m], offset[m]>>
    BY <1>1, <1>7 DEF Step, Fetch, CheckSeen, CreateFromRequest, MarkSeen, Commit, Fail,
       Stop, Restart, Goto, readerVars
  <2> QED BY <1>3, <2>1
<1>8. CASE \/ \E n \in Instance : Assign(n)
           \/ Publish \/ Expire \/ (\E r \in Request : CompleteAppraisal(r))
           \/ UNCHANGED vars
  <2>1. UNCHANGED <<pc, offset>>
    BY <1>8 DEF Assign, Publish, Expire, CompleteAppraisal, readerVars, vars
  <2> QED BY <1>3, <2>1
<1> QED
  BY <1>4, <1>5, <1>6, <1>7, <1>8 DEF Next, Step, TakeOver, Rebalance

LEMMA OnlyAskedStep ==
  ASSUME TypeInv, WorksOnAsked, OnlyAskedFor, [Next]_vars
  PROVE  OnlyAskedFor'
<1> SUFFICES ASSUME NEW r \in Request, appraisal'[r] # "absent"
             PROVE  Asks(r)'
  BY DEF OnlyAskedFor
<1>1. CASE appraisal[r] # "absent"
  BY <1>1, AskedStep DEF OnlyAskedFor
<1>2. CASE appraisal[r] = "absent"
  <2>1. ASSUME NEW q \in Request, CompleteAppraisal(q) PROVE FALSE
    BY <1>2, <2>1 DEF CompleteAppraisal, TypeInv, TypeOK
  <2>2. ASSUME NEW m \in Instance, Step(m) \/ Fail(m)
        PROVE  UNCHANGED appraisal \/ (pc[m] = "creating" /\ Create(m))
    BY <2>2 DEF Step, Fetch, CheckSeen, CreateFromRequest, MarkSeen, Mark, Commit, Fail
  <2>3. PICK m \in Instance : pc[m] = "creating" /\ Create(m)
    BY <1>2, <2>1, <2>2 DEF Next, Publish, Stop, TakeOver, Rebalance, Assign, Restart,
       Expire, vars
  <2>4. log[offset[m]].creates /\ offset[m] \in 1..Len(log)
    BY <2>3 DEF WorksOnAsked, TypeInv, HasRecord, Busy
  <2>5. log[offset[m]].request = r
    BY <1>2, <2>3 DEF Create, Working, TypeInv, TypeOK
  <2>6. Asks(r)
    BY <2>4, <2>5 DEF Asks
  <2> QED BY <2>6, AskedStep
<1> QED BY <1>1, <1>2

-------------------------------------------------------------------------------
(* Theorems. *)

\* The state of the loops, the group, Redis and the table has its types.
THEOREM TypeCorrect == Spec => []TypeOK
<1>1. IInv => TypeOK
  BY DEF IInv, TypeInv
<1> QED BY <1>1, Invariance, PTL

\* No event that asks for an appraisal is committed without one, for any number
\* of instances, rebalances, lost replies, expired marks and duplicates.
THEOREM NoRequestDropped == Spec => []NothingDropped
<1>1. IInv => NothingDropped
  BY DEF IInv
<1> QED BY <1>1, Invariance, PTL

\* A mark in Redis is only ever that of a processed event.
THEOREM MarksAreTrue == Spec => []MarkedIsCreated
<1>1. IInv => MarkedIsCreated
  BY DEF IInv
<1> QED BY <1>1, Invariance, PTL

\* An appraisal exists only for a request that entered the stage, for any number
\* of instances, faults, rebalances and redeliveries.
THEOREM NothingUnasked == Spec => []OnlyAskedFor
<1>1. Init => WorksOnAsked /\ OnlyAskedFor
  BY DEF Init, WorksOnAsked, OnlyAskedFor
<1>2. TypeInv /\ WorksOnAsked /\ OnlyAskedFor /\ [Next]_vars
        => (WorksOnAsked /\ OnlyAskedFor)'
  <2> SUFFICES ASSUME TypeInv, WorksOnAsked, OnlyAskedFor, [Next]_vars
               PROVE  (WorksOnAsked /\ OnlyAskedFor)'
    OBVIOUS
  <2>1. WorksOnAsked'
    BY WorksOnAskedStep DEF WorksOnAsked
  <2> QED BY <2>1, OnlyAskedStep
<1>3. IInv => TypeInv
  BY DEF IInv
<1> QED BY <1>1, <1>2, <1>3, Invariance, PTL DEF Spec

\* Redelivery never reopens or removes an appraisal.
THEOREM RedeliveryIsHarmless == Spec => NeverReopened
<1>1. IInv /\ [Next]_vars =>
        [\A r \in Request : appraisal[r] # "absent" =>
           appraisal'[r] \in {appraisal[r], "completed"}]_appraisal
  BY AppraisalKept DEF IInv
<1> QED BY <1>1, Invariance, PTL DEF Spec, NeverReopened
================================================================================
