------------------------- MODULE ServerLifecycleProofs -------------------------
(***************************************************************************)
(* Theorems about one process of review-service, for every set of calls,   *)
(* every batch size and every bound on the faults of its relay: nobody     *)
(* works with what is closed, and a failed server is not a clean stop.     *)
(***************************************************************************)
EXTENDS ServerLifecycle, FiniteSetTheorems, SequenceTheorems, TLAPS

Working == {"fetching", "processing", "committing"}

\* main by what it has started: neither loop has work before its goroutine runs,
Early == {"database", "keys", "redis", "signals", "relay"}

\* ... everything is open from the start of the consumer to the last join,
Joining == {"closing reader", "joining consumer"}
Held == {"consumer", "server", "serving", "draining", "joining server", "joining relay"}
        \cup Joining

\* ... and the listener from the start of the server on.
Unserved == Early \cup {"consumer", "server"}

Types ==
  /\ main \in Early \cup Held \cup {"returning", "exited"}
  /\ exit \in {"none", "0", "1", "signal"}
  /\ server \in {"unstarted", "listening", "error", "closed"}
  /\ consumer \in {"unstarted", "returned"} \cup Working
  /\ relay \in [{Self} -> {"waiting", "publishing", "marking", "stopped"}]
  /\ calls \in [Event -> {"none", "running", "answered", "cut off"}]

\* What is open at each statement.
Closes == {"db", "rdb", "stop", "producer"}

OpenAt ==
  /\ main \in Early \cup Held => defers \in Seq(Closes)
  /\ main = "database" => Open = {}
  /\ main \in {"keys", "redis"} => Open = {"db"}
  /\ main = "signals" => Open = {"db", "rdb"}
  /\ main = "relay" => Open = {"db", "rdb", "stop"}
  /\ main \in Held => Open = Closes

\* Who may be at work at each statement.
AtWork ==
  /\ relay[Self] \in {"publishing", "marking"} => main \in Held
  /\ main \in {"returning", "exited"} => relay[Self] = "stopped"
  /\ consumer \in Working => main \in Held \ {"consumer", "joining relay"}
  /\ InFlight # {} => main \in {"serving", "draining"}

\* The server and its channel: it sends once, and main takes the outcome on its
\* way to a clean end, where it can only be "closed".
Outcome ==
  /\ main \in Unserved => server = "unstarted"
  /\ main \in Unserved \cup {"serving", "draining", "joining server"} =>
       errCh = IF server \in {"error", "closed"} THEN <<server>> ELSE <<>>
  /\ main \in Joining \cup {"joining relay", "returning"} => server = "closed"
  /\ exit = "0" => main = "exited" /\ server = "closed"

Inv == Types /\ OpenAt /\ AtWork /\ Outcome

-------------------------------------------------------------------------------

\* The startup goes through its statements in order.
LEMMA StartStep ==
  ASSUME Start
  PROVE  \/ main = "database" /\ main' = "keys"
         \/ main = "keys" /\ main' = "redis"
         \/ main = "redis" /\ main' = "signals"
         \/ main = "signals" /\ main' = "relay"
         \/ main = "relay" /\ main' = "consumer"
         \/ main = "consumer" /\ main' = "server"
         \/ main = "server" /\ main' = "serving"
<1>1. PICK i \in 1..7 : main = StartOrder[i] /\ main' = StartOrder[i + 1]
  BY DEF Start, StartOrder
<1>2. i = 1 \/ i = 2 \/ i = 3 \/ i = 4 \/ i = 5 \/ i = 6 \/ i = 7
  OBVIOUS
<1> QED BY <1>1, <1>2 DEF StartOrder

LEMMA StartLabels ==
  {StartOrder[i] : i \in DOMAIN StartOrder} = Unserved \cup {"serving"}
<1>1. DOMAIN StartOrder = {1, 2, 3, 4, 5, 6, 7, 8}
  BY DEF StartOrder
<1> QED BY <1>1 DEF StartOrder, Unserved, Early

\* A close that is deferred is open from there on.
LEMMA DeferOpens ==
  ASSUME NEW s \in Seq(Closes), NEW x \in Closes, defers = s, defers' = s \o <<x>>
  PROVE  defers' \in Seq(Closes) /\ Open' = Open \cup {x}
<1>1. defers' = Append(s, x)
  BY AppendIsConcat
<1>2. /\ Append(s, x) \in Seq(Closes)
      /\ Len(Append(s, x)) = Len(s) + 1
      /\ \A i \in 1 .. Len(s) : Append(s, x)[i] = s[i]
      /\ Append(s, x)[Len(s) + 1] = x
  BY AppendProperties
<1>3. /\ Len(s) \in Nat /\ DOMAIN s = 1..Len(s)
      /\ DOMAIN Append(s, x) = 1 .. Len(s) + 1
  BY <1>2
<1>4. Open' \subseteq Open \cup {x}
  BY <1>1, <1>2, <1>3 DEF Open
<1>5. x \in Open'
  BY <1>1, <1>2, <1>3 DEF Open
<1>6. Open \subseteq Open'
  BY <1>1, <1>2, <1>3 DEF Open
<1> QED BY <1>1, <1>2, <1>4, <1>5, <1>6

-------------------------------------------------------------------------------
(* Every step keeps the invariant. *)

\* Wherever the process ends, nothing is at work after it.
LEMMA ExitKeeps ==
  ASSUME Inv, main # "exited", NEW status \in {"1", "signal"}, Exit(status)
  PROVE  Inv'
<1> USE DEF Inv
<1>1. /\ main' = "exited" /\ exit' = status /\ consumer' = "returned"
      /\ UNCHANGED <<defers, server, errCh, reader>>
  BY DEF Exit
<1>2. /\ relay' \in [{Self} -> {"waiting", "publishing", "marking", "stopped"}]
      /\ relay'[Self] = "stopped"
  BY DEF Exit, Types, O!Crash, relayVars
<1>3. calls' = [c \in Event |-> IF c \in InFlight THEN "cut off" ELSE calls[c]]
  BY DEF Exit
<1>4. calls' \in [Event -> {"none", "running", "answered", "cut off"}] /\ InFlight' = {}
  BY <1>3 DEF InFlight, Types
<1>5. Types'
  BY <1>1, <1>2, <1>4 DEF Types, Working
<1>6. OpenAt' /\ Outcome'
  BY <1>1 DEF OpenAt, Outcome, Held, Joining, Unserved, Early
<1>7. AtWork'
  BY <1>1, <1>2, <1>4 DEF AtWork, Working
<1> QED BY <1>5, <1>6, <1>7

\* A statement of main that only goes on to the next one.
LEMMA GotoKeeps ==
  ASSUME Inv, UNCHANGED <<exit, defers, server, consumer, calls, relayVars>>,
         \/ main = "serving" /\ main' = "draining" /\ UNCHANGED errCh
         \/ main = "draining" /\ main' = "joining server" /\ InFlight = {} /\ UNCHANGED errCh
         \/ main = "joining server" /\ main' = "closing reader" /\ server = "closed"
         \/ main = "closing reader" /\ main' = "joining consumer" /\ UNCHANGED errCh
         \/ /\ main = "joining consumer" /\ main' = "joining relay" /\ UNCHANGED errCh
            /\ consumer = "returned"
         \/ /\ main = "joining relay" /\ main' = "returning" /\ UNCHANGED errCh
            /\ relay[Self] = "stopped"
  PROVE  Inv'
<1> USE DEF Inv
<1>1. UNCHANGED <<relay, InFlight, Open>>
  BY DEF relayVars, InFlight, Open
<1>2. Types'
  BY <1>1 DEF Types, Held, Joining
<1>3. OpenAt'
  BY <1>1 DEF OpenAt, Early, Held, Joining
<1>4. AtWork'
  BY <1>1 DEF AtWork, Held, Joining, Working
<1>5. Outcome'
  BY DEF Outcome, Unserved, Early, Joining
<1> QED BY <1>2, <1>3, <1>4, <1>5

LEMMA StartKeeps ==
  ASSUME Inv, Start
  PROVE  Inv'
<1> USE DEF Inv
<1>1. UNCHANGED <<exit, errCh, reader, calls, relay, InFlight>>
  BY DEF Start, relayVars, InFlight
<1>2. /\ consumer' = IF main = "consumer" THEN "fetching" ELSE consumer
      /\ server' = IF main = "server" THEN "listening" ELSE server
      /\ defers' = defers \o Opens(main)
  BY DEF Start
<1>3. Types'
  BY <1>1, <1>2, StartStep DEF Types, Early, Held, Working
<1>4. OpenAt'
  <2>1. main \in Early \cup Held /\ defers \in Seq(Closes)
    BY StartStep DEF OpenAt, Early, Held
  <2>2. ASSUME NEW x \in Closes, Opens(main) = <<x>>
        PROVE  defers' \in Seq(Closes) /\ Open' = Open \cup {x}
    BY <1>2, <2>1, <2>2, DeferOpens
  <2>3. ASSUME Opens(main) = <<>>
        PROVE  defers' \in Seq(Closes) /\ Open' = Open
    BY <1>2, <2>1, <2>3, ConcatEmptySeq DEF Open
  <2>4. CASE main \in {"database", "redis", "signals", "relay"}
    BY <2>2, <2>4, StartStep DEF OpenAt, Opens, Closes, Early, Held, Joining
  <2>5. CASE main \in {"keys", "consumer", "server"}
    BY <2>3, <2>5, StartStep DEF OpenAt, Opens, Early, Held, Joining
  <2> QED BY <2>4, <2>5, StartStep
<1>5. AtWork'
  BY <1>1, <1>2, StartStep DEF AtWork, Held, Joining, Working
<1>6. Outcome'
  BY <1>1, <1>2, StartStep DEF Outcome, Unserved, Early, Joining
<1> QED BY <1>3, <1>4, <1>5, <1>6

\* A step of the relay is one of a process that has its producer open.
LEMMA RelayKeeps ==
  ASSUME Inv, RelayStep
  PROVE  Inv'
<1> USE DEF Inv
<1>1. UNCHANGED procVars /\ UNCHANGED InFlight
  BY DEF RelayStep, procVars, InFlight
<1>2. relay[Self] \in {"waiting", "publishing", "marking"} /\ main \in Held
  <2>1. relay[Self] # "stopped" /\ relay[Self] \in {"waiting", "publishing", "marking", "stopped"}
    BY DEF RelayStep, Types, O!Tick, O!Publish, O!PublishAgain, O!PublishFails, O!Mark,
           O!MarkFails, O!RunReturns
  <2>2. main \notin Early
    BY DEF RelayStep, OpenAt, Early
  <2> QED BY <2>1, <2>2 DEF Types, AtWork
<1>3. relay' \in [{Self} -> {"waiting", "publishing", "marking", "stopped"}]
  BY DEF RelayStep, Types, O!Tick, O!Publish, O!PublishAgain, O!PublishFails, O!Mark,
         O!MarkFails, O!RunReturns, O!GiveUp, O!NextRow
<1>4. Types'
  BY <1>1, <1>3 DEF Types, procVars
<1>5. OpenAt' /\ Outcome'
  BY <1>1 DEF OpenAt, Open, Outcome, procVars
<1>6. AtWork'
  BY <1>1, <1>2 DEF AtWork, procVars, Held, Joining
<1> QED BY <1>4, <1>5, <1>6

\* What leaves main, the loops and the calls in flight where they are.
LEMMA ElsewhereKeeps ==
  ASSUME Inv, UNCHANGED procVars, relay' = relay
  PROVE  Inv'
<1>1. UNCHANGED <<InFlight, Open>>
  BY DEF procVars, InFlight, Open
<1>2. UNCHANGED <<main, exit, defers, server, errCh, consumer, calls>>
  BY DEF procVars
<1>3. Types' /\ OpenAt'
  BY <1>1, <1>2 DEF Inv, Types, OpenAt
<1>4. AtWork'
  BY <1>1, <1>2 DEF Inv, AtWork
<1>5. Outcome'
  BY <1>2 DEF Inv, Outcome
<1> QED BY <1>3, <1>4, <1>5 DEF Inv

LEMMA CallsKeep ==
  ASSUME Inv, NEW c \in Event, Accept(c) \/ AnswerCall(c)
  PROVE  Inv'
<1> USE DEF Inv
<1>0. /\ UNCHANGED <<main, exit, defers, server, errCh, consumer, relay>>
      /\ calls' \in [Event -> {"none", "running", "answered", "cut off"}]
  BY DEF Accept, AnswerCall, SetCall, relayVars, Types
<1>1. UNCHANGED <<main, exit, defers, server, errCh, consumer, relay, Open>>
  BY <1>0 DEF Open
<1>2. InFlight' # {} => main \in {"serving", "draining"}
  <2>1. CASE Accept(c)
    <3>1. main \in Unserved \cup {"serving"} /\ server = "listening"
      BY <2>1, StartLabels DEF Accept, ShuttingDown
    <3> QED BY <1>1, <3>1 DEF Outcome
  <2>2. CASE AnswerCall(c)
    <3>1. InFlight' \subseteq InFlight
      BY <2>2 DEF AnswerCall, SetCall, InFlight, Types
    <3> QED BY <1>1, <3>1 DEF AtWork
  <2> QED BY <2>1, <2>2
<1>3. Types' /\ OpenAt' /\ Outcome'
  BY <1>0, <1>1 DEF Types, OpenAt, Outcome, Held, Joining, Unserved, Early
<1>4. AtWork'
  BY <1>1, <1>2 DEF AtWork
<1> QED BY <1>3, <1>4

LEMMA ServerKeeps ==
  ASSUME Inv, ServeFails \/ ServeReturns
  PROVE  Inv'
<1> USE DEF Inv
<1>1. PICK outcome \in {"error", "closed"} : Return(outcome)
  BY DEF ServeFails, ServeReturns
<1>2. /\ main # "exited" /\ server = "listening" /\ server' = outcome
      /\ errCh' = Append(errCh, outcome)
      /\ UNCHANGED <<main, exit, defers, consumer, calls, relay, InFlight, Open>>
  BY <1>1 DEF ServeFails, ServeReturns, Return, relayVars, InFlight, Open
<1>3. Types' /\ OpenAt'
  BY <1>2 DEF Types, OpenAt
<1>4. AtWork'
  BY <1>2 DEF AtWork
<1>5. Append(<<>>, outcome) = <<outcome>>
  OBVIOUS
<1>6. Outcome'
  BY <1>2, <1>5 DEF Outcome
<1> QED BY <1>3, <1>4, <1>6

LEMMA ConsumerKeeps ==
  ASSUME Inv, ConsumerStep \/ ConsumerFails
  PROVE  Inv'
<1> USE DEF Inv
<1>1. /\ consumer \in Working /\ consumer' \in Working \cup {"returned"}
      /\ UNCHANGED <<main, exit, defers, server, errCh, calls, relay, InFlight, Open>>
  BY DEF ConsumerStep, ConsumerFails, Consume, relayVars, InFlight, Working, Open
<1> QED BY <1>1 DEF Types, OpenAt, AtWork, Outcome, Held, Joining, Unserved, Early

LEMMA ReturningKeeps ==
  ASSUME Inv, Returning
  PROVE  Inv'
<1> USE DEF Inv
<1>1. /\ main = "returning" /\ UNCHANGED <<server, errCh, consumer, calls, relay, InFlight>>
      /\ \/ UNCHANGED <<main, exit>>
         \/ main' = "exited" /\ exit' = "0"
  BY DEF Returning, relayVars, InFlight
<1>2. OpenAt'
  BY <1>1 DEF OpenAt, Early, Held, Joining
<1>3. Types' /\ AtWork' /\ Outcome'
  BY <1>1 DEF Types, AtWork, Outcome, Held, Joining, Unserved, Early
<1> QED BY <1>2, <1>3

LEMMA StepInv ==
  ASSUME Inv, [Next]_vars
  PROVE  Inv'
<1>1. CASE Start
  BY <1>1, StartKeeps
<1>2. ASSUME NEW status \in {"1", "signal"}, main # "exited", Exit(status)
      PROVE  Inv'
  BY <1>2, ExitKeeps
<1>3. CASE StartFails \/ ServerError \/ ShutdownFails
  BY <1>2, <1>3 DEF StartFails, ServerError, ShutdownFails
<1>4. CASE SignalSeen \/ Drained \/ CloseReader \/ JoinConsumer \/ JoinRelay
  BY <1>4, GotoKeeps DEF SignalSeen, Drained, CloseReader, JoinConsumer, JoinRelay, Goto
<1>5. CASE JoinServer
  <2>1. CASE Head(errCh) = "error" /\ Exit("1")
    BY <1>2, <1>5, <2>1 DEF JoinServer
  <2>2. CASE Head(errCh) = "closed" /\ Goto("closing reader")
    <3>1. errCh # <<>> /\ main = "joining server"
      BY <1>5 DEF JoinServer
    <3>2. server \in {"error", "closed"} /\ errCh = <<server>>
      BY <3>1 DEF Inv, Outcome
    <3>3. Head(<<server>>) = server
      OBVIOUS
    <3>4. server = "closed"
      BY <2>2, <3>2, <3>3
    <3> QED BY <2>2, <3>1, <3>4, GotoKeeps DEF Goto
  <2> QED BY <1>5, <2>1, <2>2 DEF JoinServer
<1>6. CASE Returning
  BY <1>6, ReturningKeeps
<1>7. CASE Signal
  <2>1. CASE O!Shutdown(Self) /\ UNCHANGED procVars
    BY <2>1, ElsewhereKeeps DEF O!Shutdown
  <2> QED BY <1>2, <1>7, <2>1 DEF Signal
<1>8. CASE ServeFails \/ ServeReturns
  BY <1>8, ServerKeeps
<1>9. ASSUME NEW c \in Event, Accept(c) \/ Transact(c) \/ AnswerCall(c) \/ Abort(c)
      PROVE  Inv'
  <2>1. CASE Transact(c) \/ Abort(c)
    BY <2>1, ElsewhereKeeps
    DEF Transact, Abort, O!InsertOutbox, O!CommitTx, O!RollBackTx, O!End
  <2> QED BY <1>9, <2>1, CallsKeep
<1>10. CASE ConsumerStep \/ ConsumerFails
  BY <1>10, ConsumerKeeps
<1>11. CASE RelayStep
  BY <1>11, RelayKeeps
<1>12. CASE UNCHANGED vars
  BY <1>12, ElsewhereKeeps DEF vars, relayVars
<1> QED
  BY <1>1, <1>3, <1>4, <1>5, <1>6, <1>7, <1>8, <1>9, <1>10, <1>11, <1>12
  DEF Next, MainStep

LEMMA Invariance == Spec => []Inv
<1>1. Init => Inv
  <2> SUFFICES ASSUME Init PROVE Inv
    OBVIOUS
  <2>1. /\ relay \in [{Self} -> {"waiting", "publishing", "marking", "stopped"}]
        /\ relay[Self] = "waiting"
    BY DEF Init, O!Init
  <2>2. InFlight = {}
    BY DEF Init, InFlight
  <2>3. defers \in Seq(Closes) /\ Open = {}
    BY DEF Init, Open
  <2>4. Types /\ OpenAt
    BY <2>1, <2>3 DEF Init, Types, OpenAt, Early, Held, Joining
  <2>5. AtWork /\ Outcome
    BY <2>1, <2>2 DEF Init, AtWork, Outcome, Held, Joining, Unserved, Early, Working
  <2> QED BY <2>4, <2>5 DEF Inv
<1>2. Inv /\ [Next]_vars => Inv'
  BY StepInv
<1> QED BY <1>1, <1>2, PTL DEF Spec

-------------------------------------------------------------------------------

\* main joins the consumer and the relay before it returns, and the deferred closes
\* run after that: whatever the order of the goroutines, nobody that is at work is
\* left without the database, Redis or the producer.
THEOREM NothingPulledAway == Spec => []NothingClosedInUse
<1>1. Inv => NothingClosedInUse
  <2> SUFFICES ASSUME Inv, main # "exited" PROVE
        /\ relay[Self] \in {"publishing", "marking"} => {"db", "producer"} \subseteq Open
        /\ consumer = "processing" => {"db", "rdb"} \subseteq Open
        /\ InFlight # {} => "db" \in Open
    BY DEF NothingClosedInUse
  <2> QED BY DEF Inv, OpenAt, AtWork, Working, Held, Closes
<1> QED BY <1>1, Invariance, PTL

\* A server that failed by itself never ends as exit status 0, not even when it
\* fails after the signal (main.go:136).
THEOREM FailureIsSeen == Spec => []ErrorIsReported
<1>1. Inv => ErrorIsReported
  BY DEF Inv, Outcome, ErrorIsReported
<1> QED BY <1>1, Invariance, PTL

-------------------------------------------------------------------------------
(* What a clean end leaves behind. *)

Batch == batch[Self]

\* Messages Kafka has acknowledged whose rows are not marked.
Unmarked == O!Delivered \ published

\* The relay may still mark the one it has in hand.
InHandUnmarked == IF relay[Self] = "marking" THEN 1 ELSE 0

RelayTypes ==
  /\ id \in [Event -> Nat]
  /\ published \subseteq Event
  /\ copies \in [Event -> Nat]
  /\ batch \in [{Self} -> Seq(Event)]
  /\ faults \in Nat

\* The only relay that marks rows has not marked those it holds, each held once.
BatchUnmarked ==
  /\ relay[Self] \in {"publishing", "marking"} => Batch # <<>>
  /\ relay[Self] = "marking" => Batch[1] \in O!Delivered
  /\ \A i \in 1..Len(Batch) : Batch[i] \notin published
  /\ \A i, j \in 1..Len(Batch) : i # j => Batch[i] # Batch[j]

MarksPaid == Cardinality(Unmarked) <= faults + InHandUnmarked

\* A transaction is open only while its call runs, or after it was cut off, which
\* is not how a clean end comes about.
CallsClean ==
  /\ tx \in [Event -> {"none", "open", "committed", "rolled_back"}]
  /\ \A c \in Event :
       /\ calls[c] \in {"none", "answered"} => tx[c] # "open"
       /\ calls[c] = "cut off" => main = "exited" /\ exit # "0"

RelayInv == RelayTypes /\ BatchUnmarked /\ MarksPaid

\* Unmarked messages can be counted.
LEMMA UnmarkedCounted ==
  /\ IsFiniteSet(Unmarked) /\ Cardinality(Unmarked) \in Nat
  /\ IsFiniteSet(Unmarked') /\ Cardinality(Unmarked') \in Nat
<1>1. Unmarked \subseteq Event /\ Unmarked' \subseteq Event
  BY DEF Unmarked, O!Delivered
<1>2. IsFiniteSet(Unmarked) /\ IsFiniteSet(Unmarked')
  BY <1>1, FS_Subset, EventAssumption
<1> QED BY <1>2, FS_CardinalityType

\* One message more, or none: what is unmarked grows by one at most.
LEMMA OneMore ==
  ASSUME NEW e, Unmarked' \subseteq Unmarked \cup {e}
  PROVE  Cardinality(Unmarked') <= Cardinality(Unmarked) + 1
<1>1. IsFiniteSet(Unmarked \cup {e})
  BY UnmarkedCounted, FS_AddElement
<1>2. /\ Cardinality(Unmarked \cup {e}) \in Nat
      /\ Cardinality(Unmarked \cup {e}) <= Cardinality(Unmarked) + 1
  BY UnmarkedCounted, FS_AddElement
<1>3. Cardinality(Unmarked') <= Cardinality(Unmarked \cup {e})
  BY <1>1, FS_Subset
<1> QED BY <1>2, <1>3, UnmarkedCounted

LEMMA NoMore ==
  ASSUME Unmarked' \subseteq Unmarked
  PROVE  Cardinality(Unmarked') <= Cardinality(Unmarked)
BY UnmarkedCounted, FS_Subset

\* What the relay has in hand.
LEMMA InHandIs ==
  ASSUME RelayTypes, BatchUnmarked, relay[Self] \in {"publishing", "marking"}
  PROVE  /\ Batch \in Seq(Event) /\ Len(Batch) \in Nat \ {0}
         /\ O!InHand(Self) = Batch[1] /\ Batch[1] \in Event /\ Batch[1] \notin published
<1>1. Batch \in Seq(Event) /\ Batch # <<>>
  BY DEF RelayTypes, BatchUnmarked, Batch
<1>2. Len(Batch) \in Nat \ {0}
  BY <1>1, EmptySeq
<1> QED BY <1>1, <1>2 DEF O!InHand, Batch, BatchUnmarked

LEMMA SendDelivers ==
  ASSUME RelayTypes, BatchUnmarked, relay[Self] = "publishing", O!Send(Self)
  PROVE  /\ copies' \in [Event -> Nat]
         /\ O!Delivered' = O!Delivered \cup {Batch[1]}
<1>1. O!InHand(Self) = Batch[1] /\ Batch[1] \in Event
  BY InHandIs
<1>2. copies' = [copies EXCEPT ![Batch[1]] = copies[Batch[1]] + 1]
  BY <1>1 DEF O!Send
<1>3. copies[Batch[1]] + 1 \in Nat /\ copies[Batch[1]] + 1 > 0
  BY <1>1 DEF RelayTypes
<1> QED BY <1>1, <1>2, <1>3 DEF RelayTypes, O!Delivered

\* A poll returns unmarked rows, none of them twice.
LEMMA PollIs ==
  ASSUME RelayTypes, O!Unpublished # {}, NEW b \in O!Poll
  PROVE  /\ b \in Seq(Event) /\ b # <<>>
         /\ \A i \in 1..Len(b) : b[i] \notin published
         /\ \A i, j \in 1..Len(b) : i # j => b[i] # b[j]
<1>1. PICK n \in 0..BatchSize : b \in [1..n -> O!Unpublished]
  BY DEF O!Poll
<1>2. n \in Nat
  BY BatchSizeAssumption
<1>3. b \in Seq(O!Unpublished) /\ Len(b) = n /\ DOMAIN b = 1..n
  BY <1>1, <1>2
<1>4. \A i \in 1..n : b[i] \in O!Unpublished
  BY <1>1
<1>5. O!Unpublished \subseteq Event /\ O!Unpublished \cap published = {}
  BY DEF O!Unpublished
<1>6. b \in Seq(Event)
  BY <1>1, <1>2, <1>5
<1>7. \A i, j \in 1..n : i # j => b[i] # b[j]
  <2> SUFFICES ASSUME NEW i \in 1..n, NEW j \in 1..n, i < j PROVE b[i] # b[j]
    BY <1>2
  <2>1. id[b[i]] < id[b[j]] /\ id[b[i]] \in Nat
    BY <1>3, <1>4, <1>5 DEF O!Poll, RelayTypes
  <2> QED BY <2>1
<1>8. b # <<>>
  <2> SUFFICES ASSUME b = <<>> PROVE FALSE
    OBVIOUS
  <2>1. PICK e \in O!Unpublished : TRUE
    OBVIOUS
  <2>2. Len(b) = BatchSize \/ \E i \in DOMAIN b : b[i] = e
    BY <2>1 DEF O!Poll
  <2>3. Len(b) = 0 /\ DOMAIN b = {}
    OBVIOUS
  <2> QED BY <2>2, <2>3, BatchSizeAssumption
<1> QED BY <1>3, <1>4, <1>5, <1>6, <1>7, <1>8

\* Steps after which the relay holds nothing, and a fault has paid for what it had.
LEMMA GivesUp ==
  ASSUME Inv, RelayInv, UNCHANGED id, relay'[Self] \in {"waiting", "stopped"},
         batch' = [batch EXCEPT ![Self] = <<>>],
         published' \subseteq Event, copies' \in [Event -> Nat], faults' \in Nat,
         Cardinality(Unmarked') <= faults'
  PROVE  RelayInv'
<1>1. batch' \in [{Self} -> Seq(Event)] /\ Batch' = <<>>
  BY DEF RelayInv, RelayTypes, Batch
<1>2. RelayTypes' /\ BatchUnmarked'
  BY <1>1 DEF RelayInv, RelayTypes, BatchUnmarked
<1>3. MarksPaid'
  BY UnmarkedCounted DEF MarksPaid, InHandUnmarked
<1> QED BY <1>2, <1>3 DEF RelayInv

LEMMA SameRelay ==
  ASSUME RelayInv, UNCHANGED <<published, copies, relay, batch, faults>>,
         id' \in [Event -> Nat]
  PROVE  RelayInv'
<1>1. UNCHANGED <<Batch, O!Delivered, Unmarked, InHandUnmarked>>
  BY DEF Batch, O!Delivered, Unmarked, InHandUnmarked
<1> QED BY <1>1 DEF RelayInv, RelayTypes, BatchUnmarked, MarksPaid

LEMMA TickKeeps ==
  ASSUME Inv, RelayInv, O!Tick(Self)
  PROVE  RelayInv'
<1> USE DEF RelayInv
<1>1. PICK b \in O!Poll : batch' = [batch EXCEPT ![Self] = b]
  BY DEF O!Tick
<1>2. /\ O!Unpublished # {} /\ UNCHANGED <<id, published, copies, faults>>
      /\ relay[Self] = "waiting" /\ relay'[Self] = "publishing"
  BY DEF O!Tick, O!dbVars, O!bounds, Inv, Types
<1>3. Batch' = b /\ batch' \in [{Self} -> Seq(Event)]
  BY <1>1, <1>2, PollIs DEF RelayTypes, Batch
<1>4. BatchUnmarked'
  BY <1>2, <1>3, PollIs DEF BatchUnmarked
<1>5. UNCHANGED <<Unmarked, InHandUnmarked>>
  BY <1>2 DEF Unmarked, O!Delivered, InHandUnmarked
<1> QED BY <1>2, <1>3, <1>4, <1>5 DEF RelayTypes, MarksPaid

LEMMA PublishKeeps ==
  ASSUME Inv, RelayInv, O!Publish(Self)
  PROVE  RelayInv'
<1> USE DEF RelayInv
<1>1. /\ O!Send(Self) /\ UNCHANGED <<id, published, batch, faults, Batch>>
      /\ relay[Self] = "publishing" /\ relay'[Self] = "marking"
  BY DEF O!Publish, O!dbVars, O!bounds, Inv, Types, Batch
<1>2. copies' \in [Event -> Nat] /\ O!Delivered' = O!Delivered \cup {Batch[1]}
  BY <1>1, SendDelivers
<1>3. RelayTypes' /\ BatchUnmarked'
  BY <1>1, <1>2 DEF RelayTypes, BatchUnmarked
<1>4. Unmarked' \subseteq Unmarked \cup {Batch[1]}
  BY <1>1, <1>2 DEF Unmarked
<1>5. Cardinality(Unmarked') <= Cardinality(Unmarked) + 1
  BY <1>4, OneMore
<1>6. MarksPaid'
  BY <1>1, <1>5, UnmarkedCounted DEF MarksPaid, InHandUnmarked, RelayTypes
<1> QED BY <1>3, <1>6

LEMMA PublishAgainKeeps ==
  ASSUME Inv, RelayInv, O!PublishAgain(Self)
  PROVE  RelayInv'
<1> USE DEF RelayInv
<1>1. /\ O!Send(Self) /\ UNCHANGED <<id, published, relay, batch, Batch>>
      /\ relay[Self] = "publishing" /\ faults' = faults + 1
  BY DEF O!PublishAgain, O!Fault, O!dbVars, Batch
<1>2. copies' \in [Event -> Nat] /\ O!Delivered' = O!Delivered \cup {Batch[1]}
  BY <1>1, SendDelivers
<1>3. RelayTypes' /\ BatchUnmarked'
  BY <1>1, <1>2 DEF RelayTypes, BatchUnmarked
<1>4. Unmarked' \subseteq Unmarked \cup {Batch[1]}
  BY <1>1, <1>2 DEF Unmarked
<1>5. Cardinality(Unmarked') <= Cardinality(Unmarked) + 1
  BY <1>4, OneMore
<1>6. MarksPaid'
  BY <1>1, <1>5, UnmarkedCounted DEF MarksPaid, InHandUnmarked, RelayTypes
<1> QED BY <1>3, <1>6

LEMMA PublishFailsKeeps ==
  ASSUME Inv, RelayInv, O!PublishFails(Self)
  PROVE  RelayInv'
<1> USE DEF RelayInv
<1>1. /\ UNCHANGED <<id, published>> /\ relay[Self] = "publishing"
      /\ relay'[Self] = "waiting" /\ batch' = [batch EXCEPT ![Self] = <<>>]
  BY DEF O!PublishFails, O!GiveUp, O!dbVars, Inv, Types
<1>2. Cardinality(Unmarked) <= faults /\ faults \in Nat
  BY <1>1 DEF MarksPaid, InHandUnmarked, RelayTypes
<1>3. CASE UNCHANGED <<copies, faults>>
  <2>1. Unmarked' = Unmarked
    BY <1>1, <1>3 DEF Unmarked, O!Delivered
  <2> QED BY <1>1, <1>2, <1>3, <2>1, GivesUp DEF RelayTypes
<1>4. CASE UNCHANGED copies /\ faults' = faults + 1
  <2>1. Unmarked' = Unmarked
    BY <1>1, <1>4 DEF Unmarked, O!Delivered
  <2> QED BY <1>1, <1>2, <1>4, <2>1, GivesUp, UnmarkedCounted DEF RelayTypes
<1>5. CASE O!Send(Self) /\ faults' = faults + 1
  <2>1. copies' \in [Event -> Nat] /\ O!Delivered' = O!Delivered \cup {Batch[1]}
    BY <1>1, <1>5, SendDelivers
  <2>2. Unmarked' \subseteq Unmarked \cup {Batch[1]}
    BY <1>1, <2>1 DEF Unmarked
  <2>3. Cardinality(Unmarked') <= faults'
    BY <1>2, <1>5, <2>2, OneMore, UnmarkedCounted
  <2> QED BY <1>1, <1>2, <1>5, <2>1, <2>3, GivesUp DEF RelayTypes
<1> QED BY <1>3, <1>4, <1>5 DEF O!PublishFails, O!Fault, O!bounds

\* A mark takes the message in hand out of the unmarked ones.
LEMMA MarkCounts ==
  ASSUME Inv, RelayInv, relay[Self] = "marking", UNCHANGED copies,
         published' = published \cup {Batch[1]}
  PROVE  Cardinality(Unmarked') <= faults
<1>1. Batch[1] \in Unmarked
  BY InHandIs DEF RelayInv, BatchUnmarked, Unmarked
<1>2. Unmarked' = Unmarked \ {Batch[1]}
  BY DEF Unmarked, O!Delivered
<1>3. Cardinality(Unmarked') = Cardinality(Unmarked) - 1
  BY <1>1, <1>2, UnmarkedCounted, FS_RemoveElement
<1> QED BY <1>3, UnmarkedCounted DEF RelayInv, RelayTypes, MarksPaid, InHandUnmarked

LEMMA MarkKeeps ==
  ASSUME Inv, RelayInv, O!Mark(Self)
  PROVE  RelayInv'
<1> USE DEF RelayInv
<1>1. /\ UNCHANGED <<id, copies, faults>> /\ relay[Self] = "marking"
      /\ published' = published \cup {O!InHand(Self)}
      /\ relay'[Self] = IF Len(Batch) = 1 THEN "waiting" ELSE "publishing"
      /\ batch' = [batch EXCEPT ![Self] = Tail(Batch)]
  BY DEF O!Mark, O!Marked, O!NextRow, O!bounds, Batch, Inv, Types
<1>2. /\ Batch \in Seq(Event) /\ Len(Batch) \in Nat \ {0}
      /\ O!InHand(Self) = Batch[1] /\ Batch[1] \in Event
  BY <1>1, InHandIs
<1>3. Batch # <<>>
  BY <1>1 DEF BatchUnmarked
<1>4. /\ Tail(Batch) \in Seq(Event) /\ Len(Tail(Batch)) = Len(Batch) - 1
      /\ \A i \in 1 .. Len(Batch) - 1 : Tail(Batch)[i] = Batch[i + 1]
  BY <1>2, <1>3, HeadTailProperties
<1>5. Batch' = Tail(Batch) /\ batch' \in [{Self} -> Seq(Event)]
  BY <1>1, <1>4 DEF RelayTypes, Batch
<1>6. RelayTypes'
  BY <1>1, <1>2, <1>5 DEF RelayTypes
<1>7. relay'[Self] = "publishing" => Batch' # <<>>
  <2>1. Tail(Batch) = <<>> => Len(Tail(Batch)) = 0
    BY <1>4, EmptySeq
  <2> QED BY <1>1, <1>2, <1>4, <1>5, <2>1
<1>8. ASSUME NEW i \in 1..Len(Batch')
      PROVE  Batch'[i] \notin published' /\ Batch'[i] = Batch[i + 1] /\ i + 1 \in 1..Len(Batch)
  <2>1. i + 1 \in 1..Len(Batch) /\ Batch'[i] = Batch[i + 1] /\ i + 1 # 1 /\ 1 \in 1..Len(Batch)
    BY <1>2, <1>4, <1>5
  <2> QED BY <1>1, <1>2, <2>1 DEF BatchUnmarked
<1>9. \A i, j \in 1..Len(Batch') : i # j => Batch'[i] # Batch'[j]
  <2> SUFFICES ASSUME NEW i \in 1..Len(Batch'), NEW j \in 1..Len(Batch'), i # j
               PROVE  Batch'[i] # Batch'[j]
    OBVIOUS
  <2>1. i + 1 # j + 1
    BY <1>4, <1>5
  <2> QED BY <1>8, <2>1 DEF BatchUnmarked
<1>10. BatchUnmarked'
  BY <1>1, <1>7, <1>8, <1>9 DEF BatchUnmarked
<1>11. MarksPaid'
  BY <1>1, <1>2, MarkCounts, UnmarkedCounted DEF MarksPaid, InHandUnmarked, RelayTypes
<1> QED BY <1>6, <1>10, <1>11

LEMMA MarkFailsKeeps ==
  ASSUME Inv, RelayInv, O!MarkFails(Self)
  PROVE  RelayInv'
<1> USE DEF RelayInv
<1>1. /\ UNCHANGED <<id, copies>> /\ faults' = faults + 1 /\ relay[Self] = "marking"
      /\ relay'[Self] = "waiting" /\ batch' = [batch EXCEPT ![Self] = <<>>]
      /\ published' = published \cup {O!InHand(Self)} \/ UNCHANGED published
  BY DEF O!MarkFails, O!Marked, O!GiveUp, O!Fault, Inv, Types
<1>2. O!InHand(Self) = Batch[1] /\ Batch[1] \in Event /\ faults \in Nat
  BY <1>1, InHandIs DEF RelayTypes
<1>3. published' \subseteq Event
  BY <1>1, <1>2 DEF RelayTypes
<1>4. Cardinality(Unmarked') <= faults'
  <2>1. CASE UNCHANGED published
    <3>1. Unmarked' = Unmarked
      BY <1>1, <2>1 DEF Unmarked, O!Delivered
    <3> QED BY <1>1, <3>1, UnmarkedCounted DEF MarksPaid, InHandUnmarked
  <2>2. CASE published' = published \cup {O!InHand(Self)}
    BY <1>1, <1>2, <2>2, MarkCounts, UnmarkedCounted
  <2> QED BY <1>1, <2>1, <2>2
<1> QED BY <1>1, <1>2, <1>3, <1>4, GivesUp DEF RelayTypes

\* What is not the relay's leaves its messages and marks alone.
LEMMA RelayInvStep ==
  ASSUME Inv, RelayInv, CallsClean, [Next]_vars
  PROVE  RelayInv'
<1>0. id \in [Event -> Nat]
  BY DEF RelayInv, RelayTypes
<1>1. CASE UNCHANGED relayVars
  BY <1>0, <1>1, SameRelay DEF relayVars
<1>2. ASSUME NEW status, Exit(status)
      PROVE  RelayInv'
  <2>1. CASE O!Crash(Self)
    <3>1. /\ UNCHANGED <<id, published, copies>> /\ faults' = faults + 1
          /\ relay'[Self] = "stopped" /\ batch' = [batch EXCEPT ![Self] = <<>>]
      BY <2>1 DEF O!Crash, O!Fault, O!dbVars, Inv, Types
    <3>2. UNCHANGED Unmarked /\ faults \in Nat
      BY <3>1 DEF Unmarked, O!Delivered, RelayInv, RelayTypes
    <3>3. Cardinality(Unmarked') <= faults'
      BY <3>1, <3>2, UnmarkedCounted DEF RelayInv, MarksPaid, InHandUnmarked
    <3> QED BY <3>1, <3>2, <3>3, GivesUp DEF RelayInv, RelayTypes
  <2> QED BY <1>1, <1>2, <2>1 DEF Exit
<1>3. CASE RelayStep
  <2>1. CASE O!RunReturns(Self)
    <3>1. /\ UNCHANGED <<id, published, copies, batch, faults>>
          /\ relay[Self] = "waiting" /\ relay'[Self] = "stopped"
      BY <2>1 DEF O!RunReturns, O!dbVars, O!bounds, Inv, Types
    <3>2. UNCHANGED <<Batch, O!Delivered, Unmarked, InHandUnmarked>>
      BY <3>1 DEF Batch, O!Delivered, Unmarked, InHandUnmarked
    <3> QED BY <3>1, <3>2 DEF RelayInv, RelayTypes, BatchUnmarked, MarksPaid
  <2> QED
    BY <1>3, <2>1, TickKeeps, PublishKeeps, PublishAgainKeeps, PublishFailsKeeps, MarkKeeps,
       MarkFailsKeeps DEF RelayStep
<1>4. ASSUME NEW c \in Event, O!InsertOutbox(c) \/ O!CommitTx(c) \/ O!RollBackTx(c)
      PROVE  RelayInv'
  <2>1. UNCHANGED <<published, copies, relay, batch, faults>>
    BY <1>4 DEF O!InsertOutbox, O!CommitTx, O!RollBackTx, O!End, O!bounds
  <2>2. id' \in [Event -> Nat]
    <3>1. CASE O!InsertOutbox(c)
      <4> DEFINE S == {e \in Event : id[e] # 0}
      <4>1. S \subseteq Event /\ O!NextId = 1 + Cardinality(S)
        BY Zenon DEF O!NextId, O!Cardinality, Cardinality
      <4> HIDE DEF S
      <4>2. O!NextId \in Nat
        BY <4>1, FS_Subset, FS_CardinalityType, EventAssumption
      <4> QED BY <1>0, <3>1, <4>2 DEF O!InsertOutbox
    <3>2. CASE O!CommitTx(c) \/ O!RollBackTx(c)
      BY <1>0, <3>2 DEF O!CommitTx, O!RollBackTx, O!End
    <3> QED BY <1>4, <3>1, <3>2
  <2> QED BY <2>1, <2>2, SameRelay
<1>5. CASE MainStep \/ StartFails
  BY <1>1, <1>2, <1>5 DEF MainStep, StartFails, Start, ServerError, SignalSeen, Drained,
     ShutdownFails, JoinServer, CloseReader, JoinConsumer, JoinRelay, Returning, Goto
<1>6. CASE Signal
  <2>1. CASE O!Shutdown(Self)
    BY <1>0, <2>1, SameRelay DEF O!Shutdown, O!dbVars
  <2> QED BY <1>2, <1>6, <2>1 DEF Signal
<1>7. CASE ServeFails \/ ServeReturns \/ ConsumerStep \/ ConsumerFails
  BY <1>1, <1>7 DEF ServeFails, ServeReturns, Return, ConsumerStep, ConsumerFails
<1>8. ASSUME NEW c \in Event, Accept(c) \/ Transact(c) \/ AnswerCall(c) \/ Abort(c)
      PROVE  RelayInv'
  BY <1>1, <1>4, <1>8 DEF Accept, Transact, AnswerCall, Abort
<1>9. CASE UNCHANGED vars
  BY <1>1, <1>9 DEF vars
<1> QED BY <1>3, <1>5, <1>6, <1>7, <1>8, <1>9 DEF Next

LEMMA CallsCleanStep ==
  ASSUME Inv, CallsClean, [Next]_vars
  PROVE  CallsClean'
<1> USE DEF CallsClean
<1>1. CASE UNCHANGED <<calls, tx>> /\ UNCHANGED <<main, exit>>
  BY <1>1
<1>2. ASSUME NEW status \in {"1", "signal"}, Exit(status)
      PROVE  CallsClean'
  <2>1. /\ main' = "exited" /\ exit' # "0" /\ UNCHANGED tx
        /\ calls' = [c \in Event |-> IF c \in InFlight THEN "cut off" ELSE calls[c]]
    BY <1>2 DEF Exit, O!Crash, O!dbVars, relayVars
  <2> QED BY <2>1
<1>3. CASE UNCHANGED <<calls, tx>> /\ (main # "exited" \/ UNCHANGED <<main, exit>>)
  BY <1>3
<1>4. CASE MainStep \/ StartFails
  <2>1. \/ Exit("1")
        \/ UNCHANGED <<calls, relayVars>> /\ main # "exited"
    <3>1. CASE Start
      BY <3>1, StartStep DEF Start
    <3> QED
      BY <1>4, <3>1 DEF MainStep, StartFails, ServerError, SignalSeen, Drained, ShutdownFails,
         JoinServer, CloseReader, JoinConsumer, JoinRelay, Returning, Goto
  <2> QED BY <1>2, <1>3, <2>1 DEF relayVars
<1>5. CASE Signal
  BY <1>1, <1>2, <1>5 DEF Signal, O!Shutdown, O!dbVars, procVars
<1>6. CASE ServeFails \/ ServeReturns \/ ConsumerStep \/ ConsumerFails
  BY <1>1, <1>6 DEF ServeFails, ServeReturns, Return, ConsumerStep, ConsumerFails, Consume,
     relayVars
<1>7. ASSUME NEW c \in Event, Accept(c) \/ AnswerCall(c)
      PROVE  CallsClean'
  BY <1>7 DEF Accept, AnswerCall, SetCall, relayVars, Inv, Types
<1>8. ASSUME NEW c \in Event, Transact(c) \/ Abort(c)
      PROVE  CallsClean'
  <2>1. /\ calls[c] \in {"running", "cut off"} /\ UNCHANGED <<main, exit, calls>>
        /\ \E t \in {"open", "committed", "rolled_back"} : tx' = [tx EXCEPT ![c] = t]
    BY <1>8 DEF Transact, Abort, O!InsertOutbox, O!CommitTx, O!RollBackTx, O!End, procVars
  <2> QED BY <2>1
<1>9. CASE RelayStep
  BY <1>1, <1>9 DEF RelayStep, O!Tick, O!Publish, O!PublishAgain, O!PublishFails, O!Mark,
     O!MarkFails, O!RunReturns, O!dbVars, procVars
<1>10. CASE UNCHANGED vars
  BY <1>1, <1>10 DEF vars, procVars, relayVars
<1> QED BY <1>4, <1>5, <1>6, <1>7, <1>8, <1>9, <1>10 DEF Next

LEMMA RelayInvariance == Spec => [](RelayInv /\ CallsClean)
<1>1. Init => RelayInv /\ CallsClean
  <2> SUFFICES ASSUME Init PROVE RelayInv /\ CallsClean
    OBVIOUS
  <2>1. /\ batch \in [{Self} -> Seq(Event)] /\ Batch = <<>>
        /\ relay[Self] = "waiting" /\ published = {} /\ faults = 0
    BY DEF Init, O!Init, Batch
  <2>2. Unmarked = {} /\ copies \in [Event -> Nat] /\ id \in [Event -> Nat]
    BY DEF Init, O!Init, Unmarked, O!Delivered
  <2>3. Cardinality(Unmarked) = 0
    BY <2>2, FS_EmptySet
  <2>4. RelayInv
    BY <2>1, <2>2, <2>3 DEF RelayInv, RelayTypes, BatchUnmarked, MarksPaid, InHandUnmarked
  <2>5. CallsClean
    BY DEF Init, O!Init, CallsClean
  <2> QED BY <2>4, <2>5
<1>2. Inv /\ RelayInv /\ CallsClean /\ [Next]_vars => (RelayInv /\ CallsClean)'
  BY RelayInvStep, CallsCleanStep
<1> QED BY <1>1, <1>2, Invariance, PTL DEF Spec

\* A process that returns from main has answered its calls and ended its transactions,
\* as srv.Shutdown waits for the calls; however it ends, it has marked what Kafka has
\* acknowledged, but for failed calls of the relay and one where os.Exit or a signal
\* stops the relay: main waits for the relay, whose marks outlive the context.
THEOREM CleanEndIsClean == Spec => []CleanEnd
<1>1. Inv /\ RelayInv /\ CallsClean => CleanEnd
  <2> SUFFICES ASSUME Inv, RelayInv, CallsClean
               PROVE  CleanEnd
    OBVIOUS
  <2>1. ASSUME main = "returning" \/ exit = "0"
        PROVE  \A c \in Event : calls[c] \in {"none", "answered"} /\ tx[c] # "open"
    <3>1. main \in {"returning", "exited"} /\ (main = "exited" => exit = "0")
      BY <2>1 DEF Inv, Types, Outcome
    <3>2. InFlight = {}
      BY <3>1 DEF Inv, AtWork
    <3> QED BY <3>1, <3>2 DEF Inv, Types, InFlight, CallsClean
  <2>2. ASSUME main \in {"returning", "exited"}
        PROVE  Cardinality(O!Delivered \ published) <= faults
    <3>1. relay[Self] = "stopped"
      BY <2>2 DEF Inv, AtWork
    <3>2. Cardinality(Unmarked) <= faults
      BY <3>1, UnmarkedCounted DEF RelayInv, RelayTypes, MarksPaid, InHandUnmarked
    <3> QED BY <3>2 DEF Unmarked
  <2> QED BY <2>1, <2>2 DEF CleanEnd
<1> QED BY <1>1, Invariance, RelayInvariance, PTL

-------------------------------------------------------------------------------
(* Type correctness. *)

\* The closes that are deferred: the first n of DeferOrder.
Stack(n) == SubSeq(DeferOrder, 1, n)

\* How many there are at each statement of the startup.
StackAt ==
  /\ main = "database" => defers = Stack(0)
  /\ main \in {"keys", "redis"} => defers = Stack(1)
  /\ main = "signals" => defers = Stack(2)
  /\ main = "relay" => defers = Stack(3)

\* What the bounds of the relay rest on beyond RelayInv: a row has its number from
\* its insert on, and a relay that neither publishes nor marks holds nothing.
RelayBounds ==
  /\ id \in [Event -> 0..Cardinality(Event)]
  /\ \A e \in Event : tx[e] = "none" => id[e] = 0
  /\ Len(Batch) <= BatchSize
  /\ relay[Self] \in {"publishing", "marking"} <=> Batch # <<>>
  /\ stopping \subseteq {Self}
  /\ faults \in 0 .. MaxFaults + 1
  /\ stops \in 0..1

ProcTypes ==
  /\ defers \in {Stack(n) : n \in 0..4} /\ StackAt
  /\ errCh \in {<<>>, <<"error">>, <<"closed">>}
  /\ reader \in {"open", "closed"}

LEMMA SameCardinality == \A S : O!Cardinality(S) = Cardinality(S)
BY Zenon DEF O!Cardinality, Cardinality

LEMMA OrderIs == DeferOrder \in Seq(Closes) /\ Len(DeferOrder) = 4
BY DEF DeferOrder, Closes

\* Deferring the next close, and running the last one.
LEMMA StackPush ==
  ASSUME NEW n \in 0..3
  PROVE  Stack(n) \o <<DeferOrder[n + 1]>> = Stack(n + 1)
<1>1. n + 1 \in 1..4 /\ (n + 1) - 1 = n
  OBVIOUS
<1>2. SubSeq(DeferOrder, 1, n + 1) = SubSeq(DeferOrder, 1, (n + 1) - 1) \o <<DeferOrder[n + 1]>>
  BY <1>1, OrderIs, SubSeqRecursiveSecond
<1> QED BY <1>1, <1>2 DEF Stack

LEMMA StackLen ==
  ASSUME NEW n \in 0..4
  PROVE  Len(Stack(n)) = n
<1>1. \A i \in 1..n : DeferOrder[i] \in Closes
  BY OrderIs, ElementOfSeq
<1> QED BY <1>1, SubSeqProperties DEF Stack

LEMMA StackPop ==
  ASSUME NEW n \in 1..4
  PROVE  SubSeq(Stack(n), 1, Len(Stack(n)) - 1) = Stack(n - 1)
<1>0. n \in 0..4
  OBVIOUS
<1>1. Len(Stack(n)) = n
  BY <1>0, StackLen
<1>2. CASE n = 1
  BY <1>1, <1>2, SubSeqEmpty DEF Stack
<1>3. CASE n # 1
  <2>1. n - 1 \in 1..n /\ 1 \in 1 .. (n - 1) + 1 /\ n \in 1..4
    BY <1>3
  <2>2. SubSeq(SubSeq(DeferOrder, 1, n), 1, n - 1) = SubSeq(DeferOrder, 1 + 1 - 1, 1 + (n - 1) - 1)
    BY <2>1, OrderIs, SubSeqOfSubSeq
  <2>3. 1 + 1 - 1 = 1 /\ 1 + (n - 1) - 1 = n - 1
    OBVIOUS
  <2> QED BY <1>1, <2>2, <2>3 DEF Stack
<1> QED BY <1>2, <1>3
LEMMA ProcTypesStep ==
  ASSUME Inv, ProcTypes, [Next]_vars
  PROVE  ProcTypes'
<1> USE DEF ProcTypes
<1>1. CASE UNCHANGED <<main, defers, errCh, reader>>
  BY <1>1 DEF StackAt
<1>2. ASSUME UNCHANGED <<defers, reader>>, errCh' \in {<<>>, <<"error">>, <<"closed">>},
             main' \notin Early \/ UNCHANGED main
      PROVE  ProcTypes'
  BY <1>2 DEF StackAt, Early
<1>3. CASE Start
  <2>1. UNCHANGED <<errCh, reader>> /\ defers' = defers \o Opens(main)
    BY <1>3 DEF Start
  <2>2. ASSUME NEW n \in 0..3, defers = Stack(n), Opens(main) = <<DeferOrder[n + 1]>>
        PROVE  defers' = Stack(n + 1)
    BY <2>1, <2>2, StackPush
  <2>3. ASSUME Opens(main) = <<>>
        PROVE  defers' = defers
    <3>1. PICK n \in 0..4 : defers = Stack(n)
      OBVIOUS
    <3>2. Stack(n) \in Seq(Closes)
      <4>1. \A i \in 1..n : DeferOrder[i] \in Closes
        BY OrderIs, ElementOfSeq
      <4> QED BY <4>1, SubSeqProperties DEF Stack
    <3> QED BY <2>1, <2>3, <3>1, <3>2, ConcatEmptySeq
  <2>4. defers' \in {Stack(n) : n \in 0..4} /\ StackAt'
    <3>1. CASE main = "database"
      BY <2>2, <3>1, StartStep, <1>3 DEF StackAt, Opens, DeferOrder
    <3>2. CASE main = "redis"
      BY <2>2, <3>2, StartStep, <1>3 DEF StackAt, Opens, DeferOrder
    <3>3. CASE main = "signals"
      BY <2>2, <3>3, StartStep, <1>3 DEF StackAt, Opens, DeferOrder
    <3>4. CASE main = "relay"
      BY <2>2, <3>4, StartStep, <1>3 DEF StackAt, Opens, DeferOrder
    <3>5. CASE main \in {"keys", "consumer", "server"}
      <4>1. defers' = defers
        BY <2>3, <3>5 DEF Opens
      <4> QED BY <3>5, <4>1, StartStep, <1>3 DEF StackAt
    <3> QED BY <3>1, <3>2, <3>3, <3>4, <3>5, StartStep, <1>3
  <2> QED BY <2>1, <2>4
<1>4. ASSUME NEW status, Exit(status)
      PROVE  ProcTypes'
  BY <1>2, <1>4 DEF Exit, Early
<1>5. CASE MainStep \/ StartFails
  <2>1. CASE SignalSeen \/ Drained \/ JoinConsumer \/ JoinRelay
    BY <1>2, <2>1 DEF SignalSeen, Drained, JoinConsumer, JoinRelay, Goto, Early
  <2>2. CASE JoinServer
    <3>1. CASE Goto("closing reader") /\ errCh' = Tail(errCh) /\ UNCHANGED reader /\ errCh # <<>>
      <4>1. Tail(<<"error">>) = <<>> /\ Tail(<<"closed">>) = <<>>
        OBVIOUS
      <4> QED BY <1>2, <3>1, <4>1 DEF Goto, Early
    <3> QED BY <1>4, <2>2, <3>1 DEF JoinServer
  <2>3. CASE CloseReader
    BY <2>3 DEF CloseReader, Goto, StackAt
  <2>4. CASE Returning
    <3>1. main = "returning" /\ UNCHANGED <<errCh, reader>> /\ main' \in {"returning", "exited"}
      BY <2>4 DEF Returning
    <3>2. defers' \in {Stack(n) : n \in 0..4}
      <4>1. CASE defers # <<>>
        <5>1. PICK n \in 0..4 : defers = Stack(n)
          OBVIOUS
        <5>2. n \in 1..4
          BY <4>1, <5>1, SubSeqEmpty DEF Stack
        <5>3. defers' = Deferred
          BY <2>4, <4>1 DEF Returning
        <5>4. Deferred = Stack(n - 1)
          BY <5>1, <5>2, StackPop, Zenon DEF Deferred
        <5> QED BY <5>2, <5>3, <5>4
      <4> QED BY <2>4, <4>1 DEF Returning
    <3> QED BY <3>1, <3>2 DEF StackAt
  <2> QED
    BY <1>3, <1>4, <1>5, <2>1, <2>2, <2>3, <2>4
    DEF MainStep, StartFails, ServerError, ShutdownFails
<1>6. CASE ServeFails \/ ServeReturns
  <2>1. PICK outcome \in {"error", "closed"} : Return(outcome)
    BY <1>6 DEF ServeFails, ServeReturns
  <2>2. errCh = <<>>
    BY <1>6, <2>1 DEF ServeFails, ServeReturns, Return, Inv, Types, Outcome, Held, Joining,
       Unserved, Early
  <2>3. errCh' = <<outcome>>
    BY <2>1, <2>2 DEF Return
  <2> QED BY <1>2, <2>1, <2>3 DEF Return
<1>7. CASE Signal
  BY <1>1, <1>4, <1>7 DEF Signal, procVars
<1>8. ASSUME NEW c \in Event, Accept(c) \/ Transact(c) \/ AnswerCall(c) \/ Abort(c)
      PROVE  ProcTypes'
  BY <1>1, <1>8 DEF Accept, Transact, AnswerCall, Abort, SetCall, procVars
<1>9. CASE ConsumerStep \/ ConsumerFails \/ RelayStep
  BY <1>1, <1>9 DEF ConsumerStep, ConsumerFails, Consume, RelayStep, procVars
<1>10. CASE UNCHANGED vars
  BY <1>1, <1>10 DEF vars, procVars
<1> QED BY <1>5, <1>6, <1>7, <1>8, <1>9, <1>10 DEF Next

\* A poll is no longer than its limit, and not empty while a row waits.
LEMMA PollFits ==
  ASSUME Inv, RelayInv, NEW b \in O!Poll, O!Unpublished # {}
  PROVE  Len(b) <= BatchSize /\ b # <<>>
<1>1. PICK n \in 0..BatchSize : b \in [1..n -> O!Unpublished]
  BY DEF O!Poll
<1>2. n \in Nat /\ Len(b) = n /\ n <= BatchSize /\ DOMAIN b = 1..n
  BY <1>1, BatchSizeAssumption
<1>3. ASSUME n = 0 PROVE FALSE
  <2>1. PICK e \in O!Unpublished : TRUE
    OBVIOUS
  <2>2. Len(b) = BatchSize \/ \E i \in DOMAIN b : b[i] = e
    BY <2>1 DEF O!Poll
  <2> QED BY <1>2, <1>3, <2>2, BatchSizeAssumption
<1>4. b # <<>>
  BY <1>2, <1>3
<1> QED BY <1>2, <1>4

\* A row takes one of as many numbers as there are events.
LEMMA NextIdFits ==
  ASSUME RelayBounds, NEW e \in Event, tx[e] = "none"
  PROVE  O!NextId \in 0..Cardinality(Event)
<1> DEFINE S == {f \in Event : id[f] # 0}
<1>1. S \subseteq Event /\ e \notin S
  BY DEF RelayBounds
<1>2. O!NextId = 1 + Cardinality(S)
  BY Zenon DEF O!NextId, O!Cardinality, Cardinality
<1> HIDE DEF S
<1>3. IsFiniteSet(S) /\ Cardinality(S) <= Cardinality(Event) /\ Cardinality(S) # Cardinality(Event)
  BY <1>1, FS_Subset, EventAssumption
<1>4. Cardinality(S) \in Nat /\ Cardinality(Event) \in Nat
  BY <1>3, FS_CardinalityType, EventAssumption
<1> QED BY <1>2, <1>3, <1>4
\* Giving a batch up, or finishing its first row, keeps what it has to keep.
LEMMA GivesUpBounds ==
  ASSUME Inv, RelayInv, RelayBounds, relay'[Self] \in {"waiting", "stopped"},
         batch' = [batch EXCEPT ![Self] = <<>>],
         UNCHANGED <<tx, id, stopping>>, faults' \in 0 .. MaxFaults + 1, stops' \in 0..1
  PROVE  RelayBounds'
<1>1. Batch' = <<>> /\ Len(Batch') = 0
  BY EmptySeq DEF RelayInv, RelayTypes, Batch
<1> QED BY <1>1, BatchSizeAssumption DEF RelayBounds

LEMMA NextRowBounds ==
  ASSUME Inv, RelayInv, RelayBounds, relay[Self] = "marking", O!NextRow(Self),
         UNCHANGED <<tx, id, stopping, faults, stops>>
  PROVE  RelayBounds'
<1>1. Batch \in Seq(Event) /\ Len(Batch) \in Nat \ {0} /\ Batch # <<>>
  BY InHandIs, EmptySeq DEF RelayInv, BatchUnmarked
<1>2. Batch' = Tail(Batch)
  BY DEF O!NextRow, Batch, RelayInv, RelayTypes
<1>3. Tail(Batch) \in Seq(Event) /\ Len(Tail(Batch)) = Len(Batch) - 1
  BY <1>1, HeadTailProperties
<1>4. Tail(Batch) = <<>> <=> Len(Tail(Batch)) = 0
  BY <1>3, EmptySeq
<1>5. relay'[Self] = IF Len(Batch) = 1 THEN "waiting" ELSE "publishing"
  BY DEF O!NextRow, Batch, Inv, Types
<1>6. Len(Batch') <= BatchSize
  BY <1>1, <1>2, <1>3, BatchSizeAssumption DEF RelayBounds
<1> QED BY <1>1, <1>2, <1>3, <1>4, <1>5, <1>6 DEF RelayBounds

LEMMA RelayBoundsStep ==
  ASSUME Inv, RelayInv, CallsClean, RelayBounds, [Next]_vars
  PROVE  RelayBounds'
<1>1. CASE UNCHANGED <<tx, id, relay, batch, stopping, faults, stops>>
  BY <1>1 DEF RelayBounds, Batch
<1>2. ASSUME O!Fault
      PROVE  faults' \in 0 .. MaxFaults + 1 /\ stops' \in 0..1
  BY <1>2, MaxFaultsAssumption DEF O!Fault, RelayBounds
<1>3. ASSUME NEW status, Exit(status)
      PROVE  RelayBounds'
  <2>1. CASE O!Crash(Self)
    <3>1. relay'[Self] = "stopped"
      BY <2>1 DEF O!Crash, Inv, Types
    <3> QED BY <1>2, <2>1, <3>1, GivesUpBounds DEF O!Crash, O!dbVars
  <2> QED BY <1>1, <1>3, <2>1 DEF Exit, relayVars
<1>4. CASE RelayStep
  <2>1. CASE O!Tick(Self)
    <3>1. PICK b \in O!Poll : batch' = [batch EXCEPT ![Self] = b]
      BY <2>1 DEF O!Tick
    <3>2. Batch' = b /\ relay'[Self] = "publishing"
      BY <2>1, <3>1 DEF O!Tick, Batch, RelayInv, RelayTypes, Inv, Types
    <3>3. Len(b) <= BatchSize /\ b # <<>>
      BY <2>1, PollFits DEF O!Tick
    <3> QED BY <2>1, <3>2, <3>3 DEF O!Tick, O!dbVars, O!bounds, RelayBounds
  <2>2. CASE O!Publish(Self) \/ O!PublishAgain(Self)
    <3>1. /\ UNCHANGED <<tx, id, stopping, Batch>> /\ relay[Self] = "publishing"
          /\ relay'[Self] \in {"publishing", "marking"}
      BY <2>2 DEF O!Publish, O!PublishAgain, O!dbVars, Batch, Inv, Types
    <3>2. faults' \in 0 .. MaxFaults + 1 /\ stops' \in 0..1
      BY <1>2, <2>2 DEF O!Publish, O!PublishAgain, O!bounds, RelayBounds
    <3> QED BY <3>1, <3>2 DEF RelayBounds
  <2>3. CASE O!PublishFails(Self) \/ O!MarkFails(Self)
    <3>1. /\ UNCHANGED <<tx, id, stopping>> /\ relay'[Self] = "waiting"
          /\ batch' = [batch EXCEPT ![Self] = <<>>]
      BY <2>3 DEF O!PublishFails, O!MarkFails, O!GiveUp, O!dbVars, Inv, Types
    <3>2. faults' \in 0 .. MaxFaults + 1 /\ stops' \in 0..1
      BY <1>2, <2>3 DEF O!PublishFails, O!MarkFails, O!bounds, RelayBounds
    <3> QED BY <3>1, <3>2, GivesUpBounds
  <2>4. CASE O!Mark(Self)
    BY <2>4, NextRowBounds DEF O!Mark, O!bounds
  <2>5. CASE O!RunReturns(Self)
    <3>1. /\ UNCHANGED <<tx, id, stopping, faults, stops, Batch>>
          /\ relay[Self] = "waiting" /\ relay'[Self] = "stopped"
      BY <2>5 DEF O!RunReturns, O!dbVars, O!bounds, Batch, Inv, Types
    <3> QED BY <3>1 DEF RelayBounds
  <2> QED BY <1>4, <2>1, <2>2, <2>3, <2>4, <2>5 DEF RelayStep
<1>5. ASSUME NEW c \in Event, O!InsertOutbox(c) \/ O!CommitTx(c) \/ O!RollBackTx(c)
      PROVE  RelayBounds'
  <2>1. UNCHANGED <<relay, batch, stopping, faults, stops, Batch>>
    BY <1>5 DEF O!InsertOutbox, O!CommitTx, O!RollBackTx, O!End, O!bounds, Batch
  <2>2. /\ id' \in [Event -> 0..Cardinality(Event)]
        /\ \A e \in Event : tx'[e] = "none" => id'[e] = 0
    <3>1. CASE O!InsertOutbox(c)
      <4>1. tx[c] = "none" /\ tx' = [tx EXCEPT ![c] = "open"] /\ id' = [id EXCEPT ![c] = O!NextId]
        BY <3>1 DEF O!InsertOutbox
      <4>2. O!NextId \in 0..Cardinality(Event)
        BY <4>1, NextIdFits
      <4> QED BY <4>1, <4>2 DEF RelayBounds, CallsClean
    <3>2. CASE O!CommitTx(c) \/ O!RollBackTx(c)
      BY <3>2 DEF O!CommitTx, O!RollBackTx, O!End, RelayBounds, CallsClean
    <3> QED BY <1>5, <3>1, <3>2
  <2> QED BY <2>1, <2>2 DEF RelayBounds
<1>6. CASE MainStep \/ StartFails
  BY <1>1, <1>3, <1>6 DEF MainStep, StartFails, Start, ServerError, SignalSeen, Drained,
     ShutdownFails, JoinServer, CloseReader, JoinConsumer, JoinRelay, Returning, Goto, relayVars
<1>7. CASE Signal
  <2>1. CASE O!Shutdown(Self)
    BY <2>1 DEF O!Shutdown, O!dbVars, RelayBounds, Batch
  <2> QED BY <1>3, <1>7, <2>1 DEF Signal
<1>8. CASE ServeFails \/ ServeReturns \/ ConsumerStep \/ ConsumerFails
  BY <1>1, <1>8 DEF ServeFails, ServeReturns, Return, ConsumerStep, ConsumerFails, relayVars
<1>9. ASSUME NEW c \in Event, Accept(c) \/ Transact(c) \/ AnswerCall(c) \/ Abort(c)
      PROVE  RelayBounds'
  BY <1>1, <1>5, <1>9 DEF Accept, Transact, AnswerCall, Abort, relayVars
<1>10. CASE UNCHANGED vars
  BY <1>1, <1>10 DEF vars, relayVars
<1> QED BY <1>4, <1>6, <1>7, <1>8, <1>9, <1>10 DEF Next

\* Every variable keeps its type: the closes that are deferred are the first ones
\* of the startup, in its order, the server is reported to main at most once, and
\* the relay's batch fits its limit and is empty when it neither publishes nor marks.
THEOREM TypeCorrect == Spec => []TypeOK
<1>1. Init => ProcTypes /\ RelayBounds
  <2> SUFFICES ASSUME Init PROVE ProcTypes /\ RelayBounds
    OBVIOUS
  <2>1. Stack(0) = <<>>
    BY SubSeqEmpty DEF Stack
  <2>2. ProcTypes
    BY <2>1 DEF Init, ProcTypes, StackAt
  <2>3. Cardinality(Event) \in Nat
    BY FS_CardinalityType, EventAssumption
  <2>4. Batch = <<>> /\ Len(Batch) = 0 /\ relay[Self] = "waiting"
    BY EmptySeq DEF Init, O!Init, Batch
  <2>5. id \in [Event -> 0..Cardinality(Event)] /\ \A e \in Event : id[e] = 0
    BY <2>3 DEF Init, O!Init
  <2>6. RelayBounds
    BY <2>4, <2>5, BatchSizeAssumption, MaxFaultsAssumption DEF Init, O!Init, RelayBounds
  <2> QED BY <2>2, <2>6
<1>2. Inv /\ RelayInv /\ CallsClean /\ ProcTypes /\ RelayBounds /\ [Next]_vars =>
        (ProcTypes /\ RelayBounds)'
  BY ProcTypesStep, RelayBoundsStep
<1>3. Inv /\ RelayInv /\ CallsClean /\ ProcTypes /\ RelayBounds => TypeOK
  <2> SUFFICES ASSUME Inv, RelayInv, CallsClean, ProcTypes, RelayBounds PROVE TypeOK
    OBVIOUS
  <2>1. main \in Label
    BY StartLabels DEF Inv, Types, Label, Held, Joining, Unserved
  <2>2. Len(DeferOrder) = 4
    BY OrderIs
  <2>3. defers \in {SubSeq(DeferOrder, 1, n) : n \in 0..Len(DeferOrder)}
    BY <2>2, Zenon DEF ProcTypes, Stack
  <2>4. O!TypeOK
    <3>1. id \in [Event -> 0..O!Cardinality(Event)]
      BY SameCardinality DEF RelayBounds
    <3>2. \A m \in {Self} : /\ Len(batch[m]) <= BatchSize
                            /\ relay[m] \in {"publishing", "marking"} <=> batch[m] # <<>>
      BY DEF RelayBounds, Batch
    <3> QED BY <3>1, <3>2 DEF O!TypeOK, RelayBounds, RelayInv, RelayTypes, CallsClean, Inv, Types
  <2> QED BY <2>1, <2>3, <2>4 DEF TypeOK, Inv, Types, ProcTypes, Working
<1> QED BY <1>1, <1>2, <1>3, Invariance, RelayInvariance, PTL DEF Spec
===============================================================================
