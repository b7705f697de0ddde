--------------------------- MODULE ServerLifecycle ---------------------------
(***************************************************************************)
(* One process of review-service from its start to its end                 *)
(* (cmd/server/main.go): the startup checks, the three goroutines, the     *)
(* signal, srv.Shutdown with its limit of 10 s, the waits for the loops,   *)
(* the deferred closes, and os.Exit, which runs none of them.              *)
(*                                                                         *)
(* The relay is the one of OutboxRelay, and the HTTP calls in flight are   *)
(* the ones that emit its events.  Of the consumer only what matters to    *)
(* main is here (its work is in RequestConsumer).  net/http, kafka-go and  *)
(* os/signal are external.                                                 *)
(***************************************************************************)
EXTENDS Naturals, Sequences, FiniteSets

CONSTANTS
  Event,      \* HTTP calls, each with the event it may emit
  BatchSize,
  MaxFaults   \* bound on failed calls of the relay

ASSUME EventAssumption == IsFiniteSet(Event)
ASSUME BatchSizeAssumption == BatchSize \in Nat \ {0}
ASSUME MaxFaultsAssumption == MaxFaults \in Nat

VARIABLES
  main,      \* the statement main is at
  exit,      \* the exit status
  defers,    \* deferred closes, the last one runs first
  server,    \* the goroutine of ListenAndServe
  errCh,     \* what it has sent: a channel of capacity 1
  consumer,  \* the loop of the consumer
  reader,    \* its Kafka reader
  calls,     \* HTTP calls
  tx, id, published, copies, relay, batch, stopping, faults, stops

procVars == <<main, exit, defers, server, errCh, consumer, reader, calls>>
relayVars == <<tx, id, published, copies, relay, batch, stopping, faults, stops>>
vars == <<procVars, relayVars>>

Self == "self"

\* The end of the process may be one fault more.
O == INSTANCE OutboxRelay WITH
       Relay <- {Self}, pc <- relay, MaxFaults <- MaxFaults + 1, MaxStops <- 1

\* ctx.Done()
Cancelled == Self \in stopping

\* What is started and not closed yet.
Open == {defers[i] : i \in DOMAIN defers}

InFlight == {c \in Event : calls[c] = "running"}

Init ==
  /\ main = "database"
  /\ exit = "none"
  /\ defers = <<>>
  /\ server = "unstarted"
  /\ errCh = <<>>
  /\ consumer = "unstarted"
  /\ reader = "open"
  /\ calls = [c \in Event |-> "none"]
  /\ O!Init

-------------------------------------------------------------------------------
(* How the process ends. *)

\* os.Exit, or a signal nobody handles: nothing deferred runs, calls are cut off,
\* the consumer and the relay stop where they are.
Exit(status) ==
  /\ main' = "exited"
  /\ exit' = status
  /\ calls' = [c \in Event |-> IF c \in InFlight THEN "cut off" ELSE calls[c]]
  /\ consumer' = "returned"
  /\ \/ O!Crash(Self)
     \/ relay[Self] = "stopped" /\ UNCHANGED relayVars
  /\ UNCHANGED <<defers, server, errCh, reader>>

-------------------------------------------------------------------------------
(* main. *)

StartOrder == <<"database", "keys", "redis", "signals", "relay", "consumer",
                "server", "serving">>

\* What a step of the startup opens and defers to close.
Opens(step) == CASE step = "database" -> <<"db">>
                 [] step = "redis"    -> <<"rdb">>
                 [] step = "signals"  -> <<"stop">>
                 [] step = "relay"    -> <<"producer">>
                 [] OTHER             -> <<>>

Start ==
  /\ \E i \in 1..Len(StartOrder) - 1 :
       main = StartOrder[i] /\ main' = StartOrder[i + 1]
  /\ defers' = defers \o Opens(main)
  /\ consumer' = IF main = "consumer" THEN "fetching" ELSE consumer
  /\ server' = IF main = "server" THEN "listening" ELSE server
  /\ UNCHANGED <<exit, errCh, reader, calls, relayVars>>

\* PostgreSQL, Keycloak or Redis cannot be reached.
StartFails == main \in {"database", "keys", "redis"} /\ Exit("1")

Goto(label) ==
  /\ main' = label
  /\ UNCHANGED <<exit, defers, server, consumer, calls, relayVars>>

\* select: the server has failed,
ServerError ==
  /\ main = "serving"
  /\ errCh # <<>>
  /\ Exit("1")

\* ... or the context is cancelled: srv.Shutdown closes the listener and waits.
SignalSeen ==
  /\ main = "serving"
  /\ Cancelled
  /\ Goto("draining")
  /\ UNCHANGED <<errCh, reader>>

\* Shutdown returns nil once no call is in flight,
Drained ==
  /\ main = "draining"
  /\ InFlight = {}
  /\ Goto("joining server")
  /\ UNCHANGED <<errCh, reader>>

\* ... or an error: its limit of 10 s is over, and a call may take 30 s
\* (WriteTimeout), or closing the listener has failed.
ShutdownFails ==
  /\ main = "draining"
  /\ Exit("1")

\* Mutant: the error is taken from the channel and dropped.
DropError ==
  /\ main = "joining server"
  /\ errCh # <<>>
  /\ errCh' = Tail(errCh)
  /\ Goto("closing reader")
  /\ UNCHANGED reader

\* <-errCh: the server has returned because of Shutdown, or had failed before.
JoinServer ==
  /\ main = "joining server"
  /\ errCh # <<>>
  /\ \/ Head(errCh) = "error" /\ Exit("1")
     \/ /\ Head(errCh) = "closed"
        /\ errCh' = Tail(errCh)
        /\ Goto("closing reader")
        /\ UNCHANGED reader

CloseReader ==
  /\ main = "closing reader"
  /\ reader' = "closed"
  /\ Goto("joining consumer")
  /\ UNCHANGED errCh

\* Mutant: main does not wait.
NoJoin ==
  /\ main = "joining consumer"
  /\ Goto("joining relay")
  /\ UNCHANGED <<errCh, reader>>

\* <-consumerDone
JoinConsumer ==
  /\ main = "joining consumer"
  /\ consumer = "returned"
  /\ Goto("joining relay")
  /\ UNCHANGED <<errCh, reader>>

\* <-relayDone
JoinRelay ==
  /\ main = "joining relay"
  /\ relay[Self] = "stopped"
  /\ Goto("returning")
  /\ UNCHANGED <<errCh, reader>>

\* Mutant: the first one first.
FirstDeferred == Tail(defers)

\* The last deferred close runs.
Deferred == SubSeq(defers, 1, Len(defers) - 1)

\* main returns: the deferred closes run, then the process ends.
Returning ==
  /\ main = "returning"
  /\ IF defers # <<>>
     THEN defers' = Deferred /\ UNCHANGED <<main, exit>>
     ELSE main' = "exited" /\ exit' = "0" /\ UNCHANGED defers
  /\ UNCHANGED <<server, errCh, consumer, reader, calls, relayVars>>

MainStep ==
  \/ Start
  \/ ServerError
  \/ SignalSeen
  \/ Drained
  \/ ShutdownFails
  \/ JoinServer
  \/ CloseReader
  \/ JoinConsumer
  \/ JoinRelay
  \/ Returning

\* SIGTERM or SIGINT.  From NotifyContext to its stop the first one cancels the
\* context and others are ignored; before and after, one ends the process.
Signal ==
  /\ main # "exited"
  /\ \/ "stop" \in Open /\ O!Shutdown(Self) /\ UNCHANGED procVars
     \/ "stop" \notin Open /\ Exit("signal")

-------------------------------------------------------------------------------
(* The server goroutine and the calls. *)

ShuttingDown == main \notin {StartOrder[i] : i \in DOMAIN StartOrder}

Return(outcome) ==
  /\ server = "listening"
  /\ server' = outcome
  /\ errCh' = Append(errCh, outcome)
  /\ UNCHANGED <<main, exit, defers, consumer, reader, calls, relayVars>>

\* ListenAndServe fails by itself, or returns ErrServerClosed on Shutdown.
ServeFails == main # "exited" /\ Return("error")
ServeReturns == main # "exited" /\ ShuttingDown /\ Return("closed")

SetCall(c, state) ==
  /\ calls' = [calls EXCEPT ![c] = state]
  /\ UNCHANGED <<main, exit, defers, server, errCh, consumer, reader>>

\* A call is accepted while the listener is open,
Accept(c) ==
  /\ server = "listening" /\ ~ShuttingDown
  /\ calls[c] = "none"
  /\ SetCall(c, "running")
  /\ UNCHANGED relayVars

\* ... may run the transaction of a completion,
Transact(c) ==
  /\ calls[c] = "running"
  /\ O!InsertOutbox(c) \/ O!CommitTx(c) \/ O!RollBackTx(c)
  /\ UNCHANGED procVars

\* ... and is answered.
AnswerCall(c) ==
  /\ calls[c] = "running"
  /\ tx[c] # "open"
  /\ SetCall(c, "answered")
  /\ UNCHANGED relayVars

\* The database ends the transaction of a call that was cut off.
Abort(c) == calls[c] = "cut off" /\ O!RollBackTx(c) /\ UNCHANGED procVars

-------------------------------------------------------------------------------
(* The loops of the consumer and of the relay. *)

Consume(label) ==
  /\ consumer' = label
  /\ UNCHANGED <<main, exit, defers, server, errCh, reader, calls>>

ConsumerStep ==
  /\ \/ consumer = "fetching" /\ reader = "open" /\ Consume("processing")
     \/ consumer = "processing" /\ Consume("committing")
     \/ consumer = "committing" /\ Consume("fetching")
     \/ consumer \in {"fetching", "processing", "committing"}
        /\ Cancelled /\ Consume("returned")
  /\ UNCHANGED relayVars

\* Mutant: consumerDone is closed only where Run returns nil.
DoneNotClosed ==
  /\ consumer \in {"fetching", "processing", "committing"}
  /\ Consume("failed")
  /\ UNCHANGED relayVars

\* A call to Kafka, Redis or PostgreSQL fails: Run returns, and main logs it.
ConsumerFails ==
  /\ consumer \in {"fetching", "processing", "committing"}
  /\ Consume("returned")
  /\ UNCHANGED relayVars

RelayStep ==
  /\ "producer" \in Open
  /\ \/ O!Tick(Self)
     \/ O!Publish(Self)
     \/ O!PublishAgain(Self)
     \/ O!PublishFails(Self)
     \/ O!Mark(Self)
     \/ O!MarkFails(Self)
     \/ O!RunReturns(Self)
  /\ faults' <= MaxFaults
  /\ UNCHANGED procVars

Next ==
  \/ MainStep
  \/ StartFails
  \/ Signal
  \/ ServeFails
  \/ ServeReturns
  \/ \E c \in Event : Accept(c) \/ Transact(c) \/ AnswerCall(c) \/ Abort(c)
  \/ ConsumerStep
  \/ ConsumerFails
  \/ RelayStep

Spec == Init /\ [][Next]_vars

\* Goroutines are scheduled, and what the loops ask of Kafka, Redis and PostgreSQL
\* is answered.  Nothing is assumed of the calls: the limit of 10 s ends the wait
\* for them.
Fairness ==
  /\ WF_vars(MainStep)
  /\ WF_vars(ServeReturns)
  /\ WF_vars(ConsumerStep)
  /\ WF_vars(RelayStep)

FairSpec == Spec /\ Fairness

-------------------------------------------------------------------------------
(* Properties. *)

Label == {StartOrder[i] : i \in DOMAIN StartOrder}
         \cup {"draining", "joining server", "closing reader", "joining consumer",
               "joining relay", "returning", "exited"}

DeferOrder == <<"db", "rdb", "stop", "producer">>

TypeOK ==
  /\ main \in Label
  /\ exit \in {"none", "0", "1", "signal"}
  /\ defers \in {SubSeq(DeferOrder, 1, n) : n \in 0..Len(DeferOrder)}
  /\ server \in {"unstarted", "listening", "error", "closed"}
  /\ errCh \in {<<>>, <<"error">>, <<"closed">>}
  /\ consumer \in {"unstarted", "fetching", "processing", "committing", "returned"}
  /\ reader \in {"open", "closed"}
  /\ calls \in [Event -> {"none", "running", "answered", "cut off"}]
  /\ O!TypeOK

\* While the process lives, whoever is at work has what it works with, in
\* whatever order the goroutines and the deferred closes run.  (Not the reader of
\* the consumer: main closes it first, and a commit under way fails.)
NothingClosedInUse ==
  main # "exited" =>
    /\ relay[Self] \in {"publishing", "marking"} => {"db", "producer"} \subseteq Open
    /\ consumer = "processing" => {"db", "rdb"} \subseteq Open
    /\ InFlight # {} => "db" \in Open

\* A process that ends by returning from main has answered every call it took and
\* has no transaction open.  However it ends, it leaves no message Kafka has
\* acknowledged without its mark, but for failed calls of its relay; where os.Exit
\* or a signal stops the relay that is one fault, so one message more at most.
CleanEnd ==
  /\ main = "returning" \/ exit = "0" =>
       \A c \in Event : calls[c] \in {"none", "answered"} /\ tx[c] # "open"
  /\ main \in {"returning", "exited"} =>
       Cardinality(O!Delivered \ published) <= faults

\* A server that has failed is never reported as a clean stop, the failure that
\* races the signal included.
ErrorIsReported == server = "error" => exit # "0"

\* After a signal, or when its server fails, the process ends, whatever its
\* calls, its consumer and its relay are doing.
ProcessEnds == (Cancelled \/ server = "error") ~> main = "exited"
===============================================================================
