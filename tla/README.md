# Verification of review-service

TLA+ modules of review-service, the TLC runs that check them on small instances
and the theorems TLAPS proves about them for every value of the constants.
Paths below are relative to the repository.

## The system

review-service keeps one *appraisal* for each request of a CRM. It creates the
appraisal when request-service says that the request entered its appraisal
stage, lets appraisers edit it over HTTP, and announces `report.ready` when it is
completed.

```
 Kafka request.events ──> consumer ──> service ──> PostgreSQL <── relay ──> Kafka review.events
                            │            ^          appraisals
                            └─> Redis    │          comparables
                              (dedup)    │          outbox
                                   HTTP handlers
```

The three actors (the goroutines of the HTTP calls, the consumer loop and the
relay loop, in every instance of the service) share no memory. They meet in the
database, in Redis and in Kafka.

### Inventory

| Component | State | Operations | Hard behaviour | What makes it correct |
|---|---|---|---|---|
| Appraisal aggregate: `internal/service/appraisal.go`, `internal/repository/postgres.go` | tables `appraisals`, `comparables`, `outbox` | CreateFromRequest, Update, UploadReport, Complete, AddComparable, DeleteComparable, ApplyApartmentCalculation, and reads | each call is a SELECT followed by one or more separate statements: check-then-act, whole-row writes from a stale read, two guards that differ (`updated_at`, `status`), a timestamp as version, lost commit replies, errors that are ignored | a completed appraisal is frozen; one event for each completion; no accepted edit is lost; a rejected call changes nothing; the event and the comparables agree with the row |
| Request consumer: `internal/kafka/consumer.go`, `internal/dedup/redis.go` | partition, group offset, Redis keys, the loop's position | fetch, check, create, mark, commit | redelivery, crash between any two steps, rebalance while an instance works, marks that expire, a loop that ends | nothing asked for is dropped, nothing is invented, redelivery is harmless, every request gets its appraisal |
| Outbox relay: `internal/outbox/relay.go`, `producer.go` | outbox rows, the batch in hand | poll, publish, mark | crash and shutdown between publish and mark, unacknowledged writes, commits out of id order | at least once, only what committed, how many duplicates, in the end everything |
| Process: `cmd/server/main.go` | main, the three goroutines, deferred closes | start, shutdown, exit | order of the shutdown, exits that skip the deferred closes, a failure that races the signal | nothing is closed in use, a clean exit leaves nothing undone, the process ends |
| Handlers, router: `internal/handler` | none | HTTP to service calls | error mapping, paging | each outcome has its status |
| Auth: `internal/middleware` | none | token and role check | | only appraisers and admins, admins for the formulas |
| Formula configuration: `internal/service/apartment_calc.go:18-51` | one row of `formula_configs` | get (stores the defaults when missing), update, reset | get races with update | an update is not overwritten by a read; a calculation uses what was in force |
| Apartment calculation: `internal/service/apartment_calc.go:53-238` | none | a pure function | zero and extreme inputs, rounding | the value is a weighted mean of adjusted prices; the formulas that should agree do; an analog like the subject moves by the floor matrix alone |
| Report storage: `internal/storage` | none (a stub) | key, presigned URL | | keys do not collide |

`README.md:10` of the repository says the calculation engine is absent. It is not:
`service/apartment_calc.go` is reached by two routes (`handler/route.go:47-48`).

## Modules

| Module | Models | State |
|---|---|---|
| `AppraisalLifecycle` | what the row promises: opened once, edited field by field, closed once with one announcement, every step atomic | status, content, announcements |
| `Appraisals` | the aggregate, one action for each SQL statement | the three tables; for each call its program counter, request, the row it read, and apply's two locals |
| `AppraisalsProofs` | theorems about `Appraisals` | |
| `RequestConsumer` | the consumer loops of a group over one partition | log, offset, owner, the loops, Redis, status of each appraisal |
| `RequestConsumerProofs` | theorems about `RequestConsumer` | |
| `OutboxRelay` | transactions that write events and the relays that publish them | transactions, ids, `published_at`, topic, each relay's batch |
| `OutboxRelayProofs` | theorems about `OutboxRelay` | |
| `RequestFlow` | what the service promises of a request from end to end: asked, in progress, completed, announced | the stage of each request |
| `ReviewService` | the composition: `Appraisals`, `RequestConsumer` and `OutboxRelay` over one database, as processes | theirs, with the shared parts identified |
| `ReviewServiceProofs` | theorems about `ReviewService` | |
| `ReviewServiceTypes` | its type correctness | |
| `ServerLifecycle` | `main` of one process, with the `OutboxRelay` of that process | main's position, exit status, deferred closes, goroutines, the channel of the server, calls in flight |
| `ServerLifecycleProofs` | theorems about `ServerLifecycle` | |
| `ApartmentCalculation` | the calculation, as operators over exact fractions | none |
| `FormulaConfig` | the configuration of the formula and the calls that read, use and replace it | the row; for each call its position, request and configuration |
| `ApartmentCalculationProofs` | theorems about the calculation and the arithmetic under it | |
| `FormulaConfigProofs` | theorems about `FormulaConfig`, with the calculations its calls are answered | |
| `MC...` | the instances for TLC: kinds of calls, patches, records, inputs, symmetry | |

### How `Appraisals` corresponds to the code

- A *call* is made once and does one operation. `Load` is the first SELECT of
  `GetByID` with the status check after it; the SELECT of the comparables
  (`ListComparables`) matters to apply alone. After that there is an action for
  each statement that writes: `Update` (PATCH and report), `Complete`,
  `BeginInsert`/`CommitInsert`, `DeleteComparable`, `ApplyCalculation`,
  `DeleteOld`, and `ReplyApplied`.
- A column holds the call whose value it has. So a whole-row UPDATE that writes
  back an old value is told apart from one that keeps the present value.
- `updated_at` is only ever compared for equality with another `updated_at` of its
  row. With `DistinctStamps` a stamp is the number of the write, which names the
  clock readings apart and says nothing of their order; without it, a writer may
  take a stamp another writer of the row has used since it read the row.
- The transaction of `Complete` is one step. Its UPDATE locks the row until the
  commit and nothing else in it is visible before.
- PostgreSQL runs statements at READ COMMITTED. An UPDATE or DELETE re-evaluates
  its WHERE on the newest version of the row and is one step. `INSERT ... SELECT
  ... WHERE EXISTS` evaluates the guard in its snapshot and commits later, so it is
  two; the lock its foreign key takes does not conflict with the UPDATE of
  `Complete`.
- A statement that fails, one that takes effect and loses its reply, and a crash
  that loses any set of the calls in flight (those of one instance) are faults,
  bounded by `MaxFaults`.
- Apply calls the service's `AddComparable` for each analog; its `GetByID` there
  is left out, as its check is implied by the guard of the insert that follows:
  once completed, an appraisal stays so.

### How `RequestConsumer` corresponds to the code

`Fetch`, `CheckSeen`, `CreateFromRequest`, `MarkSeen` and `Commit` are the steps of
`Run` and `process` in the order of the comment at `consumer.go:93`. A record is
its event id, its request and whether it passes the filters of `process`. `Fail`
ends the loop as `Run` does; `main` leaves the process up, so a failed instance
keeps the partition. The group (`TakeOver`, `Rebalance`) and request-service
(`Publish`) are external. An instance that has lost the partition goes on with the
record it works on, and its commit may still be accepted. That its reader may hand
out further records it has buffered before the loss is not modelled: they would go through the
same steps, whose create and mark are idempotent.

### How `OutboxRelay` corresponds to the code

`Tick` is the ticker's case of `Run` with the query of `publishBatch`; `Publish`
and `Mark` are the two calls of its loop. `Shutdown` cancels the context of the
process: publishing may fail from then on, marking may not (`relay.go:78-81`).
`PublishAgain` is `kafka.Writer` sending a message again whose acknowledgement it
did not get. An event takes its identity value when it is inserted and is seen
when its transaction commits. There are several relays, one for each instance of the
service: the query of `publishBatch` takes no lock, so two of them publish the same
rows.

### How `ReviewService` composes them

Three variables of the components are one in the service. The consumer's view of an
appraisal is the status of its row; the outbox of `Appraisals` is the committed
part of the outbox of `OutboxRelay`, whose events bear the names of the calls that
emit them; and the crash of an instance is the crash of its calls, its loop and its
relay in one step. Everything else is a step of one component that leaves the others'
variables as they are.

`Complete` is one step in `Appraisals` and here it is four: `BeginTx` (the UPDATE has
matched and the event is inserted, the row is locked), then `CommitTx`,
`RollBackTx`, or a crash and `AbortTx`. Other writers of the row wait (`Locked`), as they do in
PostgreSQL; the checks before a write read the committed row and do not wait. `Start`
is `main` up to the start of the goroutines, after the calls of the old
process are gone. `Shutdown` is a signal at any moment: it cancels the context of the relay, and
`Run` of the consumer returns from the call it is in, unless it had failed before. That the two
loops notice at different moments is in `ServerLifecycle`, as are the joins.

`RefinesComponents` says that the composition is, seen through each component's
variables, a behaviour of that component's own specification, so that what its runs
and theorems show holds in the whole. `RefinesFlow` says what the service is for.

### How `ServerLifecycle` corresponds to the code

`main` is the name of the statement it is at; `Start` runs `main.go:46-122` one
opening at a time, and `defers` is the list of the deferred closes in the
order of the `defer` statements. `select` (`main.go:124`) is `ServerError` and
`SignalSeen`: both may be enabled, and Go takes either. Then come Shutdown with its
limit of 10 s (`Drained` or `ShutdownFails`), the three joins, and `Returning`, one deferred
close at a time. `os.Exit` runs none of them. A signal is `NotifyContext`'s between its call
and `stop`; before and after, it ends the process. Of the consumer only its position in
`Run` is kept; a call is a transaction of `OutboxRelay` or none. That the
reader of the consumer is closed before its loop has returned (`main.go:141` before
`:144`) is modelled and harmless: the context is cancelled, and an offset that is not
committed comes again (`RequestConsumer`).

### How `FormulaConfig` and `ApartmentCalculation` correspond to the code

A call is its requests to the database: `Read`, then `StoreDefaults` when there was no
row (its error is ignored, `apartment_calc.go:23`), or `Save`. The initial state has
the row the migration 000003 seeds, which is the value of `DefaultApartmentFormulaConfig`
field by field, or no row, as after a manual DELETE, which nothing in the code
performs.

The arithmetic is that of `calculateApartmentWithConfig`, step by step, over fractions
in lowest terms. Where the code guards a division the operator has the same guard. Two
things are abstracted: float64 rounding, so what is shown holds of the code up to rounding
errors while every intermediate value is an ordinary number; and `math.Pow`, since the scale
formula is given by a table of its values. An administrator's exponent so large
that `a * s^b` overflows to infinity or underflows to 0, after which a quotient is infinite or NaN,
is outside both. `roundTo` is exact where it decides (the sums of
adjustments, the results); the coefficients rounded for show are left out. Areas,
prices, percentages and repair costs are integers, the condition coefficients
fractions, and the floor matrix is in percent.

What the modules assume of a configuration and of an input (`ConfigAssumption`,
`InputAssumption`, `ScaleAssumption`) is what the code has after JSON decoding into
`domain.ApartmentFormulaConfig` and `ApartmentCalculationInput`: every field is there
and has its type, whatever its value, and zero and negative numbers are not excluded. The
one fact beyond types is `OneSign`: `a * s^b` has the sign of `a` for every area of a
calculation that is not refused, since areas are then positive.

## Runs

All runs say `CHECK_DEADLOCK FALSE`: a call is made once, the log and the events
are finite, a process ends, and the system rests when they are done with.

### Runs that pass

| Run | Instance | Shows |
|---|---|---|
| `Appraisals` | 2 appraisals, 3 calls of every kind, 2 faults | `TypeOK`, `OneEventPerCompletion`, `SnapshotIsCurrent`, `AcknowledgedIsKept`, `RejectedLeavesNoTrace`, `FrozenRow`, `NoLostUpdate`; `RefinesLifecycle`: stale whole-row writes under the lock behave as atomic edits |
| `RequestConsumer` | 2 instances, a log of 2 records of 4, 2 faults | `TypeOK`, `NothingDropped`, `MarkedIsCreated`, `OnlyAskedFor`, `NeverReopened`, `EveryRequestAppraised`, `BacklogDrains` |
| `OutboxRelay` | 2 relays, 3 events, batches of 2, a fault, a shutdown | `TypeOK`, `MarkedWasDelivered`, `OnlyCommittedDelivered`, `CopiesBounded`, `EveryEventMarked` |
| `ReviewService` | 1 request, 1 process, 2 calls (complete, report), a log of 2, a fault of each component, a shutdown | `TypeOK`, `OutboxIsOne`, `AnnouncedIsTrue`, `RefinesFlow`, `RefinesComponents` |
| `ServerLifecycle` | 2 calls, batches of 2, 2 faults of the relay | `TypeOK`, `NothingClosedInUse`, `CleanEnd`, `ErrorIsReported`, `ProcessEnds` |
| `FormulaConfig` | 2 calls of every kind, 28 inputs, 3 configurations, a fault | `TypeOK`, `OnlyAdminsReplace`, `CalculatedInForce`, `Reconciled`, `FormulaTypesAgree`, `LikeKeepsPrice` |

Why the bounds are enough. Every race known in `Appraisals` is between two calls, and a
third that sets it up; two appraisals are needed where a call may name the
wrong one (a comparable of another appraisal). The four records of the consumer
are two events for one request (the second must be absorbed by `request_id`), one
for another, and one that must be skipped; a log of two
holds a duplicate, or two different ones. Three
events with batches of two make a batch that is full, one that is not, and a row
that appears behind a published one; two relays are enough for each to hold what
the other has published. Where there are two faults, a retry fails as well. In
`ReviewService` the components' own races are not repeated; what is new there is
between components, and one request with one call to complete it and one to write
beside it meets each of them. It has one process: what two of them do to each other is
in the runs of the components (`RequestConsumer`: a partition that changes hands;
`OutboxRelay`: a row in two batches), and here a takeover has no one to take from.
Two processes with two calls are past half a million states and too slow with the
refinements' fairness. In `ServerLifecycle` two
calls are one that completes and one that still runs when the limit of 10 s is over, and
two faults leave more than one message unmarked. The
inputs of `FormulaConfig` differ from the subject in each respect alone and in several,
with analogs unknown to the configuration, bargaining at, above and below its sensible
range, too few analogs and a price of 0; the configurations have each
formula type, zero coefficients, empty tables and a floor matrix that moves an analog of
the subject's own floor. The numbers are small because fractions are exact and TLC's
integers are 32 bits wide; the theorems have no such limit. Symmetry is over calls, appraisals and instances,
and never used with a liveness property.

### Fairness

`RunFairness` of the consumer says that Go schedules the loop and that the Kafka
coordinator gives the partition of a dead member away. That is `CodeSpec`, all
the code provides. `OperatedSpec` adds that whatever stopped is started again; the
code has no such thing (`docker-compose.yml` has no restart policy either), so it
is an assumption on the operators. Faults are not fair and bounded: in the end the
stores answer. The relay's fairness is that the ticker ticks, that statements and
requests are answered, that `Run` sees the cancelled context, and that the process
is started again. `Publish \/ PublishFails` is one weak-fairness condition: that a
publish succeeds is not assumed, only that it fails finitely often. No fairness is
assumed of transactions, of publishers or of calls.

`ReviewService` assumes the same of its parts, that calls which have begun get their
answers, that the database ends the transactions of lost connections, and that an
operator stops a process whose consumer has ended and starts it again. A signal to a healthy
process may come and need not. To begin a call and to publish a request are up to others.

`ServerLifecycle` assumes that `main`, the server once its listener is closed, the
consumer and the relay are scheduled, and that what the loops ask is
answered. Nothing is assumed of the calls: `ProcessEnds` does not need them to be
answered, as the limit of 10 s ends the wait. It does need the database to answer the
relay's UPDATE, which runs outside the cancelled context (`relay.go:81`).

### Runs that find a violation

Each states what a comment or document of the repository says, and finds the
behaviour of the code that contradicts it.

| Run | Statement | What happens |
|---|---|---|
| `AppraisalsDeleteRace` | `README.md:31`: a completed appraisal's comparables are frozen | `DELETE` (`postgres.go:198`) has no guard on the status; a completion after the check does not stop it |
| `AppraisalsInsertRace` | `postgres.go:180`: inserting into a completed appraisal is impossible | `EXISTS` reads the snapshot of its statement; a completion commits before the insert does |
| `AppraisalsStaleEvent` | `events.go:43`: the event is built for the completed appraisal | it is built from the row read before; a report registered in between is missing from `report.ready` |
| `AppraisalsEqualStamps` | `service/appraisal.go:176`: the optimistic lock also guards the frozen rule | not if the completion and an upload took their time in the same microsecond |
| `AppraisalsApply` | `service/appraisal.go:313`, `handler/apartment.go:133`: apply syncs the comparables with the calculation | a completion in between takes the inserts away, apply ignores it and answers 200; two applies alone also leave the analogs of both calculations |
| `RequestConsumerFailedLoop` | `README.md:3`: a request that enters the stage gets an appraisal | the loop ends at the first failed call, `main.go:111` logs it, and the partition stays with it |

One remark of the repository is not a run: `000002_create_outbox_table.up.sql:3` says
that rows are published in insertion order, but an id is taken at the insert and
seen at the commit, so a transaction that commits late is overtaken. No consumer
can tell, as an appraisal has one event; `OutboxRelay` has the overtaking, and
`EveryEventMarked` shows that the overtaken row is not passed over.

## Theorems

All proofs are checked by TLAPS to the last leaf.

**`AppraisalsProofs`.** There are three inductive invariants over `TypeInv` (types, and that a
call in flight has a request of a kind that fits its program counter). Only the second
assumes `DistinctStamps`; the run `AppraisalsEqualStamps` shows that `FrozenRow` needs
it.

- `EffectStep` sums up every action by what it does to the database; the lemma of each
  conjunct has a case for each effect instead of one for each action.
- `FactInv` holds whatever the stamps are: `OneEventPerCompletion`, `NoTrace` (a call that has
  sent no statement that could take effect, or was answered 4xx, has left nothing) and
  `SnapshotsTraced`. The last is what makes `NoTrace` inductive without the lock: an UPDATE
  writes back values its call has read, so a rejected call's value could come into a row by
  the hand of another; but what a call has read was in a row, and who has left a trace is
  never answered 4xx. `CompletionAnnouncedOnce` and `RejectionsAreClean` follow.
- `LockInv` is `AbsentIsBlank` and `SnapshotInv`. `FrozenRow` alone is not inductive: the UPDATE looks at the stamp, not at the
  status. `SnapshotInv` says that a call whose stamp matches holds the row as it
  is, hence in progress (`LockedRow`); that holds because stamps of a row grow
  (`StampGrows`).
- From `LockInv`: `SnapshotsAreCurrent`, the action properties `CompletedIsFrozen` and
  `NoUpdateLost`, and `LifecycleImplemented`: each step of `Appraisals` maps to a
  step of `AppraisalLifecycle` or leaves its state as it is.
- `PromisesKept` (`AcknowledgedIsKept`) rests on another invariant, `KeptInv`, and not on
  the stamps. A deleted comparable never comes back because an insert inserts only
  what no call has inserted before (`Used`: the call that inserts a
  comparable has done so or will never do so), and whatever is in the table or
  named by a delete is used. An added one leaves the table only by a statement of a
  call that was asked to remove it (`ComparablesStep`).

**`RequestConsumerProofs`.** For every set of instances, records, bounds. `IInv` adds to
`NothingDropped` and `MarkedIsCreated` what an instance may rely on in its loop
(`LoopInOrder`): all it has fetched is done but the record it works on, and that
is done from the create on. This is what the order check, create, mark, commit
gives, and why a commit by an instance that lost the partition moves the offset
over nothing undone. `NoRequestDropped`, `MarksAreTrue`, `RedeliveryIsHarmless`
and `TypeCorrect` follow. `NothingUnasked` (`OnlyAskedFor`) needs only that a loop past the
filters works on a record of the log that asks for an appraisal.

**`OutboxRelayProofs`.** For every finite set of events and of relays. `IInv`: what is
left of a batch is committed and in id order (`BatchPending`); the message being
marked was delivered (`InFlightDelivered`); and messages are counted, for each relay,
against the events it has handled and the faults (`CopiesPaid`), as the number of
*delivered* events does not say whether the last message was the first of its event.
`NoEventSkipped`, `OnlyFactsPublished`, `DuplicatesBounded` and `TypeCorrect` follow.

**`ApartmentCalculationProofs`.** The calculation, for every configuration and input that
has the fields of the code's types.

- *Fractions.* `Gcd` is a recursive function, and TLAPS has no induction to use on it. That it
  satisfies its equation (`GcdEquation`) follows from a function that is defined without
  recursion, the greatest common divisor itself, and satisfies the same equation; that it is the
  greatest common divisor (`GcdIs`), from the smallest second argument for which it
  would not be, with one step of Euclid. Then `Is(x, n, d)` says that `x` is `n/d` in
  lowest terms: two fractions of one value are equal (`Unique`, `SameValue`), and sums, products,
  quotients and comparisons are those of the numerators and denominators (`PlusOf`,
  `TimesOf`, `OverOf`, `LeqOf`).
- *The steps of an analog.* `LocationIs` to `FloorIs` say what each step returns, with the code's
  guards (a price that is not positive, a scale that is 0). `FormulasAgree`: the location formulas
  give one coefficient, and the two repair formulas one price while the price before them
  is positive, which `PriceBeforeIs` shows of bargaining below 100 %. `LikeMovesByFloor`: for an
  analog that is the subject's like the first four steps are the identity.
- *Reconciliation.* `WeightsSumToOne` and `WeightedWithinPrices` are about integers over the
  weights' common denominator; `WeightsReconcile` and `ValueWithinPrices` carry them
  over to the fractions a calculation returns, by a common denominator of the four prices.

**`FormulaConfigProofs`.** For every set of calls, configurations and inputs. `Inv` adds
that a call at work has seen whatever is in force (`Recent`), that only a call
that found no row stores the defaults, which cannot be while the seeded row is
there (`Roles`), and that a calculation past the validation has an input that is not refused
(`Accepted`). `TypeCorrect`, `InForceIsUsed` and `AdminsReplace` follow. So a calculation
that was answered is one of the four analogs and positive numbers the theorems
above ask for (`AllCalculated`), and `FormulaTypes`, `LikeKeeps` and `Reconciles` hold in every
reachable state.

**`ServerLifecycleProofs`.** For every finite set of calls, every batch size and every bound
on faults. `Inv` says what is open at each statement of `main` (`OpenAt`), who may be at
work then (`AtWork`), and where the one message of the server is, in the channel or read
(`Outcome`). `NothingPulledAway` and `FailureIsSeen` follow. `CleanEndIsClean`, which speaks of
the messages at every end of the process and of the calls at a clean one, also counts:
a message that is acknowledged and not marked is either the one the relay is about to mark
or paid for by a fault (`MarksPaid`), as a batch holds distinct unmarked rows
(`BatchUnmarked`); and a transaction is open only while its call runs or was cut off
(`CallsClean`). `TypeCorrect` adds to these that the deferred closes are the first ones of the
startup in its order (`StackAt`), and for the relay that a row has its number from its insert
on and that a relay holds a batch only while it publishes or marks (`RelayBounds`).

**`ReviewServiceProofs`.** For every set of requests, calls and instances and all
bounds, whatever the stamps. `Inv` relates the components: whoever has a transaction open
is at its UPDATE or lost, its row is in progress, and no other transaction is open or
committed for that row (`Transactions`); rows exist only for requests asked for
(`Asked`); relays hold and send only committed events (`Publishing`). `OutboxesAgree`
and `AnnouncementsAreTrue` follow, as does `FlowInOrder`: every step takes one request one
stage further, or none. `ComponentsCompose` shows that the composition takes only steps of
the three component modules. The safety theorems about these then hold of the service,
under their own assumptions on the constants; that last inference is on paper, as the
prover cannot use a theorem of a module through INSTANCE.

**`ReviewServiceTypes`.** For the types that inference is carried out: the type invariants of
the three components, each with what makes it inductive (`CallInv`, `LoopInv`,
`RelayInv`), are proved again under the substitutions of the composition, and
with `ComponentsCompose` they give `TypeCorrect` of the service. What the components
assume of their constants is assumed of the service's (`CallsAssumption`,
`LoopsAssumption`, `RelaysAssumption`); finite sets of calls and instances and bounds that are
numbers.

**Only model-checked.** Liveness (`EveryRequestAppraised`, `BacklogDrains`,
`EveryEventMarked`, `ProcessEnds`) and what contains it is out of the prover's reach. Of
`RefinesFlow` and `RefinesComponents`, which contain fairness, the safety part is
proved (`FlowInOrder`, `ComponentsCompose`) and the rest checked. Every invariant and
every action property of the runs that pass has its theorem.

## Not modelled

- Authentication: a stateless check before any call.
- Parsing, validation and JSON of the handlers; the lists and their paging, and reads that
  answer a client and change nothing. The offset of a page, `(page - 1) * limit`, wraps
  around at 2^64 (`handler/appraisal.go:86`): page 2^62 + 1 with limit 100 is page 1 again.
- float64 in the calculation, its overflow and underflow included, and `math.Pow`.
- Records a consumer's reader has buffered before it lost the partition.
- PostgreSQL and Kafka beyond what is said above; Kafka partitions beyond one, as they
  are independent; idle and read timeouts of the HTTP server.
- Report storage is a stub in the code: a key of its own for each upload.
- Deleting an appraisal does not exist in the code.

## Order of the work

The modules were written in the order of what the system depends on: the aggregate with
its abstract lifecycle, the consumer, the relay, their composition with the flow of a
request, the process around them, and the configuration with the calculation. The
theorems followed each of them, the arithmetic of the calculation last; what remains
unproved is liveness, and what the runs that find a violation refute.
