# A TLA+ verification project for loopd

loopd is a server and a set of Kubernetes operators through which people and
software actors converse.  Messages live in SQL, wake-up signals and consumer
cursors in a `Conversation` custom resource, live increments in Redis streams.
An actor may ask a person (Ask, Confirm) or run a *Harness*, an external agent
whose output becomes a message.  The *Router* answers a conversation with rounds
of harness calls, *LongHorizon* pursues a goal in it over hours, *Interaction*
asks its user how to proceed.  The server runs in several replicas; every
replica may crash, and SQL transactions, Kubernetes updates and harness
connections fail independently.

The modules here model that core from the Go source under `src/`.  TLC checks
small instances; TLAPS proves the safety properties of every modelled component for
any number of replicas, messages, revisions and faults.

## Inventory

Paths are relative to `server/internal` unless they start with another
directory of the repository.

| Component | State | Operations | What is hard | What makes it correct |
|---|---|---|---|---|
| Resource lease (`repo/resource_lock.go`, `lock/lease.go`) | one row per resource: locker_id, expires_at | Lock (UPDATE, INSERT, COUNT), Renew beside the work, Unlock, fence | three statements, clocks of several servers, a clock read before the statement runs, dead holders | behaves as an atomic lease; fenced writes commit in grant order |
| Harness run (`repo/harness_run.go`, `component/harness_runner.go`) | harness_runs row, output message, lease, what a driver holds in memory | Start, Prompt or Resume, Bind, Append, Retry, Finish, Cancel, Maintain | drivers taken over at any point, replays, lost answers, deadline, cancel and result racing | prompted once, output exactly once, one end, everything under the lease, always ends |
| Execution slots (`component/harness_runner.go` Submit, reserve, Run) | in-memory reservations, runs in SQL | Submit, reserve, ready, launch, release | reservation made inside a transaction, lost answers, scans beside launches | never more drives than slots, no slot lost or leaked, accepted runs end |
| Dispatch and consumption (`service/poll.go`, `repo/inbox.go`, `k8s/conversation.go`, `runtime/controller.go`) | dispatch_pending marks, the Conversation resource, an informer's cache and work queue | create message, Notify, Poll, Commit, watch predicate | SQL and Kubernetes do not commit together, stale batches, restarts, dropped updates | at-least-once consumption, no lost wake-up, no busy loop |
| Human questions (`repo/human.go`, `domain/human.go`, `service/human.go`) | a question message, its reply, due and wake marks | Create, Get, Reply, Maintain | answer against deadline on different clocks, retries, repeated creation | one outcome, one reply, a fixed deadline, always settled |
| Message output (`service/message.go`, `repo/projection.go`, `repo/message.go`) | message rows, revisions, Redis stream | Emit, End, publish, expire | publication after commit, expiry against a late write | one revision per event, terminal states final |
| Listeners (`component/message_listener.go`, `component/conv_listener.go`) | per connection: revision delivered | snapshot, increments, repair | lost, repeated and late increments | no gap, no repetition, the end is delivered |
| Message parts (`repo/message_part.go`) | rows of a split body | split, persist, hydrate | boundaries, partial updates | hydrate inverts split |
| Interaction operator (`operators/interaction`) | none of its own | Poll, Ask, Confirm, Speak, Commit | restarts between any two, answers and deadlines in between | a summary of what was really answered, spoken before the commit |
| Router operator (`operators/router`) | none of its own: calls and messages under keys | Poll, plan, parallel calls, take additions, summarize, Speak, Commit | replays from the start with an inbox that has grown, failing batches | a reply to everything it consumes, prompts on complete evidence, no input retried for ever |
| Long-horizon operator (`operators/longhorizon`) | Run, Execution and Audit resources | Ingress, Manager, Executor, Auditor | four reconcilers, steps that are repeated after a partial failure, deadlines | every input taken once, done only when audited as it stands, one worker at a time |
| Registry, API, views, runtime clients, harness adapters, web | rows without protocol, or none | CRUD, HTTP | little concurrency of their own | out of scope |

Interactions: the harness run uses the lease; its message is projected like any
output and its end marks the message for dispatch; dispatch feeds the operators'
controllers (the Router, LongHorizon, Interaction), which create questions, runs
and messages again.  A module that uses another component takes from it only what
that component's own module shows: LongHorizon and Router assume that a commit is
monotone, that a key used again returns the stored object or is refused, and that
an accepted harness run ends.

`PROJECT.json` lists the components with their status, and the hazards with the
source line at which each bites.

## Modules

| Module | Models | Composes |
|---|---|---|
| `Lease` | what users of a lease rely on | |
| `ResourceLock` | the SQL lease, statement by statement | refines `Lease` (`ImplementsLease`) |
| `HarnessRun` | an accepted run with drivers and maintainers | instantiates `Lease` for its lease |
| `HarnessRunProofs` | the theorems about `HarnessRun` | |
| `ResourceLockProofs` | the theorems about `ResourceLock`, and that it implements `Lease` | |
| `HarnessSlotsProofs` | the theorems about `HarnessSlots` | |
| `ConversationProofs` | the theorems about `Conversation` | |
| `InteractionProofs` | the theorems about `HumanQuestion` and `Interaction`, and that `System` implements `Spec` | |
| `MessageStreamProofs` | the theorems about `MessageStream` | |
| `RouterProofs` | the theorems about `Router` | |
| `LongHorizonProofs` | the theorems about `LongHorizon` | |
| `Conversation` | message creation, dispatch, Poll and Commit | |
| `HumanQuestion` | questions, replies and maintenance | |
| `Interaction` | the Interaction operator's Reconcile | extends `HumanQuestion`, whose actions its steps are |
| `MessageStream` | output from its commit to a page: publication, expiry, both listeners | |
| `HarnessSlots` | submissions, slots and the launch of drivers on several replicas | |
| `Router` | the Router's reconciliation of one conversation | |
| `LongHorizon` | Ingress, Manager, Executor and Auditor on their resources | |
| `MC*` | constants of the instances TLC checks | |

### Lease and ResourceLock

`ResourceLock` keeps the row (`row`), the caller's position between statements
(`pc`), the time each statement will compare with (`at`, read *before* the
statement runs, on a server whose clock is off by `Skew`) and the renewal
goroutine's own reading (`renewAt`).  `Begin`, `UpdateExpired`, `Insert` and
`Count` are `Lock`; `BeginWrite` and `Write` a transaction that starts with
`fence`; `BeginRenew` and `RenewRow` the goroutine of `WithLease`; `Done`,
`Unlock` and `Fail` its ends.  The refinement maps the row's token to the
process that made it (or `Orphan` when that process is gone) and "lapsed" to
"expired on some server's clock".  `Lease` leaves open whether a newly taken
lease is already lapsed: the expiry is computed from the earlier reading.

### HarnessRun

One run and its message after `CreateHarnessRun` committed.  Each replica has a
`Driver` and a `Maintainer`; `pc` is the point of `Drive` or `Maintain` a process
has reached, `saw` the row `StartHarnessRun` returned, `seen` the events of its
observation, `want` the phase it will ask `FinishHarnessRun` for.  One SQL
transaction is one step; every one starts with `FencedOpen` (lease, run not
ended) or is `Denied`.

* An adapter is free: `Prompt` and `Resume` return any reference or fail, an
  observation sends any events (`Invalid` is output the store refuses), repeats
  them or not on a replay, ends at any time or never.  Its errors end the run as
  `finishError` maps them: as its stop reason says, or in a phase of `AdapterEnds`
  (a deadline, cancellation or refused recovery of its own).
* The cumulative replay hash is the sequence it hashes; collisions are excluded.
* Clocks: the deadline is `ahead`, then `disputed` (each comparison may go either
  way), then `passed`.  The owner of a lapsed lease may pass the fence or fail.
* `GiveUp` stands for every error that unwinds without another write, after or
  before the statement took effect; `Crash` for a dead replica or a failed
  `Unlock`; `LeaseLapses` for a holder too slow to renew.

### Conversation

One conversation.  A message gets its ID (`Allocate`) before its insert commits
(`Insert`) or fails and leaves its ID unused (`InsertFails`).  A notifier reads the
first `PageSize` pending rows once (`batch`) and then, for each, signals the resource and clears the mark; the batch may be stale by then.  The
actor's informer (`cache`) may skip versions; `Watch` is the predicate;
`Poll`, `PollMore`, `Handle` and `Commit` are an operator's Reconcile.
`AllocationOrder` is the assumption the repository states in
`server/docs/conversation.md` (IDs become visible in order); the model takes it
as given and does not claim anything without it.

### HumanQuestion

Every access runs under the conversation's row lock and expires the question
first, so it is one step.  Maintainers list rows, then expire and acknowledge one
by one.  The revision guard of `AcknowledgeHumanWake` is modelled.

### Interaction

The operator's inbox, what it has consumed and said, and its Reconcile (`operator`)
beside the state of `HumanQuestion`.  `Ask` and `Confirm` are `Create`, `GetChoice`
and `GetDecision` are `Get` on any replica, and an accepted `Reply` appends its
message to the inbox.  `Stop` drops what Reconcile holds, after or before a call took
effect.  A key used for another question leaves the operator stuck, as it is in the
code (the same conflict at every retry): `EveryInputAnswered` would show it.  Time
passes only while a pending question has not reached its deadline on the slowest
clock, so `MaxClock` forbids no question.

A user's message whose blocks cannot be decoded is left out: `interact` returns the
error, nothing is committed, and the message is tried again without end.

### MessageStream

One message, its writers, its stream on the event bridge and one page.  A writer's
`pub` is the call of `EmitMessage`, `PublishCommitted` or `ensureStream` it will make
next and what it has read so far; every SQL statement and bridge call is a step of
its own, so writers overtake each other anywhere.  The bridge (a library over Redis)
is external: it logs events in the order of its `Publish` calls, may refuse any
call, and may lose the stream; whether it accepts an event older than its last is
left open.  `reader` is the goroutine that replays the stream, with the one event
that is in the channel.  `page` is the loop of `MessageListener` (`OpenRun`,
`HearRun`, `BridgeErr`, `TickRun`, `Repair`, `ReloadRun`) or of `ConvListener`
(`OpenConv`, `Bootstrap`, `TickConv`, `Refresh`, `ReloadConv`, `HearConv`,
`ReaderDone`) with what its client has been told.  Listeners only read, so one page
per behaviour is enough.  The body of revision r is the set 1..r of its updates: a
delta applied to the wrong body leaves a hole.

### HarnessSlots

`active` is the map of a replica (`entries`, and `ready` for those marked true);
`Admit`, `Commit` and `CommitFails` are the transaction of `CreateHarnessRun` that
calls `reserve`, `GiveBack` and `HandOver` what `Submit` does after it; `LaunchReady`,
`Scan` and `Launch` the loop of `Run`; `drivers` counts goroutines, so that a run
launched twice would be seen.  A driver `Acquire`s the lease, `Finish`es or `GiveUp`s
and `Leave`s; what it does in between is `HarnessRun`.  `Lapse` lets a lease go to
another replica while its driver still works.  The wake channel is left out: a tick
may come at any moment, so a coalesced wake-up adds nothing.  The lock of the
conversation is kept only between attempts of one request, where it decides.

### Router

One conversation; controller-runtime gives it to one worker, and one replica runs
(`deploy/k8s/loopd/templates/router.yaml`).  `router` holds the local variables of
`Reconcile` and `run`; a crash, or an error no deferred call catches, drops it
(`Stop`) and the inbox is read again.  A prompt is determined by the history and by
the *query*: the batches of messages taken so far, one per round.  The evidence it
contains is what earlier keys returned, so two prompts under a key are equal when
history and query are; `Conflicts` is the refusal of a key used for something else.
`Commit` forgets the calls of the committed input, whose keys nothing reads again.

What the model shows beyond the properties: after a crash while it summarizes, the
Router may find new messages and plan again while the first summary still runs, and
that summary's key then conflicts, so the input ends in a spoken failure.  "One call
at a time" is therefore not true of this code, and an input may get an answer and a
failure.  A failure is about an input; messages that joined it later may be consumed
with it.

### LongHorizon

`runs`, `executions` and `audits` are the resources; each status is written by one
controller under one leader (`cmd/longhorizon/main.go`), so only what happens
*between* remote calls can interfere: `ingress`, `manager` and `worker` hold it.  A
pass of the Manager that creates something (a call, a child, a question) is two
steps, the creation and the status patch; a pass that creates nothing is one.
Either half may fail (`CallFails`, `PassFails`) and all may restart (`Restart`), any
number of times.

* The guidance is the set of inputs and answers it was composed from.  What no
  longer fits (`too long`) may be refused at any input: sizes are a choice.
* `ConsumedThrough` is the round before the current one, so it is not a variable;
  `FinishedAt` and the deletion of the Run are one step; a result of an earlier
  round is forgotten.  The task state is the one of the last audit.
* A worker checks that the Run is alive before its status patch, so it may still
  report just after the Run has ended (`WorkerReport`).  The Manager's own check and
  prompt are one step (`PlanPrompt`): only the Manager changes the phase, and a
  deadline that passes between the two leaves the state that one passing after the
  prompt leaves.
* Deleting a conversation or replacing it under the same name is left out.

## Runs

| Run | Instance | Shows |
|---|---|---|
| `resource_lock` | 2 processes, clocks one tick apart, TTL 2, clock to 3, 3 Lock calls | the lease refines `Lease`; writes in grant order |
| `harness_run` | 2 drivers, 1 maintainer, 2 events, observations of up to 2, 1 fault, an adapter's error ends in any phase | types, one end for run and message, output exactly once, one prompt, success from one observation, all under the lease, a cancel request wins |
| `harness_live` | one driver lacks the target, the other's adapter lacks Resume; 1 event, two references | every run ends; only a recoverable adapter observes twice |
| `harness_cancelled` | 1 event, no faults | *violated*: see Findings |
| `conversation` | 2 actors, 1 notifier, 2 messages of up to 3 revisions, polls and pending pages of 1 | every message is consumed by each of its recipients (direct and broadcast) |
| `conversation_replicas` | 1 actor, 2 notifiers, 2 messages, pending pages of 2, 1 fault | with crashes, restarts, lost answers and stale batches: at least once, no lost signal, and the queue comes to rest |
| `conversation_end` | 1 actor, 2 notifiers | *violated*: see Findings |
| `interaction` | 1 message and the replies to its 2 questions, 2 choices, 2 people, 2 replicas one tick apart, timeout 1, clock to 4, 1 fault | one outcome, one reply, fixed deadline; the summary tells the stored outcomes; always settled, answered and consumed |
| `message_stream` | 2 writers, 3 revisions, the stream lost once | no hole, no step back, no early end on a page; no gap in the stream; every open page catches up from SQL |
| `harness_slots` | a replica with 2 slots and one with 1, 2 requests, 3 attempts, 1 fault | one holder per slot; accepted runs end |
| `router` | 3 messages of three kinds, pages of 2, plans of up to 2 tasks, two readings of the history, 2 faults | every consumed message has its reply; prompts on complete batches; no input retried for ever |
| `long_horizon` | 2 users, 2 messages of three kinds, pages of 1, budget 1 extended to 3, 2 failures in a row, faults without bound | done is audited, inputs taken once, repeated steps agree, one worker at a time; every input is taken |

Why the bounds are enough.  Two lock holders and three tokens give a take-over of
a take-over while the first holder still writes.  Two drivers, one fault and two
events give a replay that agrees, differs, stops early or is overtaken at every
point; the proofs remove these bounds.  Two messages and batches of one give a
message before and after every cursor; two notifiers give stale batches.  A
message of three revisions ends after an event.  A timeout of one tick on clocks one
tick apart makes a question expired on one replica and open on the other, or open on
both; two choices make Confirm depend on the answer; one fault lets the operator ask,
read or speak twice.  Three revisions of an output are a creation and the two that end a harness run, or a creation, an output
and an expiry; two writers suffice for an event to be overtaken between any two of its
calls.  Two slots on one replica and one on the other make a submission, a ready run and a scan compete for the last
slot, and a run be listed where it already has an entry; the repeated request makes
a lost answer visible.  Three messages of the Router give an addition, and a further
one after a restart; a page of two is full once.  Three rounds of LongHorizon let
evidence be made, be dropped by an input, an answer, an execution or a changed
contract, and be made again; a second message is an input that joins a Run, is left
to the next one, or comes when the Run is ending.  Two messages may fill
a Run but leave none beyond it, and make no page of several inputs: a third round matters more (without it no evidence is made
again, and `DoneIsAudited` would not be tested), and both together are too many states.
At a full Run a boundary refuses the next input, which is what the free refusal of
guidance that is too long does at any input; the theorems hold for any bounds.

Deadlock is not checked: an ended run, a bounded clock or a conversation without
further messages legitimately leaves nothing to do.  The liveness properties say
what must have happened by then.

Every property has a mutant, a plausible mistake in the modelled code defined next
to the definition it replaces (`\* Mutant of ...`), under which it fails.

### Fairness

* `HarnessRun`: weak fairness of each goroutine's steps and of time.  Tickers scan
  for ever, contexts have deadlines, statements have timeouts.  Nothing is assumed
  of renewals, cancel requests or the harness: a silent stream is ended by its
  deadline context.  Faults are finitely many (`MaxFaults`): with a driver that
  crashes for ever nothing can be promised.
* `Conversation`: weak fairness of inserts under way, of each notifier, of the
  informer and of Reconcile (controller-runtime retries failed requests).  Writers
  are not fair, and an `End` is not assumed.
* `Interaction`: time and each maintainer's listing are weakly fair; the rows and
  acknowledgements of a pass are strongly fair (`MaintenanceFairness`), as passes may
  fail any number of times but not always.  Questions are settled under these alone;
  only for the consumption of messages the operator's Reconcile is weakly fair too.
  People are not fair.
* `MessageStream`: weak fairness of the listener's steps and ticks.  Nothing is
  assumed of writers, of the bridge or of its reader: a page must catch up even if
  nothing is ever published.
* `HarnessSlots`: weak fairness of every goroutine and of each replica's loop
  (tickers scan for ever); an expired or lost lease becomes free.  Faults are
  finitely many.
* `Router`: weak fairness of the reconciliation and of harness runs (`HarnessRun`
  shows that they end).  Users are not fair; crashes and failing calls are finitely
  many.
* `LongHorizon`: weak fairness of polling and of the Manager, strong fairness of
  what may fail any number of times but not always (the acts after a poll, commits,
  status patches), weak fairness of the deadline.  *Nothing* is assumed of people,
  harness runs, Executor or Auditor: the deadline must suffice.

## Proofs

Each `*Proofs` module proves from the named assumptions on the constants only, for
any values of them: any sets of processes, replicas, people, messages and events,
any clock offsets, any bounds.  Every invariant has the same three lemmas: the
initial state has it, every action keeps it (one lemma per action), it implies the
property.  TLC checked each strengthening on the instance of its run before it was
proved.

| Module | Theorem | Property | Assumptions |
|---|---|---|---|
| `HarnessRunProofs` | `TypeCorrect` | `TypeOK` | `ProcessAssumption`, `HarnessAssumption`, `HarnessBounds` |
| | `EndsTogetherHolds` | `EndsTogether` | |
| | `EndIsFinalHolds` | `EndIsFinal` (proved only: no run repeats it) | |
| | `RowsChangeUnderLeaseHolds` | `RowsChangeUnderLease` | |
| | `CancelWinsHolds` | `CancelWins` | |
| | `OutputExactlyOnceHolds` | `OutputExactlyOnce` | |
| | `SuccessIsOneObservationHolds` | `SuccessIsOneObservation` | |
| | `PromptedOnceHolds` | `PromptedOnce` | |
| | `OnlyRecoverableResumesHolds` | `OnlyRecoverableResumes` | |
| `ResourceLockProofs` | `LockTypeCorrect` | `TypeOK` | `SkewAssumption`, `TTLAssumption`, `BoundAssumption`, `OwnerAssumption` |
| | `WritesInGrantOrderHolds` | `WritesInGrantOrder` | |
| | `LockImplementsLease` | `ImplementsLease` | |
| `HarnessSlotsProofs` | `SlotTypeCorrect` | `TypeOK` | `SlotsAssumption` |
| | `OneHolderPerSlotHolds` | `OneHolderPerSlot` | |
| `ConversationProofs` | `ConversationInvariant` | the inductive invariant | `ConversationActors`, `ConversationBounds` |
| | `ConversationTypeCorrect` | `TypeOK` | |
| | `AtLeastOnceHolds` | `AtLeastOnce` | |
| | `AcknowledgedIsSignalledHolds` | `AcknowledgedIsSignalled` | |
| `InteractionProofs` | `QuestionTypeCorrect` | `HumanQuestion`'s `TypeOK` | `ClockAssumption` |
| | `OneOutcomeHolds` | `OneOutcome` | |
| | `AskedOnceHolds` | `AskedOnce` | |
| | `InteractionImplementsHumanQuestion` | `System => Spec` | and `InteractionAssumption`, `EffectAssumption` |
| | `InteractionAsksOnce` | `OneOutcome`, `AskedOnce` of the composition | |
| | `SummaryTellsOutcomeHolds` | `SummaryTellsOutcome` | |
| | `InboxIsBounded` | at most three messages for one of a user | |
| `MessageStreamProofs` | `StreamInvariant` | the inductive invariant | `StreamAssumption` |
| | `StreamTypeCorrect` | `TypeOK` | |
| | `PageFaithfulHolds` | `PageFaithful` | |
| | `LogGapFreeHolds` | `LogGapFree` | |
| | `PageMovesForwardHolds` | `PageMovesForward` | |
| `RouterProofs` | `RouterTypeCorrect` | `TypeOK` | `RouterBounds` |
| | `RepliedBeforeConsumedHolds` | `RepliedBeforeConsumed` | |
| | `EvidenceCompleteHolds` | `EvidenceComplete` | |
| `LongHorizonProofs` | `LongInvariant` | the inductive invariant | `LongHorizonBounds`, `NoneAssumption` |
| | `LongTypeCorrect` | `TypeOK` | |
| | `EachInputTakenOnceHolds` | `EachInputTakenOnce` | |
| | `StepsAgreeHolds` | `StepsAgree` | |
| | `WorkspaceAtRestHolds` | `WorkspaceAtRest` | |
| | `DoneIsAuditedHolds` | `DoneIsAudited` | |

The assumptions exclude no configuration of the code.  Most say that a bound is a
natural number, or keep apart what the code keeps apart (nobody from a process, a
user from an actor, an object from the absence of one).  `InteractionAssumption` says that the operator confirms each style it offers with a
question of its own.  `ConversationBounds` gives every message two
revisions, because one that streams is created and ends.  `EffectAssumption` gives
every message that can come its two keys; `InboxIsBounded` shows that
`3 * MaxMessages` positions suffice.

The arguments.

*Harness run.*  `RowSteps` says what any step can do to the two rows: nothing, a
cancel request, or one of four writes by the process that owns the lease.  The
action properties follow from it directly.  `OutputExactlyOnce` is not inductive:
whether the next append is right depends on what the appending driver has seen.
Its strengthening `OutputInv` adds that the *owner* of the lease is in step with
the row (`OwnerInStep`: while it replays, the checkpoint it read is still the
stored one; afterwards it has seen exactly what is stored) and that a driver which
has not begun to observe has seen nothing (`FreshObservation`).  Superseded
drivers may be out of step; the fence keeps them from writing.  `PromptedOnce` is
strengthened to `SolePrompt`: at most one driver is about to prompt, and none
while the run is still pending; a driver that has lost its lease may be that one.
`OnlyRecoverableResumes` is about one step, yet it depends on how the driver got
there: `RecoverableAttached` says that whoever binds, observes or is about to
report success either has a recoverable adapter or found the run pending, and
`SuccessIsAsked` that only such a report makes a row succeeded.

*Resource lock.*  `LockInv`: a token is made once and compared by its maker only
(`FreshTokens`), a caller inside `WithLease` has one (`Entered`), a statement
compares with a time that has been (`ClockRead`), and whoever the row names was
granted it last (`LatestGrant`).  `ClockRead` makes a take-over a step `Lease`
allows (a lease that had expired when the clock was read has lapsed by now),
`FreshTokens` makes the holder of the refinement mapping unique, `LatestGrant`
orders the writes.  The refinement is proved action by action.

*Slots.*  `OneHolderPerSlot` counts, per replica and run, the submission, the ready
entry and the drivers that hold the slot.  It needs `Committed` (what is handed over
or driven is in SQL, so a submission that fails gives back a slot nobody else
has) and that entries are finite.  Each action moves one slot from one kind of
holder to another; `Untouched` frames all other slots.

*Conversation.*  A position is a number, and covers messages only because rows
become visible in the order of their IDs (`VisibleInOrder`, from
`AllocationOrder`): a position is a row's (`Positions`), so nothing appears before
it later.  `BatchReaches` shows that a page has no hole before its last row, from
which `Read` (everything up to what Reconcile has read is handled or in hand) and
`AtLeastOnce` follow.  `Notified` carries a signal to its acknowledgement.

*Questions and Interaction.*  `RowStep` says what any step of `HumanQuestion` does to
the rows: none, or one row that is created, looked at or answered.  `QuestionInv`
ties a row's revision and reply to its status.  `SystemInv` says what the operator
knows (what it was told is stored and resolved, hence final) and bounds the inbox,
so that its keys are effects: then every step of the composition is a step of
`HumanQuestion` or none of its variables change (`System => Spec`), and what is
proved of questions is proved of it.

*Message stream.*  `StreamInv` follows an event from the commit to the page: every
event in a publication, in the log or before the page is `Sound` (it tells of a
revision SQL has, an End of the last one), and rows only grow (`Grown`), so soundness
is never lost.  `Working` adds what a publication knows in each step, in particular
that what it is about to send `Follows` the log: this was decided by an earlier read
of the bridge, and holds still because logs only grow until the stream is lost.
`PageInv` is `PageFaithful` with one more fact: what `repair` saw of the end (`saw`)
is still true when the body is read.

*Router.*  The hard case is a restart over the calls and messages of a
reconciliation that stopped.  `RoundsDone` ties the place in the loop to the stored
calls, `AnswerOfSummary` the stored answer to what the stored summary was asked:
a second summary that asks something else conflicts and ends in a failure, one that
does not has the same query, so the answer found under its key is about everything
that is committed.  `Typed` bounds the rounds by the messages, which is what makes
the keys finitely many.

*LongHorizon.*  `Owned` says whose the inbox is: there is one Run, it has recorded
every input between the message that names it and what it has passed (`Taking`), the
commit is between these, and what was taken before lies behind (`TakenOnce`).
`RoundInv` relates a status to the children and calls of its round (`Fits`): a child of
an earlier round has reported, a call belongs to its child and asks for what the child
and the guidance say, a report comes from a call that is over, evidence is from an
audit told all the guidance and followed by no execution.  The point is that `Fits`
is claimed of two statuses: of the stored one, and of the one a pass of the Manager
*holds* between its creation and its patch (`manager.next`), so that a failure or a
restart in between leaves a status that fits what was created for the other.
`Prompting` does the same for what a worker holds: the Run may end, and its next
status be written, before the prompt.  The lemmas `Fits...` say, one per change, that
a status, a child or a call may change so; each action is then a few of them.

Only model-checked: every liveness property (`EventuallyEnds`, `AcceptedRunsEnd`,
`EventuallyConsumed`, `Quiesces`, `EveryInputAnswered`, `PageCatchesUp`,
`EveryInputReplied`, `EveryInputTaken`; the prover does not handle fairness) and the
bound on observations of `harness_live`.

## Findings

* `harness_cancelled`: output the store refuses ends the run and its message as
  `cancelled` though nobody cancelled; `server/docs/ue.md` and `docs/harness.md`
  keep failure and cancellation apart.
* `conversation_end`: `AcknowledgeDispatch` clears the mark by ID alone.  When a
  streaming message ends between a notifier's read and its acknowledgement, the
  mark the end has set is cleared and the promised second notification is lost.
  The message itself is not lost (`EventuallyConsumed` holds): its creation was
  notified.

Not a run, because no execution is needed to see it: `server/docs/conversation.md`
(lines 28 and 29) says both that Poll stops at a message that has not ended and that
it returns every status; `ListInbox` does the latter.

## Not modelled

HTTP handling, views, migrations, commands, deployment and the web page (decoding,
rendering and wiring); the registry (single-row upserts); the protocol clients
under `pkg/harness` (the run lets an adapter do anything); content validation
beyond "refused or accepted".  Resource deletion: a deleted `Conversation` is
outside the predicate's promise.  Updates and deletions of single messages:
the store offers them, nothing calls them.  The bridge's own guarantees.

Message parts (`repo/message_part.go`): the division of JSON bodies into rows is
string and tree surgery whose result depends on bytes; over the small abstract
trees TLC could enumerate it would be a model of a different function.
`message_part_test.go` tests the round trip on real bodies.

Allocation of message IDs before their insert commits: the hazard is listed, and
`AllocationOrder` is an assumption, because the repository assumes it too.

## Plan

1. The step from `ResourceLock` to what `HarnessRun` assumes of the lease, as a
   theorem.
2. Larger: two conversations of the Router; `Interaction` woken by `Conversation`.
