# A TLA+ model of the agent service and its order adapter

This directory models the repository: a Python service (`codex-agent-python`) that lets
users talk to a Codex runtime, and a Java adapter (`order-mcp-adapter`) that gives the
runtime two order tools. Cancelling an order needs a person's approval. The modules are
translated from the code and TLC checks them on small instances. TLAPS proves their
safety properties and refinements for every instance.

Paths are relative to `codex-agent-python/app/` unless they begin with another directory.

## 1. The system

```
 HTTP client ── api/v1/agent ── AgentService ── AdmissionController ── CodexRuntime ── Codex process
                                     │                                                     │ MCP
                            ConversationRepository                                   order-mcp-adapter
                                     │                                                     │
 approver ── api/v1/approval ── ApprovalRepository ── api/v1/execution  <── prepare ───────┤
                                     │                                                     └── order system
                                PostgreSQL
```

| Component | State | Operations | What makes it hard | What must hold |
|---|---|---|---|---|
| Execution grant store (`approval/approval_repository.py`, `executions/service.py`, `api/v1/execution.py`, migration 005) | table `approval_requests` | `prepare_execution`, `decide`, `get` | several threads and instances under READ COMMITTED, lock waits, rollbacks, lost acknowledgements, expiry during a wait, two clocks | one row per action; an id only from a durable, approved, unexpired row; rulings are final |
| Order adapter, `cancel_order` (`OrderService`, `HttpExecutionAuthorizer`, `ExecutionDecision`, `HttpOrderGateway`) | none of its own | `cancelOrder` | a timeout on each hop while the other side goes on; the model calls again | the order system commits an action once, and only an issued one |
| Admission (`runtime/admission.py`, `core/lifespan.py`) | `_tasks`, `_accepting` | `submit`, `run`, `drain`, `cancel_after_runtime_closed` | disconnects, deadlines, runtime work that outlives its task, shutdown | never two operations on one conversation; conversations are given back |
| Event subscription (`runtime/event_subscription.py`) | queue, wake-up flag, error | `publish`, `finish`, `events`, `aclose` | a producer that may not wait, a slow or absent reader | no lost wake-up, no gap passed over in silence |
| Streamed turns (`services/agent_service.py`, `runtime/codex_runtime.py`, `events/codex_event_mapper.py`) | pump task | `open_stream`, `stream_turn` | notifications that break off, errors that overtake events | client, runtime and admission agree how a turn ended |
| Turns and compaction (`runtime/codex_runtime.py`) | the runtime's turns | `run_turn`, `compact_thread` | acknowledgement before work, polling, older turns of the same kind | the caller learns the end of its own turn |
| Conversation registry (`services/agent_service.py`, `conversations/`) | table `conversations`, runtime threads | `create_conversation`, lookups | two stores without a common transaction | an id that was given out works |
| Process life and readiness (`core/lifespan.py`, `core/readiness.py`, `api/v1/health.py`) | exit stack, probe task, last success | start, probe, `/ready`, shutdown | every step can fail; probes hang | readiness is recent; nothing is left behind |
| Approval listing (`api/v1/approval.py`, `approval/pagination.py`) | cursor | `list_approvals` | rows move between pages | nothing twice, nothing skipped |
| Evaluation target, evaluators and gate (`evals/langsmith_target.py`, `langsmith_evaluators.py`, `gate.py`) | what was read of a stream, rows of an experiment | `__call__`, `consume`, the three evaluators, `summarize_results` | streams that break off or look complete, approvals committed late | no pass for a run that was not seen to its end |
| Dataset seeding (`evals/seed_langsmith_dataset.py`) | a dataset in LangSmith | `sync_cases` | one listing in pages, then many writes; lost answers; people at work in the dataset | no duplicates, no lost annotations, the file's cases as the file has them |
| Configuration, launcher, policy, schemas, tokens, tracing | constants | – | – | not modelled, section 8 |

`PROJECT.json` holds the full list of components, the hazards with their lines, and the
lines every definition stands for.

## 2. Modules

| Module | Models | Notes on the correspondence |
|---|---|---|
| `GrantStore` | the grant store | `grants` holds committed rows, `locks` row locks and uncommitted inserts, `call[c]` the transaction of one worker thread, `ruling[d]` one call of `decide`. Each SQL statement is an action; what a transaction wrote stays in its own record until `Commit`. `decide` also gets ids that are nobody's or another tenant's (`ScanUnknown`), and the reads after its UPDATE can fail as the UPDATE can (`AbortRuling`). |
| `CancelFlow` | the whole `cancel_order` path | extends `GrantStore`; `tool[c]` is a tool call in the adapter, `sent` and `applied` what reached the order system and what it committed |
| `CancelAuthority` | abstract: open, rule, issue, apply, once per action | implemented by `CancelFlow` (`ImplementsAuthority`) |
| `Admission` | admission, its tasks, and lifespan's shutdown | an action is the code between two awaits; `remote[t]` is what task `t` started in the runtime and may outlive it |
| `ConversationLease` | abstract: a bounded set of conversations, each held by one operation | implemented by `Admission` (`ImplementsLease`) |
| `EventSubscription` | the subscription | `events()` is cut at its `yield` and its `await`; every other method runs in one step of the event loop |
| `EventStream` | abstract: an ordered stream without gaps | implemented by `EventSubscription` (`ImplementsStream`) |
| `StreamTurn` | a streamed turn | extends `EventSubscription` with the runtime's turn, the pump and the admission entry. A turn is asked for (`Ask`), begins in the runtime (`TurnBegins`) and is streamed (`TurnStart`) in three steps, so that one may begin after the pump has given up on it; what a turn does and who asks for it is left open |
| `Evaluation` | one example of an evaluation | extends `StreamTurn`: the client is `LangSmithAgentTarget`, the events are tool calls and texts, `cancel_order` leaves a ticket and maybe an approval row, the evaluators and the gate are operators over what was read |
| `SeedSync` | `sync_cases` | `remote` is the dataset as it is, `listing` what the pages brought, each example as it was when its page was read, and `unread` what is still to come; every request is an action, people's changes are actions of their own and fall between any two of them |
| `Compaction` | `run_turn` and `compact_thread` under one admission entry | `previous` is `previous_ids`; `view` the last snapshot read; the runtime turns a request into a turn at any later time |
| `Registration` | creating conversations | `writer[k]` is the thread-pool worker with the INSERT, `start`, `archive` the requests to the runtime; all three go on when the operation has given up |
| `ServiceLife` | lifespan and readiness | `stack` is the `AsyncExitStack`; `probe` the check in hand, `lag` how long its answer has waited for the event loop, `stray` the query of a worker whose check was cut off; `down` counts how long the database has been silent |
| `ApprovalPaging` | a walk through the pages | `before` is the cursor; `steady` the rows that were selected all the time |
| `MC…` | instances for TLC | symmetry sets, and the examples, files and rows of the instance |
| `…Proofs` | theorems about the module of that name | `GrantStoreProofs` is also about `CancelFlow`, `StreamProofs` about `EventSubscription`, `StreamTurn` and `Evaluation`; section 6 |

A definition named `X_Something` with the comment `MUTANT` is a plausible bug of `X`,
kept beside it: putting it in the place of `X` must break a property.

What was found worth knowing while translating, and is part of the model:

- `decide` tests the expiry before it waits for the row lock. PostgreSQL tests the
  `WHERE` clause again only when another transaction has changed the row, so an approval
  can be written after the expiry. It never authorizes anything: `prepare_execution`
  tests the expiry under the lock with a clock read there (`ConsumedInTime`).
- A refusal in `decide` is classified with the clock of the host. Only if that clock is
  behind the database clock can the `RuntimeError` at its end be reached
  (`RefusalExplained` is stated for `HostSkew >= 0`).
- A COMMIT whose acknowledgement is lost is durable and reported as a failure, in
  `prepare_execution`, in `decide` and in `ConversationRepository.create`.
- `_create_conversation` compensates for an `Exception`; the deadline of admission is a
  `CancelledError`, so nothing is archived then. Admission is closed in the same step,
  which is why `AcceptingMeansSettled` holds; after a restart the thread stays orphaned.
- In the subscription an error overtakes queued events. A client that disconnects before
  the response began never starts the generator, so `aclose` is not called; the full
  queue then detaches it.
- The error branch of `produce` for `ExecutionFailed` is not reached from `stream_turn`,
  which raises nothing of that kind.
- `GET /ready` does not look at the Codex process; it turns bad when an operation has
  failed with an unknown outcome. The model lets the process die at any time.
- Cancelling the probe task does not stop the worker thread it waits for. That worker
  may still be in its query when its engine is disposed of, and then its connection is
  left behind in the replaced pool; the model keeps it (`stray`). What holds is that its
  late answer moves nothing (`ProbeIsSilent`) and that it comes to an end (`ComesToRest`).
- `ready` compares the age of the last success, which is stamped when the event loop picks
  the worker's answer up (`readiness.py:36`). A busy loop makes a success look younger
  than it is, and `/ready` is late by that much and no more (`ReadyIsRecent`).

## 3. What each run checks

| Run | Instance | Shows |
|---|---|---|
| `grant_store` | 1 action, 2 threads, 2 approvers, 2 ids, TTL 2, clock to 3 | `OneGrantPerIntent`, `AuthorizedIsBacked`, `ConsumedInTime`, `RulingHonoured`, `RefusalExplained`, `GrantsMoveForward` |
| `grant_store_live` | 1 action, 2 threads, 1 approver | `TransactionsEnd`: the lock waits cannot deadlock or starve |
| `cancel_flow` | 1 action, 2 tool calls, 1 approver, TTL 1, clock to 2 | `AtMostOnce`, `SentInTime`, `ImplementsAuthority` |
| `admission` | 3 conversations, 3 tasks, limit 2 | `OneLivePerConversation`, `AcceptingMeansAccountedFor`, `StoppedIsQuiet`, `ImplementsLease`; `EntriesAreFreed`, `ShutdownEnds` |
| `admission_cancel` | 1 conversation | expected violation: section 5 |
| `event_subscription` | queue of 2, 4 events | `TooSlowIsTrue`, `ImplementsStream`; `ReadersEnd` |
| `evaluation` | 5 kinds of examples, queue of 2, turns of up to 3 events, 2 tools, 2 kinds of text | `FreeMeansAtRest`, `CleanEndHasVerdict`, `VerdictsAgree`, `PassedIsTrue`, `ApprovalScoreIsTrue`; `EntryIsFreed` |
| `seed_sync` | 2 cases, 3 versions of the file, 4 ids, 3 changes by people | `NoDuplicates`, `FinishedMeansSynced`, `HumanWorkKept` |
| `registration` | 3 creations, 3 threads, 2 restarts | `HandedOutIsUsable`, `AcceptingMeansSettled` |
| `compaction` | 3 operations in a row | `AnswersAreOwn`, `FreeMeansQuiet`; `OperationsEnd` |
| `approval_paging` | all tables of 4 rows with 2 values of `created_at`, pages of 1, 2 moves | `ShownOnce`, `NothingSkipped` |
| `service_life` | `max_age` of 3 ticks, an event loop at most 1 tick late | `ReadyIsRecent`, `ProbeIsSilent`, `DownIsClean`; `ComesToRest`, `RecoveryShows` |

Each module also states its type invariant (`TypeOK` and the like), which is a part of the
inductive invariants of section 6. A few invariants are there for the proofs alone, and no
run lists them: `OneRowToLock`, `WaitersHoldNothing`, `SentIsIssued`, `AppliedIsCovered`,
`WithinLimit`, `StoredForGood`, `NoLostWakeUp`, `OwnEndIsSeen`.

### Bounds

- Grant store: two threads and two approvers give every pair of conflicting transactions,
  and a third party adds waiting but no new conflict. Two ids are one more than the action
  may get. The clock passes the expiry with a tick to spare, so a lock wait, a decision
  and a commit can each fall before, on or after it. The theorems have no bound.
- Tool calls, tasks and threads are used again when they end, so the number of calls is
  not bounded by the number of their names.
- Admission: three conversations on two places reach the capacity check, the busy check
  and a place that is taken by work nobody waits for.
- Cancel flow: one action, asked for again while the first call still runs. Two actions at
  once are left to the theorems, which hold for any set of actions.
- Subscription: four events overflow a queue of two with readers of every speed.
- Evaluation: three events overflow the queue of two or reach the client, in every order of
  tools and texts; the examples are one of each kind in `evals/cases.jsonl`, and one that
  names no rules. One further row stands for the other examples: passed, skipped or none.
- Seeding: three versions of the file are the first, one with a corrected and a new answer,
  and one that names a case twice; runs follow each other without bound, people change at
  most three things, which is enough to copy, annotate and take over an example.
- Compaction: three operations, so that two finished ones of any kind lie before the third.
- Registration: three creations, although the only interplay is through `accepting` and the
  threads; two restarts, so that what one left behind meets the next.
- Process life: a loop that is one tick late (`Lag`) puts every event between a worker's
  answer and its use; the theorems hold for every `MaxAge` and `Lag`. That PostgreSQL is up
  and the pool gives no connection in time counts as the database being away.
- Paging: pages of one row put every border between every two rows.
- Deadlock is checked where the system goes on for ever. It is off where a run ends: the
  process stops (`admission`), the stream ends, the operations are used up.

## 4. Fairness

- `GrantStore`: PostgreSQL queues lock waiters in order, so a thread whose lock is free
  again and again gets it (strong fairness of `Insert`, `Lock`, `Update`); statements that
  can run do run (weak). No deadline, no approver and no clock tick is counted on.
- `Admission`: the event loop runs what is ready, `asyncio.timeout` ends each operation
  and the steps of the shutdown return or raise. Neither the runtime nor a client owes
  a step: `CodexRuntime.close` is assumed to return or to raise.
- `EventSubscription`: the loop runs a ready generator for a client that goes on reading;
  the producer is ended by its deadline.
- `Evaluation` (`StreamFairness` of `StreamTurn`): the pump asks for its turn, the runtime
  begins and ends it and says so, and the pump takes the notification and the end of the stream. No deadline is
  counted on, and the client may stop reading for ever: that `EntryIsFreed` holds all the
  same is the point of it.
- `SeedSync` states none: a run may be cut off anywhere, and nobody must run it again.
- `Compaction`: the runtime answers and ends its turns; no deadline is counted on. That
  makes `OperationsEnd` a statement about the poll and not about the timeout.
- `ServiceLife`: start and shutdown steps return or raise, queries have the deadlines of
  `core/database.py` also when nobody waits for them, time passes. The database owes
  nothing.

## 5. Finding

`admission_cancel`: the docstring of `cancel_after_runtime_closed` says "Only call after
stopping the remote runtime, never on HTTP disconnect." The call in `core/lifespan.py` is
in a `finally` block and therefore also made when `runtime.close()` raised. The run reaches
the cancellation of a running task with the runtime still up. `StoppedIsQuiet` shows what is left of the
promise: no entry and no task, and no runtime operation unless the close failed.

## 6. Proofs

Eight modules hold proofs. Each proves an inductive invariant, in named parts, and takes the
properties of the runs from it. Nothing is assumed beyond the named assumptions on the
constants, which TLC evaluates in the runs; they say which constants are numbers, that
`None` is none of the values it stands beside, and what is said below. The invariants and
action properties that no run lists were checked by TLC on the instances of section 3
before they were proved.

| Module | Theorems |
|---|---|
| `GrantStoreProofs` | `TypeCorrect`, `LocksAreDisciplined`, `OneGrantPerAction`, `GrantsOnlyMoveForward`, `AuthorizationsAreBacked`, `ConsumptionIsInTime`, `RulingsAreHonoured`, `RefusalsAreExplained`, `OneRowIsThere`, `NoCircularWait`; of `CancelFlow`: `FlowUsesStore`, `SentRequestsAreIssued`, `RequestsLeaveInTime`, `CancellationsAreApproved`, `AppliedAtMostOnce`, `FlowImplementsAuthority` |
| `AdmissionProofs` | `NeverTwiceAtOnce`, `OpenIsAccountedFor`, `ShutdownIsQuiet`, `AdmissionImplementsLease`, `RuntimeWithinLimit` |
| `StreamProofs` | `TooSlowIsDeserved`, `WakeUpsAreKept`, `SubscriptionImplementsStream`, `TurnsUseSubscriptions`, `TurnsAreStreams`, `FreeIsAtRest`, `CleanEndSaysHow`, `VerdictsAreTrue`, `PassesAreTrue`, `ApprovalScoresAreTrue` |
| `RegistrationProofs` | `GivenIdsWork`, `OpenMeansSettled`, `StoredRowsStay` |
| `CompactionProofs` | `AnswersAreTheirOwn`, `FreeIsQuiet`, `PollSeesItsEnd` |
| `ApprovalPagingProofs` | `WalkTypes`, `PagesShowOnce`, `PagesSkipNothing` |
| `SeedSyncProofs` | `SeederMakesNoDuplicates`, `FinishedRunsAreSynced`, `PeoplesWorkIsKept` |
| `ServiceLifeProofs` | `ReadyRecent`, `ClosedProbeIsSilent`, `CleanEnd` |

**Grant store** (`GrantStoreAssumption`: threads and approvers are different). Three layers,
each an inductive invariant that uses the one before:

1. `LockInv` is `TypeOK`, `LockDiscipline` and `OneGrantPerIntent`. Uniqueness alone is not
   inductive: a commit may only add a row if no other row of the action was committed
   since its INSERT. That is what `InsertsAreAlone` says, and it needs `CallLocks` and
   `RulingLocks`, which tie every lock to the one transaction that holds it.
2. `BackedInv` adds what decided transactions and consumed rows carry: the row a decided
   transaction will commit fits its answer, because nobody else can change the row while
   it holds the lock.
3. `RulingInv` adds that a matched row that is no longer PENDING, or a missed one, has
   either been decided or has expired, which makes the last branch of `decide` dead.

`GrantsMoveForward` follows from `LockInv` step by step. So do two facts about waiting:
`OneRowToLock`, that the SELECT after an INSERT finds exactly one row, so that its `.one()`
never raises, and `WaitersHoldNothing`, that no transaction waits while it holds anything:
there can be no circle of waits, the safety half of `TransactionsEnd`.

**Cancel flow** (`AdapterSkewAssumption`). `FlowStep` shows that each step of the path is a
step of the grant store or leaves it alone (`FlowUsesStore`), which lifts `LockInv` and
`BackedInv`. `FlowInv`
adds `AskedFor`, that a waiting tool call waits for the handler of its own request, so that
the answer it gets is about its action; and `KeysOnce`, the order system's promise about
idempotency keys. With `OneGrantPerIntent`, one key for an action and one commit for a key
give `AtMostOnce`. `SentInTime` is about the step in which a request leaves: the answer it
rests on may be old, but its row is still the CONSUMED one (`BackedInv`), and the adapter
compares the expiry it was told with its own clock. `AppliedIsCovered` carries this to the
order system, where requests arrive late. For the refinement `RowAppears` and `RowMoves` show what a committed
transaction or ruling does to the abstract action: opened, ruled on, issued, or a stutter.

**Admission** (`AdmissionAssumption`: the tasks are finitely many). A task that ended may
have left work in the runtime. `LeftoversClose` says that admission is closed then and
`KeysApart` that even such work shares its conversation with nobody; `EntriesAreTasks` ties
the table to the tasks, and `ShutdownOrder` says which tasks can still be there at each
stage of the shutdown. The lease counts what is live; the table bounds it because the two
are the same set while admission is open. The abstract lease names who holds a conversation,
so that a second operation on an engaged conversation would be no step of it; no
conversation ever passes from one task to another, by `KeysApart`. `RuntimeWithinLimit` is
proved of the lease (`LimitKept`) and read back through the refinement.

**Streams** (`KindsAssumption`: an error is no event of the producer; `TerminalAssumption`;
`EvaluationAssumption`: what the evaluators look for are events, examples and rows have their
types). `SubInv` speaks about sequences of any length without induction, by their elements:
what was published is what the client was given followed by the backlog (`InOrder`), an error
is read last and is the one that was set (`ErrorsLast`), an overflow leaves more than a
backlog unread (`SlowIsSlow`), and a reader that returned without an error had been given
everything (`CleanIsWhole`). The refinement of `EventStream` follows action by action. `NoLostWakeUp`
is the safety half of `ReadersEnd`. Every step of a turn is a step of its subscription or
leaves it alone (`TurnsUseSubscriptions`), so turns are such streams too. For
the turn `PumpTells` says what the place of the pump means for turn, entry and admission (only
one that streams knows that its turn began) and `EndIsLast` that a verdict is the last event published, and true. For the evaluation
`ListedIsAll` is the heart: a target that has read `turn.completed` has read all that was
published, so `Judged` can say that a completed example was scored on all of it; with
`CallsAreOver` the approval table cannot grow by a call of this turn afterwards, except
through a handler its adapter had given up on.

**Registration** (`RegistrationAssumption`). `BornApart`, and for each creation which
requests can be under way where (`RequestsFit`), what the two stores can hold of it
(`StoresFit`), and that its thread is archived only if it ended badly (`ThreadFits`).

**Compaction** (`CompactionAssumption`). While an operation runs it has one request or one
turn of its own and all older turns have ended (`OneAtATime`); `previous` holds exactly the
older ones (`PreviousKnown`); what was read of an ended turn is still true (`ViewTrue`); and
a free conversation is at rest (`AtRest`). `OwnEndIsSeen`, the safety half of `OperationsEnd`,
follows: a snapshot is conclusive for the end of the operation's own turn and nothing else.

**Seeding** (`SeedAssumption`: a file is a sequence of cases). While a run goes on
`ListingKept` says what the pages read so far still say truly of the dataset, `MadeNow` that
an example of the seeder's which no page shows or will show was made by this run for a case
already handled, and `SyncedSoFar` that the handled cases are as the file has them. Across
runs only `NoDuplicates` remains, and it is enough, because an ambiguous dataset is refused.

**Process life** (`ServiceAssumption`: `max_age` is above zero, the event loop late by some
number of ticks or none). `ReadyIsRecent` relates the
answer of `/ready` to how long the database has been silent, which the code never sees;
`Freshness` bridges the two: the silence is never longer than the age of the last success
and `Lag` together, and a result not yet picked up is as old as it has waited. The other two
follow from `StackInv`, which says for each depth of the exit stack what is open and where the start or the
shutdown can be, and `StartedInv`, which says that a Codex process that is there is still
to be closed.

**Approval listing** (`PagingAssumption`: the table is finite, times are above zero because
the model writes 0 for a row that is not there yet, ids are numbers and every limit is at
least one). `(created_at, id)` is a strict total order (`RowOrder`), and so is the cursor's
(`CursorOrder`). `PageInv` says that while the walk is on only rows the cursor has passed were
shown, each once, and of the steady rows all that it has passed. A page
is an upper part of what is left below the cursor (`NewestIsUpper`); that it has a last row
needs finiteness (`FirstAndLast`), and that a page without a further row was the last one
needs the counting of `NoExtraRow` and `ShortPage`. Rows that move or are inserted between
two pages change what is left, but no steady row and no position.

Checked by TLC only: all liveness (`TransactionsEnd`, `EntriesAreFreed`, `ShutdownEnds`,
`ReadersEnd`, `EntryIsFreed`, `OperationsEnd`, `ComesToRest`, `RecoveryShows`), which rests on
fairness and is out of the prover's reach. Every invariant, action property and refinement
that a run checks is proved.

## 7. Plan

Done: the modules above, in the order grant store, cancel flow, admission, subscription,
streamed turn, registration, compaction, paging, process life, evaluation, seeding; and the
proofs of section 6.

Next:

1. Safety halves of the remaining liveness properties, as was done for `TransactionsEnd`,
   `ReadersEnd` and `OperationsEnd`: what a step that must come needs, and that it is there.
2. Two more actions of the outside world: a second instance of the service beside the first
   in `Registration`, and a database that fails over in `GrantStore`.
3. `update_example` replaces the metadata by that of the listing, so that an annotation made
   since its page was read is lost. `HumanWorkKept` says so by leaving these cases out; if LangSmith
   offers a conditional update one day, the exception can go.

## 8. Not modelled

- Request identity, service tokens, schemas, routing, configuration, the launcher and
  tracing: stateless checks or constants.
- `get_order_status`, `read_conversation`, `get_approval`, ownership lookups: single reads
  that change nothing.
- The legacy grant operations (`create_pending`, `find_actionable`,
  `consume_approved_grant`): no caller in the service; they are kept for old rows.
- In `evals/`: the fixture server (constant answers), the optional judge (a remote model
  whose score is not part of the gate), the retries inside the LangSmith client, examples
  without a `case_id`, and two seeders at once, which `evals/README.md` rules out. The bytes
  of an SSE record are below a step of `Consume`; an incomplete record is dropped with the
  body (`BodyEnds`).
- How LangSmith cuts a listing into pages. The model takes it that the pages together bring
  every example that is there from the first page to the last; one that is brought twice
  ends the run like any failure (`Break`). If pages were counted by offset, a deletion
  between two of them could hide an example, and `NoDuplicates` would need an exception.
- The Codex runtime, PostgreSQL and the order system are external. They are modelled by
  what the code relies on: row locks, unique indexes and READ COMMITTED; turns that end in
  a status; an order system that applies an `Idempotency-Key` once
  (`docs/EXECUTION_CONTRACT.md`). `AsyncCodex.__aexit__` after a failed start is taken to
  leave no process.
- Earlier migrations run before the service starts; only the constraints that remain matter.
