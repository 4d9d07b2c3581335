# TLA+ models of the POWER framework

This directory specifies, model-checks and proves properties of the part of
`src/src/power_framework` that keeps state on disk and shares it between
threads and processes: the project event ledger and the association saga kept in
it, the transactional task store, the task and decision services on top of it,
the search index and the note mutations that publish it, the governance of a
project's phases, the broker of
infrastructure writes, and the locks and the worker pool under all of them.
Paths below are relative to `src/src/power_framework/`; `core/x.py:n` is line n.
Documents are cited with their path from the repository root.

    tlc -workers 2 -config LedgerCrash.cfg MCProjectEventStore   # one run
    tlapm ProjectEventStoreProofs.tla                            # one proof module

`PROJECT.json` lists the runs, the mutated definitions that break each property,
the source lines of every definition, the findings, the hazards and the theorems.

## 1. The system

POWER keeps a *vault* of Markdown notes and, beside it in `.power/`, the state of
tasks, decisions and projects. There is no server process that owns the vault:
the command line, an MCP server, a web UI and background jobs open it as
independent processes, each with threads. All coordination goes through files:
`flock` on lock files, `os.replace` for atomic writes, append-only JSON lines.

| Component | State it keeps | Operations | What is hard | Model |
|---|---|---|---|---|
| project event ledger, `core/project_store.py`, batch import in `core/project_ingestion.py` | `events_00000n.jsonl` partitions and the active `events.jsonl`, hash-chained; a lock file | append, governed append (compare-and-swap on the head), import, rotate, verify, verified replay, repair of a torn tail | kills and short writes at every byte, retries under an idempotency key, `verify` without the lock | `ProjectEventStore`, abstractly `EventLog` |
| transactional store, `core/task_store.py` | canonical files; a directory per running transaction with manifest and backups | lock, recover, transaction, rollback, clean-up | kills between any two of its writes, also in recovery; a rollback that fails; store objects that outlive a crash of another process | `TaskStore`, abstractly `AtomicStore` |
| tasks and decisions, `core/task_service.py`, `core/decision_service.py` | snapshot, journal, receipts and checkpoints per task; decision files and receipts | create, transition, request and resolve a decision, replay by idempotency key, unlocked reads | four files that must agree, stale revisions, readers that take no lock | `TaskService` (extends `TaskStore`) |
| lock hierarchy, `core/lock_tracker.py`, `core/mutation.py` | three levels of locks, a thread-local stack of levels | nested acquire, release, timeout | deadlocks between threads and processes, reentrancy | `LockHierarchy` |
| blocking pool, `core/mutation.py` | worker slots, futures | submit, run, cancel, return | cancellation against start, end and delivery of an operation | `BlockingPool` (extends `LockHierarchy`) |
| association saga, `core/project_ingestion.py` | request / associated / failed events in the ledger | request, reconcile | retries counted across runs, runs that overlap, shared correlation ids | `AssociationSaga` |
| search generations, `core/generation_index.py`, `core/index_sync.py` | immutable SQLite files, a state database with an active pointer, a cache per process | build, publish, fail, retain, reap, resolve | files, pointer and notes are three stores; publishers that hold no lock; files removed under readers | `GenerationIndex` |
| infrastructure broker, `core/infra_broker.py` | admission, idempotency, approval and run records, receipts | dry run, replicate, verify, replay, take-over and rollback of prepared admissions | an effect that cannot be undone, five kinds of files written one by one, fencing of retries | `InfraBroker` |
| state and governance, `core/state_service.py`, `core/state_reducer.py`, `core/governance_engine.py` | none of their own (fold over the ledger) | replay, evaluate a gate, override a gate, change the phase | gates are judged on tasks and decisions that other stores keep changing, and judged again by whoever replays | `Governance` (rules and replay), `GovernedState` |
| memory mutations, `core/memory_api.py` and the other writers of notes | notes, history, log, projections | propose, apply, restore | one step of several failing, index published inside the transaction | one note, its transaction and its index: `GenerationIndex` |
| work packets and migration, `core/handoff.py`, `core/state_migration.py` | v1 packet files | advance, migrate, roll back | migration decided on unlocked reads, deletion outside a transaction | planned |
| application facade, command line, MCP server, web UI | request-scoped | forward to the services | none of their own beyond the above, but for one retry loop (`core/application.py:1893`) | not modelled |
| retrieval, evaluation, domains, egress, integrations | read-only or external | scoring, validation, network calls | numeric or pure I/O | not modelled |

How they interact. A note mutation takes the level 1 lock (`vault_mutation`),
inside it a `TaskStore` transaction takes level 2, and an append to a project
ledger takes level 3; `lock_tracker` raises on any descending acquisition.
`TaskService` and `DecisionService` make all their writes inside one
`TaskStore._transaction` per call. `ProjectStateService` reads a verified replay,
evaluates it, and appends with the head it evaluated as the expected one.
`reconcile_project_subsystems` folds the ledger to the pending associations, asks
`TaskService` and `DecisionService` whether the entity exists, and appends the
answer. A note mutation runs `sync_vault_atomically` inside its file transaction,
and searches resolve the pointer that it moves. Asynchronous callers reach all
of it through the slots of `run_blocking`.

## 2. Modules

    EventLog  <------ ProjectEventStore <---- MCProjectEventStore
    (refined by)              ^-------------- ProjectEventStoreProofs
    AtomicStore <---- TaskStore <------------ MCTaskStore
    (refined by)       ^     ^--- TaskService <-- MCTaskService
          TaskStoreProofs <---------- ^-- TaskServiceProofs
    SingleTransfer <--- InfraBroker <-------- MCInfraBroker
    (refined by)              ^-------------- InfraBrokerProofs
    GenerationIndex <-- MCGenerationIndex
          ^------------ GenerationIndexProofs
    AssociationSaga <-- MCAssociationSaga
          ^------------ AssociationSagaProofs
    Governance <------- GovernedState <------ MCGovernedState
                              ^-------------- GovernedStateProofs
    LockHierarchy <---- BlockingPool <------- MCBlockingPool
                              ^-------------- PoolLocksProofs

Each component module declares its CONSTANTS with assumptions, its variables,
`Init`, one action per step at which the disk or a shared lock changes, `Next`,
`Spec`, then its properties. Definitions named `...` with the comment "Mutant:"
are never used by a specification; each is a plausible bug, and replacing the
definition that follows it by the mutant makes a property fail.

**ProjectEventStore.** The files are one sequence `ledger` of complete lines,
`archives` (where each partition ends), `active` (does `events.jsonl` exist) and
`tail`: what follows the last newline, either nothing, bytes that do not parse
(`Torn`), or a whole record without its newline. The last case matters because
`verify` and replay accept such a record and `recover_torn_tail` cuts it off.
Writing a line is two steps (`BeginLine`, `EndLine`), so a fault or an unlocked
reader finds each of the three. A repair is `RecoverTruncate` (the `O_TRUNC`)
followed by the rewriting of the kept lines. A call is a process going from
`idle` through `wait` (lock), its entry point (`recover`, `rotate` or `read`),
`check`, `write` and `ret` back to `idle`; `Refused` collects the error exits in
the order-independent form they have (all of them leave the disk alone). A hash
is the serial number of its event, which is SHA-256 taken as collision free.
`Content` is the ledger or, during a repair, the lines being put back: the
refinement mapping to `EventLog`.

**TaskStore.** `file` holds the canonical files, `tx` the transaction directories
(manifest stage, presence of backups, declared files, images before and after),
`mem` what a `TaskStore` object remembers (`_recovered`, `_recovery_blocked`),
`job` the local variables of the running call. `truth` is the content after the
last commit: it is what the abstract `AtomicStore` sees, and no action reads it.
Every write of a transaction, every file of a rollback and every removal of
`rmtree` (in any order) is a step. `LongLived` names the objects that are used
for several outermost `lock()` blocks; in the code's services an object serves
one call. An interrupt (`KeyboardInterrupt`) strikes where a call waits for the
`flock`, recovers, prepares, writes its body, rolls back or removes its directory
(`WaitInterrupted`, `RecoverInterrupted`, `PrepareFails`, `Interrupt`, `CleanFails`). A recovery that is interrupted leaves the `flock`
held: `except Exception` (`core/task_store.py:223`) does not see it, and the
depth is not counted yet. The lock goes with an object that is dropped, and
stays for good with one that is kept.

**TaskService** gives the plans. It extends `TaskStore`, replaces its `Begin` of
an arbitrary plan by `StartWriting` with the files and images of `create_task`,
`transition_task`, `create_decision` and `resolve_decision`, and adds the unlocked
`ReadTask` and the clock (`Expire`). `Moves` is `VALID_TRANSITIONS`. `seen` is the
snapshot a caller has read and of which task. `ServiceFiles`, `ServiceImages` and
`ServiceCommands` say which paths, contents and calls there are.

**InfraBroker** models the admission of writes. `adm`, `idem`, `use`, `run` and
`receipts` are the directories of the broker's state, `remote` what the receiver
has of each content, `job` the local variables of a request and `pc` where it is
in `_admit_and_execute` (or in the rollback that precedes it, or in
`_resolve_verified_run`). A run is named by its content, so "the same run" is
"the same content". The number of a call is its owner token, which in the code is
random. Each step is one write, or the reads between two writes; requests of
other threads and daemons come in between, and `Stop` ends a request anywhere,
with everything it has written left as it is. A prepared admission can be stale
at any time; `Expires` says what that implies for the request it belongs to (see
`ClocksAgree` below). `begun` and `answered` record what was sent and what callers
were told; no action reads them. A dry run passes, fails at the receiver, or is
blocked on the way; in the last case the run record names a receipt that
`_load_run_record` does not take (`Legible`), and whatever loads the record is
refused. **SingleTransfer** is what `REPLICATE` promises,
without files, tokens or attempts: `Send` a content on a run, a key and a one-time
approval that no transfer had before, `Arrive`, and `Tell` a caller of a transfer
under its key that has arrived. `Sent` and `OnReceiver` map `begun` (without its
tokens) and `remote` to it.

**LockHierarchy** models threads of several processes, reentrant mutexes
(per process or per object) and file locks (per open file), acquired in two
steps, with the guard of `push_level`, the timeout of `project_lock` and the
death of a process. `Spec` nests the locks as the callers in the code do
(`Disciplined`: nobody opens a second `vault_mutation`, or a second `TaskStore`
object, inside the first). `AskTracker` is the same request without that
restriction, with the tracker's own guard alone.

**BlockingPool** puts the coroutines and worker threads of one process on top of
these locks. `call` is how far each call of `run_blocking` is, `job` its future,
`does` what each worker runs, `slots` the value of the semaphore. A worker takes
and leaves locks by the actions of `LockHierarchy` while its operation runs
(`LockStep`), in competition with a thread that is no worker and with another
process. Giving the slot back (`Finish`) and setting the result of the future
(`Deliver`) are two steps, as in the code, so a call can be cancelled in between.
`Crash` kills a process; the server starts again with an empty pool.

**AssociationSaga** keeps the saga events of a ledger in `log`, under the contract
of `EventLog` (a key that is taken returns its event, or raises if that is
another one). A run of `reconcile_project_subsystems` is `Replay` (the sequence
number it has read up to), then for each pending saga `LookUp` and `Record` or
`Raise`. Requests, other runs and the creation of the entity come in between any
two. `procs` is how many runs may overlap, in threads or processes: the guard of
the code is taken after the replay and is one per process, so it does not keep
a second run from answering with an older replay. `shared` says whether the
sagas share a correlation id.

**Governance** has no state: it is the table of the seventeen transitions with the
rules of the engine, and the replay of a ledger (`Replay`, a fold of `Apply` over its
events). A project is a record; `failed` is the number of the event at which the
replay raises. `EffectiveAuthority` is what a rule may use at an event: only what
earlier evaluations recorded. Risks, issues, assumptions, dependencies and
observations are "public" events: what they record is left out, but replay builds
strict models from payloads that `append` did not look at
(`core/project_store.py:375`, `core/state_reducer.py:896`), so a public event
either fits or makes the replay raise (`Raises`).

**GovernedState** runs the state service over such a ledger, `log`, which continues
an initial one (`Base`). `task`, `journal`, `receipts`, `decision` and `answered` are the
files of the stores; a transaction writes a file (`WriteTask`, `WriteDecision`), then
the rest (`WriteRest`), then commits or is undone. A call of the service reads the
ledger in one step (`Start`) and the stores file by file while they change: what each
recorded evaluation claims, one claim after the other and the evaluations in the
order of the ledger (`Validate`); each live task; each live decision, and its receipt
in a step of its own; each task once more, and the receipt of its revision (`ReadTask`,
`ReadDecision`, `ReadAgain`, `LookUp`). `AppendEvaluation`
and `AppendOverride` insist on the head of the ledger; an override on the head that
a second verification found (`ReadHead`), though it was judged on the first reading.
`Readable` says of a moment that the ledger replays and all its evaluations bear
validation. `Write` stands for the writers of trusted and of public events.
`shown` and `approvedAt` remember which approvals have been visible; no action
reads them.

**GenerationIndex** is `sync_vault_atomically`, step by step: the transaction of the
reaper with its unlinks, inventory, building row, build, projection, comparison,
move, the transaction that moves the pointer, reading it back, retention, or the
recording of a failure. Around it `_apply_note_mutation` writes a note, publishes,
and appends its receipt, or rolls back and publishes again. `serial` says whether
callers hold the vault lock, as those of `run_vault_mutation` do, or call the
low-level function without it. A reader fingerprints the state database, asks
its cache, reads the row, verifies the file and holds the path (`rd`). `gen[g].text`
is what the index holds, `pre` the preimage of an open note transaction.

## 3. Runs

| Run | Module and cfg | Question |
|---|---|---|
| `ledger_crash` | `MCProjectEventStore`, `LedgerCrash.cfg` | two processes, all five kinds of call, kills and write errors everywhere but inside a repair's rewrite: does the ledger stay valid, free of duplicate keys, durable, and a refinement of `EventLog`? |
| `ledger_concurrent` | `LedgerVerify.cfg` | what an unlocked `verify()` may report; every call returns |
| `ledger_repair_killed` (violation) | `LedgerRepairKilled.cfg` | a kill inside the rewrite of a repair |
| `store_crash` | `MCTaskStore`, `StoreCrash.cfg` | kills at every step, errors in preparation, body, rollback and scan: does whoever gets in find exactly the committed files? |
| `store_any` | `StoreAny.cfg` | kills, errors and interrupts wherever a call waits, recovers or works, long-lived objects included: a store that met what it cannot reconcile writes nothing, and every call returns, unless an interrupted recovery has left the lock with a kept object |
| `task_crash` | `MCTaskService`, `TaskCrash.cfg` | create, transition, complete, decide and resolve, retry, with kills, errors and an expiring clock: snapshot, journal, receipts, answers and revisions agree |
| `pool_locks` | `MCBlockingPool`, `PoolLocks.cfg` | cancelled calls, workers inside nested locks, rivals in and outside the process, kills: exclusion, no deadlock, no slot lost, truthful outcomes |
| `broker` | `MCInfraBroker`, `Broker.cfg` | two requests at a time, two contents, two keys, one one-time approval, stopped anywhere: is anything sent twice, counted as sent when it is not, or answered to a key that did not send it? |
| `index_publish` | `MCGenerationIndex`, `IndexPublish.cfg` | two publishers, with the vault lock or without, killed or failing, slow enough to be reaped, and a reader with a cache |
| `index_retention_fails` (violation) | `IndexRetention.cfg` | an SQLite error in the retention that follows a publication |
| `association_saga` | `MCAssociationSaga`, `Saga.cfg` | a task and a decision requested, retried, associated and failed by overlapping runs that are killed |
| `governance` | `MCGovernedState`, `Governed.cfg` | a project that is about to be closed: evaluations and overrides by the service, while tasks and decisions are written, rolled back and expire, phases, roles and associations change, and somebody appends a public event that replay will refuse |

The properties, by what could go wrong:

* `LedgerVerifies`, `OneEventPerKey`, `AckedDurable`, `VerifiedReadLasts`,
  `ImplementsLog`: whatever was killed and retried, the chain verifies, a key has
  one event, what a caller was told stays. `GovernedOnEvaluatedHead`: a governed
  append lands directly behind the head its caller evaluated.
* `VerifyNeverInvents`: `verify` may miss events or fail, but never certifies a
  chain the ledger does not have. Like `VerifiedReadLasts` it excepts a last record
  only if that was read without its newline (`Complete`).
* `OpensOnCommitted`, `CommittedSettles`, `ImplementsAtomicStore`: after recovery
  the files are those of the last commit, all or nothing; a committed directory
  is never taken for a mixed one. `FailsClosed`: a store that stopped writes nothing.
  `CallsReturn` of the stores has one exception, `LockLeaked`: for ever, a kept object
  that is not in a call holds the `flock`.
* `SnapshotFollowsJournal`, `ReceiptsMatch`, `OneEffectPerKey`, `AnsweredIsKept`,
  `AppliesToSeen`, `DecidedOnItsRevision`: the files of a task and of a decision
  agree, a retry has one effect, a compare-and-swap applies to the state its
  caller read.
* `AtMostOneTransfer`: the effect happens at most once for a content, a key and a
  one-time approval. `TransferIsFenced`: the reservation of the run and the
  idempotency record carry the token of whoever sends, and while that record is in
  progress its started admission is there, from which `VERIFY` resolves the run if
  the sender dies. `DoneIsSent`: a run counts as
  replicated, and `OK` is answered, only for what the receiver has in full and a
  receipt is kept of. `DryRunFirst`: the dry run that allows a write has its
  receipt. `ImplementsSingleTransfer`: all steps together look like one transfer
  of each content that arrives once, and an answer, which may be replayed from a
  record that a `VERIFY` of somebody else has completed, names a run that the very
  key of the caller has delivered.
* `PointerReadable`: the pointer names a ready generation whose file is there, so
  searches and the next build can start. `HeldFileStays`: a path that a request
  has resolved stays openable until, since it began, `Retain` further publications.
  `ResolvesWithinCall`: an answer, from the cache or not, was true at some time
  during the call. `PublishesOneSnapshot`: rows and projection of a published
  index come from one state of the notes, although they are read in several
  scans. `NoteAndIndexAgree`: the index serves a mutation that succeeded and does
  not serve one that was rolled back.
* `AttemptsHonoured`: no association fails before `max_attempts` requests, and
  reconcilers add fewer than that, also from stale replays. `OneOutcome`: runs in
  sequence record one outcome per request, although `associated` and `failed`
  have different idempotency keys. `EverySagaEnds`: no request stays open.
* `ClosedIsFinished`: of a project that can be rebuilt, a closing is true of the
  stores, whether its gate was overridden or not, though it looked only at views
  recorded before, read without locks, perhaps of a transaction that was undone.
  Decisions seen as rejected are excepted (see 4).
  `ApprovedBeforehand`: a transition that needs an approval names a decision that was
  approved in its store, receipt and all, at some moment before the transition was
  appended, and that is so now if the project can be rebuilt. `OnlyTasklessFail`: the
  first event that replay refuses is a phase change, a public event that does not fit, or
  the one kind of evaluation that the service passes and replay does not (see 4).
  `OverridesTakeEffect`: an override that was answered waives its gate in every
  replay, unless an event appended while it was judged took away what it was granted
  on (`TakesFrom`: a second Accountable, the actor's role or the Accountable revoked,
  the approving decision disassociated).
* `Exclusive`, `NoDeadlock`: the locks, with workers of the pool inside them.
  `SlotsAccounted`: free slots and admitted operations add up to the size of the
  pool. `TruthfulOutcome`: a mutation whose caller was cancelled still reports what
  it did. `CallsReturn`: liveness of lock and call.

### Bounds

| Bound | Value | Why it is enough |
|---|---|---|
| `Procs`, `Stores` | 2 | locks are exclusive, so a third process only adds another waiter; the interesting overlap is one holder (or its remains) and one newcomer. `LockHierarchy` has three threads in two processes, the least with a same-process and a cross-process rival at once |
| `MaxCalls` | 3 | first attempt, something in between (rotation, import, other writer), retry |
| `MaxFaults` | 1 to 3 | the run of `TaskStore` allows a kill in a transaction, a kill in its recovery and one more; ledger: a torn write and a kill after its repair |
| `MaxTx` | 3 to 4 | two transactions that overlap on disk and one after recovery; the task run needs create, two moves (or a decision) and a retry |
| `MaxAttempts` of the broker | 4 | dry run, first attempt, retry or rival, and a rollback or a verification; two contents need two dry runs and a write each |
| `Workers`, `Runs`, `Keys` of the broker | 2 each | a rival, another content under the same approval, another key for the same content; workers and contents are symmetric |
| `MaxRevision` | 3 | completion after a move after creation |
| `CheckpointEvery` | 2 (5 in the code) | so that a checkpoint is written within three revisions |
| keys, ids, bodies | 2, 3, 2 | same key same body, same key other body, explicit id, deterministic id |
| files of a store | 2 | partially written is one of two |
| `MaxGens`, `Retain` | 3, 2 (as in the code) | two generations that are kept and one that pushes the oldest out, or is failed, reaped or superseded between them |
| `Versions`, `MaxFaults`, `MaxEdits` of the index | 2, 1, 1 with the lock and none without | notes before and after; one kill or error at each step; one foreign edit between any two scans |
| `Sagas`, `MaxProcs`, `MaxAttempts`, `MaxRequests`, `MaxStops` of the saga | 2, 2, 2 (3 in the code), 2, 1 | a task and a decision under one correlation id; a retry before the failure; a second request after an outcome; a killed run |
| `MaxEvents`, `Procs`, `MaxRevision` of the governance | 3, 1, 2 | an evaluation, the closing, and one event before, between or after; the rivals of the one caller are the trusted writers and the stores |
| `Tasks`, `Decisions` of the governance | 2, 2 | a finished task and one that may join, an old approval and a pending decision |
| `Writes`, `Calls`, `Ends` of the governance | 6 events, 3 calls, completed | one event of each kind that can come between reading and appending; evaluations by evidence, overrides by the Accountable and by an approval. Canceled tasks differ in nothing but a missing receipt |
| `Workers`, `Calls` of the pool, `MaxDepth` | 1, 2, 3 | one slot and two calls, so that one waits; all three levels nested, or a block reentered |

`ClocksAgree` (TRUE in `broker`) says that the wall clock, by which a prepared
admission is an hour old, does not gain on the monotonic clock, by which the
deadline of its request (at most an hour, `core/infra_models.py:303`) has passed.
`DryRunRequired` is TRUE in `broker`, the stricter policy.

Deadlock is checked except in the ledger, broker, index, saga and governance runs, where the
bounded number of calls, generations or requests runs out while nobody has
anything left to do, and in `store_any`, where a kept object can come to wait for
itself while it holds the lock that everybody waits for.

### Fairness

`ledger_concurrent` assumes weak fairness of each process's own steps
(`Step(p)`): a thread that is not killed keeps running. Nothing is assumed about
the lock: `project_lock` polls until its deadline, and `LockTimeout` is enabled
as long as somebody else holds it, so a call returns even if it never wins.
`TaskStore.lock` has no timeout. `LiveSpec` therefore needs strong fairness of
`Acquire`: the kernel queues `flock` waiters, so a lock that is released again
and again reaches each of them; `CallsReturn` says what remains true when one never
is (`LockLeaked`). `FairSpec` of `AssociationSaga` assumes weak fairness of
the reconcilers together: a run that is not killed goes on, and as long as
something is pending there is another one (ADR-PSE-008 runs reconciliation at
start, by cron or on demand). Nothing is assumed of clients, of the creation of
entities, or of which saga a run answers. Faults and new calls are never fair.

## 4. What the violation runs show

1. `recover_torn_tail` (`core/project_store.py:273`) empties the active file and
   then writes its complete lines again. A kill in between loses events that
   were acknowledged, although the same function's comment promises a truncation
   to the last newline.
2. `_publish` (`core/generation_index.py:720`) suppresses only `OSError` from the
   retention, although its comment says that a failing retention "must never roll
   back or invalidate the pointer". An `sqlite3.Error` there (a locked or full state
   database) ends in `_record_failure`, which marks the generation failed that the
   pointer names; searches and syncs raise from then on.

Behaviour outside the assumptions of the passing runs, met while modelling and
not given a run of its own:

* ledger: `read_verified_replay` (`core/project_store.py:588`) does not repair the
  active file, although `artifacts/project-state/phase-2/ledger_format.md:131` has it
  repaired "for read or append". A last record whose newline was never written is
  certified and returned, and the next append cuts it off; `VerifiedReadLasts`
  excepts exactly that record.
* ledger: `rotate` (`core/project_store.py:767`) archives a torn tail as it is;
  every later append is then refused. An explicit `event_id` that equals the
  deterministic id of a later key stores a duplicate id (`:533`). `verify` (`:619`) lists the files and reads them without the lock: when the
  active file is rotated in between it reads the old archives and the new empty
  file and reports a valid chain without acknowledged events.
* store: `_transaction_locked` (`core/task_store.py:762`) creates the directory before
  the manifest. A kill or an exception in between (a file over 10 MB, a full disk)
  leaves a directory that makes every later store refuse the vault
  (`~mem[s].blocked` fails), although `docs/release-3.6.4.md:4` says that the next
  process reconciles automatically.
* store: `TaskStore.lock` (`core/task_store.py:216`) recovers only once per object.
  An object that has recovered works over the prepared transaction of a process
  killed later, and the next fresh object rolls its committed writes back
  (`OpensOnCommitted` fails with `LongLived` not empty); `CHANGELOG.md:192` speaks of
  the next `lock()`. The services make an object per call.
* store: a `KeyboardInterrupt` inside `recover()` (`core/task_store.py:223`) leaves the
  `flock` with an object whose lock depth is 0; if the object is kept, its next
  `lock()` waits for itself (`LockLeaked`). A `KeyboardInterrupt` in the body skips the rollback and removes the
  manifest (`core/task_store.py:805`); an `rmtree` that fails and leaves a
  prepared manifest lets a later recovery roll back over later commits (`:817`);
  a declared file that exists neither before nor after makes a committed
  directory "mixed" (`:848`); a directory fsync that fails after the committed
  manifest was renamed rolls back under a committed manifest, and a kill within
  that rollback leaves a mixed directory (`:520`).
* locks: `vault_mutation` inside `vault_mutation` (`core/mutation.py:98`), and a second
  `TaskStore` object inside the first, wait for themselves, although the tracker
  lets them through and says that reentrancy at one level is permitted
  (`core/lock_tracker.py:8`). No caller in the code nests that way; with
  `AskTracker` in place of `Ask` in `Next`, TLC refutes `NoDeadlock`.
* tasks: `get_task` (`core/task_service.py:481`) takes no lock and may return the
  snapshot of a transaction that is rolled back later; a revision read that way
  can match a different state. `AppliesToSeen` speaks of other reads.
* broker: a dry run that is blocked by the network, the host key, the runtime or a
  limit writes the id of its block receipt into the run record
  (`core/infra_broker.py:1836`), which no operation can load from then on (`:2750`).
  If a transfer of the same content had been interrupted, the `VERIFY` that has to
  resolve it (`:4649`) answers "run-not-found", for good; a write under way cannot
  record its end. The model refuses such records as the code does (`Legible`);
  nothing is sent twice by it.
* broker: `_prepare_admission` (`core/infra_broker.py:4064`) gives a prepared
  admission the token of a retry before the retry takes over the idempotency
  record, the approval marker and the reservation of the run. If the retry stops
  in between, the rollback of the stale admission (`:3788`, `:3833`, `:3853`) finds
  claims with the older token, leaves them and removes the admission. From then on
  the key answers `UNKNOWN_COMPLETION`, and a run that was reserved cannot be
  released, resumed or verified. Nothing is sent twice.
* broker: a writer that stops between its run record and its idempotency record
  (`core/infra_broker.py:1886`) leaves a record in progress, which the next `VERIFY`
  completes with a receipt of its own (`:3288`), while the run keeps the receipt of
  the writer. A replay compares the two (`:1483`) and answers `UNKNOWN_COMPLETION`
  for good, though the run is replicated. The other way round, a `VERIFY` that
  resolves the run while its writer is about to record it has the same effect. The
  runs check no property about replays.
* broker: `VERIFY` completes an idempotency record when its token is that of the
  admission it resolves (`core/infra_broker.py:3218`, `:4340`); the run is not
  compared. A retry under the same key that names another content can therefore
  find its record completed for the first one while it sends, hence the condition
  "in progress" in `TransferIsFenced`. It still sends once, and what is answered
  for its run is true.
* broker: if the wall clock does gain on the monotonic clock (a suspended machine,
  a clock step) and a rollback fails between releasing the run (`:3791`) and
  removing the admission (`:3856`), the old request can still start: the content is
  then sent by it and by a request under another key. `ClocksAgree = FALSE` shows
  this; removing the admission first would prevent it.
* index: without the vault lock, a reaper that is killed between its unlinks and its
  commit (`core/generation_index.py:610`) leaves a building row without a file. A slow
  publisher that has moved its file activates it: the pointer then names a
  generation that is gone, in spite of the comment "never delete artifacts for a
  generation that may be active" (`:605`). `Published` leaves that kill out.
* index: a clock that steps back (`:630`) makes the newest
  generation the oldest, and retention removes the file the pointer names. Two
  edits by other programs that take a note back to what the inventory has recorded
  pass the comparison of the build, and so does an edit followed by the rollback of a
  killed mutation; `Edit` and `RecoverElsewhere` leave them out. A build that fails
  after its move leaves its file in `generations/` for good. A publisher without
  the lock can activate a snapshot older than the active one. A kill of a note
  mutation between the publication and its receipt leaves the note in the index
  until the next sync, though the note itself is rolled back; an edit that keeps
  the modification time is not seen (`core/index_sync.py:190`).
* saga: the key of a retry (`core/project_ingestion.py:1212`) names the correlation
  id and the attempt, but not the task or decision. With a shared correlation id
  the second saga's retry conflicts with the first one's, the append raises, and
  every later run raises there too, before the sagas behind it; hence `~shared` in
  `Orderly`. The payload of a failure holds the number of attempts (`:1246`) under a
  key that does not, so a saga that failed, was requested again and fails again
  raises in every run; hence one request per saga. A run with an old replay can
  append a retry after another run's `associated`: the saga is pending again, and
  the next `associated` is found under its key and not appended, so it stays
  pending; the same overlap can record both outcomes. Hence `procs = 1` in
  `OneOutcome` and `Orderly`. An exception of `get_task` counts as absence (`:1184`).
* governance: `append_governance_evaluation` (`core/state_service.py:625`) passes the
  Definition of Done of a project without tasks, by evidence alone, and appends it;
  replay then raises "lacks canonical task views" (`core/state_reducer.py:617`), and no
  later event makes the project readable again. `OnlyTasklessFail` names this case.
* governance: the service reads tasks and decisions without a lock
  (`core/state_service.py:236`). An evaluation that has seen a transaction which is
  then undone makes the project unreadable ("not a canonical TaskStore snapshot")
  until the same change is made again; `ClosedIsFinished` speaks of readable projects.
  A rejection that was undone is not validated and may carry a closing. An approval
  that was undone when the transition was appended, and is given again later, has the
  same receipt and is accepted: `ApprovedBeforehand` says "at some moment
  before". A task that is completed twice has a receipt of an
  older revision in its view, which the validation refuses (`:313`).
* governance: anyone may append a public event, and `append` accepts any payload
  (`core/project_store.py:375`). One that does not fit the model of its entity makes
  replay raise a validation error (`core/state_reducer.py:896`, `:987`, `:1058`, `:1143`),
  and no later event makes the project readable again.
* governance: an override is judged on the first reading and appended on the head of
  a second (`core/state_service.py:691`). A change of roles in between makes replay
  ignore an override that was answered. An approval is not bound to a transition:
  the one that started a project can also close it while it stays associated.
* locks: levels 1 and 2 wait without the timeout that
  `artifacts/project-state/phase-1/ADR-PSE-007` asks of all levels.

## 5. Proofs

All proofs are checked by TLAPS for arbitrary values of the constants, from the
named ASSUMEs of the module alone (bounds are naturals, sentinels are not
members of the sets they extend, an initial ledger replays, ...) and, where it is said, from one of these
conditions. Each is satisfied by the constants of the passing run that checks the
property.

| Condition | Says | Why the code meets it, and where not |
|---|---|---|
| `RepairIsUninterrupted` | nothing is killed and no write fails between `O_TRUNC` and the last rewritten line of `recover_torn_tail` | it does not: run `ledger_repair_killed` is the counterexample. The theorems say that this window is the only one |
| `IdsAreApart` | fresh ids, ids derived from keys and ids that callers make up do not collide, unless the caller gives the key with the id | fresh ids hold a random part, derived ones a digest of the key; a caller can still name a derived one (`core/project_store.py:533`, section 4) |
| `Faithful` | a `TaskStore` object serves one outermost `lock()`; the removal of a directory stops only with its process; no `KeyboardInterrupt` skips a rollback | services make an object per call. The rest are the hazards at `core/task_store.py:216` and `:806`, which `store_any` explores |
| `PlansDeclare` | a transaction writes files it has declared, each once | convention of the callers of `_transaction`, nothing enforces it; proved of the plans of the task and decision services |
| `PlansWriteAll` | a transaction writes every file it declares, and there is one | so do those plans; what happens otherwise is the hazard at `:848` |
| `ImagesSuffice` | `Images` holds what the services write | a parameter of the model, not of the code |
| `ClocksAgree` | see "Bounds" | the hazard at `core/infra_broker.py:3791` |
| `PublicationStands` | no error strikes between the commit of the pointer and the return but in the receipt of a note or an unlink; without the vault lock no reaper stops between its first unlink and its commit | it does not: run `index_retention_fails` is the counterexample to the first part, the killed reaper of section 4 to the second. Kills, with the lock, are allowed at every step |

**ProjectEventStoreProofs**

* `TypeCorrect`: `Spec => []TypeOK`.
* `LockExcludes`: `Spec => []LockExclusive`.
* `ChainNeverBreaks`: the sequence numbers have no gap and each event carries the
  uid of the one before, in `ledger` and in `Content`, also when repairs are
  killed. The inductive invariant `BaseInv` adds to `Linked(ledger)`: only the
  holder of the lock is past it (`LockExclusive`); what a process rewrites or
  writes extends the ledger and is linked itself, and an unfinished line is the
  next one of it (`WriterInv`); otherwise a tail without newline continues the
  chain (`TailInv`); partitions end within the ledger (`PartitionInv`). Without
  `WriterInv`, `EndLine` could append anything.
* `HistoryIsAppendOnly`, under `RepairIsUninterrupted`:
  `[][IsPrefixOf(Content, Content')]_vars`, which is the step of `EventLog`.
* `AckedNeverLost`: under the same condition, `Spec => []AckedDurable`. `DurableInv`
  adds to `BaseInv` that the pending result of a process is in what it writes
  and, when it returns, in the content (`ResultInv`).
* `KeysAreStoredOnce`: `Spec => []OneEventPerKey`, also when repairs are killed. What
  can be read after a step could be read before it or was about to be written,
  and what is about to be written is what could be read with the events of one
  call behind it (`LinesComeFrom`). So a property of sequences that passes to
  prefixes is invariant if the calls that build events keep it; that keys occur
  once is one (`KeysInv`).
* `LedgerAlwaysVerifies`, under `IdsAreApart`: `Spec => []LedgerVerifies`, by the same
  argument with the property that ids differ and derived ids go with their keys
  (`IdsInv`).
* `CertifiedReadsLast` and `UnlockedVerifyIsSound`, under `RepairIsUninterrupted`. What a
  reader certified is in the content at its place, but for a last record that was
  read without its newline (`ReaderInv`), and stays there because the content is
  append-only. A verifier
  without the lock reads partitions, which never change, and then an active file
  that may be a newer one: if the two do not continue each other the chain is
  broken and it certifies nothing.
* `GovernedFollowsEvaluatedHead`: `Spec => GovernedOnEvaluatedHead`. From the check of
  the head to the write the lock is held (`GovernedInv`).
* `LedgerIsALog`, under `RepairIsUninterrupted`: `Spec => ImplementsLog`, the refinement
  of `EventLog`, each step of which extends the log by one linked event with a new key,
  or acknowledges events that are in it. The lemma is that a step extends `Content`
  by one event at most (`ContentByOne`).

**TaskStoreProofs**

* `TypeCorrect` and `BlockedStoresStop` (`[]FailsClosed`), without any condition:
  long-lived objects, interrupts and failing removals included.
* `StoresOpenOnCommitted`, under `Faithful` and `PlansDeclare`: `Spec => []OpensOnCommitted`.
  A store opens only when no directory is left (`StoreInv`), so that there is at
  most one, that of the last transaction. Its manifest says how the files may
  differ from the committed content (`DiskInv`): not at all without a manifest, by
  a part of its own writes when it is prepared, not at all again when it is
  committed. Rollback in any order, recovery by another store and the removal of
  the directory keep that wherever a process dies.
* `StoreIsAtomic`, under the same: `Spec => ImplementsAtomicStore`. Every step applies
  one whole plan to the committed content or leaves it alone.
* `CommittedAreRecognised`, with `PlansWriteAll`: `Spec => []CommittedSettles`. The
  committed manifest names at least one file and has a digest for each
  (`DigestsKnown`), and the files are in place (`DiskInv`), so that recovery finds the
  state after the transaction in all of them.

**TaskServiceProofs** (under `Faithful` and `ImagesSuffice`, for `ServiceSpec`)

* The properties of the plans: each turns a committed content whose files agree
  (`Fits`) into another such, extends journals, and resolves a decision only at its
  revision (`Serves`); it declares what it writes (`Runnable`), so that the results
  of `TaskStoreProofs` hold of `ServiceSpec`. `PlanInv` says that this is still so
  when the transaction commits: the plan was made for the committed content, and the
  lock is held in between. `FileInv` says what of this holds of the files in the middle
  of a transaction or a rollback: each journal has its keys once, and a decision
  that reads pending was not resolved by a committed transaction.
* `SnapshotsFollow` (`[]SnapshotFollowsJournal`) and `ReceiptsGoWithTheirFiles`
  (`[]ReceiptsMatch`): from `Fits` of the committed content, which an opened store
  finds (`StoresOpenOnCommitted`).
* `RetriesHaveOneEffect` (`[]OneEffectPerKey`), of the journals as any reader finds
  them, at any time, from `FileInv`.
* `AnswersStay` (`[]AnsweredIsKept`): what was answered was committed (`DoneInv`), and
  committed journals only grow (`AckedInv`).
* `ResolvedAtItsRevision` (`DecidedOnItsRevision`), of every write of a transaction and
  of every restored file.
* `TransitionsApplyToSeen` (`AppliesToSeen`): a reading that was not of a transaction
  under way is an entry of the committed journal (`SeenInv`), and an entry is
  determined by its revision.

**InfraBrokerProofs**

* `TypeCorrect`, and `DryRunComesFirst` (`[]DryRunFirst`), without any condition; like all
  that follow they hold with blocked dry runs.
* `OneTransfer` (`[]AtMostOneTransfer`), `FencedTransfer` (`[]TransferIsFenced`) and
  `DoneWasSent` (`[]DoneIsSent`), under `ClocksAgree`. The inductive invariant has these
  parts. Owner tokens are unique and on no file before the admission is prepared
  (`TokenInv`). A rollback has the lock, and whoever prepared what it rolls back is
  too late to send (`LockInv`, the one use of `ClocksAgree`). What an attempt has
  claimed it keeps until it is fenced, that is its admission has another token or
  is gone, or late; and what a transfer that has begun had claimed stays spent: its
  run is reserved for it or done, the record of the key has its token, the approval
  is marked with its key (`ClaimInv`). What the files say of the receiver is so
  (`RemoteInv`). A second transfer of a run, a key or an approval would need a claim
  that is spent. `TransferIsFenced` alone is not inductive: it says nothing of the
  attempts that have claimed and not begun, nor of the rollbacks between them.
* `BrokerSendsOnce` (`Spec => ImplementsSingleTransfer`), under `ClocksAgree`. A transfer
  is a `Send`, its end (or an interruption after which the receiver has all) an
  `Arrive`, the last step of a writer or of a replay a `Tell`; every other step leaves
  the three alone. For the answers one more invariant is needed (`PaidInv`): the
  receipt in the record of a run that is done names the key whose transfer sent it.
  A writer puts in its own; `VERIFY` the key of the reservation, which is still that
  of the transfer since nobody else could take the run over (`RunSpent`). A record
  that reconciliation has completed for a key that did not send has a receipt other
  than that of its run, and the comparison in the replay refuses it.

**GenerationIndexProofs** (under `PublicationStands`, for any set of deployments)

* `TypeCorrect` and `PointerStands` (`[]PointerReadable`). Whoever builds has a generation
  of its own that was never active (`OwnInv`, `OwnersDiffer`); what a reaper has claimed
  is still building and what the retention has claimed has been followed by `Retain`
  others, as long as the transaction of the claim runs (`SweepInv`); and a build whose
  row is still "building" when its file was moved has that file, or a reaper that
  will revoke it has not committed yet (`CommitInv`). With the vault lock one caller
  works at a time (`ModeInv`), which is why a killed reaper is harmless there. The
  pointer names the newest of what was ever published (`ActiveInv`). `PointerReadable`
  alone says nothing of what the next commit makes active.
* `HeldStays` (`[]HeldFileStays`): a file that is gone although it was published was
  followed by `Retain` others (`RowInv`), whose number only grows (`OneMore`), and what
  was published after a generation in the window of a request is in the window
  (`ReaderInv`).
* `ResolvedWithin` (`[]ResolvesWithinCall`): every commit of the state database changes the
  fingerprint, so a cache that is still asked holds the active generation (`ReaderInv`).
* `OneSnapshot` (`[]PublishesOneSnapshot`): what a build has read differs from its
  inventory only if the notes do (`SnapInv`); the comparison then raises.
* `NotesServed` (`[]NoteAndIndexAgree`): what the index serves at each step of a mutation,
  of the first publication and of the one that an error makes necessary (`NoteInv`),
  over `SnapInv`.

**PoolLocksProofs**, of `LockHierarchy`

* `TypeCorrect`, `LocksExclude` (`[]Exclusive`), `DeadlockFree` (`[]NoDeadlock`), for callers
  that nest as the code's do (`Spec`); with `AskTracker` for `Ask` the last is false (section 4).
  The invariant `IInv` relates the three kinds of state: who is inside a handle
  owns its mutex and its file (`MutexOwned`, `FlockOwned`, `FlockUsed`), a file is
  used through one handle (`OneHandle`), the levels a thread holds ascend and what
  it asks for is not below them (`Ascends`). Deadlock freedom follows from a
  measure: with `Height` the level (and step) of what a thread waits for, every
  wait leads to a thread that waits higher, or not at all (`WaitsClimb`); a set
  closed under waiting would have no member of greatest height. `Files` is derived
  from `Handles`; nothing is assumed to be finite but the levels.

**PoolLocksProofs**, of `BlockingPool`

* `PoolImplementsLocks`: `PoolSpec => Spec`. Every step of the pool is a step of
  the lock hierarchy or leaves it alone, so that `PoolDeadlockFree` and exclusion
  follow for the operations of the pool without a new argument.
* `SlotsAreAccounted`: `PoolSpec => []SlotsAccounted`. Inductive with `PoolInv`, which
  ties a call to its future (`CallFits`): a queued call has none, one that polls or
  joins has one that is not withdrawn, and only a mutation joins. An operation
  then enters `Admitted` once, from "none", and leaves it once, with `Finish` or with
  the withdrawal of a read that no worker has taken.
* `MutationsAreTruthful`: `PoolSpec => []TruthfulOutcome`, from the same invariant.

**AssociationSagaProofs**

* `TypeCorrect`, and `AttemptsAreHonoured`: `Spec => []AttemptsHonoured`, for any
  sagas, bounds and number of overlapping runs, with shared correlation ids or
  without. The invariant `SagaInv`: a key is in the ledger once (`KeysDiffer`); what a
  key says of its event (`KeyFits`); an event's attempt is at most the number of
  requests up to it (`AttemptsCounted`), and so is what a run has computed from its
  replay (`RunInv`). `AttemptsCounted` makes the first conjunct true although the
  run that fails a saga has read an old ledger. For the second, requests are
  mapped one to one to the keys of clients and the attempts 2 to `MaxAttempts`.
* `AnsweredOnce`: `Spec => []OneOutcome`. If runs do not overlap, a saga that a run has still
  to answer is pending in the ledger, and not only in the replay it works from
  (`AloneInv`), because only the run itself has answered anything since. Outcomes
  and what is still to come are at most as many as the requests (`Covered`).

**GovernedStateProofs** (from `GovernedStores` and `GovernedLedger`: the initial ledger
replays, and its evaluations are such as the service could have recorded with the
initial stores; the trusted writers append events of kinds that the replay knows,
and neither evaluations nor overrides)

* What the replay does. `Replay` folds `Apply` over a ledger, by a recursive function of
  the community modules that is chosen to exist; no induction theorem can be
  applied to it. `ReplayAppend` is proved from its definition once: the function
  exists (`FoldsExist`), and for a ledger and the same with one event more it agrees
  on the shorter one (`FoldsAgree`), both by climbing through a set of numbers (`Climb`,
  from the well-foundedness of `<`). The rest goes event by event. The history and the
  views of an event sequence come from the evaluations in it (`ReplayedStep`): a
  terminal task, a resolved decision or an approval in a replayed state was seen
  by one of them, and whoever moved from CLOSING to CLOSED had all of them seen.
* `GovernedInv`, the inductive invariant (TLC checked it on the instance of the run).
  Every prefix of the ledger replays to such a state (`LogReplays`); from one prefix to
  a longer one the evidence, the Accountable, the roles and the approval that an
  override needs last, unless an event in between took one away (`LogKeeps`);
  approvals and expiries that were recorded, or have been read by a caller, were and
  are so in the stores (`LogFounded`, `CallInv`; between the reading of a decision and
  that of its receipt `LooksFor` says what is being looked for); a
  terminal view in the journal of a task is the file, or the file is terminal
  whether the open transaction commits or not, and receipts of decisions say what
  the files say (`StoreInv`).
* `TypeCorrect`; `ClosedAreFinished` (`[]ClosedIsFinished`), from `GovernedInv` alone: the views
  that the replay closed on are those the reader validates.
* `ApprovedBefore` (`[]ApprovedBeforehand`): what the replay knows as approved was shown,
  and its history grows only by changes that it accepts (`ShownBeforehand`); each
  approval in the history was claimed by an evaluation, so that it stands in the
  store whenever all claims do (`ApprovedStands`).
* `OnlyTasklessFails` (`[]OnlyTasklessFail`): an evaluation that insists on the head it
  read is judged by the replay on the state it was made in (`EvaluationStands`), and
  an override never makes replay raise.
* `OverridesTake` (`[]OverridesTakeEffect`), from `LogKeeps`: what the override was allowed
  on is there when it is appended, or was taken by an event after the first reading.

`TypeOK` of `ProjectEventStore`, `TaskStore`, `InfraBroker`, `GenerationIndex`, `GovernedState`, `LockHierarchy`, `BlockingPool`
and `AssociationSaga` is proved and not a property of a run. Model-checked only:
`CallsReturn` and `EverySagaEnds`, since liveness under fairness is out of the prover's
reach, as is ENABLED. Every safety property of a passing run is proved.

## 6. Abstractions

* Bytes of a record, hash computation, schema validation of a single event and
  the text of messages are left out of the ledger; `append` does not validate
  payloads, and what that means for replay is in `Governance` (`Raises`).
* Interrupts strike in the operations of the store that may take long (waiting,
  reading and writing files), not between two statements of `lock()` itself.
* `os.replace` of a fully written and fsynced temporary file is one step; power
  loss (as opposed to a killed process) is not modelled.
* Corruption of files by others, symbolic links and permission checks are not
  modelled.
* The thread lock and the `flock` of `project_lock`, and of `TaskStore.lock`, are
  one step in the component models; `LockHierarchy` takes them apart. Releasing
  both is one step everywhere.
* `TaskService` leaves out notes, lists, the v1 migration, `delete_task` and the
  receipts that infrastructure operations hand to a transition.
* `InfraBroker`: the digest of a request is its key and approval; policy,
  credentials and host key are not state, their failures are `Stop` or `GiveUp`; a
  profile has one source root, so a transfer is one process; the slots of a
  profile, capacity limits and the cleaning of snapshots are left out. Reads
  between two writes (the idempotency record, the run and the receipt of a
  replay; record and admission in a reconciliation) are one step, except for the
  first read of the admission, which is one of its own. Receipts are never
  removed, as in the code.
* Clock values appear only as "has passed" (`late`), as any row being older than
  the lease (`ScanStale`), or as the order of publications (`done`).
* `GenerationIndex`: the notes are one value and so is what an index holds; the
  import of a database from before the generations, the refusal to lose a dense
  index and the verification of a file's schema are left out. The note
  transaction is the promise of `TaskStore` (`pre`), not its steps. Reading a row
  and opening a file are steps, SQLite statements within a transaction are not.
* `AssociationSaga`: the append is the step that `EventLog` promises; payloads are
  what tells a stored event from another (saga, attempt). Every request has the
  default limit and attempt. The attempt tracker is written and never read by a
  decision, and the derived index has no reader in production code: both are left
  out.
* `Governance`: risks, assumptions, issues, dependencies and observations are events
  that fit or do not fit; what they record, health
  flags and changes of the owner are left out, and with them the conditions on
  issues and dependency cycles; sources and actors of the other events are trusted.
  `GovernedState`: tasks are not removed; a writer puts receipt and journal on disk in
  one step, and the comparison of one claim with journal and receipt is one step;
  among files of one kind the order of reading is any, where the code goes by name;
  the live reading whose result `override_gate` discards is left out; evaluations of
  the Definition of Done name the one evidence there is; snapshots and candidate
  states are left out; the check of the head is the step that `ProjectEventStore`
  shows (`GovernedOnEvaluatedHead`).
* `BlockingPool`: polling intervals are interleaving; a worker thread runs one
  operation at a time and any waiting one may be next (the executor's queue is
  first in, first out, which no property uses).

## 7. Not modelled, and plan

Retrieval and ranking, evaluation contracts, the semantic compiler, context
contracts, domains, linter, egress and the scripts under `src/scripts` are numeric
or textual functions of immutable inputs, or calls of other programs. They keep
no state between calls and share none; a model would repeat their arithmetic or
their tables. They make up most of the lines of the repository. The command line,
the MCP server, the web UI and the application facade translate requests; what
runs at the same time is in the models of the services, the pool and the locks.

What can still be modelled, in the order of what matters most:

1. `Governance`, continued: issues and dependencies, snapshots.
2. `MigrationV1`: packets to tasks and back, decided on an unlocked read
   (`core/task_service.py:528`), deletion outside a transaction
   (`core/task_store.py:487`).
3. The deadline of a web request against its operation (`web/offload.py`), and the
   retry loop of the infra block projection (`core/application.py:1893`).
