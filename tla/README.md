# Verification of sage-wiki

TLA+ models of the parts of sage-wiki where order, concurrency and failure
decide whether data survives, the TLC runs that check them on small instances,
and TLAPS proofs of their main properties for every instance. Paths are relative
to the repository.

sage-wiki compiles a folder of source documents into a wiki (an LLM writes
summaries, concepts and articles), indexes it in SQLite, serves it (CLI, MCP,
HTTP, web) and, optionally, mirrors the workspace to an object store.

## 1. Inventory

| component | state it keeps | operations | what is hard | what makes it correct |
|---|---|---|---|---|
| **mirror shipper** `internal/mirror/{shipper,enable,wal,prune,state,localstate}.go`, `internal/serve/mirror.go` | `.sage/mirror-local.json` (generation, WAL salt and offset, last segment, db hash, pending rotation); in the bucket `mirror-state.json`, snapshots, segments, generation metas | ship pass, forced rotation, enable, final pass and quiesce at shutdown | SQLite moves under it (checkpoints, in-place WAL restart, close-fold); a pass may be killed between any two requests; a local save may lag behind a commit | the commit pointer refers only to what is uploaded; local bookkeeping never ahead of the chain; the chain restores what passes reported as shipped |
| **mirror restore** `internal/mirror/hydrate.go` | the target directory, the progress file | select a restore point; three phases; resume; replay by SQLite | a mirror that rotates and prunes during an interrupted restore; what SQLite does with a concatenation of segments | the restored workspace is one the source once had |
| mirror verify, status, objects, encryption | - | read the bucket; sync `raw/` and `wiki/` objects | object index behind the commit | as above, for files |
| **compile queue and worker** `internal/compiler/{items,worker,worker_cycle,index,coordinator,tiers}.go` | the `compile_items` table (hash, tier, pass flags, status, lease, attempts), the coordinator's semaphore, the worker's failure streak | upsert, claim, heartbeat, release, requeue; scan, tier 0/1/3 passes, promotion | leases that expire under a live holder; unfenced pass flags; edits during a pass; on-demand compiles beside the worker; a crash anywhere | one holder of a row; "done" means the current content was processed; failing work backs off and dead-letters; everything settles |
| **compile pipeline and batches** `internal/compiler/{pipeline,fullpipeline,batch_state,migrate_checkpoint,summarize,ondemand}.go` | the manifest, the summaries, two checkpoint files | compile with `--batch`, `--fresh`, `--dry-run`; submit, poll, apply, retire; migrate an old checkpoint | a batch is paid when the provider takes it; crashes and failed writes between checkpoint, strip and removal | no paid batch is lost or consumed twice; what the manifest calls compiled has its summary |
| **entity resolution** `internal/compiler/resolve_entities.go`, `internal/ontology/{aliases,derived}.go` | links, rejections and proposals; edges derived through links | pass, sweep, apply, reject, unlink | decisions during a pass; chains; order of links | rejected pairs are never unified; after a sweep the graph is what the links say |
| **manifest** `internal/manifest` | `.manifest.json`, its lock file | mutate, merge-save under the lock | stale takeover, lost update | no concurrent writer's change is lost |
| **serve jobs** `internal/serve/jobs.go` | the job ledger (append-only file), the in-memory jobs, the wake channel | submit, transition, recover, drain, stop | crash between append and memory; stop against wake | every accepted job is started at most once and keeps its verdict |
| **HTTP API jobs and writes** `internal/api/{jobs,handlers_jobs,idempotency}.go` | the job store, the idempotency store | start, cancel, evict; lead, follow, replay | lookup and store are two steps; cancel against completion | one compile at a time; one dispatch for a key |
| **event bus, webhooks** `pkg/events`, `internal/serve/webhooks.go` | the buffer, the drop counters, pending deliveries | emit, deliver, retry, close | emit against close, a full buffer | every event is delivered in order or counted |
| **workspace manager, serve assembly** `pkg/engine/manager.go`, `internal/serve/{stack,multi,server}.go` | open engines, LRU order, stacks with reference counts | open, evict, close idle, close; acquire, assemble, release, shut down | two of them at once | a stack in use is up; compiles run under the workspace's lock; no engine is left behind |
| **auth** `internal/auth` | credential file and its lock, the keychain | login, logout, refresh, migrate | read-modify-write across processes, a token that is used once | what is stored is honoured by the provider |
| **packs** `internal/pack`, `cmd/sage-wiki/pack_cmd.go` | project files, pack state, snapshots | apply, update, remove | failures and crashes among files that the user edits | the user's text survives |
| **outputs and trust** `internal/trust`, `cmd/sage-wiki/trust_cmd.go` | `pending_outputs`, confirmations, the search stores | file, confirm, verify, promote, demote, reject, resolve | multi-step promotion over several stores and minutes of model calls | a search shows only what earned it |
| storage, search, graph, memory, vectors, LLM and embedding clients, MCP, TUI, web, hub, linter, extract, scribe, prompts, config | SQL rows, files | queries, parsing, rendering | sequential, or external | not modelled (section 9) |

### How they interact

The CLI, the MCP server and the HTTP API call the engine; `serve` assembles per
workspace one engine, one worker, one job queue, one event bus and one shipper.
The worker, the watcher and on-demand compiles share the compile coordinator (a
semaphore inside one process) and the `compile_items` table (shared by every
process on the workspace). A compile ends in a manifest merge-save under a lock
file. The shipper reads the database *files* from outside: it shares nothing
with the application but SQLite's locks, and its own passes exclude each other
by the ship-mutex (an flock).

## 2. Plan

The most damaging failures first. Done:

1. `MirrorShip`, `CommitPointer`, `MirrorRestore` (section 3) - the mirror; proved.
2. `CompileQueue` (section 4) - the queue and its workers; proved.
3. `JobLedger`, `ServeHost` (section 5) - the jobs of the serve process, and the
   server that assembles and evicts workspaces around them.
4. `ApiJobs`, `IdemStore`, `EventBus`, `TrustOutputs` (section 6) - services of the
   serve process, one run.
5. `ManifestFile`, `AuthStore`, `MirrorHydrate`, `PackState`, `BatchCompile`,
   `EntityAliases` (section 7) - what is on disk between two commands, one run.

Left, in this order: `MirrorObjects` (the sync of documents, composed with
`MirrorShip` over one bucket), `reconcile` and the watcher (`internal/wiki`,
`watch.go`) beside the queue, the caches of `internal/vectors`. Abstract
specifications still to state: the queue as a set of (source, version) that are
due, processed or dead-lettered; the manifest's lock as a mutex with an owner.
Of the properties that the passing runs check, all but the two liveness properties are
theorems.

Each component has constants for its **hypotheses**: a set of races or faults the
code does not exclude (`HostRaces`, `TrustRaces`, `BatchRaces`, ...). The runs take
the set empty or without the member named; every member has been seen to violate
the property it is left out for, and sections 5 to 7 list them as known
deviations. To reproduce one, add it to the constant in the run's `.cfg`.

## 3. The mirror

### Modules

* **`CommitPointer`** is the abstract promise: objects are uploaded and deleted
  at will; one pointer names the live generation and its segments; it moves by
  one segment or to the next generation, and only to objects that are there; what
  it or a retained generation's record needs is neither overwritten nor deleted.
* **`MirrorShip`** is the shipper. Every file read, save and PUT of a pass is a
  step of its own (`pc`), and the application's and SQLite's moves fall between
  them. `Begin(o)` starts a periodic pass, the drain's final pass, a
  `mirror snapshot` or `mirror enable`; then bootstrap (`Boot*`), reconciliation
  (`Reconcile*`, `Rec*`, `Realign`, `InAgreement`), the pass proper (`Pending` to
  `Unchanged`), rotation (`Rot*`) and the drain (`Quiesce*`). `L` is the
  LocalState in memory, `local` the file; `seen` the WAL identity the pass read.
* **`MirrorRestore`** adds what hydrate and SQLite's replay make of the committed
  chain (`Restored`), and two history variables: what was committed when the
  running pass began, and the largest such prefix a successful pass has promised.
  Its properties need two premises. `Attached`: the chain's first WAL begins no later
  than the snapshot ends. `OneIncarnation`: the chain is of the WAL that is there now.
* `MCMirrorShip`, `MCMirrorRestore` give the crash points and the application's
  events their values.

| code | model |
|---|---|
| `wiki.db` | `db`, the number of transactions folded into it (its hash as well) |
| `wiki.db-wal` | `wal`, a sequence of cells: a header `<<salt, 0>>`, frames `<<salt, n>>` |
| a commit of the application | `Write`: a frame more, or, once every frame is in the database (after an automatic checkpoint, or the shipper's own RESTART), the file begun again at its head under a new salt |
| `.sage/mirror-local.json` | `local`; `L` in the running pass |
| `mirror-state.json`, `gen/N/...` | `state`, `snaps`, `segs`, `metas` |
| the ship-mutex | one pass at a time: `Begin` only when `pc = "idle"` |
| a killed process, an expired drain budget, a failed or unanswered request | `Crash`, at the steps of `CrashPoints` |

### What is abstracted

A transaction is one frame and its number; an object's hash is its content. Torn
frames and headers, and the retry they cause, are left out. The debounce clock is
a choice (`Folded` defers or rotates), `ConsecutiveDefers` only chooses the
wording of a warning. The pass's copy of the state object is the object itself:
under the mutex nobody else writes it. The branch `shipper.go:271-287` cannot be
reached after `Begin`'s checks and is not modelled. Object sync and passes that
commit only documents are left to `MirrorObjects`. `Crash` before a PUT and
`Crash` after it are the two outcomes of a PUT whose answer is lost.

### Runs

No fairness is assumed: every property is a safety property. A run stops where
its bounds are used up (no more writes, generations or segments, and passes that
find nothing to do), so deadlock is not checked.

| run | instance | shows |
|---|---|---|
| `mirror_ship` | 2 writes, 3 generations, 2 segments, 2 retained; the application writes, closes and is killed; a crash at any step | types; `CommittedRefsPresent`, `RetainedGenerationsPresent`, `LocalNeverAhead` |
| `mirror_restore` | 3 writes, 2 generations, 2 segments, 2 retained; writes and closes; a crash at any step before a commit | `CommittedChainReadable`; the shipper implements `CommitPointer`; `RestoreConsistent`, `ShipCoversWrites` |
| `mirror_wedge` | a crash at any step | finding 1 |
| `mirror_loss` | 2 writes, 2 generations, 2 segments, 1 retained; only writes, no crash | finding 2 |

The bounds suffice for the cases that matter: three generations make pruning
delete one (two retained), two segments make a second segment follow a first and
a rotation's tail follow both, and two writes make a WAL restart over a
checkpointed one; a third comes after the restart. No run restrains SQLite: in each
of them a checkpoint may run at any step and the next write restarts the WAL.
`mirror_restore` excludes only the steps of `Lagging`, where finding 1 is; section 8 has
the proofs of its properties for every bound, and for an application that is killed as
well.

### Findings and known deviations

1. **A lost local save can wedge the remote** (run `mirror_wedge`). Reconciliation of a
   lost save (`shipper.go:118`) compares the WAL's salt with the saved one. While
   the saved salt is still 0, a kill between a segment's state PUT and the local
   save makes the next pass seal segment 1 again: the committed list becomes
   `[1, 1]`, which `Validate` rejects in every later pass, verify and hydrate.

2. **Adoption leaves a gap** (run `mirror_loss`). The WAL found when the saved salt is 0 is
   taken for the continuation of the snapshot (`shipper.go:320-326`). When SQLite
   restarted it in place since, or a close folded it, what the earlier one held is in the
   database file only: a restore never has it, and every pass returns success. An
   application that writes twice is enough. Without its premise `Attached`,
   `RestoreConsistent` fails on the same behaviour.

Two more are what `ShipCoversWrites` leaves out with its premise `OneIncarnation`. Both show
in the instance of `MirrorLoss.cfg`: an application that only writes, passes that are
never cut short.

3. **A benign fold hides what follows** (`shipper.go:422-428`; two writes). When the hash of the
   database shows that all was shipped, the restarted WAL is taken for the next piece of
   the chain. The chain then holds two WAL incarnations, and a replay of the concatenation
   stops at the second header: `ShipCoversWrites` without the premise is violated.
4. **Certain-idle is not certain** (`shipper.go:386`; four writes). The pass compares file
   sizes; a restart in place does not shrink the file, and after a benign fold has adopted it
   at that size, new frames are written over old ones without growth. A pass then returns as
   certain-idle although no segment has them (`CertainIdle` at `classify`, with a frame of the
   WAL above the snapshot that was committed before `began` and is not in `HydratedWal`).

## 4. The compile queue

### Modules

**`CompileQueue`** models the table, one worker per process, and the on-demand
compiles of the same process; processes share the table and the manifest.
`MCCompileQueue` names the instances: `note`, a source of tier 1 (or 0), and
`paper`, one of tier 3.

| code | model |
|---|---|
| a `compile_items` row | `row[s]`: hash, tier, pass flags, status, lease owner, lapsed or not, attempts, error count, hot (hits at the threshold) |
| `.manifest.json`, and the cycle's copy | `manifest`; `ours[w]`, what the copy changed |
| full text, chunk vectors, summary entry | `raw`, `vec`, `summary`: the version each was made of |
| a step of `processCycle` | `pc[w]`: `upsert`, `claim1`, `claim3`, `index0`, `index1`, `embed`, `llm`, `mark`, `release`; then `again` or `idle` |
| `claimed`, `errored`, `readFailed` | `claims[w]`, `errored[w]`, `unread[w]` |
| the coordinator's semaphore | `Compiling(w)` |
| the worker's token | `w`; after a crash the rows it held belong to `Gone` |
| a lease's clock | `Expire`, `Stall` lapse a lease; `Heartbeat` renews it |

Every SQL transaction is one action (`Upsert`, `Claim`, `Index`, `Release`, ...).
Reading a file and applying what was read are two (`Read`, then the pass), and so
are the summaries' entry into the index and the marking of the row (`Summarize`,
then `Complete` or `Incomplete`). Between any two of them other processes, edits,
hits, requests, lapses and crashes may come.

### What is abstracted

Version `v` of a source is its content and its hash. The three LLM passes are one,
`written`; what they write besides the summary is left out. Claim order and scan
order are fixed (`ORDER BY source_path`); the order of the releases, a map
iteration in the code, is free, and so is which tier's snapshot `claimedItemFor`
meets. Sleeping between cycles is not modelled: a worker may begin at any time.
Left out: removed sources, tier 2, workspaces without an embedder, `ClaimLimit`,
auto-demotion, the veto of a pending batch, compile keys, and a failed
`MarkPass`, which the code only logs.

### Runs

| run | instance | shows |
|---|---|---|
| `queue_fleet` | 2 processes (symmetric), 1 source of tier 0, 2 attempts, 1 edit, 2 faults out of crash and stall | `TypeOK`, `HolderOwns`, `DeadLettersStay` |
| `queue_settles` | 1 process, 1 source of tier 3 with on-demand compiles, 1 edit, 1 request, any 1 fault | `SettledMeansCurrent`, `DeadLetterOnlyAfterBudget`, and, with fairness, `Settles` |
| `queue_tiers` | 1 process, a source of tier 1 that queries promote and one of tier 3; 1 edit, 1 request, a failed claim | `SettledMeansCurrent` for items claimed for several tiers |

Two processes and two faults give a stale holder whose row was claimed by another
and lapsed again; two attempts tell a retry from a dead letter, and an edit between
them tells a fresh budget from an old one; one edit may fall before or after every
read, mark and save. `MaxErrs` bounds the error count of one row between two
upserts; failures that the count does not see (panics, failed pipelines) are not
bounded. No run checks `SettledMeansCurrent` for two processes: `MarkPass` is not
fenced, and the code does not promise it.

**Fairness** is used by `queue_settles` here (and by `jobs`, section 5). Each worker takes
a step if it can (`Run` loops for ever, and no pass waits on another process); an
on-demand request that waits is answered or times out and a running one ends
(`CompileOrWait`'s context, the clients' timeouts); a lease nobody renews lapses.
Nothing is assumed of users, and of faults only that they are finitely many. The
workers do not prefer success: one that fails every time satisfies the fairness,
and the dead letter is then how a source settles. Deadlock is checked in the runs
of the queue: a worker always has a step.

### Known deviations

5. **An index pass takes an old summary for the source** (`SettledMeansCurrent` with
   `Spec`, one worker, `AllNotes`, `OnDemand {note}`, one edit, one request). The skip of
   sources that have a compiled entry does not ask which version was compiled. A
   source of default tier 1 that was compiled on demand and then edited is put back
   to tier 1, marked indexed without being read, and settles.
6. **A promotion does not survive the next scan** (`PromotedIsCompiled` with `FairSpec`,
   `Popular {note}`, no edits or faults). A source that was only indexed never enters
   the manifest, hence each scan upserts it again, with its default tier. The worker
   promotes it after each cycle and forgets the promotion before the next claim.

## 5. The jobs of the serve process

### Modules

**`JobLedger`** is the job ledger of one served workspace and the queue over it. A
member of `Queues` is one assembly (`OpenLedger` and `NewQueue`); a restart, a
reassembly after an eviction or a crash is another.

| code | model |
|---|---|
| `jobs.jsonl` | `ledger[j]`, the last status recorded of a job; `torn`, a partial line |
| `Ledger.jobs` in memory | `mem[q]` |
| the goroutine `Queue.Run` | `jpc[q]`: `opened`, `drain`, `select`, `start`, `started` or `stranded`, `gate`, `exec`, `gone` |
| wake channel, stop channel, the queue's context, the process's context | `wake`, `stopped`, `expired`, `sigterm` |
| `Stop` | `StopUnstarted`, `StopSignal`, `StopExpires`, `StopReturns` |
| an append that fails | `NotRecorded`: it left no line, its line (the fsync failed), or a part of it |
| `queueDepthAccounted`, `--max-concurrent-compiles` | `accounted`, `Gate` |

**`ServeHost`** extends it with the multi-workspace server: the engine manager
(`cache`, `recent`, `engine`: open handles hold the workspace lock), the stack
registry (`registry`, `stack` with its references and stages), requests (`req`),
the threads that close a handle (`evict`: displaced, idle, or the shutdown), and the
server's shutdown (`host`, `swept`). `Manager.Workspace`
is three steps: a look at the cache (`Workspace`), opening (`OpenWorkspace`: a lock that
another holds makes it look again, and in the end give up) and `Insert`, which closes the
new handle when another's is cached by then. That is so only after `closeAll` has closed an engine
that is cached still, for as long as one is open its lock keeps others out. `Assemble`
may fail before and after the ledger is opened. The jobs of the workspace `Home` are followed,
one `Queues` member per stack. `MCServeHost` names the symmetry of its run.

### Runs

| run | instance | shows |
|---|---|---|
| `jobs` | 2 assemblies, 2 jobs, any one of a failed append (3 kinds), a crash, a compile that outlives `Stop` | `StartedOnce`, `AcceptedIsAccounted`, `VerdictIsFinal`, and, with fairness, `PendingIsTaken` |
| `serve_host` | 2 workspaces of which 1 may be open, 2 requests, idle close, 2 stacks, 1 job | `ServedStackIsUp`, `CompilesUnderLock`, `OwnershipInv` |
| `jobs_backlog` | 1 assembly, 1 job | the finding below |

Two assemblies make a restart replay what another left; two jobs let one wait behind
the other; one open engine makes every second request evict. One fault is enough for
each case, since each is about what the next assembly finds.

**Fairness** in `jobs`: the steps of a queue's goroutine, of the submitters' wake-up
and of a running compile (`QueueStep`): a goroutine that can run does, and compiles
end. Nothing is assumed of requests, restarts and `Stop`.

### Finding and known deviations

7. **The signal starts the backlog that it should keep** (run `jobs_backlog`). SIGTERM
   cancels the queue's context before `Stop` closes the stop channel. `drainOnce`'s
   check reads only the latter, and its `select` has two ready cases: a pending job
   may be started, fail with its context, and be recorded as interrupted.
8. A `Stop` that comes before `Run`'s goroutine was scheduled does not stop it
   (`JobFaults` with `late`): it drains after the workspace lock was given up.
9. A torn line makes the next `OpenLedger` fail. After a failed fsync `Submit` reports
   an error, yet the job resumes at the next start. A start that cannot be recorded
   leaves the job running in memory until then.
10. `HostRaces`: two requests that assemble one workspace at once replay one ledger
    twice (`assembly`); a workspace evicted between the second look at its handle and
    its registration leaves a stack on a closed engine (`window`: after the
    second fetch that closes most of it, `stack.go:136-148`); `closeAll` may empty the registry under an
    eviction (`sweep`). After `closeAll` a request that outlived the listener's drain may
    register a stack on an engine that was closed with its stack and is cached still; the
    engine opened in its place has no owner once it is displaced. Only the end of the
    process closes it, hence `OwnershipInv` speaks of owners until the stacks are closed.

## 6. Services of the serve process

`MCSurfaces` explores four components that share no state, each alone; the run
`surfaces` checks them. `machine` names the one that runs.

**`ApiJobs`**: the HTTP API's in-memory jobs. A submitter looks its key up, is
admitted, and launches the goroutine (`Lookup`, `Conflict` or `Create`, `Launch`);
the goroutine begins and returns; DELETE, the deadline and eviction fall between.
`GateInv` (types, and at most one compile that nobody cancelled) and `VerdictStands`.
Two clients, three jobs, two places: the third job evicts the first.

**`IdemStore`**: writes with an `Idempotency-Key`. `Lead` dispatches, `Follow` waits,
`IdemFinish` stores the response (a panic stores a 500), evicts and wakes; entries
expire, clients hang up. `DispatchedOnce`: a key is dispatched again only after its
response was lost to expiry or eviction; `FollowersAreLed`: whoever waits, waits for
a dispatch of its own key that is under way. Three writers, two keys, one place.

**`EventBus`**: `Emit` into the ring, the pump with its records of drops, one queue and
goroutine per sink, `Subscribe` and cancel, `Close` with its budget, the hard stop,
and the webhook dispatcher behind one sink. `NothingLostSilently` (every event that was
not delivered and is no longer queued is counted as dropped, and what entered the
dispatcher's queue was posted or dead-lettered when it stopped in time)
and `DeliveredInOrder`. Ring of 1, queues of 2, two events, one record of drops: each
place overflows.

**`TrustOutputs`**: the answers of one question. Every database transaction is an
action.

| code | model |
|---|---|
| `pending_outputs`, `confirmation_sources` | `row[o]`: state, answer, confirmations, different chunk sets, grounded |
| full text, vectors, ontology, chunks | `indexed[o]`, the answer they hold |
| `ProcessOutput` | `FileNew`, `FileConflict`, `Agree`, `AgreeAndPromote` |
| `PromoteOutput` | `PromoteRead`, `PromoteIndex`, `PromoteMark` |
| `Verify` | `BeginVerify` (its list), `Ground` (one output) |
| `CheckSourceChanges`, `DemoteOutput` | `BeginCheck`, `Check`, `Deindex` |
| `outputs promote`, `resolve`, `reject`, `clean` | `PromoteByHand`, `Reject`, `Deindex`, `RejectDelete` |
| an error that the command reports, a crash | `GiveUp`, between any two steps |
| a delete in a search store that fails, which no command looks at | `Deindex` with `deleted = FALSE`, if `TrustRaces` has `"undeleted"` |

`TrustIsEarned`: what a search shows has the filed answer, and was promoted by the user
or has its grounding and its agreeing answers since the sources last changed.
`OneTrustedAnswer`: two visible answers that disagree need the user's promotion. Two
outputs, two answers, two chunk sets, threshold 2, one command at a time among any
filings; two commands at once (threshold and chunk sets 1) and three outputs pass as
well, in runs of their own that are too long to keep. Scores, comparisons and whether
the sources' hash still fits are choices; chunk sets are distinct or the same, where
the code asks for an average Jaccard distance above 0.3. Left out: the files under
`under_review/` and `outputs/` (a move that fails is a `GiveUp`) and `outputs migrate`.

### Known deviations

11. The look-up of a job's key and its store are two steps (`handlers_jobs.go:87`, `118`):
    with `KeyRace`, two requests with one key start two jobs, where
    `docs/guides/http-api.md:159-161` promises a replay.
12. Without a job runner, the error path of a cancelled job writes `failed` over it
    (`HasRunner = FALSE`).
13. On a hard stop of the multi-workspace server, bus and dispatcher share the signal's
    context, and an event handed over in between is lost uncounted. Drops recorded
    while the pump sleeps are reported with the next event only.
14. `PromoteOutput`'s last update asks for no state (`promote.go:145`): a conflict, a
    demotion or a rejection during a promotion is overridden (`TrustRaces` with
    `overlap`). A query's promotion sets `confirmed` before anything is indexed
    (`hooks.go:186`), against the comment "Mark confirmed LAST" (`promote.go:144`).
    `DeindexOutput` and `DemoteOutput` ignore the errors of the search stores
    (`promote.go:159-187`), and `RejectOutput` deletes the row all the same (`189-203`): an
    answer that stayed indexed is shown again when its id is used again and
    confirmed (`undeleted`).
15. `Verify` decides on rows it listed minutes ago (`late`). An answer whose question
    could not be embedded is compared with none (`blind`; `hooks.go:62`).
16. A stale output cannot be verified again: `Verify` lists pending ones only, and a
    manual promotion keeps the old hash, so that the next compile demotes it again.

## 7. What is on disk between two commands

`MCStores` explores six components that share no state, each alone; the run `stores`
checks them, one or two properties each. No fairness is assumed.

**`ManifestFile`**: `acquireLockOpts` with exclusive creation, the token, the takeover
of a stale lock and its settle wait; `Mutate`, `MergeSave` (three-way: `base`, `ours`,
disk), `Save`'s temporary file and rename; processes that die anywhere.
`SavesOwnChanges`: a save changes the entries its process changed and no other. Two
writers, two entries, two changes, one death (three writers pass as well). Hypothesis
`Timely`: no live process is suspended for longer than the lock's timing allows.

**`AuthStore`**: login, logout, refresh, acknowledge and migrate over file and
keychain, with the file's lock and its staleness; the provider rotates a refresh
token when it is used. `StoredTokenIsLive`. Two processes, three tokens, one fault.

**`MirrorHydrate`**: `selectRestorePoint` (live, `--generation`, `--at`), the phases
database, documents, vectors, the progress file, and resumed `--partial` runs, while
the mirror publishes, rotates and prunes. `OneRestorePoint`: what is reported valid
is of the point that was selected. Four published states, two retained generations,
three runs.

**`PackState`**: apply (merge, replace), update with its temporary snapshot and
rollback, remove, a process that dies between files, and the user's edits.
`UserTextIsKept`. Two versions with `config.yaml`, the first with a copied file that the
second drops, two edits.

**`BatchCompile`**: `compile` with and without `--batch`, `--fresh`, `--dry-run`: the
checkpoint `batch-state.json`, the older `compile-state.json` with its split, strip and
migration, submit, poll, apply, retire; the manifest's hashes and the summaries'. An
on-demand compile takes its hash from the row, which may be of an earlier content.
`PaidBatchOnRecord` (proved in section 8) and `CompiledMeansSummarized`. One source
with three versions, two batches, two crashes; one compile at a time.

**`EntityAliases`**: the links between surface forms, the edges derived from them, the
sweep that clears and replays links in the order of their ids to a fixpoint or its
cap, the pass of each compiling process (sweep, snapshot, proposals), the user's apply (its
checks, then its link), reject and unlink, and entities and relations that come and go. `RejectedStayApart` is the
"emergent invariant" of `resolve_entities.go:868-875`; `SweptGraphIsExact`: after a
sweep nothing disturbed, the derived edges are those the links give. Three entities,
one of which is deleted and comes back, a document, one edge; three passes suffice for
chains over three entities.

### Known deviations

17. Auth (`AuthRaces`): a live process that outstays the lock (`slow`), two that remove
    one stale lock (`steal`), a migration beside another operation (`migrate`), and
    processes whose probes of the keychain disagree (`mixed`) each leave a dead token.
18. Hydrate: a resumed run is pinned by `UpdatedAt`, which has whole seconds
    (`second`); a generation sealed without object maps falls back to the live ones,
    which the pin does not cover (`oldmeta`).
19. Packs: a process that dies inside a replacing first apply makes the next one
    snapshot pack content (`crash`); a merge applied again takes the user's edits of
    `config.yaml` for the pack's (`edited`); a version that drops a path loses its
    ownership, and remove deletes its snapshot (`dropped`); remove clears the snapshots
    before it saves the state (`unsaved`). Errors of putting a file back are ignored:
    `update.go:324-333` drops the ownership of an obsolete path whose text it did not write, and
    the rollbacks (`update.go:141-147`, `merge.go:177-187`) leave files as they are; the
    user's text is then in the snapshot alone, which remove deletes (`unrestored`).
20. Batches: a source that takes back a content while its batch is away keeps the other
    content's summary (`revert`); a crash between the provider's answer and the
    checkpoint loses the ID (`orphan`); `--fresh` removes checkpoints best effort
    (`kept`); an on-demand compile does not ask for a pending batch (`ondemand.go:68`),
    although `batch_state.go:302-308` says the batch owns the pipeline (`ondemand`).
    `resumeBatch` records new sources with an empty hash: the next compile does them
    again (acknowledged at `batch_resume_test.go:393-396`), hence no liveness is stated.
21. Aliases: `resolve_entities.go:1126` says the snapshot cannot go stale within the run;
    a `--reject` by another process makes it so (`decide`), and so do the links of another
    compile, since each compiling process has a pass of its own (`worker_cycle.go:288`,
    `fullpipeline.go:440-442`; `passes`). `--apply` reads the row, the rejections, the chain
    and the links one after the other, and `LinkAlias` looks at neither conflicts nor
    cycles again (`ontology_resolve.go:172-234`): two that overlap, or a `--reject` between the
    two, join what is kept apart (`overlap`). Two sweeps at once each see a false fixpoint
    (`twice`). The run has one compiling process: passes one at a time are the same from
    whichever process they come.

## 8. What is proved

Each theorem holds for every value of the constants that satisfies the module's
assumptions (`BoundsAssumption`, `QueueAssumption`, ...: kinds and lower bounds of the
constants) and the hypothesis that its statement names. Where a run takes a constant
empty for a reason of section 5, 6 or 7, the theorem has the same hypothesis as weak as the
argument allows. The proofs share one form: an effect lemma for each action says what
it does to the part of the state an invariant is about; the inductive
invariant is a conjunction of named parts; each part has a lemma with one step per
action.

**Mirror** (`MirrorShipProofs`, `MirrorRefinementProofs`, `CommitPointerProofs`)

* `TypeCorrect`: `Spec => []TypeOK`. `TypeOK` is not inductive:
  that a pass at `seal` has a generation and a segment number in range depends on
  where it came from. `TypeInv` adds `Control`, which ties `pc` to what `L` and
  `state` may hold.
* `ReferencesPresent`, `RetainedGenerationsStay`: `CommittedRefsPresent` and
  `RetainedGenerationsPresent` are inductive together with `Uploaded`: at the steps
  between an object's PUT and the commit that refers to it, the object is there.
* `BookkeepingNeverAhead`: from `BehindInv`, which says the same of the pass's copy
  `L` and names the steps at which it agrees with the committed chain.
* `ChainReadable` and `ShipperImplementsCommitPointer`
  assume `CrashPoints \cap Lagging = {}` - finding 1 shows that they fail without
  it. `InStepInv` says that outside the lagging steps the pass's segment number is
  the committed one, hence a PUT never hits a committed segment and a commit
  extends the chain by one. Each action then maps to a step of `CommitPointer` or
  to a stutter.
* `AlwaysRestorable`: the abstract specification keeps every
  object that the live generation or a retained one needs.
* `RestoresAreStates`, `ShippedIsRestorable`: `RestoreConsistent` and `ShipCoversWrites`,
  if no pass is killed between a commit and the save that records it
  (`CrashPoints \cap Lagging = {}`); whatever the application does, and however often SQLite
  restarts the WAL in place. The premises `Attached` and `OneIncarnation` are parts of the
  properties; finding 2 and deviations 3 and 4 are what becomes of them without. `ChainInv` says
  of the committed chain that its replay reaches its snapshot (`Opens`) and, as long as all of it is
  of the WAL that is there now (`Live`), that it is the head of that WAL (`Chained`), up to the
  offset that the bookkeeping names (`Recorded`); a sealed segment extends it so
  (`SealedInv`), what the pass has seen is of the WAL or of one that is gone for good (`SeenInv`),
  and a live chain covers what successful passes have promised (`Kept`). A step of
  the application moves the WAL in one of three ways: it grows, it is removed, or it begins
  again with a salt that is new (`Moves`); a chain that is live after the step was so before.
  The concatenation of the segments and its replay are the subject of lemmas on sequences.

**Queue** (`CompileQueueProofs`), for every set of sources and processes and every
kind and number of faults, unless said:

* `TypeCorrect`: `TypeOK` is inductive as it stands; it includes that a row has an
  owner exactly while it is leased, and that the LLM pipeline works only on what
  was claimed for it.
* `ClaimantHoldsItsItems`: `HolderOwns` needs `HolderInv`, which follows an item from
  the claim to its release: while the cycle is active, what it claimed and has not
  released or lost is leased to it, by a lease that did not lapse. No other action may end
  that: `Claimable` asks for the owner or a lapse, `Released` for the owner, `Requeued`
  for a lapse, and the two actions that do end it, `Lapse` and `Upsert` of new content,
  record it in `lost`.
* `DeadLettersStayDead`: from `TypeOK`, since a dead-lettered row has no owner, and
  a release without the lease changes nothing.
* `DeadLettersAreDue`, for one process (`Alone`): by `BudgetInv` the row's count, and the
  count that a cycle remembers from its claim until it releases the row, are backed by
  failed attempts at the present content. With two processes another cycle may have reset or
  charged the row in between.
* `SettledIsCurrent`, for one process and on-demand compiles of tier 3 sources only
  (`Alone`, `DemandIsForPapers`; known deviation 5 is the case left out). `CurrentInv`: a
  row names a version that was there (`HashesAreRead`); a pass flag stands for the
  row's version or a later one (`FlagsAreEarned`, `PapersAreWritten`, `TiersAreKept`); a
  cycle marks what it read after the row was hashed (`ReadsAreCurrent`, `EmbedsOnce`); an
  on-demand compile runs between two cycles and has read the row's version or a later
  one (`DemandWaits`).

**Jobs** (`JobLedgerProofs`), for every number of assemblies, jobs, compile slots
and faults:

* `TypeCorrect`, whatever the members of `JobFaults`: `LedgerTypeOK`, with the one
  strengthening that a queue past its choice of a job has one.
* if `"late"` is no member of them (deviation 8), `JobsStartOnce`, `VerdictsAreFinal`, `AcceptedJobsAreAccounted`: `StartedOnce`,
  `VerdictIsFinal` and `AcceptedIsAccounted` from one invariant, `LedgerInv`. One assembly
  serves, and one that is left over takes no job (`OneServes`); what the serving one has
  pending is pending in the file (`PendingIsFiled`); from its start to its verdict a job is
  running in the file, and no two assemblies run the same (`StartIsFiled`); the gauge
  is off by one exactly between a transition and its `Dec` (`GaugeFollows`, with the
  library's theorems on cardinality). A failed append may leave memory ahead of the
  file, never the file behind a compile that was started.

**Server** (`ServeHostProofs`)

* `ServedStacksAreUp`: whatever the members of `HostRaces`, a stack that a request works
  on is not stopped. `HostInv`: a request holds the stack that it looked
  up (`RequestsMatch`), a stack is registered from its assembly to its
  eviction (`Registered`), and its reference count is the number of requests
  that hold it (`RefsCount`, a statement about cardinality). A stack is stopped where that count
  falls to 0 after the eviction.
* `JobsFollowTheLedger`, if `HostRaces` is empty: every behaviour of the server, seen in the
  variables of `JobLedger`, is one of `LedgerSpec`. `JobLedger` opens a ledger
  only where no other assembly has it; in the server that has to be shown, since the second
  stack of a workspace may only be assembled when the first is gone.
* `ServersJobsAreSafe` follows: without `"late"`, what is proved of the ledger holds in the
  server.
* `EnginesHaveOwners`: `OwnershipInv`, if `HostRaces` is empty; no other hypothesis.
* `CompilesHoldTheLock`: `CompilesUnderLock`, if `JobFaults` has neither `"linger"` nor `"late"`
  either: a compile that outlives its `Stop` outlives the lock.

The last four rest on one invariant, `OwnInv`. `OwnershipInv` is far from inductive: that
an engine has an owner says nothing of who else may close it. `BaseInv` needs no hypothesis:
who holds a handle at which step (`HoldersInv`), that the order of use lists the
cached workspaces, each once, and no more than `MaxOpen` (`CacheFollows`, with the lemmas on
sequences it needs), that each reference to a handle means the workspace that it was opened for
(`Named`), and that one request alone knows a handle on its way into the cache (`Private`).
`Sound(n)` says of a workspace's engines, but for the races: whoever caches one, has it in an
eviction or in a teardown is the only one to do so (`CachedAlone`, `HookedAlone`, `TornAlone`),
a stack is built on the cached one (`RegistersCached`) and keeps it (`RegistryHeld`), and each
open one is owned (`Owned`). Every workspace is `Sound` until `closeAll`
(`EarlyInv`); for `Home`, whose jobs are followed, `HomeInv` goes on to the end: one assembly
at a time (`HomeAlone`), registered or on its way (`HomeLive`), and `Sound` until its stack is
among those that `closeAll` tears down. `JobsHeld` ties the job queue to its stack. The server's
steps are first reduced to twenty-two effects on these variables (`HolderSteps`), and each
part of the invariant has a lemma with one step per effect.

**Services** (`SurfaceProofs`), for any number of requests, jobs, keys, entries,
outputs, answers and processes:

* `KeysDispatchOnce`, `WaitersAreLed`: no hypothesis. `PaidFor` counts: a key's
  dispatches are at most one more than its losses, and no more than its losses while no
  response is stored or under way.
* `ApiVerdictsStand`, if there is a job runner; `OneCompileRuns` always (`GateHeld`: of the
  stored compiles one at most is active); `KeysStartOneJob`,
  if no two requests of one key are under way at once (`KeyRace`: the hazard at
  `handlers_jobs.go:87`).
* `ShownIsEarned`: `TrustIsEarned`, if none of `"overlap"`, `"late"` and `"undeleted"` is
  in `TrustRaces` (`"blind"` may be). `TrustInv` strengthens it with who is at which
  output (`Exclusive`), what the stores hold while a process indexes or deletes
  (`IndexFollows`), what a promotion under way is based on (`Promised`), and that a
  confirmed row is the user's or earned, indexed or not (`ConfirmedEarned`).
* `EventsComeInOrder`: `DeliveredInOrder`, for any finite number of sinks. `OrderInv`: what a
  sink has seen, what its slot holds, what the pump has in hand and what the ring holds are,
  in that order, increasing.
* `NothingIsLostSilently`: `NothingLostSilently`, for any finite number of sinks. What
  was emitted, delivered, is queued or was dropped balances for each sink; the drop counter is
  a sum over the sinks, and lemmas say what one sink's step does to it. `PathInv` says what a
  slot, the pump and the ring may hold at each step of the shutdown, `HookInv` the same of
  the webhook's queue: where the dispatcher stopped within the budget nothing is left.
* `BusTypeCorrect` and `ServicesTypeCorrect`: the types of the bus, and `GateInv`: the types of
  the four services and the compile gate. No hypothesis.
* `ShownAgree`: `OneTrustedAnswer`, if none of `"overlap"`, `"late"` and `"blind"` is in
  `TrustRaces` (`"undeleted"` may be). Of two
  outputs that are pending or confirmed the user promoted one (`OneLive`), and verify promotes
  only what is pending still (`VerifiesPending`).

**Stores** (`StoreProofs`), for any number of processes, entries, tokens, published states,
paths, versions, batches, edits, failures and crashes:

* `SavesAreMerges`: `SavesOwnChanges`, if no live process outstays the lock's timing
  (`Timely`). `LockIsExclusive` names the one that may be between its token
  check and its rename; `SavesAreOwn` says that what it is about to save differs from the
  file in its own changes only.
* `TokensStayLive`: `StoredTokenIsLive`, if `AuthRaces` is empty (deviation 17). A process
  inside the lock is the only one that holds it, and what is stored is
  what the provider honours, or the answer that replaces it is in the hands of that process.
* `RestoresAreWhole`: `OneRestorePoint`, if no two published states carry one second
  and every sealed generation has its object maps (deviation 18): then the content of a
  restore point is a function of what the progress file pins.
* `TypeCorrect` of the batches: `BatchTypeOK` needs `Control`: where results are looked at the
  run has an ID, where sources are summarized it has their hashes.
* `PaidBatchesAreKept`: `PaidBatchOnRecord`, if `"orphan"` is no
  member of `BatchRaces`. That a submission may be made rests on
  no owed batch being on record (`Submits => NoneOwed`), that a retirement removes the
  right one on the file holding the run's ID (`Positions`), and that stripping the
  older file loses nothing on both files agreeing on an owed batch (`OneOwed`).
* `CompiledAreSummarized`: `CompiledMeansSummarized`, if no source takes back a content,
  `--fresh` removes the checkpoints and nothing is compiled on demand while a batch is
  away (`Growing`; `"orphan"` may be in `BatchRaces`). `SummaryInv`: in the order of a source's
  versions, the manifest's is no newer than the summary's, and that no newer than the
  source's own (`Reached`); a batch on record is no older than what the manifest has
  (`BatchesAhead`); the place of the run says
  which batches are on record and what it has in hand (`RunsAlone`).
* `UserTextsAreKept`: `UserTextIsKept`, if `PackRaces` is empty (deviation 19). During a command
  each path is compared with what a rollback would make of it (`AllKept`); `Entered`,
  `Applying` and `Updating` say what the command has snapshotted and written so far,
  `TextsAreOld` that the user's next text is none of those on disk.
* `AliasTypeCorrect` (no hypothesis) and `KeptApart`: `RejectedStayApart`, if one link at a time
  is decided on, for any finite set of entities: no two passes hold a snapshot
  at once, and no command decides while a pass does or between the checks and the
  link of an `--apply` (`AliasRaces` has `"twice"` at most; deviation 21). `Cluster`, which the
  code computes round by round, is shown to be the least set that contains the entity and both
  ends of every link that it has one end of, and `Terminal` the end of the chain. In `AliasInv`
  an alias has one active row, chains end, the links are a forest and join neither end of a row
  that is rejected or pending (`KeepsApart`); what a sweep replays was decided (`SweepInv`), and
  what the pass has read, or an `--apply` has checked, is what the rows still say (`PassInv`,
  `CheckInv`). A link between two clusters then keeps apart what no row between the clusters
  forbids (`Free`). The model follows a chain to its end;
  the code gives up after 32 links (`aliases.go:46`), so of the code this speaks as long as no
  chain is longer.
* `SweptIsExact`, `SweptIsExactOfFew`: `SweptGraphIsExact`, if besides no two sweeps overlap
  (`AliasRaces` is empty). `SweptInv` follows a sweep that nothing disturbs: after `n` passes the derived
  edges contain all that is `n` moves away from an asserted one (`Within`), and within a
  pass what the links already replayed add to that (`Replayed`); a pass that has derived
  nothing so far has links that add nothing (`Closed`). A sweep that ends so has the
  closure. One that ends at its cap has it if no edge can move more often than that
  (`ChainsFit`): each end of an edge moves down its own chain (`DepthFalls`), and two
  ends of one edge make at most `2n - 3` moves over `n` entities (`MovesAreFew`). The code's
  cap is 33 passes (`resolve_entities.go:103`), enough for every graph over 18 entities of a type,
  and for larger ones as long as no chain of aliases is longer than 16. The 3
  passes of the run meet the bound for its 3 entities.
* `StoresTypeCorrect`: `StoresTypeOK`, the types of the six stores. No hypothesis. Where
  hydrate reads what was published, `HydTypes` is needed: every generation has a
  state, and no state is in a generation or second later than its own number.

**Only model-checked**, on the instances above: the liveness properties `Settles` and
`PendingIsTaken`, since fairness and `ENABLED` are out of the proof system's reach. The three
`violation` runs are counterexamples, not theorems.

What a recursive definition computes (`Cluster`, `Within`, a chain's replay, a sum over
sinks) is proved without an induction theorem, which would take an operator as its parameter:
the numbers at which a claim fails are a set of naturals, a nonempty one has a least member
(`LeastNat`, from the library's `WFMin`), and the claim at the number before it gives the
contradiction.

## 9. Not modelled

Most of the repository's lines neither hold state between two steps nor race with
anything, and a model of them would say nothing that a unit test does not:

* SQL statements, search ranking, graph scoring, query assembly, parsing, extraction,
  prompts, linting, configuration: functions of their input. Where a modelled
  component calls them, their effect is part of its action.
* the LLM and embedding clients, and object stores other than as buckets of objects:
  external; what they answer is a choice, failures included.
* the CLI's rendering, TUI, web, hub and MCP front ends over the engine.
* test suites and tools (`internal/storetest`, `tools/civalidate`).

Of the modelled components, these parts are left out: object sync and document-only
passes of the mirror (planned: `MirrorObjects`); tier 2 and removed sources of the
queue; the file sink's rotation, webhook signatures and schedules; middleware, rate
limits and single-workspace wiring of the server; the OAuth flows that obtain the
first token; a pack's installation into the cache; the files of filed answers; entity
types and legacy copies of links. Each component of `PROJECT.json` names them, and each
hazard that no property covers says why.
