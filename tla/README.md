# Akssora: models and proofs

Akssora runs code in Firecracker microVMs. The workspace has a core library
(`crates/akssora-core`: sessions, a pool of pre-booted snapshots, forks, templates,
volumes, snapshot sharing, webhooks, egress rules), an agent that runs inside the
guest (`crates/akssora-guest-agent`), a scheduler service (`crates/akssora-scheduler`:
hosts, placement, regions, migrations, sharding, demand) and a small CLI. This
directory models the parts whose correctness depends on the order of things, checks
them with TLC on small instances and proves the most important invariants with TLAPS.

Paths below are relative to `crates/`.

## 1. Inventory

| component | state | operations | what is hard | what makes it correct |
|---|---|---|---|---|
| Warm pool (`akssora-core/src/pool`) | sled records `Ready`/`Claimed`, snapshot directories, boot microVMs, hit and miss counters (memory and store), known templates, capacities | claim, replenish, replenish_all and its loop, scale, restart | every method takes `&self` and holds no lock across store operations; claims spawn replenish tasks; each step can fail; restarts forget the memory | an entry is used once; what is offered exists; counters are sane after a restart; the pool fills up again; leaks are bounded |
| Circuit breaker (`akssora-scheduler/src/circuit_breaker.rs`) | four atomics | state (which also moves Open to HalfOpen), record_success, record_failure | readers and failure reports share the entry, each a sequence of loads and stores | a trip is never lost, probing precedes closing, it recovers |
| Host registry (`host_registry.rs`) | DashMap of hosts with capacity, heartbeat time, breaker | upsert, heartbeat, record_failure, remove, available_hosts, get_host | listing and use are apart; clock differences; unsigned subtraction | only fresh hosts are listed, loads fit |
| Placement (`placement.rs`, schedule in `main.rs`) | none | best fit, first fit, least loaded | nothing is reserved between the choice and the next heartbeat | the chosen host fits; it is the best one |
| Migration (`migration.rs`) | DashMap of active records, completed records, redirects | start, advance, rollback, get, list | a shard lock is held across sleeps and across the removal of the record; clients disconnect | legal transitions, no lost lock, every request answered |
| Region registry (`region_registry.rs`) | the members of each region, the region of each host, the regions that are enabled | register and remove hosts and regions, enable, disable, list, place | three maps changed in separate steps, and the host registry besides | the two maps agree about a host at rest |
| Sharding (`sharding.rs`) | shards by key, ring of hashes, default shard | register, unregister, resolve, route | registry and ring changed in separate steps; unregistering leaves the ring alone | a shard that answers a key all the time is found |
| Demand and prewarm (`demand_tracker.rs`, `prewarm_policy.rs`) | windows of requests, smoothed values | record, count, desired | window pushed and evicted under two locks; reads advance the smoothing | counts cover the window, results stay within the limits |
| Session, fork (`akssora-core/src/session`, `fork.rs`) | Firecracker process, sockets, guest connection | boot, exec, pause, snapshot, resume, end, fork | failures and cancellations between steps, no timeout on the guest, a cell per worker thread | a process without an owner, or paused, is somebody's failure; a fork returns its own session |
| Snapshot sharing (`snapshot_sharing.rs`) | snapshots, grants, offers of each account | register, share, remove, can_access, list | three maps | no grant without snapshot; listing and access agree |
| Templates, volumes, block devices | sled, files | create, build, delete, attach, detach | file and record are two writes | record and file agree |
| Webhooks (`webhooks.rs`) | registrations | dispatch, retry | duplicates, reordering | each event is delivered or given up after three attempts |
| Egress (`egress_proxy.rs`) | allowlists | check | order of rules, suffix and CIDR matching | decision equals the documented rule order |
| Protocol, files, port forwarding | byte streams | framed reads and writes, chunks | limits, partial transfer, half-close | what was sent arrives whole or as an error |
| Guest agent | one connection, children, environment | exec, PTY, files | output and exit race; cancelled reads; an input that the terminal does not take | streams in order, what was read before the exit code, no shell left behind, the next connection served |

The components interact as follows. The scheduler's handlers call the host registry,
whose entries hold the breakers; placement reads the registry's listing; the region
registry adds and removes hosts in it; migrations look hosts up in it and would register
redirects. In the core library the pool drives
sessions (boot, pause, snapshot, end for a new entry, restore for a claim), and
sessions talk to Firecracker over HTTP and to the guest agent over vsock. The pool is
a library API: no other crate of the workspace calls it yet, so its callers are taken
to be what its types allow, any number of tasks with clones of the handle.

`PROJECT.json` lists every hazard found in this code at its line, with the properties
that cover it. Three have none, and say why; where a property covers only a part of a
hazard, a note says which.

## 2. Plan

| step | modules | abstract specification | status |
|---|---|---|---|
| 1 | `WarmPool`, `MCWarmPool`, `WarmPoolProofs` | `PoolLedger` | done |
| 2 | `CircuitBreaker`, `CircuitBreakerProofs` | | done |
| 3 | `Migration`, `MCMigration`, `MigrationProofs` | | done |
| 4 | `GuestAgent`, `MCGuestAgent`, `GuestAgentProofs`: exec and shells between host and guest | | done |
| 5 | `Placement`, `Fleet`, `MCFleet`, `FleetProofs`: both registries, heartbeats, requests, regions | what a listing may miss | done |
| 6 | `Sharing`, `SharingProofs` | the listings are the meaning of the grants | done |
| 7 | `Sandboxes`, `MCSandboxes`, `SandboxesProofs`: processes, sessions, forks | every process has an owner | done |
| 8 | `Transfers`: chunked files between host and guest | a file as a sequence | done |
| 9 | `Templates`, `Disks`: template builds, volumes, disks of sandboxes | record and file agree | done |
| 10 | `Sharding`, `Demand`, `Webhooks`, `Egress`, and `MCLibrary` to check 6 and 8 to 10 | reference definitions of the egress decisions | done |
| 11 | `LibraryProofs`: the invariants of 8 to 10, and that they hold side by side | | done |

`Egress` states its properties as assumptions about operators, which TLC evaluates, and
all but the one about address ranges are theorems of `LibraryProofs` too.

## 3. Modules

### `PoolLedger`
The promise of the pool: an entry is published once (`Publish`), taken out of the
offer at most once (`Retire`), and never comes back.

### `WarmPool`
One action is one store, file-system or counter operation of one task. Tasks are the
callers of claim and scale, the replenish tasks that claims spawn, and the loop;
`task[p]` keeps the operation a task does next and its local variables: the chosen
entry, the number still to create, the victims of a shrink, the pair of counters read.

| code | model |
|---|---|
| sled records, `list_available` | `status`, `Ready(t)`; keys are ordered, so the first entry is the least id |
| snapshot directories, temporary boot microVMs | `dirs`, `bootVms` |
| `hits`, `misses`, `__metrics__` | `hits`, `misses`, `saved` |
| `known_templates`, `dynamic_capacities` | `known`, `caps` |
| `claim` | `Claim`, `MarkClaimed`, `RestoreSession`, `Count`, `SaveMetrics` and the failures (`ClaimFails` when the entries cannot be listed) |
| spawned `replenish`, `replenish_all` | `StartReplenish`, `LoopTick`, `LoopNext`, `Plan`; `StartReplenishFails`, `LoopNextFails` |
| `create_warm_snapshot` and `insert` | `BeginSnapshot`, `PublishEntry`, `SnapshotFails` |
| `scale` | `Scale`, `RetireEntry`, `RemoveSnapshot` (or `Plan` when it grows); `ScaleFails` |
| restart | `Crash`: the store, directories and microVMs stay, the memory does not; the counters are read back, or start from 0 when they cannot be read |

Merged into one step, because nothing another task does in between changes the
outcome: registering a template with the listing; the listing and the reading of the
target (one scan of a few records); the increment of one counter with the load of the
other; the insertion in sled with its flush, except where an error can separate them.
`handed` counts the sessions a caller restored from an entry and is history; `unread`
remembers a restart that could not read the counters, until a pair is saved. An entry
id is a fresh UUID in the code and an unused id in the model. A claim's target
template exists in `Templates`; a replenish task runs only on a free worker of
`Workers`, which bounds how many run at the same time.

Two callers can choose the same entry and both restore it: the model allows it, as the
code does, and `OncePerCaller` says how far it can go.

### `CircuitBreaker`
One host's breaker, one atomic operation per action. `heartbeat` takes the registry
entry for writing, so `RecordSuccess` runs alone (`Quiet`); `state` and
`record_failure` take it for reading and interleave. `age` is the time since
`opened_at`, kept only up to `OpenDuration`. `probes` is history.

### `Migration`
`get_mut` locks the record's shard for writing until `advance` or `rollback` returns.
A task that sleeps frees its worker thread and keeps the shard; a task that waits for a
shard keeps its thread, since the lock is a blocking one. `promote_to_completed`
removes the record while its caller holds the shard: such a task is `stuck`. For this
reason no migration ever completes in the map's eyes and the redirect table is
unreachable; both are left out. Completed records are always empty and only their
absence matters. `Disconnect` is a client that goes away while the handler sleeps.
`active_migrations` iterates over the shards and gives a shard back only when it has the
next one (`Iterated`): while it waits, nobody can write to the one it keeps, and reading it
goes on.

### `GuestAgent`
Both ends of exec and shells: the calls of `session.rs` with their reading and writing
tasks and bounded channels, and the agent's `main.rs` and `pty_session.rs`. The agent is
one task; `agent.mode` says where it is, and `agent.conn` whom it serves.

| code | model |
|---|---|
| `exec`, `exec_stream`, `open_shell`, `open_shell_channels` | `Connect`, `PassOn`, `Receive` and their ends; `ConnectCancelled` |
| writing task of a shell, `close_shell` | `WriteLength`, `WriteBody`, `WriteFails`; `CloseShell` aborts it anywhere |
| receivers and senders that are dropped | `DropReceiver`, `DropSender` |
| `main`, `handle_connection` | `Accept`, `StartChild`, `IgnoreInput`, `Hangup` (every return with an error) |
| `read_request` | `ReadLength` and the action that takes the body; `ReadEof` |
| `write_response` | `Write`, which waits while the connection is full |
| the selects of `handle_exec` and `PtySession::run` | `ReadStream`, `ReportExit`, `TakeInput`, `LeaveShell`; a branch taken resets `agent.len` and so cancels a read |
| `write_to_master`, teardown | `TypeInput`, `Cleanup` |

A message is its kind and a number. A length is taken whole: its four bytes are written
by one call. The first bytes of a JSON body, read as a length, are above
`MAX_FRAME_SIZE`, so a cut frame always ends in an error. The processes of the guest are
external: they write, read and exit when they like, and a shell keeps its terminal until
it exits. A command whose output closes before it exits is a command that exits with
nothing unread.

### `Placement` and `Fleet`
`Placement` is the three strategies as operators on a listing. `Fleet` is everything that
makes and uses listings: both registries of the scheduler and the tasks that change them.

| code | model |
|---|---|
| `HostRegistry::hosts` | `entry`; `used` is the set of sandboxes where the code has their number |
| `Region::hosts`, `host_regions`, `Region::enabled` | `members`, `homeOf`, `enabled` |
| `heartbeat_handler`: `upsert_host`, then `heartbeat` | `HandleUpsert`, `HandleHeartbeat`; `SendHeartbeat` and `LoseHeartbeat` are the host and the network |
| `available_hosts`, `hosts_in_region` | `BeginListing`, or `CheckRegion` and `BeginRegionListing`; `VisitHost` is one entry |
| `schedule_handler`, `place_sandbox`, `place_sandbox_with_strategy` | `PlaceSandbox` |
| `report_failure_handler`, `decommission_handler` | `ReportFailure`, `Decommission` |
| `register_host`, `remove_host` | `RegisterHost` or `RemoveHost`, and then a step for each further map |
| `register_region`, `enable_region`, `disable_region` | `RegisterRegion`, `SetEnabled` |

All sandboxes are alike and so are all hosts, of `Capacity` sandboxes. The breaker inside
an entry is its state only, and may change in every way its counters allow; its own
module has the rest. A host's age is counted from its last heartbeat in ticks. A region's
entry is locked for reading while its hosts are listed, which `Unlocked` keeps. Requests
that are placed go on to run, or not, when their callers please. `blind`, `origin` and
`mixed` are history.

### `Sandboxes`
A microVM is a process with an owner: the caller, or the thread's cell, or the manager that
holds the `Session`. Each `await` of a call is a place where it can fail, be cancelled or
find the process gone (`Fails`, `Cancel`, `Exit`). `VmManager::boot` does not look whether
the process lives before its first request, which then fails.

| code | model |
|---|---|
| `Session::with_rootfs`, `from_snapshot`, `VmManager::boot` | `Create`, `Spawn`, `SocketReady` and its failures, `Accepted` for each request, `Started` |
| `pause`, `resume` by the owner | `Hold` |
| `end`, `destroy`, `end_session` | `End` |
| `fork_session`, `fork_sandbox` | `Fork`, `Pause`, `Snapshot`, `Resume`, `SpawnFork`, `Forked` |
| `FORKED_SESSION`, `take_forked_session` | a thread as owner; `TakeOwn`, `TakeForked` |

Neither kind of `Child` kills its process when it is dropped, and the code does not ask
for it: `Abandon` leaves the process alone. A task moves between threads where it awaits; `fork_sandbox` awaits nothing between the fork's return and `take_forked_session`,
and `thread` keeps that.

### `Sharing`
`shared` is `snapshots` with the accounts that each is shared with, `grants` the grants and
`offers` the ids in `shared_with_account`. `ShareWithAccount`, `InsertGrant`,
`ListAccount`, `Offer` are one sharing; `RemoveSnapshot`, `RevokeGrant`, `Retract`,
`Removed` one removal. `can_access`, `list_visible` and `list_shared_with` are operators.
`share_with_org` gives nobody access: `can_access` then asks for the owner again, as
`CanAccess` says. `stale` and `undone` are auxiliary: the grants without a listing and the
listings without a grant that the code leaves behind, added where it does so and taken back
where it mends it.

### `Templates` and `Disks`
A build of `Templates` runs the commands of `build.rs` in their order; `Makes` and `Cleans`
are tables of what each makes and what its failure cleans up, read off the code. `Install`
and `Unmount` ignore their errors as the code does. A command that cannot be run at all, an
I/O error and a cancellation have no cleanup (`AbandonBuild`). `doubted`, `doubled` and
`outlived` are auxiliary, see `StorageSound` below. `Disks` has the volumes, each
an image and a file of metadata, and the disks of the three backends. Two things found in
the code and kept: the flat disk passes `dd` an operand that it refuses, so it always fails,
and with it the sparse disk's fallback; an overlay hands its owner the shared base as a
drive that can be written to.

### `Sharding`
`registry` and `ring`, a `Route` that asks the registry for one key after the other
(`Resolve`) and then the ring (`RouteByRing`), and registrations of two steps. A shard is
its key; hashes of virtual nodes are the constant `Points`. The ring is the set of its
points: where two have the same hash, the binary search may find either, and `GetShard` is
the set of the shards it can name.

### `Transfers`
`write_file` sends its chunks and takes the first answer; `read_file` takes answers to the
last. `pending` is what the agent has handed to a `tokio::fs::File` and not flushed, which
may reach the file in any order, or never (`Settle`). A chunk has a version instead of bytes.
`OpenUnmeasured` is the `unwrap_or(0)` of the agent: a length that it cannot read, or that
is reported as 0, makes the file an empty one.

### `Demand`
A request is `TakeTime`, `Push`, `Evict`, as the two locks allow; a run of the policy is
`BeginRun`, `Collect` for each template, `ReadRate` and `StoreRate` for each, and `Respond`.
The smoothing is in whole hundredths, rounded down.

### `Webhooks`
`Dispatch`, `Match` for each registration, `Spawn`, and for each delivery `Send` and `Retry`.

### `Egress`
Operators only: host, wildcard and range matching, allowlists, policies, the map of
allowlists and the address a proxy listens on. A rule's pattern `"*"` is compared as text
and matches no other host; a target's `"*"` matches all.

### `MCLibrary`
Composes the seven small components side by side. They share nothing, so the first state
chooses the one that moves, `subject`.

## 4. Runs

| run | instance | shows |
|---|---|---|
| `pool_safety` | 3 entries, 2 callers, 1 worker, the loop, 3 calls, 1 failing operation, 1 crash, scale to 0 | the invariants of the pool and that it implements `PoolLedger` |
| `pool_refill` | 4 entries, 2 templates, 2 callers, 1 worker, 2 calls, 1 failing boot, snapshot or restore, 1 crash, scale to 0 and 1 | after the last call, failure and crash the pool fills up to its target and stays there |
| `breaker_recovery` | 2 reports, 2 readers, thresholds 2 and 2, duration 2 | no trip is lost, probing precedes closing, recovery |
| `breaker_reopen` | 1 report, 1 reader, the constants of the code | **violated**: see section 7 |
| `migration_shards` | 3 requests, 2 threads, 2 migrations with a shard each, 1 host, 1 migration that gets too old | locks, transitions, answers, and the only reasons to hang |
| `migration_rollback` | 1 request, 2 threads, 1 migration | **violated**: see section 7 |
| `guest_streams` | 1 command, 1 shell, 2 inputs, 2 pieces of output (1 on stderr), buffers of 1 | order of the streams, the exit code after what was read |
| `guest_calls` | 1 command, 1 shell, 2 inputs, 1 piece per stream, buffers of 1 | the command returns, whatever happens to the shell's call before it |
| `guest_teardown` | 1 shell, 1 input | **violated**: see section 7 |
| `fleet_placement` | 2 hosts for 1 sandbox each, 2 regions, 2 requests, 2 heartbeats, 1 administrator, timeout 0, 3 operations | what overcommits a host, what a listing shows of a new host, agreement of the region registry |
| `sandboxes_forks` | 3 microVMs, 2 callers, 2 threads, 2 faults | processes without owners are paid for, forks return their own session |
| `library_components` | for each component one or two of everything, 2 to 4 faults or operations | the promises of seven components, one at a time; the egress definitions |

Bounds. The pool's target is the default 1 (`BaseTarget`) and scale goes to 0, so that
one entry is enough for two claims to meet on it, a second for a shrink that works on
it meanwhile, a third for an overshoot. Three calls let two claims and a scale be in
flight; one failing operation at any step and one crash at any step cover every single
fault. Both callers are interchangeable, and nothing orders them: symmetry is sound.
In `pool_refill` the two calls are two claims, two scales or one of each; with the one
failure (a restore, a boot or a snapshot) and the one crash at every step, a claim fails,
the loop gives up in the middle of a tick, a scale down works on a stale list, and a restart
forgets what was known. Four ids are two for each template. A behaviour that uses them up
proves nothing about the code, whose ids are random and without end: the property is
claimed of the others (`IdsSuffice`), among which are those with every one of these cases.
That a store operation fails is left to `pool_safety`, where it can be any of them.
The breaker needs two of each reader and report for a stale decision to meet a newer
one, and thresholds of 2 for "below", "at" and "one late" to differ. Three requests
are one more than the threads, so that a sleeper can be left without one. Each of the two
migrations has a shard of its own, so that an iteration can wait for the second while a
request waits for the first behind it; one of them may reach its timeout (`Aging`), both may
complete or be rolled back. In the guest, buffers of one message fill at once,
two pieces can be exchanged, two inputs are one more than the terminal takes, and the
two calls follow each other on the agent in both orders.

`CHECK_DEADLOCK` is off in the two pool runs, because entry ids are a bound: a run stops where a task finds no unused id; in the guest
runs, where a call is made once and the system rests when all are over; and in the three
newer runs, where operations, ids and faults are used up.

Two requests on a host for one sandbox are the least that overcommits it, and two heartbeats
the least that overtake each other. Three operations (`MaxOps`) are two requests and a
change, or a registration, a removal and another one; in the run one administrator works at
a time, so that operations that overlap are left to the theorem, which is about any number.
Three microVMs are a source and two forks, from two callers, that meet in one cell or in
two; the second fault lets one call fail after another was cancelled. The small
components: two builders of one template, two clerks on two volumes, an owner and two
accounts, a shard for a region, one for a tenant and one for both with five points
between them and a hash beyond the last, files of up to three chunks, a record of one
request and a window of the current tick, so that both the limit and the window cut, two
hooks for one event with four failing requests, so that one hook is given up and the other
is not. Addresses of four bits make every prefix and every pair checkable.

What the properties say:

- `OncePerCaller`, `ImplementsLedger`: entries are used and retired for good, although
  claims and shrinks work from stale lists.
- `BrokenOffersBounded`: scale removes a directory even when retiring its record
  failed; every offered entry without a snapshot is paid for with a failed operation.
- `SavedNeverAhead`: pairs saved out of order, and restarts from them, never invent hits.
  A restart that cannot read the stored pair counts from 0 without a word
  (`get_metrics().unwrap_or_default()`): until the next claim saves a pair, memory is behind
  the store, and the property says so.
- `OvershootBounded`, `LeaksBounded`: how far tasks that plan from a stale count
  overshoot, and what failures and crashes leave behind.
- `RefilledEventually`: the loop repairs what claims that failed, shrinks, ticks that were
  given up and restarts left.
- `ClosedBelowThreshold`, `ClosesAfterProbes`, `LegalTransitions`, `Recovers`: for the
  breaker, whatever loads and stores interleave.
- `LocksAccountedFor`, `AnswerNotOlder`, `LegalSteps`, `TerminalNeverSeen`, `Answered`:
  for migrations. `Answered` names the two ways the scheduler can hang: a migration
  that ended (its task is stuck), and worker threads used up by waiters, directly or behind
  an iteration, while the task that holds the lock sleeps (`Starved`). Both are reachable,
  and the run fails without either, or without the waiters behind an iteration.
- `InOrder`, `ExitComplete`, `Answered` for the guest: neither full buffers, cancelled
  reads nor aborted tasks disturb the order of a stream, and an exec returns. Its
  exceptions are real: a shell that is kept, and (`Jammed`) an input that the shell never
  reads. The agent then waits in `write_to_master` without reading output or connection,
  also after the host has gone, and every later exec waits with it; `guest_calls` fails
  without this exception.

- `OvercommitIsBlind`: `schedule_handler` reserves nothing, and hosts are overcommitted.
  A host with too many sandboxes has one among them whose decision missed at least as
  many of the others as are too many; a listing that showed everything would not do it.
- `UnsampledIsPending`: a heartbeat inserts a host before it records its load. Nobody
  finds a host empty because of that, except between the two or after a registration.
- `RegionsAgree`: operations on a host that overlap, a host registered in a second region
  and a region registered again are left out (`mixed`), and with reason: each of them
  leaves the members and `host_regions` in disagreement for good. So does not, and must not,
  a decommissioned host, of which only the host registry is told.
- `DamageBounded`: `Session` has no `Drop`; what a failed or cancelled call leaves is one
  process that runs without an owner, or one source that stays paused, and no more. A
  forked session that waits in a thread's cell is dropped by the next fork on that thread.
- `ForkReturnsOwn`: the cell is per thread and tasks move, but not where it would matter.
- `StorageSound`: a record stands for a whole image of its template, also while builds
  fail, with three exceptions: something failed that the code does not answer to
  (`doubted`), two builds wrote the image at once (`doubled`), or the image had vanished
  from under its record (`outlived`). In the last case the next build may fail in a way that
  the code reports; the record is still there, the image is half written, and from then on
  `create_template` returns the two as `Ok`. Besides, a volume that is listed has its image,
  and every stray file is one failure's.
- `AccessAgrees`: when no operation on a snapshot is under way, grants and listings agree
  about every account, but for two kinds of pairs. A `stale` grant is left when an id is
  registered again (`register` empties `shared_with` and looks at no grant) or when the
  snapshot was removed under a share; `can_access` then says yes of what no list shows, and
  no removal takes the grant back. An `undone` share was listed again before an earlier
  removal came to its grant: it is shown and cannot be used.
- `RouteAnswered`: a shard that answers a key all through a route is found, whatever is
  registered and unregistered meanwhile.
- `TransferHonest`: what an `Ok` of a transfer promises, and under which conditions: the
  agent ignores the result of its flush, the end of a connection between two answers makes
  a read return what it has, and a length that cannot be read makes it return nothing.
- `PrewarmSound`: requests that cut the record at the same time never leave it too long;
  runs that overwrite each other's rate still stay between the rates that were seen.
- `DeliveredAtLeastOnce`: a hook may get an event twice or after it was unregistered, but
  gets it, or three requests failed.

Every property of a passing run has a mutant of a mapped definition in
`PROJECT.json`; the mutants stand before the definition they change.

## 5. Fairness

- Pool: a task that can run is run (tokio polls ready tasks), spawned tasks start, and
  the loop's ticker fires: weak fairness of each task's steps. No call is obliged to be
  made and no operation to fail. Recovery is claimed for the time when calls, failures and
  crashes are over, which is how the run is bounded.
- Breaker: calls end, schedulers and listings keep asking for the state, the clock
  runs. Heartbeats keep arriving; the entry is free again and again but not for good,
  and the lock lets a waiting writer in, hence strong fairness of `RecordSuccess`.
- Migration: a waiter gets a lock that is free again and again, and a timer that fired
  is polled when a thread is free again and again: strong fairness of each task's lock
  steps and `Wake`, of which never both are possible. Iterations may hold a shard in turn for
  ever only if there are threads enough for two of them and a waiter; in the run a waiter
  leaves one. Nobody is obliged to send a request.
- Guest: the tasks of both sides run when they can, a caller that listens takes what it
  gets, and commands exit. No caller is obliged to call or to leave, no shell to read or
  to exit.

- Webhooks: `dispatch` never blocks, a request ends with an answer or after the ten seconds
  of the client's timeout, and the pause before a retry is a timer: weak fairness of the
  dispatch and of each delivery. Nobody is obliged to register or to have an event.

The safety properties of the three newer runs assume no fairness.

## 6. Proofs

`WarmPoolProofs` proves, for all values of the constants that satisfy the named
assumptions of `WarmPool` (ids are natural numbers, finitely many, targets are natural
numbers, the kinds of tasks are disjoint, the tasks and the capacities `scale` can be
called with, which are a `usize`, finitely many) and with no bound on calls, faults or
crashes:

| theorem | statement |
|---|---|
| `TypeCorrect` | `Spec => []TypeOK` |
| `OncePerCallerHolds` | `Spec => []OncePerCaller` |
| `LedgerImplemented` | `Spec => ImplementsLedger` |
| `SavedNeverAheadHolds` | `Spec => []SavedNeverAhead` |
| `BrokenOffersPaid` | `Spec => []BrokenOffersBounded` |
| `OffersHaveSnapshots` | without failing store operations every offered entry has its snapshot |
| `LeaksPaid` | `Spec => []LeaksBounded` |
| `OvershootStaysBounded` | `Spec => []OvershootBounded` |

The argument. `OncePerCaller` is not inductive: whether a restore is the first one
depends on what the claim in flight knows. `Inv` adds, per task (`Holds`), that a claim
holds an entry that is recorded, not yet restored by this caller, and claimed by the
time it restores; that a snapshot in the making has a directory and no record, so
publishing it is new and no shrink can remove its directory; that victims are recorded
entries; and (`OwnSnapshots`) that no two tasks make the same snapshot. `HandedOut`
says that what was restored stays claimed. `Keeps(p)` is what a step of one task leaves
to the others, and one lemma per group of actions shows that each step keeps it and
establishes `Holds` for its own task. The same invariant gives the refinement: every
write of the store publishes an entry without a record or retires one with a record.
`SavedNeverAhead` needs that no task has read a pair ahead of memory (`NotesBehind`), also
after a restart that counts from 0, since no task outlives it.
`BrokenOffersBounded` needs the larger set `Doomed`, which also counts entries whose
directory a task is about to remove, and which only a failed retirement lets grow.
`LeaksBounded` follows step by step: a failure abandons at most the one snapshot its task
was making, a crash those of all tasks (`Leaks`, `LeakStep`). `OvershootBounded` says
nothing of what is on its way, which is ready later. `Budget` counts the planned entries as
units of work `<<task, i>>`: those planned (`Pending`) are among the shares of all tasks
(`Slots`), and together with the ready ones no more than those. A task that plans up to its
target leaves the others their shares (`OthersCount`), publishing trades a planned entry
for a ready one, and failing drops what was planned (`BudgetStep`). Counting a set of pairs
takes the place of a sum over the tasks, which would need an induction. The
invariants were checked by TLC on the instance of `pool_safety` before they were proved.

`CircuitBreakerProofs`, for any number of reports and readers and all positive
thresholds and durations:

| theorem | statement |
|---|---|
| `TypeCorrect` | `Spec => []TypeOK` |
| `NoTripLost` | `Spec => []ClosedBelowThreshold` |
| `ProbesPrecedeClosing` | `Spec => ClosesAfterProbes` |
| `TransitionsAreLegal` | `Spec => LegalTransitions` |

`ClosedBelowThreshold` is inductive only with what the tasks around a breaker know: while
it is closed, the tasks at work only report failures (`NothingOpen`), and the successes
counted belong to this probing phase unless a reset is on its way (`FreshSuccesses`).

`MigrationProofs`, for any number of requests, threads, migrations and shards:

| theorem | statement |
|---|---|
| `TypeCorrect` | `Spec => []TypeOK` |
| `LocksHold` | `Spec => []LocksAccountedFor` |
| `EndsAreNeverSeen` | `Spec => []TerminalNeverSeen` |
| `AnswersAreNotOlder` | `Spec => []AnswerNotOlder` |
| `StepsAreLegal` | `Spec => LegalSteps` |

Its invariant says per task what it holds (`Sound`), that a migration has one creator,
that a locked shard has one owner (`Owners`), and that a migration that ended keeps its
shard locked (`EndedLocked`). The actions have four shapes (outside the locks, entering a
shard, leaving it, inserting a record), with one lemma each.

`FleetProofs`, for any hosts, regions, requests, heartbeats, administrators and capacity
(hosts and requests are finitely many), with no bound on operations:

| theorem | statement |
|---|---|
| `BestFitIsTight` | for any listing, the choice of best fit is a candidate, tightest and first |
| `TypeCorrect` | `Spec => []TypeOK` |
| `OvercommitHolds` | `Spec => []OvercommitIsBlind` |
| `UnsampledHolds` | `Spec => []UnsampledIsPending` |
| `RegionsAgreeHold` | `Spec => []RegionsAgree` |

`OvercommitIsBlind` speaks of the sandboxes that run, which come and go in any order, so it
is not inductive. `Covered` says the same of every set of sandboxes bound to a host, running
or on their way: a new one had room by the listing it saw, so of any such set it missed as
many as are too many; and a set that loses members was a set before. That the listing had
room needs that each entry of a listing counts what it saw (`Fair`) and that every
strategy chooses a candidate, which is proved of its definition. `Homes` says where each
half-done operation of an administrator leaves the two maps (`Halfway`), and that a host that
is not mixed has one operation at a time.

`SharingProofs`, for any snapshots, accounts and tasks:

| theorem | statement |
|---|---|
| `SharingTypesHold` | `SharingSpec => []SharingTypeOK` |
| `AccessAgreesHolds` | `SharingSpec => []AccessAgrees` |

Its invariant (`Backed`) says what stands behind each grant (a listing, a share that is about
to list it, a removal that is about to revoke it, or a second registration: `stale`) and
behind each listing or one to come (a grant, or an earlier removal: `undone`). With no
operation on the snapshot under way, the tasks drop out of it and the property is left.

`SandboxesProofs`, for any microVMs, callers, threads and faults:

| theorem | statement |
|---|---|
| `TypeCorrect` | `Spec => []TypeOK` |
| `ForkReturnsOwnHolds` | `Spec => []ForkReturnsOwn` |
| `DamageBoundedHolds` | `Spec => []DamageBounded` |

The invariant says what each call has in its hands: the microVM it makes and owns meanwhile
(`Making`), the source it owns or borrows (`Using`) and that it leaves the source running
once it has resumed it (`Resumed`). One call at a time borrows the manager (`OneBorrower`), a
cell has one session and a thread one caller (`Cells`, `OneThread`). `Paid` counts: the
microVMs that run without an owner, and those that are paused for no call, are at most as
many as the faults and the sessions that were dropped from a cell. Each action is of one of a few
shapes, a step of one call that moves one microVM, or the end of a call that may leave one
damaged, with a lemma each.

`GuestAgentProofs`, for any calls, inputs, pieces of output and sizes of buffers:

| theorem | statement |
|---|---|
| `TypeCorrect` | `Spec => []TypeOK` |
| `StreamsInOrder` | `Spec => []InOrder` |
| `ExitIsComplete` | `Spec => []ExitComplete` |

That a caller has a beginning of what was sent says nothing of what is on its way, which is
what the next step delivers. `Delivered` says that the responses on their way to a caller
that listens (`Line`: its channel, the connection and the one that the agent is writing)
continue what it has, in order (`Ordered`) and, while the host reads, up to all that the
agent has read (`Complete`); `Entered` says the same of the inputs on their way to a shell.
`LastComesLast` puts the exit code behind every piece. The rest is what these need: which
mode of the agent goes with which call (`AgentModes`, `WriteModes`), that a connection
waits, is served or is over (`Placed`), and that a child is started once, by the first
request (`Opening`).

`LibraryProofs`, for any sets of contents, disks, accounts, shards, versions, templates and
hooks, files of any length and a ring with any points:

| theorem | statement |
|---|---|
| `LibraryInvHolds` | `LibrarySpec => []LibraryInv` |
| `LibraryTypesHold` | `LibrarySpec => []LibraryTypeOK` |
| `StorageSoundHolds` | `LibrarySpec => []StorageSound` |
| `RouteAnsweredHolds` | `LibrarySpec => []RouteAnswered` |
| `TransferHonestHolds` | `LibrarySpec => []TransferHonest` |
| `PrewarmSoundHolds` | `LibrarySpec => []PrewarmSound` |
| `LibraryAccessAgrees` | `LibrarySpec => []AccessAgrees` |
| `TargetsDecideAlone` | an allowlist joined of two allows what one of them allows, for any limit |
| `PolicyIsItsAllowlist` | rules without `*` allow what the allowlist of their targets does, in any order |
| `ListenersAreUsable` | the proxy's address is neither its network's nor the broadcast address |

`LibraryInv` has one conjunct for each component, and each component's step, with the
others still, keeps it. None of the properties is inductive, and what is added is this.

- Templates: a builder that is alone with a content that is none of the exceptions answers
  for its image, and what the phase it is in would clean up covers what it has made, so only a
  mishap leaves anything.
- Disks: counted are the images without readable metadata that no clerk is about to
  describe or remove (`Adrift`), which includes those whose clerk will fail to, and the
  disks that nobody was told of; a step adds to them only by a breakage.
- Sharding: the ring names only shards that are registered or were (`deserted`), and the
  shards that a route has passed over were away at some moment of it, so none of them is
  `steady`. The binary search finds something when the ring has a point, because a least
  hash exists.
- Transfers: while a write is waiting, the requests not yet read are its last chunks in
  order, and the chunks before them have arrived unless one was refused; the first answer
  decides. While a read is waiting, the chunks it has, those in the answers and the place
  the agent reads at follow each other. A file that is being read only grows.
- Demand: a run's collected rates were seen, the rate it read is between two that were, and
  so is their average, because rounding down does not pass a whole number; the desired size
  grows with the rate. A record is too long by at most one for each request that has pushed
  and not cut.
- Webhooks (types): a hook got an event at most once for each attempt, of which there are
  three.

Only model-checked: everything under fairness (`RefilledEventually`, `Recovers`,
both `Answered`, `DeliveredAtLeastOnce`), since liveness and ENABLED are out of the prover's
reach. Of the assumptions of `MCLibrary` about egress, `LibraryProofs` proves for any
lists, rules and bytes what TLC evaluates on small ones, except `RangesAgree`, which speaks
of powers of two and is evaluated on addresses of four bits.

## 7. Where the code disagrees with itself

- `breaker_reopen`: `trip` stores `Open` before `opened_at`, and `state` reads them in
  the same order; a reader in between finds an old time and moves the breaker that has
  just tripped to `HalfOpen`. The tests assert that a breaker that tripped is `Open`.
- `migration_rollback`: `rollback` and the end of `advance` remove the record while they
  hold its shard lock, and never return. A test says that one "should be able to
  rollback from" every active state, and a handler answers with the rolled back record.
- `guest_teardown`: a comment of `pty_session.rs` promises that "child process and shell
  are cleaned up on teardown"; every error path of the loop returns before that. The
  hangup of the terminal may end the shell, but nobody kills it or waits for it.

## 8. Not modelled

`PROJECT.json` names each component and the reason. Without state of their own, or pure
I/O: the HTTP calls to Firecracker, the seccomp program, the CLI, error types, the table of
resource tiers, `official.rs` with its descriptions of templates, the text of nftables rules
and of configurations, and the relays of port forwarding, which pass bytes on until either
side ends. The guest's environment is read once. Handlers that only read (fleet, hosts,
demand, totals of regions and shards) are left out, and so is the redirect table of
migrations, which nothing reaches. `Fleet` has no liveness property: no handler promises
that a request is placed. Three hazards have no property, because the code promises nothing
(a second migration of one sandbox, an entry of the pool that two claims choose at once) or
because the outcome is the build's (a subtraction that underflows in a log line). Within the modelled components:
wording, times and sizes in records; `PoolStore::delete` (no caller); metrics and listings that only
read; the history inside a migration record; weak memory orderings of the breaker's
atomics (the model interleaves them in program order, which covers every behaviour the
properties distinguish on the acquire and release pairs, but not a reordering of the
relaxed stores).
