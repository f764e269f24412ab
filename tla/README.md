# ferogram-py in TLA+

A verification project for the asyncio client of ferogram-py: TLA+ modules
translated from `python/ferogram` and `src/*.rs`, TLC configurations that check
them on small instances, and proofs checked by TLAPS.

## The system

ferogram-py is a Telegram client. `Client` (client.py) is one asyncio object
shared by all its tasks; the network, the session backends and the update state
are Rust objects (`DcConnection`, `MessageBox`, `PipelinedSender`) over crates
that are not in this repository (ferogram-mtsender, ferogram-msgbox,
ferogram-session, ferogram-crypto).

| Component | State | Operations | Interacts with | Modules |
|---|---|---|---|---|
| Dispatch queue | `_update_queue`, worker tasks, `update_overflow` | `_enqueue_update`, `_worker`, shutdown of `_run_updates` | both producers put, workers call the handlers | LossyFifo, UpdateQueue |
| Update flow | `MessageBox` (pts by box), the pump task, the loop | `_run_frame_pump`, `_run_updates`, feed in `rpc_call`, `_migrate` | connection frames in, dispatch queue out | UpdateFlow |
| Session record | the backend, `DcConnection.persisted`, `_worker_conn_lock`, `_auth_imported_dcs` | autosave loop, `stop`, `_open_worker_conn`, `connect` | main and worker connections write one record | SessionStore |
| Transfer slots | `_transfer_semaphore`, the slots of each transfer | `_worker_slot`, opening loops, `gather`, `AsyncExitStack` | all transfers share the permits | TransferPool |
| Transfer parts | part counter, window of requests, `TransferHandle` | part sizes and workers, `worker`, `worker_pipelined`, `fetch_part_on`, `_poll_pause_cancel` | worker connections | TransferMath, FileTransfer, PartTransfer |
| RPC and migration | `_conn`, `_dc_id` | `_rpc`, `_migrate` | every other component | ClientLifecycle |
| Lifecycle | `_conn`, pump task, autosave task | `start`, `stop`, `run_until_disconnected`, `signal_network_restored` | session, flow, queue | ClientLifecycle |
| Dispatch | `_handlers`, the cache of sorted groups | `_add_handler`, `remove_handler`, `_dispatch` | workers | Dispatch |
| Login | the code, the password step, home DC, `future_auth_token` | `start`, `_interactive_login`, `sign_in`, `resend_code`, `sign_out` | RPC, session | SignIn |
| Peer cache | five buckets, `dirty`, the rows on disk | `store_*`, `to_persisted`, `load_persisted`, `_resolve_int_peer` | RPC answers, session | PeerCache |
| API methods, types, codec | none shared | one request each | RPC | none |

What makes it hard: tasks that interleave at every `await`; an asyncio queue at
its limit under three policies; cancellation in the middle of a batch; three
ways an update can arrive (frame, difference, own answer) for one pts counter;
one session record written as a whole by several writers that each loaded it at
a different time; a semaphore whose permits are collected one by one; requests
that are retried, redirected and left behind when a sibling raises; one
connection attribute that migrations, `stop()` and `signal_network_restored()`
replace under each other; lists changed while they are iterated across an
await; crashes between saves and between a login and what it leaves behind.
Each of these is listed with its line in `PROJECT.json` under "hazards", with
the properties that would catch it.

What makes each component correct:

* queue: order, one fate for every update, losses that follow the policy, a
  shutdown that ends;
* flow: no update dispatched twice, none passed over by pts, pts never falls;
* session: the account's key survives every writer and every crash, an
  authorization is imported again only after a lost answer, what was learned
  reaches the disk;
* slots: permits are conserved, every transfer ends;
* parts: each part has one owner and is settled once, a stopped handle stops,
  progress counts bytes once, a call ends, the server's limit of parts holds;
* RPC and lifecycle: the pump is on the client's connection, one pump, one
  autosave task, requests end, and stopped runs that keep their workers' Nones;
* dispatch: every group is served in order, an update passed on reaches all;
* login: a start() that returned is signed in and stays so, a used token is
  offered again only where its removal could not be saved;
* peers: an id resolves to its peer, a saved hash stays known.

## Modules

### LossyFifo, UpdateQueue

`LossyFifo` is what the pipeline promises: numbered updates wait, are handed over
in order, or are lost, each once. `UpdateQueue` is the code. Its `task` says
where the update loop and the frame pump stand, `left` how much of a batch is
still to be put, `running` which of them holds the event loop: asyncio switches
only at a real suspension, so a batch is put in one go unless `put()` blocks.
`EnqueueUpdate` is `_enqueue_update`, with one disjunct for each of its
outcomes; "block" stands for `update_overflow=None`, "unknown" for anything the
queue has no branch for: a full queue then raises out of the batch (`PutRaises`),
as decoding or routing an update may (`BatchRaises`), which ends the pump or
begins the shutdown. `Take` and `Finish` are
`_worker`; `StopLoop`, `PutSentinel` and `LoopReturns` are the `finally` of
`_run_updates` and of `run_until_disconnected`. Waiters of a full queue are not
ordered: any of them may go first. `ImplementsFifo` is the refinement, with
`waiting` mapped to the updates on the queue.

### UpdateFlow

One box for the account and one for each channel, each with a pts. The server
makes updates; some are pushed, some only known to it. `PumpReads` is a frame
through `process_raw`; the updates it releases are `held` by the task until
`Dispatch` puts them one at a time, or `DispatchRaises` ends the batch and the
task with it; a loop that raised takes the pump along (`RunEnds`). `LoopAsks`, `ServerAnswers`, `LoopApplies`
and `LoopFails` are one round of `_run_updates`; `CallSent` and `CallReturns`
an own request whose answer `rpc_call` feeds to the box. `base`, `dispatched`,
`answered`, `skipped`, `discarded` and `cancelled` are history. The MessageBox
and the server are external: `Released` and `Feed` say that an update one past
pts is released with all that follows it, that anything later waits, and that
nothing is released while a difference is due. qts, seq and date are treated as
pts.

### SessionStore

`disk` is the backend, `memory` the copy of the main connection, loaded once.
A save hands a copy to a blocking thread (`writes`) and lands later
(`WriteLands`), even when the task that asked for it was cancelled. Every
`connect()` loads the record, negotiates a key if the record has none for its
data centre (`Handshake`), and gives the whole of it back to the pool
(`SaveRecord`). Worker connections do so under `_worker_conn_lock` (`OpenLoads`,
`OpenSaves`); the main connection of a migration (`Migrate`) or of a restored
network (`Restore`) does it under no lock (`ReconnectSaves`, `ReconnectDone`,
`ReconnectFails`) and then keeps what it saved as its copy. A worker to a foreign
data centre asks for an exported authorization (`OpenExports`); the server's
import (`ServerImports`) is a step apart from the client's note of it
(`OpenImports`), so that `OpenCut`, an open cancelled or failed between the two,
leaves a data centre imported that the client knows nothing of. `OpenCut` also
is the open cancelled in `connect()` with its save still in the pool, the lock
already free. `OpenFails` ends an open anywhere else. `Stored` distinguishes the
backends: a file, SQLite or custom backend is shared, a string session is the
string it was built from, a memory session is empty. A single write of a backend
is taken as atomic. `imports` counts what the server carried out, `unheard` those
of them without an answer; these and `dropped` are history.

Migrations and restores are modelled on a shared backend, one at a time and none
beginning during stop(); on the others a restore finds the string or nothing
again, and a migration another backend. The autosave loop stands for the one a
restore starts as well.

### TransferPool

`stage` follows a transfer through its opening loop, its workers and its end.
The semaphore is first come, first served, as asyncio's is. A failed open gives
its permit back and the transfer goes on with what it has, on the home
connection if it has nothing. `WorkerRaises` is `gather()` at the first
exception: the slots are closed and the other workers run on as `orphans`. A
transfer cancelled before the `try` of media.py:460 (and its like in a
download) gives its slots back by the finalizers of the contexts it leaves
behind; the model has them back at once.

### TransferMath, FileTransfer, PartTransfer

`TransferMath` holds the arithmetic of media.py as plain operators, with the
code's numbers: `UploadPartSize` with its step past 4000 parts, the worker
tables, the length of a part.

`FileTransfer` is the promise of one call: parts are settled once each, with
bytes or, for a download, as a hole; a call that returns has them all, unless a
hole ended it.

`PartTransfer` is the code. `job` is one file with the mode the code picks for
it (`JobOf`): "pipelined" is `worker_pipelined` on connections of its own,
"plain" is the worker that sends one request at a time over the home connection
with `MaxAttempts` tries, "sequential" the download loop without a size. `pc`
says where each worker stands, `window` its requests in flight in order
(the lowest is the one awaited). `Submit` claims the next part and enqueues it,
raising on a dead connection with the part already claimed; `Got`, `WaitFails`,
`Refused`, `WaitMigrates`, `DeadWait` are the outcomes of `request.wait()` and of
the direct call that follows a failure. `Raise` is `gather()` at the first
exception: the call is over and the other workers run on, still settling parts
and counting progress. `Begin` is a call, a second one with the same
`TransferHandle` included; it resets the count but not a cancellation. `late`
and `base` are history.

### ClientLifecycle

Connections and pumps are numbered in the order they are made, so a task that
resumes with an old one can be told from one that has the new. `task[a]` is
where each task stands: the one in `run_until_disconnected()`, tasks that make
requests, one that calls `stop()`, one that calls `signal_network_restored()`.
`Send` is the head of `_rpc`'s loop, `AuthRestart` and `Redirected` its error
branches, `Move`, `NextPump` and `Greet` the three parts of `_migrate` between
its awaits. A pump that ended by an exception raises again in whoever awaits it
(`PumpRaised`), and gets no successor. `StartConnects`, `Loaded` and `Started` are
`start()`; `LoopEnds`, `QueueCloses` and `RunEnds` the end of a run: the loop is
over, the workers have taken their Nones and ended, the pump is cancelled and the
caches are flushed. Between the first two the pump is still at work, and with
"drop_oldest" what it puts may evict a worker's None (`evicted`), as UpdateQueue
shows step by step: then only another cancellation ends the run. `Stop` and
`Stopped` are the halves of `stop()` around its saves. `strayed` is history: it
records the two overlaps that the properties name as their exceptions.

### Dispatch

`keys` and `bucket` are `_handlers[event]`, `cache` the list
`_handler_groups_sorted` keeps. Handlers run one at a time per worker; between
two awaits a worker goes on (`GoOn`) to the next handler that wants the update
in the lists as they are then, which is why `task` keeps an index and not a
copy. `Answer` has the three endings of a handler: it returned (or raised
anything else), ContinuePropagation, StopPropagation. A filter is the set of
updates it lets through; one that raises (client.py:391, outside the `try`)
would end the dispatch of its update and is left out. `log` is history.

### SignIn

`disk` is what a login leaves in the session: home data centre, keys, future
auth token; `memory` the copy `self._conn` keeps, which every save writes whole.
`Start`, `Seed`, `Check`, `Begin` are `start()` up to the login; `Migrate`,
`CodeSent`, `Answered`, `DropToken` the request for a code, where the server's
acceptance of a token (or of a code, a password, a bot: `Bind`) is a step apart
from its answer; `RightCode`, `WrongCode`, `ExpiredCode` and `OutOfTries` one turn
each of the loop of `_interactive_login`; `Finish` sets the home and saves.
`bound`, `good` and the live or expired code belong to the server. `Fails` is any
request or save of it that raises: an answer that is lost after the server acted,
a save that fails with the change already in the copy. `Autosave` writes the copy
later; `Stop` saves it or fails to, and also stands for
`signal_network_restored()`, which drops it. A crash may come anywhere.
`replayed` and `stranded` are history: tokens offered after they were used, and
used tokens that an error or a crash left in the session.

### PeerCache

`mem` is the cache: hash of each user, channel and community, basic groups,
channels seen with min. `Seen` is what `_populate_cache` does with one peer of
an answer, `ToPersisted` and `LoadPersisted` the rows of the session and back.
`Autosave`, `Stop`, `Lands`, `SaveFails` are the flush, whose write is on a
thread; `NetworkRestored` reads the file into a cache in use. `IdOf` and `Resolve`
are the marked ids and `_resolve_int_peer`.

### How the modules compose

`UpdateQueue` implements `LossyFifo`; `PartTransfer` extends `TransferMath` and
implements `FileTransfer`, once for each call. The others share state through
narrow seams, and each module models the other side of its seam as free: the
handlers of `Dispatch` are the `Finish` of `UpdateQueue`, the released updates of
`UpdateFlow` its batches; the slots of `TransferPool` are the connections
`PartTransfer` has from 0 to its ceiling; `ClientLifecycle` decides when the
pump of `UpdateFlow` is cancelled and the savers of `SessionStore` and
`PeerCache` run, which there may happen at any step. A product of two of them
would multiply their states and add no step that the free side lacks.

The MC modules give the constants that a .cfg cannot spell (functions, records,
the files of a transfer); everything else is in the .cfg files.

## Runs

| Run | Bounds | States | Shows |
|---|---|---|---|
| queue | 2 workers, capacity 2, batches of 3, 5 updates, the three policies and an unknown one | 28 thousand | order, accounting, one fate, losses by policy, shutdown, refinement |
| queue_release | the same | until found | a None can be evicted and a worker waits for ever |
| flow | common box 2 updates, channel 1, 1 own request, 1 switch | 188 thousand | no duplicate, nothing forgotten, pts monotonic, catch-up |
| flow_own_answers | the same | until found | an own answer discards what it releases |
| session | 1 foreign DC, 2 workers, 1 pts, 2 keys, 1 fault (migration, restore, crash or cut open), three kinds of backend | 734 thousand | home key, imports again only after a lost answer, opens keep each other, state reaches disk |
| pool | 3 transfers of 2 workers, 4 permits | 4 thousand | conservation, every transfer ends |
| pool_deadlock | 3 transfers of 2 workers, 3 permits | until found | hold and wait |
| transfer | 6 kinds of file of 0 to 3 parts, 2 workers, windows of 2, 2 attempts, 2 calls, 1 or 2 faults | 321 thousand | one owner, stop after one, exact progress, refinement, a call ends |
| lifecycle | 1 caller, 1 request, 2 orders, 1 fault, start on a foreign DC, "drop_oldest" | 409 thousand | pump follows, one pump, one saver, requests and stopped runs end |
| signin | 5 starts, 2 crashes, 2 tokens, user or bot, with or without 2FA | 111 thousand | signed in on return and after, used tokens, a login ends |
| dispatch | 2 workers, 3 handlers of 2 functions, 2 groups, 2 updates, 2 dispatches | 3.5 million | groups served, order, passed on to all |
| peers | one peer of each kind, limit 10, 2 saves at once | 709 thousand | ids and hashes, saved is known |

Why the bounds are enough.

* Queue: a batch longer than the queue, both producers suspended on it, and a
  worker more than one are the cases the policies tell apart; five updates fill
  the queue twice over.
* Flow: two updates are a gap, a reconnection loses one of them, and the channel
  adds the second kind of difference.
* Session: two opens race once, and one fault can fall into any of the writes:
  it is a migration or a restore, a crash, or an open cut off with its save or
  its import under way, each with everything else going on beside it. Two keys
  are the home key and one more, so a foreign data centre that lost its key
  cannot negotiate another; two keys for one data centre are covered by the
  proofs only.
* Pool: four permits are one more than three transfers can hold while all of
  them wait; with three they cannot but block.
* Transfer: two workers race for the counter; a window of two has a request
  behind the one awaited; three parts leave one for the worker that comes back;
  two faults are an error and what answers it; the second call is what reuses a
  handle while workers of the first run on. The files are those whose sizes
  give an empty file, several parts, one full chunk and a short last one.
* Lifecycle: two orders with a request give every pair of run, stop, restore and
  migration that can overlap; the start on a foreign data centre forces the
  migration. `MaxPumps` is only the number of fairness conditions, more pumps
  than these bounds can make.
* Sign-in: five starts let two raise or be crashed, two sign in and one come
  after a sign-out; two tokens are one used and the next.
* Dispatch: `h1` and `h3` share a function, so a removal can take the first of
  two; two groups, one of them negative, arrive in either order.
* Peers: channels and communities share ids, users and groups differ by sign;
  limit 10 with a group of id 10 is the boundary.

`CHECK_DEADLOCK FALSE` is set in every configuration: the client stops by
itself, transfers and logins end, and the counters are bounded.

### Fairness

* queue: weak fairness of the producers' puts, of each worker and of the
  shutdown steps: the event loop runs ready tasks, and handlers are assumed to
  return. Nothing obliges an update to arrive or the client to stop.
* flow: weak fairness of the tasks' local steps and of a request's end; strong
  fairness of the common difference, which the deadline of the MessageBox asks
  for again and again: a request repeated for ever is answered some time. No
  fairness of pushed frames, which may all be lost.
* session: weak fairness of the autosave timer and of stop(); strong fairness
  of the landing of an autosave, since a save that is repeated for ever does not
  always fail. None of the opens, migrations and restores.
* pool: weak fairness of each step of a transfer; an opening or a worker ends
  one way or the other. A handshake has a timeout of 30 seconds
  (connection.rs:332, 341); the connection with a stored key (311) has none of its
  own, and that it ends is left to the TCP stack.
* transfer: weak fairness of each worker's step: it runs when ready, a request is
  answered or fails. Nobody has to resume a paused handle, so `CallEnds` speaks
  of behaviours that do not stay paused.
* lifecycle: weak fairness of each task between its calls, of the pumps' first
  and last steps and of the ends of a run; nobody has to call anything and no
  frame has to come. `QueueCloses` is fair only while no None was evicted: then
  the workers end, as `ShutdownCompletes` of UpdateQueue has it for handlers that
  return. Once one was, nothing obliges `gather()` to return.
* signin: weak fairness of the login's steps: a request ends and the user
  enters something.
* dispatch, peers: safety only, no fairness.

### What the failing runs show

Each is a disagreement between a statement of the repository and its code, with
both quoted in `PROJECT.json`.

* `queue_release`: with "drop_oldest" a put of the pump evicts a None, the
  worker it was for never ends and `gather()` does not return.
* `flow_own_answers`: `rpc_call` ignores what `process_updates` returns.
* `pool_deadlock`: transfers hold permits and wait for more. With the defaults
  (12 permits, 4 workers each) four large transfers suffice, and one does if
  the permits are fewer than its workers. `PoolTablesNeverStuck` proves that three
  do not.

### What else the models can reach

These behaviours follow from the code, are in the models, and are either an
exception a property names or outside all of them:

* Queue: an update put behind the Nones of the shutdown is not dispatched
  (client.py:646); `QueueDrains` proves that no other is left. `_migrate` cancels the pump between two puts of a batch
  (779); what was left of it is gone with pts past it. An exception in a batch
  (510-523: decoding, routing, the ValueError of an unknown policy) does the same
  and ends the pump, or the update loop and with it the run.
* Session: a save of the main connection writes a record older than a worker's,
  drops its foreign key, and the next open has an unbound key while
  `_auth_imported_dcs` says it was imported (884, connection.rs:586). So does the
  save of an open that was cancelled in `connect()` and left it in the pool, and
  the `connect()` of a migration or a restore, which takes no lock
  (connection.rs:387, client.py:759, 1093): the lock serializes the opens, "so
  concurrent worker startups can't load+save the session file at the same time
  and clobber each other's entries" (870), and nothing else. An import whose
  answer is lost leaves the data centre out of `_auth_imported_dcs` (891), and the
  next open imports again, although "that binding only ever happens once per DC
  per process" (863); a retry of the lost request itself is refused, its token
  being used. With a MemorySession a worker of the home data centre negotiates a
  key of its own (session.rs:243). `dirty` is cleared two awaits after the
  snapshot (1038), so a peer learned between waits for the next change or for
  stop().
* Migration: the AUTH_RESTART flag is lost (717); two that overlap leave two
  pumps; once the pump has raised, every migration of that run raises as well,
  after it replaced the connection (781); a cancellation while `_migrate` awaits the old pump is swallowed; one
  that is under way after stop() brings a connection back.
* Lifecycle: with "drop_oldest" the pump may evict a worker's None while a stopped
  run closes its queue, and the run does not end (648). stop() during start() leaves the autosave task behind; so does
  signal_network_restored(), which also leaves the pump on the old connection
  while the update loop may see None and end. start() after a start() that
  raised returns at once, as the connection is there.
* Login: three codes that expire end `_interactive_login` as if signed in
  (auth.py:54). A used token is offered again by the next login, although it is
  dropped "rather than risk replaying a stale one" (auth.py:94): after a lost
  answer to the request that used it, after a crash before its removal, or when
  the removal was not saved and no later save was either.
* Transfers: a part answered without data is left out of the written file, and
  those behind it move forward (media.py:735). A cancelled TransferHandle stays
  cancelled for the next transfer. Workers left behind by `gather()` keep
  counting into the progress of the next call.
* Dispatch: a handler removed while it, or one after it, is awaited hides the
  next one from that update (client.py:390).
* Peers: `load_persisted` overwrites a newer hash with the file's (proxy.py:299),
  where store methods never replace one by 0; a group id above 1,000,000,000 is
  taken for a channel's; a hash of 0 is never asked for again.

## Proofs

Theorems hold for every value of the constants that satisfies the module's named
assumption (`QueueAssumption`, `StoreAssumption`, `TransferAssumption`,
`PoolAssumption`, `PeersAssumption`, `SignInAssumption`, `LifecycleAssumption`,
`DispatchAssumption`, `FlowAssumption`), which TLC evaluates in every run of that
module. Every safety property of the runs that pass is a theorem. Of liveness,
which the prover does not do, the safety half is proved for four kinds of wait:
of the shutdown for its workers, of the transfers for permits, of a migration for
the old pump, and of the opens for the lock of the worker connections. None of
them waits for what cannot come.

`UpdateQueue_proofs`, for every finite set of workers, every capacity and choice
of policies:

* `QueueTyped`, `QueueAccounting`: `TypeOK` and `TaskAccounting`. The inductive
  invariant is `TInv`: the two together with `BatchInv`, which ties `task`,
  `left` and `running` and keeps what is offered plus what is left of the
  batches within the bound. Without it a put could exceed the bound in a step
  TLC never reaches.
* `QueueOrder`, `QueueOneFate`: `OrderInv`, the conjunction of both, on top of
  `TInv`; neither is inductive alone, since a put is later than everything
  queued only because everything queued was offered before.
* `QueueImplementsFifo`: `Spec => ImplementsFifo`, from the two invariants, step
  by step: a put is an `Offer`, `Take` of an update is a `Hand`, the rest
  stutters.
* `QueueSentinels`: `SentinelPerWorker`. `SentinelInv` counts the Nones on the
  queue together with those still to be put, against the workers that live:
  neither number alone is preserved by a put.
* `QueueLoss`: `LossFollowsPolicy`. "drop_newest" needs `SentinelInv`: a queue
  that is full before the shutdown holds updates only, so that a queue's worth
  of older updates is kept. "drop_oldest" needs `OrderInv`.
* `QueueShutdownMoves`: under "block" and "drop_newest" the shutdown can always
  move (`ShutdownCanMove` spells out the guards). By `SentinelInv` each worker
  that lives is matched by a None queued or still to be put; by `TurnInv` who
  holds the event loop is in the middle of a batch or between two Nones.
  `queue_release` shows that "drop_oldest" breaks it.
* `QueueDrains`: for every n and every policy, if update n was put before the
  shutdown began, then once the loop has returned all of 1 .. n went to workers
  that are done with them or were discarded by the policy. The invariant is
  `Fenced(n)`: those updates stand before every None, and no worker has left while
  one of them is queued; the second half is preserved only because of the first.
  It holds at every step before the shutdown, when there is no None yet
  (`SentinelInv`), hence the two boxes of the statement.

`SessionStore_proofs`, for every set of data centres and workers and every kind of
backend:

* `SessionKeepsHomeKey`: `HomeKeyKept`. The invariant is `HomeInv`: not only the
  backend but every record that can still be written over it holds the home key,
  namely the main copy, the saves in the pool, those of opens that are over
  included, and the copy of a `connect()` that has not saved yet. That is what
  makes the order in which saves land, and the writes a crash leaves behind,
  irrelevant to the home key.
* `SessionImportsOnce`: `OneImport`. `LockInv` says that an open between its load
  and its end holds `_worker_conn_lock` and that an exported token is for a data
  centre nobody imported; two opens with tokens for the same one are impossible
  because both would hold the lock. `ImportInv` counts: the server's imports are
  those unheard of, and one more where the data centre is imported or the answer
  is on its way. Both theorems rest on `SInv`, the types with `HomeInv`, `LockInv`
  and `ImportInv`.
* `SessionOpensKeep`: `OpensKeepEachOther`, from `SInv` and `DiskInv`: the copy an
  open loaded agrees with the disk on every key that an import needs, because it
  holds the lock and a save from outside it that changes such a key is recorded
  in `dropped`; what an open that holds the lock has in the pool agrees likewise;
  and an open that has saved finds its own key on the disk until its import.
* `SessionLockHeld`: `_worker_conn_lock` is free or held by an open that is under
  way, whichever of its steps failed and also after a crash. It is the converse of
  `LockInv`: that says who is inside has the lock, this that who has the lock is
  inside and so comes to the end that gives it back.

`PartTransfer_proofs`, first the arithmetic of `TransferMath`, for every size in
bytes: `UploadFitsPartLimit` (at most 4000 parts whatever the rounding to 512
does; the step is that a part at least `CeilDiv(size, 4000)` long cannot be
needed more than 4000 times) and `UploadPartsTile` (parts are non-empty, only
the last is short, they end where the file ends). Then, for every set of files,
ceiling, depth and number of tries:

* `TransferTyped`: `TypeOK`. `JobInv` keeps the job as `JobOf` made it, and
  `Bounded` ties the counter, the tries and the progress to it; that the
  progress is at least zero follows from the lengths of parts.
* `TransferOneOwner`: `OneOwner`, from `PInv`: what each mode allows a worker to
  have in flight at each place (`AllFit`), everything in flight or settled is
  below the counter (`Claimed`), windows are disjoint, and everything below the
  counter is settled or in a window (`Covered`). `Disjoint` holds because a claim
  is of the counter and `Claimed` says the counter is in no window.
* `TransferStopsAfterOne`: `StopsAfterOne`, from `HandleInv`: a worker that has
  settled a part since the handle was stopped stands where it looks at the
  handle before it settles another. `Waiting`, that a call which has not begun
  has idle workers, is what both need of a `Begin`.
* `TransferImplements`: `Implements`, every step of the code a step of
  `FileTransfer` or a stutter, for each call. The invariant is `TransferInv`: all
  of the above with `PhaseInv`, that a call which returned has no worker left
  running, and `SeqInv`, that a sequential download has settled only what lies
  below its counter. The hard step is the worker whose return ends the call: it
  sees the counter past the last part, every other worker has returned, so
  `Covered` leaves nothing unsettled but behind a hole.
* `TransferProgress`: `ProgressExact`, from `TransferInv` and that the reset only
  forgets parts that were transferred. The bytes of a set of parts are stated by
  the number of full parts and of last ones, which is what a sum over the set
  comes to since all other parts have one length.

The same module ends with TransferPool, for any set of transfers, any number of
permits and any `Want`, since what the transfers ask for comes from the part
table:

* `PoolConserves`: `PermitsConserved`, from `PoolInv`. `Counted` is the property,
  with the permits numbered within each transfer so that they can be counted as a
  set; `Entitled` says what a transfer has at each place, without which an open
  that fails could give back a permit it does not have; `InLine` that who waits is
  in the semaphore's line exactly once, without which a cancelled transfer could
  stay in it and be given a permit.
* `PoolNeverStuck`: if the transfers together hold fewer than `MaxConns` permits
  even when each lacks only its last one, then whenever a transfer is under way
  one can go on, without anyone being cancelled. The bound is tight:
  `pool_deadlock` has three transfers of two workers and three permits.
* `PoolTablesNeverStuck`: with the worker tables of media.py a transfer that lacks
  its last permit holds at most three, so n transfers never block each other if
  3n < `MaxConns`: three at once are safe with the default of 12.

`PeerCache_proofs`, for every set of peers and every limit:
`PeersAddressedAsThemselves`, that is `AddressedAsItself`, from the types of the
cache and the disjointness of the three ranges of ids; and `PeersSavedAreKnown`,
that is `SavedIsKnown`, from `SavedInv`: what the disk and every save on its way
have with a hash is known in memory, so that it does not matter which save lands
last, and no two rows of one peer differ in their hash, so that a load has no
choice.

`ClientLifecycle_proofs`, for any number of callers, requests, orders and faults.
`Typed` says by `Role` which places each task can be at and that a run past its
connection has a pump. On it rest

* `LifecycleOnePump`: `OnePump`, from `OnlyPump`: without an overlap every pump
  that lives is the one the client keeps, and a migration or the end of a run
  that awaits a pump awaits that one, so whoever starts the next has seen the
  last one end.
* `LifecyclePumpFollows`: `PumpFollows`, which excepts only the migration that waits
  for the client's own pump and a pump whose connection failed or that raised; with `HasConn`, that a run nobody stops
  or restores has a connection from its `Loaded` on: only with it does a
  migration that ends leave the pump on the client's connection.
* `LifecycleOneSaver`: `OneSaver`, from `SaverInv`: without a connection, while
  start() makes one and while stop() saves there is no autosave task, so the one
  that start() makes replaces none.
* `LifecycleAwaitsEnding`: a migration, and the end of a run, await only a pump
  that is cancelled, ending or gone, also when two migrations overlap and when one
  leaves a stray pump. It is inductive on top of `Typed`: a pump that was
  cancelled never comes back to life.

`Dispatch_proofs`, for any number of workers, handlers, groups and updates:
`DispatchInOrder`, `DispatchServes` and `DispatchPassesOn`, that is `InOrder`,
`GroupServed` and `PassedOnToAll`, from one invariant, `DispatchInv`. `Lists` is
what registration and removal keep: each handler in one group, each group in
the order of registration, the cache absent or right. `Sound` relates the log of
a worker to the groups and the index it has left, in the lists as they are now:
all that ran comes before all that may still run (`Ahead`), every group with a
fitting handler has run one or is still to be begun (`Served`), every fitting
handler has run or is ahead unless the list was shifted (`PassedOn`). Each of
these is false without the others' account of what is left. The order of a
sequence of groups is given by ranks (`Below`) and that of handlers by their
registration (`Earlier`), which is the order the code has and one the prover can
reason about.

`UpdateFlow_proofs`, for any number of channels, updates, requests and
reconnections: `FlowTyped`, `FlowNoDuplicates`, `FlowForgetsNothing` and
`FlowPtsNeverFall`, from `FlowInv`: `Typed`; `Behind`, that nothing on its way,
waiting, or asked for is ahead of the server; `Boxed`, that a banned channel
stays unknown and that the box of a difference which is awaited stands still;
`Once`, that what was put or is held lies at or below its box's pts and is there
once; `Apart`, that what was passed over lies at or below it too and is neither
put nor held; and `NothingForgotten` itself. `Boxed` is the heart of it: a difference is
applied from the pts it was asked for, and only because the MessageBox releases
nothing of a box with a difference due do the frames and own answers that come
between the question and the answer not bring a second copy. A state that
seeds the common box is not older than a live update because it is written only
while no box is known.

`SignIn_proofs`, for any number of starts, crashes and tokens: `SignInSurvives`,
`StartReturnsSignedIn` and `TokensOfferedOnce`, from one invariant of four parts:
`Typed`; `Placed`, that only the account's data centre signs in and a login past
its first request is there; `Signed`, that a login about to end has a bound key
unless three codes were tried, and that whoever returned signed in has the
account's data centre as home, on disk and in the copy that will be saved over
it; `Fresh`, that the token a login would offer is good, the constructor's, or one
an error or a crash is on record for having left behind (`stranded`), except
between the server's acceptance and the removal. The disk may lag behind the
copy; only when the connection goes does its token count.

Liveness is model-checked only, as the prover does not do it:
`ShutdownCompletes`, `EveryUpdateSettles` (of both modules), `StateReachesDisk`,
`EveryTransferEnds`, `CallEnds`, `CallsEnd`, `StopEndsRun`, `LoginEnds`.

## Not modelled

* Generated TL classes, functions and schema, more than nine tenths of the
  repository's lines, and the generator: data without behaviour. That is why
  the modelled lines are a small share of all lines although they are half of
  client.py, of media.py and of auth.py, and most of what decides anything in them.
* The TL codec: pure functions over bytes with one caller each.
* The API methods that are one request each, the types, keyboards, rich text
  and logging: no shared state.
* The crates behind the Rust binding: external, they appear only by what the
  code here relies on. The SRP computation is arithmetic of a crate.
* The QR login, two requests whose answers the program keeps, and the export of
  a session string; the FLOOD_WAIT sleep, which
  delays one request and changes nothing else; the resolution of usernames,
  which fetches each time and stores as any answer does; salts and addresses of
  the session record; the contexts of min peers, which are stored and not used;
  the bytes of a download on disk and the progress tickers.

## Plan

Done: every module above. Left, in this order:

1. A product of ClientLifecycle and UpdateFlow for two overlapping migrations,
   where the second pump takes frames out of the first one's order.
2. `iter_messages`, which pages by the last id while messages arrive and go.
