# Verification of pomodorough-desktop

TLA+ models of the desktop client of Pomodorough, the TLC runs that check them
on small instances and the TLAPS proofs of what holds for every instance. The
models are written from the Python sources under `src/pomodorough`; what the
client calls but does not contain (the shared core, the service, the platform
keyring, other devices) is modelled from how those sources use it and marked
`external` in `PROJECT.json`.

## The system

The program keeps tasks, durations and a Pomodoro timer on a local SQLite
database and reconciles them with an account service, or with peers in an iroh
room. GUI, CLI and TUI are front ends of the same database.

| Part | State it keeps | Operations | Talks to |
|---|---|---|---|
| Delivery store (`storage.py`, `storage_sync.py`, `storage_canonical_*.py`) | pending queues, dependency edges, never-sent proof, saved claim, saved resolution, canonical snapshot and head, hybrid clock, UUIDv7 state | queue an operation, build or replay a sync claim, apply an answer, prepare/apply/discard a resolution, reset, reopen | called by the GUI controllers, CLI, TUI; calls the shared core |
| Timer and auto-break (`core.py`, `storage.py`, `storage_completion.py`, `timer_interaction_controller.py`) | active timer, selected phase, rows for breaks and phase advances made ahead of the service | start, pause, finish, cancel, choose a phase, automatic break | store |
| Synchronization controller (`synchronization_controller.py`) | the sync in progress, retry back-off, the check mark | start a sync, apply an answer, retry later | store, cloud service |
| Account controller (`account_resolution_controller.py`) | resolution phase, paused sync, account switch, deletion fence | sign-in decision, preview, resolve, conflict, sign-out, deletion | store, cloud service |
| Cloud service (`network.py`, `network_session.py`) | account generation, tokens in memory, `busy`, queued sync, workers in flight | restore, login, sync, bootstrap, logout, shutdown; worker results arrive later on the GUI thread | token store, service, controllers |
| Token store (`network.py` `TokenStore`) | keyring secret, tombstone, identity sidecar, credential-commit journal | load, save, clear, cleanup, deletion confirmation | secure store, file system |
| Account deletion and sign-out (`network_account.py`, `storage_revocation.py`) | deletion marker, confirmed identity, revocation queue | begin/confirm/settle a deletion, sign out, replay revocations | token store, secure store, service |
| Revision stream (`network_revision.py`) | SSE parser, reconnect timer | announce a revision, reconnect | triggers a sync |
| Secure store (`secure_store.py`) | platform secrets, mutation journal, lock files | save, load, delete, compensate | platform keyring |
| Peer replication (`replication_controller.py`, `storage_replication*.py`, `storage_workspace.py`, `iroh_*.py`) | the route, rooms, a workspace per room, immutable records, address books | create/join/leave a room, exchange records, project | peers, store |
| GUI, CLI, TUI, sound, localization, monitoring, release tooling | presentation only | | |

The behaviours that are hard to test:

* several processes write one database, and any call may follow any other;
* a request may have reached the service although no answer came back;
* answers arrive after the queue, the account, the phase or the core has changed;
* a process may stop between any two durable writes, and the keyring may fail
  after it has already written;
* workers of a previous account are still running after a sign-out, and a
  dialog that is open lets results and timers be delivered under it;
* a held command waits for one that may be answered, dropped or rejected;
* the peer service completes joins on a thread of its own while the user
  changes the route;
* an exchange of records is cut, repeated, and runs in both directions at once;
* what must happen in the end (a sync, a deletion, a revocation, convergence)
  depends on timers and retries alone.

`PROJECT.json` lists each hazard at its line, with the properties that watch it.

## Modules and code

| Module | Models | Proofs |
|---|---|---|
| `DeliveryStore`, `MCDeliveryStore` | the queues, requests and canonical head of one profile; the domain sets of its TLC instances | `DeliveryStore_proofs` |
| `BreakScheduler` | timer, automatic break and phase of a device whose acts are ahead of the service | |
| `CredentialRegister` | what `TokenStore` promises its callers | |
| `CredentialStore` | `TokenStore` over the platform keyring, write by write; implements `CredentialRegister` | `CredentialStore_proofs` |
| `CloudSession` | the account session of one process: workers, generations, refresh, login, sign-out | `CloudSession_proofs` |
| `AccountSession` | account and synchronization controllers: one workspace, several accounts and their histories | `AccountSession_proofs` |
| `AccountDeletion` | the deletion of the account: obligation, fence, crash and retry | `AccountDeletion_proofs` |
| `SessionRevocations` | the queue of sessions to revoke and its replay by several processes | `SessionRevocations_proofs` |
| `RoomLog` | what the log of a room promises | |
| `RoomReplication` | the exchange of records between devices; implements `RoomLog` | `RoomReplication_proofs` |
| `RoomWorkspaces` | the route, the rooms and workspaces of one device and its peer-service thread | `RoomWorkspaces_proofs` |

They meet where the code has an interface. `CredentialStore` implements the
register that `CloudSession` takes for the token store (`store`) and
`AccountDeletion` and `SessionRevocations` use write by write where their own
question needs it. `AccountSession` sees `CloudSession` as its signals: a result
reaches the controllers in the session its worker was started in, while the request
of a worker that outlives its session may go out with the tokens of a later one.
`CloudSession` puts what a sign-out
takes away into `revocations`; `SessionRevocations` is the life of that entry.
`DeliveryStore` is below all of them; `AccountSession` and `BreakScheduler` keep of
it what their questions tell apart (which edits are queued, claimed, saved and in
the history; which command waits for which). `RoomWorkspaces` has the rooms of
one device, `RoomReplication` one room on many.

`PROJECT.json` maps each definition to the lines it models.

### DeliveryStore

Every action is one `BEGIN IMMEDIATE` transaction of `Store`; a call that
raises rolls back, so only its guard appears. GUI, CLI and TUI share the
database, so any action may follow any other, and a process may die between
two of them.

| Variable | In the code |
|---|---|
| `queue` | the `pending_*` tables; an operation is its id, domain and logical clock |
| `waits` | `depends_on_command_id` |
| `neverSent` | meta `deliveryProof`: ids no request has carried |
| `claim`, `resolution` | meta `pendingSync`, `pendingResolution`, as sets of at most one request |
| `revision`, `user`, `head` | meta `snapshot`, `canonicalHead` |
| `hlc`, `lastId` | the persisted hybrid clock; `lastUuidV7` and the device sequence |
| `planner` | does the bundled core serve `sync.batchPlan.v1`? |
| `requests`, `discarded` | history: what was handed to a caller, what was given up |

Queueing goes through `Enqueue` (one reservation, one or two rows, edges,
proof). `ClaimBatch`, `ReplayClaim` and `DiscardSavedClaim` are the normal-sync
calls, `PrepareResolution`, `ApplyResolution` and `DiscardResolution` the account
resolution; `Rebase` is the installation both answers share. `Reopen` is the
next start, with a newer core or the same.

The shared core is external: which batch the planner selects and which held
commands a rebase drops are left open within what the client validates. The
service is not trusted either: an answer carries any revision and clock.

### BreakScheduler

The store of one device, the window (which holds the timer it loaded last,
`shown`) and the terminal (which reads it afresh), the service and one other
device. A command is its device sequence, type, timer and dependency; a timer
is named by the command that started it. `Reduce` is the core's reduction of
commands to a timer and a history, the same function here and at the service.
`advances`, `triggers` and `starts` are the three tables with which the store
remembers what it did ahead of the answer; `ProcessAutoBreak` starts the break
(provisionally, before the answer, or canonically after it); `ApplySync` is the
answer: acknowledgements, rebase, promotion of held commands, restored phases.
`fresh` says that a queued command has never-sent proof and a covering clock.
`chosen`, `movedOn` and `born` are history variables of the properties.

### CredentialStore and CredentialRegister

One action is one durable write. Every call of `TokenStore` holds
`token_store_lock` in all processes, so `call` is the one that holds it and
`call.step` the write that comes next. A file write fails before or after it
replaced the file, the keyring before or after it mutated; a directory that was
not synced (`dir` against `synced`) may come back in its old form after
`PowerLoss`; `powerLost` is a history variable. Credentials are compared as
whole token responses.

`CredentialRegister` is the promise: one register, a call that takes effect at
once or not at all, and an answer (`ok`, `pending`, `refused`) that tells the
caller which. The refinement maps the register's value to what `load` would
return (`Value`), and what a power loss may leave to `Fragile`.

`expire` stands for both ways a rejected session ends (the clear in
`AuthenticatedSession._refresh` and `expire_session`).

### CloudSession

An action is one handler of the GUI thread, one section of a worker under the
session lock, or one exchange with the service. A worker is a record in a slot:
the generation `_start` records (`born`), the one it fences with (`fence`), how
far it is (`step`), the session whose tokens it holds and what it will signal.
Results and ends of workers reach the GUI as two events, `Deliver` and `Finish`,
any time later; what other workers and handlers do in between is the subject of
the module.

| Variable | In the code |
|---|---|
| `generation`, `authenticated`, `busy`, `signOutPending`, `shuttingDown`, `queued` | `SessionState` |
| `memory`, `access` | `refresh_token`, `access_token`: which session, and is there an access token |
| `shown` | the user of the last `signed_in` signal |
| `epoch`, `attempt`, `timers` | `_restore_epoch`, `_restore_attempt`, the single-shot retry timers |
| `gui` | inside `logout()`, which may be refused by the workspace or by the store |
| `workers` | `_workers`, `_worker_generations` and the pool threads |
| `store`, `revocations` | the register `CredentialRegister` specifies; the durable revocation queue |
| `sessions` | the sign-ins the service granted (external) |
| `left` | history: sessions a sign-out took away |

A session stands for all tokens of one sign-in, so the rotation of refresh
tokens is not visible. `MayGoOn` is `assert_current_locked`, the fence everything
rests on.

### AccountSession

The workspace and the controllers of one device (`app`), and per account its
history in the service (`cloud`). The signals of `CloudService` are direct calls
on the GUI thread, so what a handler calls in turn is part of its step: handlers
are functions from the record `app` to its next value, and an action is what the
event loop calls first (a worker's result, a timer, a click). A dialog runs an
event loop of its own: `app.dialogs` is the stack of open ones, and while one is
open, results and timers go on being delivered; what is behind the dialog in the
code (`Choose`, `Switch`, `Resume`, `SignOut`) runs when it is answered.

`app.owner`, `rev`, `seen`, `queue`, `batch` and `saved` are the durable workspace;
the rest is memory that `Restart` loses. `whose` and `given` are history
variables: whose work an edit is, and what the user gave up in a prompt.

A sign-out drops what the running worker will bring (`Leaving`), but not the worker.
If it has not asked for the tokens yet (`late`), `authorized_request` takes those
of whatever session it then finds and sends its payload there (`LateSends`).
`astray` is a history variable: which edits went into which other account that way.

### AccountDeletion

`state.lock` is held from the look at an obligation to the last durable write
that settles it, so `lock` is the caller inside and the write that comes next;
between two writes the process may die, and a write may fail before or after it
took effect. `marker` is the deletion marker, `identity` the identity file (with
a generation: confirmed), `item` and `tombstone` the keyring; `owed` is
`_cleanup_obligations`, `job` the running deletion, `wire` its DELETE; `meta` is
the metadata `accountDeletionCleanup` that fences the workspace over restarts,
`fence` and `ui` the account controller's side of it, `cleanup` the retry timer of
the cloud service. `worker` is any other worker that uses the session. `asked`
and `detached` are history variables: the accounts whose DELETE was announced
and not refused, and whether a shutdown withdrew the obligation of a running one.

### SessionRevocations

A job is a captured session and a sign-out of it. `queue` is the durable job,
`index` the index of API origins under which a start looks for jobs; they are two
keys, written by two steps. `worker` is, for each process and job, its
`RevocationState` (credentials and the durable ones it was loaded from) and how
far `revoke` has come. The claim of a job is a lock file, so `Unclaimed` ranges
over all processes and a crash frees it. Tokens are numbered by the service:
rotation, expiry and a lost answer are visible here.

Only the app signs in and out (the instance lock in `app.py` admits one window);
other processes only replay. A session whose clear failed stays signed in with a
job in the queue: the job waits for the next start, and `NoSessionForgotten`
takes either for remembering it.

### RoomReplication and RoomLog

An action is one transaction of a device's store or one turn of its event loop.
Devices hold records (`records`), the edits not yet published (`queue`), an address
book (`book`), and per peer how far the pull is (`pull`). `Publish` is an edit with
`capture_after_mutation_locked`, `Capture` the capture of the periodic exchange;
`Connect`, `HelloAnswered`, `Inventory`, `Fetch`, `EndExchange` are one exchange.
What a record says is left out: ID, author and domain are kept. A device without
`retarget-v1` runs an older release (`Old`), modelled from what this one assumes
of it.

`RoomLog` is the promise to the reader of a log: it grows only, by own records or
by those of one other device at a time, one payload to an ID.

### RoomWorkspaces

`mode`, `active`, `live`, `row`, `log` are the store; `ctl`, `joining`,
`restoreAfterStop` the controller on the GUI thread; `cloud` and `restored` what it has
made of the cloud service (`stop_revision_stream` leaves the session signed in, so a
later sync of `sync_timer` starts the stream again, but only if `restore` was
called before); `jobs`, `stops`,
`closing`, `endpoint`, `joinPending`, `outcome`, `capture` the peer service on its own
thread, which talks to the GUI by queued `signals`. A job is a submitted coroutine;
the first one holds the session lock. A workspace is the number of the last edit
and the edits that are pending in it: what is saved, restored and cleared when a
room is entered or left. `made` is a history variable with the home of each edit.

## Runs

| Run | Question | Bounds |
|---|---|---|
| `delivery_edits` | do edits, claims, replays, answers, resolutions and resets in any order lose, forget or hide work? | four domains, 3 operations, one resolution, limits 2 |
| `delivery_chains` | is the dependency graph always plannable and answerable, and do requests stay exact when the core is upgraded between them? | commands only, 3 operations, both cores, limits below the number of operations |
| `break_scheduler` | do breaks, phases and triggers made ahead of the service follow what it answers? | 4 commands, one of another device, one explicit choice, every second focus earns the long break |
| `credential_store` | do the four places behave as one register, and does the sidecar name the keyring's credentials? | three token responses, crashes, errors, power losses |
| `cloud_session` | do overlapping restores, logins, syncs, 401s, sign-outs, shutdowns and restarts keep sessions apart, and does a sync that waits end? | two workers, two sign-ins, two generations, one `restore()` with one retry |
| `account_session` | do histories and accounts stay apart, is nothing lost unasked, and is the work of a session sent? | two accounts, one edit here, one revision of another device, one late worker at a time |
| `account_deletion` | does a deletion settle, take the right credentials only, and fence the data until the outcome is known? | two token pairs, three generations, two failing writes, one crash or quit |
| `session_revocations` | is no session forgotten, none revoked twice, and every queued one revoked in the end? | two processes, one session with two sign-outs, two tokens issued while signed in, two faults, a start at another origin |
| `room_exchange` | is no edit lost or published twice, do logs implement `RoomLog`, do devices converge, are held edits published? | two devices, one on the old release, two edits, one ID used twice, batches of one, one cut or restart |
| `room_workspaces` | do edits stay at home and numbers fresh, do joins settle and the cloud return? | two rooms, two edits, three route changes, one fault |
| `late_capture`, `unsent_scrub` | the findings below | smallest instance that shows each |

The bounds, and why the cases happen inside them. Three operations are enough
for a parent, a dependent and an unrelated row, or for a row replaced while its
predecessor is in flight. The clock bound equals the number of operations, so an
answer may carry a clock ahead of every local one. The revisions of answers stay at 0
in both delivery runs, as none of their properties compares two of them; that
they never go back is proved (`RevisionMonotone`). Limits of 1 and 2 stand for
256/512 and 4096/8192: each is reached. Four commands are a start, its finish,
the break and what the user does instead; the other device's command takes the
timer over at the service. Two workers are enough for `CloudSession`: everything
but `restore()` is refused while a worker of the generation runs, so more than
two overlap only with workers that are already fenced. Two accounts are one that
owns the workspace and one that signs in over it; a revision of another device
makes the conflict a resolution can run into. Of the workers that outlive their
session one is followed at a time, and the service is asked again only about the
resolution the device keeps (`done` is forgotten with any other). Two faults in `AccountDeletion` and
`SessionRevocations` are a failing write and a crash during its recovery.
`RoomExchange` has two devices so that liveness can be checked; records
that come through a third device, and any number of devices and edits, are
covered by the proofs of `EditsKept` and `LogSpec`. `MaxLate = 0` in
`room_workspaces` means that the room of a capture does not change between the
read and the transaction; `late_capture` lifts that and shows what then happens.

Where a cfg turns the deadlock check off, the bounds end the model where the
program would go on, or the program has stopped for good (a process that shut
down). `credential_store` and `account_session` check deadlock.

### Fairness

Safety properties need none. Liveness is checked under the fairness that threads,
timers and the event loop give; nothing is assumed of the user, other devices or
failures:

* `CloudSession`: each worker goes on, its events are delivered, and the GUI thread
  leaves `logout()`. Requests time out after 20 s, the browser is given up after
  180 s, `Worker.run` signals its end whatever happened.
* `AccountSession`: a worker ends, with an answer or without, and its end is
  delivered, the periodic and the retry timers fire (weak fairness); a request that
  is asked again and again is answered at last, refused conflicts included (strong
  fairness of `Answers`: the retry timer makes it possible again and again). A late
  worker owes nothing.
* `AccountDeletion`: the holder of the lock goes on, the two retry timers fire,
  workers end. That a DELETE arrives is not assumed.
* `SessionRevocations`: a sign-out begun goes on, a process that ended is started
  again (at any origin), a worker goes on; a waiting worker gets the lock file in
  the end (strong fairness, since another process may hold it now and then).
* `RoomReplication`: the event loop goes on, the periodic exchange calls every
  known peer again (strong fairness, since calls are refused while another is
  under way), the endpoint of the active room is opened at a start, an old
  release is updated some day.
* `RoomWorkspaces`: both event loops go on; opening, dialling and exchanging end or
  time out; `sync_timer` (15 s) keeps firing, and a sync is answered some day.

### What the runs show

* The never-sent proof is sound through every interleaving, so a rebase never
  drops a row the service may hold. A published row stays pinned to its exact
  request until that is answered or given up, and the answer can always be
  installed. Queued work leaves the store only for the reasons `NoSilentLoss` lists.
* A break started ahead of the service goes with the finish it rests on, with
  everything done to it; no break starts once the user went on; an answer does
  not undo a choice of the phase.
* The credential store is a register, power losses included; `IdentityKnown`
  holds until power is lost: a journal whose directory sync failed may then
  vanish after its replay wrote the keyring.
* A sign-out is final whatever refreshes and workers still bring, and memory and
  store never name two sessions.
* Nothing of one account gets into the history of another, with one exception that
  the code makes and `AccountsApart` names: the edits a worker still carried when its
  session was signed out, which it may send with the tokens of the next. Such edits
  come back into the workspace only with the history they went to. A signed-out
  account leaves nothing else behind, a history or an edit disappears only by a choice that
  showed it, and unsent edits of a session go out unless the user is asked
  something, a store error paused the resolution or the session ends.
* A confirmed deletion never authenticates again, an obligation takes only
  credentials whose deletion was asked for, and a running program settles it.
  `DeletedIsFenced` excepts a program that is quit while its DELETE runs:
  `shutdown` withdraws the obligation, though the request may have arrived.
* No fault makes the device forget a session the service still honours, and no
  process sends a recorded revocation again. A job can stay for good only where
  `EventuallyRevoked` says so; one whose session ended without the device
  recording it is retried for ever.
* Devices of a room converge unless its records conflict or more edits are held
  back than a batch may hold (the capture then raises; `Excused`).
* Rooms entered, left, joined and cancelled in any order keep every edit at home.
  A change of the route that cancels a join and is then refused (the cloud is busy,
  the store fails) leaves the revision stream off; the periodic sync brings it back.

Statements of tests or comments that hold only in the cases they name, met
while modelling, are in the notes of the hazards: the automatic finish that is
repeated while the first is in flight, the stale trigger that blocks newer ones,
the phase advance that outlives a dropped break, a late worker that takes the
generation of the next session, the oversized saved resolution, a join whose first
batch lacks the genesis, a start of a room that finds its old endpoint still closing.

### Findings

* `late_capture`: `capture_local_records` reads the active room before its
  transaction and without `workspace_lock`. Left in between, what was queued
  outside of rooms is published in the room and the room's workspace is
  overwritten; the dialog promises that leaving restores the state from before.
* `unsent_scrub`: after a restart between `prepare_deletion` and the DELETE, a
  session that ended elsewhere clears the credentials, and the retry of the
  clean-up takes missing credentials for a deleted account: the workspace is
  scrubbed although no deletion was asked of the service.

## Proofs

All theorems hold for every value of the constants that satisfies the named
assumptions (disjoint model values, limits of at least one, any bounds). TLC
checks the same formulas on the instances above.

`DeliveryStore_proofs`: the safety properties are not inductive. `IInv` adds:
`CountersCover` (ids name one row, and clocks, ids and head are covered by the
persisted counters), `EdgesSound` (a held command has proof and waits for an
earlier, free, queued command), `ProofCovers` and `OutstandingKnown` (a
saved request has been handed out, and a resolution captures exactly the
queue). `EdgesSound` is what makes a rebase possible: whatever the core drops
has proof. The proof has one lemma per action; `PublishInvariant`,
`RebaseInvariant` and `EnqueueInvariant` carry what several actions share. The
action properties follow from `IInv` and the effect of each kind of step.

`CredentialStore_proofs`: `IInv` says, for each step of a call, what it finds:
a replay finds the value it started from in the journal (`ReplayInv`), a save
can be undone until the keyring was written (`SaveInv`), behind the keyring
write the journal hides nothing new (`CommitInv`), behind the tombstone nothing
shows (`ClearInv`). One lemma per action shows that `IInv` is kept and that the
step is a step of the register; `RegisterImplemented` follows. `IdentityKnown`
needs a second invariant on top (`IdentityInv`): without a journal the keyring holds
nothing but what the sidecar names, the sidecar has been written when the journal
is unlinked, and a sign-out forgets it only once the keyring is empty.

`CloudSession_proofs`: the fence is what makes the properties inductive. `IInv`
adds `WorkersSound` (no worker is ahead of the generation; what a worker holds
exists and, as long as its fence is the current generation, was not left) and
`SessionsSound` (memory and store hold sessions that exist, and an access token
has a session). A sign-out raises the generation, so every worker that could
hold the session it leaves is fenced by then, and a new session is one nobody
left. `WorkerGoesOn`, `StartSound` and `FenceRaised` carry what workers,
starts and fences share; one lemma per action follows. `RetriesSurvive` is an
action property of the same invariant.

`SessionRevocations_proofs`: for any number of processes, sessions and faults.
`IInv` adds `QueueEnded` (what is recorded as acknowledged has ended at the
service), `WorkersOK` (a worker that asks has a pending record; a state loaded
from an acknowledged record is acknowledged itself, so an old state cannot bring a
job back), `OneOwner`, `Untried` and `LeavingOK` (the job of a sign-out is new until
it is durable, and from then on pending as long as the session lives, even if
another process is already replaying it). `ReplaySafe` carries every step of a
worker, `ProcessSafe` crash and start, `ServiceSafe` the service.

`RoomReplication_proofs`: for any number of devices and any batch size. `IInv`
adds that nobody holds a record its author has not published, that what is about
to be fetched is in the log of the peer, and that an author never clashes with
itself; the logs implement `RoomLog` and `EditsKept` follows.

`AccountSession_proofs`: for any accounts, edits and histories. The handlers are
functions from the device to its next state, and so is the proof: `IInv` is
`Good`, a predicate of a device and a cloud, one lemma per handler says what it
makes of a sound device, and the proof of an action composes them. `Good` adds to
the properties whose things are (`Bound`: workspace, session, resolution and saved
request name one account unless the workspace is quarantined), that a quarantine
or a sign-out lets no request run (`Held`), that a running request carries the saved
batch of the account it runs for (`Sending`), which dialogs may lie over each
other (`Asked`), and where each edit may be (`Mine`). What went astray is no longer
the business of its own account (`Ledger` is `whose` without it), and
while a worker is late its edits are nowhere else on the device, unless the reset its sign-out owes is still due (`Barred`), and what it carries is its user's or nobody's yet (`Carried`); with that `Good`
is inductive over the late request too. The quarantine is what makes
`AccountsApart` inductive: a workspace that belongs to somebody else is held back
from the moment of the sign-in until the switch or the sign-out.

`AccountDeletion_proofs`: for any number of tokens, deletions, failing writes,
crashes and quits. A property of the outcome is not inductive, because an
obligation is settled by several writes with the lock held and the process may
die between any two. `IInv` therefore says for each step under the lock which
obligation it settles and what the writes before it have left (`LockOK`, `DueOK`);
for a running deletion what is durable at each of its steps (`JobOK`,
`AnnouncedOK`, `ConfirmedOK`); when the service may already have deleted
(`RiskOK`, `CredentialsOK`); and what holds the fence (`FenceOK`, `DeletingOK`).
`StoreMoves` says what any one write may do to keyring and records; one lemma per
way an obligation may go (rearmed, unmarked, settled, left) is shared by the
callers. All of it is about the steps of the code as it is, with the exception
that `DeletedIsFenced` itself names: a shutdown that withdraws the obligation.

`RoomWorkspaces_proofs`: for any number of rooms, edits, jobs and restarts. Joins are
completed by the other thread, so `IInv` says how far the two may be apart:
only the join submitted last can complete (`OnlyLast`), and the controller's route
differs from the store's only while a join that completed has not been heard of
(`Routed`). On that `Placed` is inductive: entering and leaving swap workspaces, and
each edit stays in the one it was made in. The theorems are about executions
in which no capture has committed after its room was left (`late = 0`): such a
capture is the finding `late_capture`, and without it the bound `MaxLate` plays no part.

Proofs also cover statements no run lists, since they are strengthenings of
listed ones: `BusyIsExact`, `SignOutRevokes`, `RetriesSurvive`, `OrdersAgree`,
`RevisionMonotone`, `OneRequest`, `ConflictsAreReal`, `OriginsKnown`.

Only model-checked: everything temporal under fairness (`QueuedSyncEnds`,
`UnsentEditsGo`, `ObligationSettles`, `EventuallyRevoked`, `Convergence`,
`HeldIsPublished`, `JoinSettles`, `CloudReturns`), which is outside the prover's
reach; the action properties of `BreakScheduler`, whose timer, triggers and phases
are folds over the queued commands, so that what a step makes of them is an
induction over data; and `NothingLostUnasked`, which needs an
invariant of what each open prompt has shown.

## Hazards without a property

* Two workers of a signed-in session present one refresh token: `CloudSession`
  has one value for all tokens of a sign-in.
* A join whose first batch does not hold the genesis (a room whose log begins with a
  whole batch of settings, which sort before it) never completes: the projection
  refuses the batch. The model has it; `Convergence` speaks of completed joins only.
* A start submitted while the endpoint of the same room is closing leaves the
  room without an endpoint: likewise.
* The mutation journal of the secure store (below).

## Plan

1. `NothingLostUnasked` for `AccountSession`: the invariant that a prompt's choice
   rests on the preview it was opened for (a preview shows the history as it is at
   its revision; a saved `keep_remote` request has the queue in `given`, a saved
   `replace_remote` one the history it replaces; a saved request was built at a
   revision not ahead of the service and leaves no normal claim).
2. An abstract outbox (an operation is queued, in flight, answered or dropped)
   that `DeliveryStore` implements.
3. `SecretMutation`: `SecretMutationJournal` over a keyring that fails after it
   wrote.

## Not modelled

* Qt views, wiring, sound, localization, monitoring, release tooling: they keep no
  state the properties are about.
* Validation of payloads and of the shape of responses, the SSE parser, the wire
  format of records: pure functions of their input, and covered by unit tests.
* The shared core: a WASM binary that is not part of the sources. Its reduction,
  plan and rebase are modelled as far as the store checks or the tests fix them.
* The operations with clock 0 that the migration of an old database queues
  (`_migrate_legacy_preferences`): an edit here gets a fresh ID and the next clock.
* Edits by the CLI or TUI while a resolution exists in the window's memory only (it is
  saved when its strategy is chosen; from then on every process refuses them).
* Sessions the service granted but the device discarded (a cancelled sign-in, the
  answer to a refresh that was lost): `SessionRevocations` is about those it had.
* Pages of an inventory (an exchange asks for 1024 entries at a time): a record that
  comes in behind the cursor is found by the next exchange, as one that comes in
  after the inventory is here.
* Physical time and clock-skew refusals; the countdown of a timer (a timer expires
  at any moment); pausing and retargeting a timer.
* The reduction of room records to a projection and the leases of a workspace.
* `SecretMutationJournal` and the platform back ends of the secure store, the
  legacy `secret-tool` back end, unreadable or legacy markers, metadata and jobs.
* Failing loads and unreadable local data in the controllers.

The reasons are in `PROJECT.json`.
