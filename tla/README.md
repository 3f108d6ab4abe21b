# Verification of Openrind Shell

TLA+ models of the parts of this repository in which concurrency, failures and
restarts can lose a user's work or leave the system stuck. Of Openrind Shell:
the sync of an agent's home with PostgreSQL, the daemon through which bash
commands reach it, the file system over the table, and the migrations of that
table. Of Openrind Desktop: the supervisor of its child processes, the bridge
from chats to agent sessions, and the store of environment variables. TLC checks
the models on small instances; TLAPS proves the main safety properties of each
of them for every value of the constants.

Every operator that stands for code names in `PROJECT.json` ("map") the source
lines it translates. Paths below are relative to the repository.

    tlc -config MCHomeSyncQuiet.cfg MCHomeSync      one run
    tlapm HomeSyncProofs.tla                        one module of proofs

## 1. The system

Openrind Shell gives an agent (Claude Code, OpenClaw) in a sandbox a home
directory that survives the sandbox: its files are rows of
`_openrind.workspace_files`. Openrind Desktop is the application that starts
sandboxes, agents and messaging bridges: its server-v2 supervises an OpenCode
server and a router, and the router turns chat messages into prompts of OpenCode
sessions.

```
 agent tools ──write──▶ /home/agent ◀──syncToFs── daemon ──▶ rows in PostgreSQL
     │ fs.watch events       └──────syncFromFs──────▲  ▲              ▲
     └────────▶ watcher ───"sync"──▶ mutex ─────────┘  │              │
 agent's bash ─▶ client ─socket────▶ mutex ─▶ command in just-bash ───┘
                    └── no daemon: the client syncs and executes by itself

 Slack, Telegram ─▶ router ─prompts─▶ OpenCode        shells ◀── env.json ◀── server
                       ▲                 ▲
                       └── server-v2 starts, watches, restarts, stops
```

### Components that are modelled

| component | state | operations | what is hard | what makes it correct |
|---|---|---|---|---|
| home sync, `openrind-shell-js/src/sync.ts` | files, rows, (mtime, size) of both, the watcher's `dirty`, `syncing`, `suspended`, debounce timer | `syncFromFs` (select, walk, batched upserts, prune), `syncToFs` (select, prune, write), `watchAndSync` | another process writes the files between any two steps; every statement commits by itself | no edit is overwritten or pruned before it is saved; a command's rows are not undone; "clean" really means saved |
| bash daemon and client, `sandboxes/openrind-shell/openrind-shell-bash.mjs` | one promise-chain mutex, a socket file, the connections | start, execute, reply, shutdown; connect, fall back | all daemons of a sandbox share one socket name; signals while jobs are queued; a client that loses its daemon repeats its command | every command is executed or reported as not executed, twice only when its daemon was lost; everybody ends |
| sandbox bootstrap, `sandboxes/openrind-shell/setup.sh` | the daemon's pid, the EXIT trap | start and await the daemon, hand over to the agent, clean up | prewarm and session overlap | as above |
| schema migrations, `openrind-shell-js/src/db/migrations.ts` | schema, `schema_version`, an advisory lock | `runMigrations` | several sandboxes boot at once; ~25 autocommitted statements; sessions that outlive their client | nobody goes on with an incomplete schema; one migrates at a time |
| workspace file system, `workspace-fs.ts`, `db/workspace-queries.ts` | the rows as a tree | `writeFile`, `appendFile`, `mkdir`, `rm`, `mv`, `cp` | one operation is many autocommitted statements; several shells on one workspace | an operation does what its name says; a shell that dies leaves a tree; nobody else's files are touched |
| runtime supervisor, `openrind-desktop/apps/server-v2/src/services/runtime-service.ts` | handle, status, stopping flag, restart timer and history of OpenCode and of the router; `bootstrapPromise`; `shuttingDown` | `bootstrap`, `applyRouterConfig`, `upgradeRuntime`, `dispose`, `reloadWorkspaceEngine`, exit handlers, restart timers | every one of them awaits, and nothing keeps two of them apart | no child without a handle; nobody waits for what will not come; a stop is not taken for a crash |
| opencode router, `openrind-desktop/apps/opencode-router/src/bridge.ts` | binding and session row of a chat (SQLite), a promise chain per session | `handleInbound`, the prompt task, `/reset`, `/dir`, bindings over HTTP | handlers of one chat overlap; a restart, and Telegram sends a batch again | a message is prompted once at a time, in its chat's directory, not in a session given up |
| desktop server, `openrind-desktop/apps/server/src/env-file.ts` | the file, the loaded list, the load under way, a queue of changes | `list`, `upsertMany`, `delete` | each change rewrites the whole file; a write may fail after it took effect | what was acknowledged is in the file |

They interact so: `setup.sh` runs the migrations, restores the home with
`syncToFs`, then starts the daemon. The daemon's mutex serialises the watcher's
`syncFromFs`, each command (pre-sync, just-bash over `WorkspaceFs`, post-sync)
and the flush at shutdown. `WorkspaceFs` changes rows only; the post-sync
carries them to disk. Supervisor and router meet in the router's child process:
it is started for the URL OpenCode has at that moment and is stopped with it.

### Components that are not modelled, and why

* **Database connection** (`db/pool.ts`, `http-connect-socket.ts`,
  `embedded.ts`): the handshake of the CONNECT tunnel is a small protocol with a
  timeout; planned as ConnectTunnel.
* **PgFs** (`pg-fs/`, `db/queries.ts`): a read-only view without state.
* **safety, memory, optimize, cli** of `openrind-shell-js`: pure text functions,
  batch jobs and argument handling.
* **openclaw launcher, pty bridge, image, policy** of `sandboxes/`: one shell
  script that starts things in turn, a byte filter for escape sequences, and
  declarative files.
* **Legacy Rust crates** (`crates/`): the FUSE predecessor.
* **Desktop, server-v2, the rest**: the registry, managed resources and the
  content of the router's configuration are CRUD on a synchronous SQLite
  connection.
* **Desktop, server, the rest**: `tokens.ts` (the careless twin of `env-file.ts`:
  concurrent first loads, overlapping writes), reload watcher, event log of file
  sessions, approvals, routes. No comment or test promises what their races
  break, so they are hazards with a note, or left to section 7.
* **Desktop, router, the rest**: pairing of private bots, model commands, the
  start of adapters, the event stream, delivery and media.
* **Desktop, orchestrator, electron and tauri shells**: start and stop the other
  processes; they overlap the supervisor.
* **User interface, share site, story book, demos, docs, translations, build,
  CI**: presentation and scripts.

## 2. Modules

| module | models | extends |
|---|---|---|
| `HomeSync` | the sync of one sandbox's home, inside one daemon | |
| `HomeSyncProofs` | theorems about it | HomeSync, TLAPS |
| `SchemaPromise` | what `runMigrations` promises: the abstract specification | |
| `Migrations` | `runMigrations` of several sandboxes | instantiates SchemaPromise |
| `MigrationsProofs` | theorems about it | Migrations, TLAPS |
| `FileTree` | a tree of files and what each operation does to it in one step | |
| `WorkspaceTree` | the operations as runs of SQL statements | FileTree |
| `WorkspaceTreeProofs` | theorems about it, and lemmas about paths and trees | WorkspaceTree, TLAPS |
| `BashDaemon` | daemons, clients and `setup.sh` of one sandbox | |
| `BashDaemonProofs` | theorems about it | BashDaemon, TLAPS |
| `RuntimeSupervisor` | `runtime-service.ts`: one server, two children | |
| `RuntimeSupervisorProofs` | theorems about it | RuntimeSupervisor, TLAPS |
| `RouterBridge` | `bridge.ts`: from a message to its prompt and reply | |
| `RouterBridgeProofs` | theorems about it | RouterBridge, TLAPS |
| `RouterBridgeOrderProofs` | theorems about sessions given up and the order of prompts | RouterBridgeProofs |
| `EnvStore` | `env-file.ts`: environment variables in a file | |
| `EnvStoreProofs` | theorems about it | EnvStore, TLAPS |
| `MC…` | model values, symmetry, named sets for TLC | the module they are named after |

### 2.1 HomeSync

| model | code |
|---|---|
| `home`, `row`, `stamped` | the file, the row's content, whether the row's (mtime_ns, size) equal the file's stat (`sync.ts:498-507`) |
| `watch`, `dirty`, `timer`, `syncing`, `suspended` | the closure of `watchAndSync` (`sync.ts:555-641`) |
| `queue`, `pc` | the promise chain of `runWithSyncMutex` (`openrind-shell-bash.mjs:28-34`) and the place of the job at its head |
| `unvisited`, `unseen`, `reading`, `batch`, `current` | locals of `syncFromFs` |
| `AgentWrite` | an agent's tool writes or removes the real file at any moment |
| `Deliver`, `TimerFire`, `WatcherError` | callbacks of `fs.watch` and of the debounce timer |
| `BeginScan`, `Stat`, `Read`, `Flush`, `Prune` | `syncFromFs`; the failures are `StatFails`, `ReadVanished`, `SyncFromFails` |
| `CommandArrives`, `CommandWrite`, `CommandEnds`, `Query`, `Apply` | `execCommandWithSync`; the failure is `SyncToFails` |
| `Signal`, `Exit` | `shutdown()` |

The granularity follows who can interrupt whom. `syncFromFs` is cut at every
system call and statement: an agent is another process and writes the home
between `statSync` and `readFileSync`. The file calls of `syncToFs` are one
synchronous run, in which no callback of the daemon runs, so they are one
step; an agent's write in the middle of that run has the same effect on its own
file as one just before or just after.

Abstractions. A path is one file; directories are left to SyncTree (section 7).
That shows in one place: `pruneLocal` removes a directory that is not in the rows
with all it holds (`sync.ts:298-307`), the excluded files too (`proj/.git`).
`Nested` are the files below a directory that is itself synced; as the rows of
directories are not modelled, `MirrorHome` leaves open which of those files go
(`stray`), whether or not they are excluded or have a row. An `unlink` or `rmSync` that
fails is swallowed by the code, and not modelled.
`stamped` abstracts the comparison of mtime and size: a write clears it, so two
writes that leave both equal are outside the model. The row written with a stat
older than the file (written between stat and read) is not stamped: that is
`current`. The first SELECT and the start of the walk are one step. `Init` is
the home as `setup.sh` has just restored it, with or without the stats of its
own flush. `unmirrored`, `edited`, `absent`, `discarded`, `reverted` are
histories that only properties read.

### 2.2 Migrations and SchemaPromise

`pc[b]` is the place of boot *b* in `runMigrations`; `made` is the set of DDL
statements whose effect is in the database, by number. `Guarded` are the
indexes behind `ensureIndex`, `Optional` the GRANTs whose missing role is
swallowed. Time is counted in polls of the lock. A connection that is lost
(`ConnectionLost`) leaves a session the server has yet to notice: the `Ghost`,
which still holds the lock and whose statement may still take effect
(`GhostGoes`). `Flush` is another sandbox's write that keeps `CREATE INDEX`
waiting until `lock_timeout`.

Assumed: a client keeps its server session between queries, as it does over a
direct connection or a session-mode pooler. The README points to the
transaction-mode port 6543, where a session-level advisory lock means little;
the theorems that need no mutual exclusion say what is left there.

### 2.3 FileTree and WorkspaceTree

`FileTree` is a reference that has nothing of the code: a tree, and for each
operation when it fails and what it does (`Fails`, `Effect`).  `WorkspaceTree`
keeps for each shell the statements it has yet to execute (`todo`); an action is
one SQL statement with the checks in front of it, and pushes the statements that
follow from what it read. A shell that dies takes no further step, which every
behaviour allows.

A name stands for any name, those with `_`, `%` and `\` included. What these do is
given by two operators, parameters of the module: `Matches(p, q)` is
`q LIKE p || '/%'`, with the names of `p` unescaped as `deleteTree` and `renameTree`
leave them (`%` matches across `/`, `\` takes the meaning from the character behind
it), and `Respelt(q, p, to)` is `to || substring(q FROM length(p) + 1)`, a cut by
characters that may fall into the middle of a name. `LikeAssumption` has what is true
of all names, and no more: a pattern of *n* names matches only longer paths, and what
is really below `p` keeps the rest of its path. `Plain` says that nothing else is
matched and nothing below is missed, which is so for names without these three
characters.

With `Unreliable`, any statement may fail (`StatementFails`): a lost connection, or
`statement_timeout`. The code answers in three ways. It throws; or an empty `catch`
ignores it (`Ignored`: `ensureParents`, `mkdir -p`, the second half of `rm -r`); or it
is taken for the answer "no such row", or "it is there already" (`Misread`: the look
before a write, an append or a copy, the insert of `copyDirRecursive`). A statement
that took effect while its answer was lost is the statement, and then a shell that
stops, which it may at any point, or that goes on.

`Proper` are the calls whose outcome POSIX, the shell and the code agree on; the
others (writing below a file, moving a directory onto a full one, moving a path onto
itself) are where the code has no promise to keep. `Used` keeps what is copied
or moved within `Path`, a bound of the model: a target is no deeper than its source, and
`mv` is called only where every path its UPDATE may make is in `Path`. The columns
`name` and `parent_path` follow from the path and are not modelled on their own. In
which order `renameTree` updates its rows is left open. `createFile`'s look and insert
are one step, as the insert decides. The root is never a call's argument. Not
modelled: chmod, utimes, symlink, and `rm --force`, which reports success when its look
fails.

### 2.4 BashDaemon

`session[s]` is a run of `setup.sh`, `daemon[s]` the daemon it started; `socket`
is the daemon whose socket bears the common name. A job is one step
(`PreSyncFails`) or two (`Execute`, `Reply`): what it does to the home is
HomeSync. A client without a daemon executes its command by itself (`RunsAlone`), or
fails before it does (`AloneFails`): the database, the shell, the pre-sync. `refused`
are the clients that were told so, by an error. A client that is killed takes no part
any more and is not modelled. `Exits` is the EXIT trap (kill, and `rm -f` of the socket, together);
a session that hands over to the agent (`exec`) has lost the trap. A session
that saw no socket in time has forgotten its daemon's pid and cannot stop it.

### 2.5 RuntimeSupervisor

The service is one JavaScript thread. An asynchronous call is a *task*: the
labels it still has to go through (`call[t].todo`) and the child it waits for
(`call[t].on`). Tasks are `bootstrapPromise` ("boot"), the callbacks of the two
restart timers ("revive", "restart"), the exit handler of each OpenCode process,
and the requests. A task in `ready` runs up to its next real await before any
other event; a step of the environment needs an empty `ready`. So the
interleavings are those of the event loop, and no more.

| model | code |
|---|---|
| `slot[c]` | `opencodeHandle`, `opencodeState`, `opencodeStopping`, the timer and the attempts of one child; the same for the router |
| `StartOpencode`, `BundleResolved`, `OpencodeReady`, `OpencodeFails` | `startOpencode` and its helper in `local-opencode` |
| `StartRouterOrNot`, `BinaryReady`, `RouterReady`, `RouterTimesOut`, `RouterFailed` | `startRouter` |
| `StopChild`, `StopNothing`, `Stopped` | `stopOpencode`, `stopRouter` |
| `ProcessExits`, `Reap`, `TimerFires` | the exit handlers and the `setTimeout` in them |
| `Bootstrap`, `JoinBoot`, `BootEnds`, `Throw` | `bootstrap` and its shared promise |
| `Arrives` | the requests: `applyRouterConfig`, `reloadWorkspaceEngine`, `upgradeRuntime`, the stop of the server |

`proc` is the operating system's view: a killed child is "dying" until it exits.
Process ids are used again. The URLs and ports of the children, which are
passed on and not decided upon, are left out. `overlapped`, `told`, `interfered` are histories with
which the properties say under which condition the bookkeeping can be trusted.

### 2.6 RouterBridge

`at[m]` is what the handler or the task of message *m* awaits, `queue[s]` the
chain of session *s* in `sessionQueue`, `binding` and `row` the two tables.
`Arrive` is `handleInbound` up to its first await: authorization aside, it reads
the row, computes the directory, stores the binding and either enqueues or asks
for a session. Slack calls the handler for every message at once; grammY awaits
one Telegram update before it takes the next (`BotIdle`) and confirms a batch
with the next poll, so an unconfirmed update comes again after a restart
(`unconfirmed`, `Restart`). That `BotIdle` holds assumes that the adapter stays: the start of
adapters is not modelled, and one that is replaced by the HTTP API while its handler
waits (`bridge.ts:940-965`) would hand over messages beside it. `ForgetSession` is what `/reset`, `/dir` and the
binding routes of the HTTP API have in common. A session that was being created
while its chat was reset is in `crossed`. The order of the messages is that of
the adapters; Slack's own retries are not modelled, as the socket client
acknowledges before it calls the handler.

### 2.7 EnvStore

A request is one call of `list`, `upsertMany` or `delete`; `queue` is
`mutationQueue`, `loading` is `loadPromise`, `memory` is `variables`, or None
until `loaded`. A change computes the new list (`Compute`), writes a temporary
file and renames it (`Rename`), and is acknowledged after the `chmod`
(`Acknowledge`); `WriteFails` is an exception before or after the rename.
`Broken` is any content `readStore` refuses. `allowed[k]` is a history: the
values a reader of the file may find for a variable. `NotSeen` is a failing
`stat`, which `exists` takes for a missing file; `blind` remembers it.

## 3. Runs

| run | instance | question |
|---|---|---|
| `home_quiet` | 2 files, 2 contents, 2 edits, 1 command, 1 failure of the mirror or the watcher, a stop; fairness | is an edit ever lost if the agent keeps off the home while a sync runs? does it reach the rows, does the mutex drain? |
| `home_busy` | 2 files and an excluded one, batches of 1, 2 edits at any time, 1 command, 1 failing pre-sync or unreadable entry, a stop | what holds even when the agent writes in the middle of a sync? |
| `home_edit_during_command` | 1 edit, 1 command | violation: an edit made while a command runs |
| `migrations` | 2 boots, 4 statements (table, guarded index, GRANT, version), 2 polls, 2 failures, 1 reboot; fairness | is the schema complete whenever someone goes on? does every boot end, and the lock with it? |
| `tree_alone` | every tree over 2 plain names and depth 2, every proper call, one shell, no failing statement | do the statements add up to the operation, and what is left of a shell that dies? |
| `tree_shared` | 3 places, the names `\\%` and `\`, two shells, proper write, mkdir, rm, mv, any statement may fail | does anyone touch what is not his? |
| `daemon_commands` | a prewarm and a session, two commands, 2 failures (crash, start, late start, pre-sync, standalone mode); fairness | is every command executed, and how often? |
| `supervisor_calls` | 2 process ids per child, 2 requests of any kind, 2 crashes or failed starts, 1 restart per window | does the bookkeeping follow the children, does anyone wait in vain? |
| `supervisor_routers` | the first bootstrap, 1 configuration change, no crash | violation: two routers |
| `bridge_chats` | 3 messages of a Slack or a Telegram chat, 2 directories, 1 reset or rebinding, 1 failure or restart; fairness | is each message prompted where, when and as often as it should be? |
| `bridge_reset` | 2 messages, 1 reset | violation: a reset during the creation of a session |
| `env_requests` | 3 requests, 2 variables, 2 values, 2 failures or crashes, any initial file | is what was acknowledged in the file? |

### What the runs show

**home_quiet** – `NoEditDiscarded`, `CleanMeansSaved`, `FlushedAtExit`,
`EditsAreSaved`, `QueueDrains`. With an agent that leaves the home alone while a
job is queued, and events that arrive before the next command, no sync back to
disk overwrites an edit that is not in the rows, with or without a watcher; a
watcher that calls the home clean is right; a stop leaves nothing behind; every
watched edit reaches the rows. **home_busy** drops both assumptions:
`PruneOnlyMissing` (only a row whose file was missing or unreadable during the
walk is pruned), `NoCommandReverted` (no sync takes a stale file for newer than a
command's row) and `ExcludedStayLocal` (an excluded file is never uploaded and never written; it is
removed only where a sync back prunes the directory it is in) hold all the same.
`NoCommandReverted`
does depend on a post-sync that succeeds: with "postsync" among the failures a
command's rows are undone by the next walk, which is the hazard at
`openrind-shell-bash.mjs:94`.

**migrations** – a recorded version implies the whole DDL
(`StampedMeansComplete`), a call that returns leaves a complete schema
(`DoneMeansMigrated`), one session migrates at a time (`OneMigrator`), no boot
queues for the lock of an index that exists (`NoNeedlessWait`), a boot that
leaves the locked section has given up the lock unless the unlock or the
connection failed (`LockIsReleased`), every boot ends, and the whole implements
`SchemaPromise`.

**tree_alone** – with plain names and no failing statement each operation of a lone shell ends in the state and with the
outcome of the reference (`ResultAsSpecified`); a shell that dies between two
statements leaves a tree (`ShapedUnlessMoving`), and a dying `mv` leaves every
file under its old or its new path (`MoveSparesSource`). `mv` is excepted from
the shape because `renameTree` renames the directory and its descendants in two
statements. **tree_shared** – with two shells, failing statements and names that are patterns, a
row changes only at or below a path of an operation under way, at what such a path
matches as a `LIKE` pattern, or where a `mv` puts what it matches (`OthersUntouched`),
and nothing that exists is replaced by a creation (`CreatesAreExclusive`). Of its two
names, as characters `\\%` and `\`, the first matches every path of two names and the
second not even what is below it; the comments of MCWorkspaceTree work it out. Both runs
have `OnlyProper`: with the other calls too tree_shared has some five million states and
takes longer than a run may, so a mv onto itself or a write below a file is in the
theorems only.

**daemon_commands** – a client that ended saw its command executed or was told
by an error that it was not: the pre-sync failed, or standalone mode
(`NoCommandDropped`); it was executed twice only if the
daemon crashed or was already being stopped when the command came
(`RepeatedOnlyIfExcused`); every client and every stopping daemon ends.

**supervisor_calls** – as long as no two starts or stops of a component overlap,
the one child that lives is the one the service holds (`OneChildHeld`); whatever
overlaps, every task waits for something that is still to come
(`NobodyWaitsInVain`); a server that is stopped in a quiet moment leaves no
process (`StopLeavesNoChild`); and with one request at a time no exit that was
asked for is answered with a restart, though the flag that tells is read after
an await (`StopIsNoCrash`).

**bridge_chats** – prompts of one session never overlap (`OneAtATime`), and in a
Telegram chat keep their order, replays included (`TelegramInOrder`); a message is
prompted in a session of the directory its chat had when it came
(`RunsWhereBound`) and not in one the chat had given up, except one that was
being created at that moment (`StaleSessionLeft`); a failure stops nobody
(`EveryMessageEnds`).

**env_requests** – at every moment the file holds for each variable the last
acknowledged value, or one of a change that was begun since
(`AcknowledgedIsStored`), whichever writes fail half-way.

### Where the code departs from what it says

* **An edit during a command is lost** (`home_edit_during_command`). `syncToFs`
  writes the rows over every file without looking whether it changed since the
  pre-sync. The comment at `openrind-shell-bash.mjs:144` says any change is
  captured.
* **A configuration change during the bootstrap starts two routers**
  (`supervisor_routers`). While `bootstrap`'s `startRouter` awaits the binary or the
  child's health (`runtime-service.ts:746-780`, called at 970), `applyRouterConfig` sees
  neither handle nor running router, skips `stopRouter` (986) and starts a router of its
  own (996). Both come up, and the server holds the one that did so last. No crash is
  needed. `prds/server-v2-plan/architecture.md:153` says one router per server.
* **A reset is undone** (`bridge_reset`). `createSession` stores its session after
  the `/reset` that came while it was awaited; the user was told to "start fresh"
  (`bridge.ts:2071`).

Also met, and not a run of their own, as nothing in the repository promises
otherwise or another run has the case among its exceptions:

* *Home.* A change reported during the watcher's own sync finds `syncing` set when
  its debounce timer fires, and is dropped without another timer (`sync.ts:583`);
  the flag it had set is cleared by `.then(markClean)` of that sync, so
  `EditsAreSaved` fails when `QuietSync` is FALSE. `walkDir` returns on an error
  of `readdirSync`, and the prune deletes the rows below what it could not read.
* *Daemon.* A command whose daemon dies after executing it is executed again by
  the client (`openrind-shell-bash.mjs:336`). The prewarm's daemon, still
  flushing, unlinks the socket of the next session's.
* *Tree.* `deleteTree` and `renameTree` build `LIKE` patterns from unescaped names:
  `rm -r my_dir` empties `my-dir`, too, `mv 'a%' b` makes `/abc/x` into `/bc/x`, and
  `rm -r` of a directory with a `\` in its name leaves what is in it without a
  directory. `mv f f` loses the file: the destination is deleted first. A statement that
  fails goes unnoticed in many places: `mkdir -p` reports success with nothing made, a
  write makes an entry without its directory, an append whose first look fails
  replaces the whole content by its chunk, and `cp -r` leaves files out. An append of another shell is lost between
  the read and the write of `appendFile`. A write below a file creates a row that
  `syncToFs` cannot put on disk.
* *Supervisor.* OpenCode that crashes while its router is starting stays at
  `restart_scheduled`: the timer's `bootstrap()` joins one that is past
  `startOpencode`. After `reloadWorkspaceEngine`, `shuttingDown` is never reset
  and no crash is followed by a restart. The stop of an upgrade that overlaps
  another is answered with a restart, as the first resets the flag of both. A
  router that starts while OpenCode is replaced keeps the dead URL. Overlapping
  `applyRouterConfig` and `bootstrap` leave a child without a handle.
* *Bridge.* Slack messages overtake one whose handler awaits "Session started.".
  Two first messages of a chat create two sessions. A failing `createSession` or
  greeting loses the message without a word to its sender. A late answer without
  text forgets whatever session the chat has by then. A session OpenCode does not
  know any more is never cleared from its row.
* *Environment.* A `chmod` that fails after the rename answers with an error while
  the file has changed and memory has not: `DELETE` then finds no variable the
  shells still inject, until a restart. A failing `stat` makes the next change
  erase all variables. What is written into the file by hand while the server runs
  is overwritten.

### Bounds, and why they are enough

The counters (`MaxEdits`, `MaxCommands`, `MaxFaults`, `MaxReboots`, `MaxPolls`)
bound how often the environment acts, never what the code does. Two files are
the least with which one is saved and another is not, and two batches differ;
the third of `home_busy` is the excluded one. Two edits and two commands let a
sync's effects meet a later command; a third of either repeats the pattern. One
failure (two for the lock, daemons, children and the variables' file, where a
failure has to meet another one's recovery) reaches every error path. Two boots,
one of which may boot again, have one that holds and one that waits, and one
that comes when the other has gone on; the theorems have any number. Four
statements are a table, a guarded index, a GRANT and the version table. Depth 2 with two names
has all relations of two paths: same, parent, child, sibling, unrelated. Two
clients make a queue; a prewarm and a session are the two kinds `setup.sh` has.
Two requests to the supervisor are the least that overlap, and a third party is
always there: the first bootstrap, a timer or an exit handler; two ids per child
let an old process outlive its successor's start, and `MaxAttempts = 1` has both
outcomes of the policy. Three messages are one that is answered, one that waits
and one that comes after; sessions of two chats are disjoint, so one chat of
either kind is enough, and four session names are more than three messages ask
for. Three requests to EnvStore are one writing, one queued behind it and one
that comes after a crash.

`CHECK_DEADLOCK FALSE` is set where the system may rest: a daemon or a server
that has exited, boots, messages and requests that have ended. The tree runs leave it on: a shell can always
call again.

### Fairness

* HomeSync: weak fairness of `JobStep` (the job at the head of the mutex),
  `TimerFire`, `Exit` and of the delivery of events. They are the event loop and
  the kernel. Agents, clients, signals, failures and a command's own writes owe
  nothing.
* Migrations: weak fairness of each boot's next step, and of the server noticing
  a dead session (TCP keepalive). None of `SessionEnds`: a pooled connection may
  live as long as its process.
* BashDaemon: weak fairness of each daemon's step and of each client's. None of
  sessions, signals and failures.
* RouterBridge: weak fairness of each message's next step (`Step`), which is an
  answer of OpenCode or of a chat's server, or the turn in the chain. Every
  request has a timeout or a failing socket behind it. None of messages,
  commands and failures.

## 4. Proofs

`HomeSyncProofs`
: `TypeCorrect` – `Spec => []TypeOK` for any constants. `QuietEditsSurvive` –
  with `QuietSync` and `PromptEvents`, `Spec => []NoEditDiscarded` for any
  files, contents, failures, and numbers of edits and commands.

`NoEditDiscarded` is not inductive: that the mirror discards nothing depends on
the pre-sync having saved every edit, which depends on the walk, which depends on
the watcher having seen it. `QuietInv` says that, in four parts: `EditInv` (an
edit that is unsaved differs from its row and is not stamped), `ScanInv` (each
unsaved edit is still to be visited, being read, in the batch, or to be pruned),
`CommandInv` (nothing is unsaved from the moment a command executes; a command
that will skip its pre-sync has nothing to save), `EventInv` (an edit the watcher
does not know of has its event on the way). Each action is one step of the proof.
From the same invariant, for the same agent: `QuietCleanMeansSaved`
(`CleanMeansSaved`) and, if no statement of the pre-sync fails,
`QuietFlushedAtExit` (`FlushedAtExit`).

Three theorems hold for every agent. `CommandsAreKept` (`NoCommandReverted`)
needs only that `syncToFs` does not fail: `AheadInv` says that rows a command has
changed and the files have not taken over exist only from its execution to its
post-sync, or when the daemon has stopped, and no `syncFromFs` runs then.
`PruneSparesFiles` (`PruneOnlyMissing`) and `ExcludedPathsStayLocal`
(`ExcludedStayLocal`) rest on `WalkInv`: the walk, what it reads and what it
batches are synced paths only, and a path not seen is still to be visited or was
missing during the walk. `ExcludedPathsStayLocal` does not say that excluded files
survive: below a directory that is pruned they go with it, and nothing else removes
or writes them.

`MigrationsProofs`
: `TypeCorrect`; `StampIsTruthful`, `ReturnMeansMigrated` and
  `MigrationsKeepPromise` from `SchemaInv`; `OneMigratorAtATime`,
  `WaitsOnlyForMissingIndex` and `LockAlwaysReleased` from `ExclusiveInv`.

The two invariants are apart on purpose. `SchemaInv` says that statements before
a boot's place are made and that a stamp, also one in a ghost's hands, comes
after all of them: it holds by monotony of `made` and needs no lock.
`ExclusiveInv` ties the lock's holder to the boot in the locked section and to
the ghost's statement in flight. So if the advisory lock meant nothing, the
schema would still be complete whenever someone goes on; what would be lost is
the guard against needless table locks. `LockAlwaysReleased` is an action
property: each of the steps that leave the locked section is the unlock itself,
or a failure of it.

`BashDaemonProofs`
: `TypeCorrect`, `AnsweredCommandsRan` (`NoCommandDropped`), `RepeatsAreExcused`
  (`RepeatedOnlyIfExcused`), for any sessions and clients. The first needs
  `RanInv`: the job a daemon has done but not answered was executed or refused; a
client that ends in standalone mode was executed there, or told that it failed.
  The second needs to know where a command can be. `MutexInv`: a mutex holds the
  clients connected to its own daemon, each once, and behind the flush only those
  that came to a daemon already stopping. `CountInv`: who is connected and was
  executed is the head of its daemon's mutex. So a daemon that leaves in an
  orderly way has answered all but excused clients, and only they go on alone.

`RouterBridgeProofs`
: `TypeCorrect`, `PromptsRunWhereBound`, `PromptsRunOneAtATime`, for any chats,
  messages, commands, failures and restarts. That prompts do not overlap is not
  inductive: it needs that whoever runs is the first of its session's chain
  (`Front`), which an `Append` behind a chain that is not empty and a `Tail` of a
  chain nobody else runs in both keep. That a message runs where it was bound
  needs that whoever is under way has a session of its own directory, and that
  stored sessions exist (`Placed`); the rest follows from the check in `Reusable`.

`RouterBridgeOrderProofs`
: `GivenUpSessionsStayLeft` (`StaleSessionLeft`) from `GivenUp`: a session that
  was dismissed is in a chat's row, or on its way there, only if it was still
  being created at that moment; and a session being created is nobody else's.
  `TelegramPromptsInOrder` (`TelegramInOrder`) from `OrderInv`: a session belongs
  to one chat (`Owned`), the adapter hands Telegram's messages over one at a time
  and in order (`HandedOver`), and a chain holds exactly the messages whose task
  has not ended, sorted (`Chained`).

`WorkspaceTreeProofs`
: `TypeCorrect`, `ChangesStayInPlace` (`OthersUntouched`), `CreationIsExclusive`
  (`CreatesAreExclusive`), for any names and depth, any number of shells, proper
  calls or not, and whatever fails; `NothingIsLostByMv` (`MoveSparesSource`) for any
  mv onto another path, any names and whatever fails, of a shell that has the
  workspace to itself; `LoneResult`
  (`ResultAsSpecified`) and `LoneTree` (`ShapedUnlessMoving`) for a shell as in
  `LoneShell`.

A type invariant says too little of `todo`: what a statement changes depends on
where it points. `TypeInv` therefore confines the statements of a call to its
`Plan` (a statement of an operation sets rows at or below its target, a `parent`
or `level` also above, a `deleteBelow` belongs to a rm, a `rename` to the mv with
these two paths), which every step keeps, the copies of a directory's children
included. Then each statement by itself changes only what is `Allowed`, which is
both action properties. That a move loses nothing needs the order of its
statements: `MoveInv` has, for the part of `MvSteps` that is still to do (a tail
of it: `MvTodo`), what is already moved (`Spared`) and that nothing below the
source has been touched before the first rename (`Untouched`).

`LoneResult` and `LoneTree` say of every tree and every depth what the run
tree_alone shows of two names and two levels. They are stated under its
exclusions, as the hypothesis `LoneShell(s)`: one shell, calls that are `Proper`,
names that are `Plain`, no statement that fails. The last two are real limits of what
the code promises: `rm -r` of a name with a `\` or `_`, or an empty `catch`, breaks the
result, and a `\` or a failure in `ensureParents` the tree. Everything else is free: the
plain names, the depth, the tree a call begins with, the operations. The invariant is `Lone(s)` (`LoneAlways`). It says
where a call can be: not begun; failed, with the rows it began with and `Fails` of
them; about to find out that it fails (`Failing`); or on the way to `Result`
(`Underway`). The last has a form for each way of working:

* `Builds` (write, append, mkdir, cp): the rows are a tree; each has the content
  it had or that of the result, and one that has not that of the result is in the
  `Reach` of a statement still to come. Each of these fits the result (`Fit`),
  finds at its place what it expects (`Fresh`), and the directories it `Needs` are
  rows, or a statement in front of it makes them (`Prepared`). A copy replaces the
  `list` of a directory by the statements for its children, which between them
  reach the same places.
* `Removes` (rm): which statements are left says which rows are: those the call
  began with, those without what was below the target (`Emptied`), or the result.
  All three are trees.
* `Moves` (mv): the number of statements left (`Count`) says which phase the call
  is in: the directories of the destination are being made (`Opening`), what was
  there is gone (`Cleared`), the source has its new path (`Renamed`), the end. In
  `Renamed` the rows need not be a tree, and `LoneTree` leaves mv out.

When no statement is left, each of the three says that the rows are the result.

`RuntimeSupervisorProofs`
: `TypeCorrect`, `ChildIsHeld` (`OneChildHeld`), `WaitsEnd` (`NobodyWaitsInVain`),
  `NoChildIsLeft` (`StopLeavesNoChild`), `StopsAreNoCrashes` (`StopIsNoCrash`), for
  any number of process ids, requests, restart attempts and failures.

All five follow from one invariant (`InvariantHolds`). `TaskInv` describes the
event loop: who goes on now (`ReadyInv`: at most an exit handler and, behind it,
whoever waited for that exit), what the others sleep on (`Sleeps`), and which
labels a call may still have before it (`Fits`). `ProcInv` ties processes to
tasks: a child that starts or dies has a task that waits for just that, a handle
is a child that is up. These two hold whatever overlaps and give `WaitsEnd`.
`HeldInv` is about a component no two of whose starts or stops have overlapped:
one task works on it, and handle, running and the stopping flag agree. `QuietInv`
is about requests that come one at a time (`Calm`): a task that stops OpenCode
has stopped the router before, and nobody else is beyond his first await
(`StopInv`); a child that was told to stop is dying, or its exit is just being
handled (`ToldInv`); a call that closes the server has only exit handlers beside
it (`CloseInv`). `StopIsNoCrash` needs the last three because the flag that tells
a stop from a crash is the component's and not the process's.

`EnvStoreProofs`
: `TypeCorrect`, `AcknowledgedChangesLast`. As a write replaces the whole file,
  what it is going to write must be promised from the moment it was computed:
  `MemoryPromised` and `WritesMemory`. They hold because only the first of the
  queue is beyond waiting (`Alone`), so memory changes under nobody; without the
  queue the step `Acknowledge` of another request would break them.

Proved from the assumptions named in each module, and four theorems of
HomeSyncProofs from an `ASSUME` of their own: `Quiet` (no edit
while a job is queued, events of earlier edits delivered before a command
arrives, no unreadable entry) in those
called `Quiet…`, and the failures that `QuietFlushedAtExit` and `CommandsAreKept`
exclude. The runs check the same properties with the same exclusions, and TLC
checks the assumptions for the values of the runs. Every strengthening named
above was checked by TLC as an invariant before it was proved.

Assumed of constants beyond what the runs need: `FileTree` takes the set of names
to be finite, as the names of a table's rows are (the lemmas about directories
without children, and the order in which a copy lists them, need it).

Only model-checked: liveness (`EditsAreSaved`, `QueueDrains`, `EveryBootEnds`,
`EveryClientEnds`, `StopIsFinal`, `EveryMessageEnds`), which rests on fairness and
ENABLED.

## 5. What the models leave out

* Elapsed time. Timeouts are choices; `statement_timeout = 30000`, which stays on
  the pooled connection after the migrations, shows only as a statement that may
  fail.
* Two daemons, or a daemon and a standalone client, on one home. The mutex is
  one process's; BashDaemon has the several daemons, HomeSync has one home. Their
  composition is SharedHome in the plan.
* What a restart restores. A crashed sandbox comes back with `syncToFs`; what was
  not flushed is gone, by design.
* File modes, times, links, and the size of a file.
* The composition of the desktop's processes. The supervisor's router and the
  bridge are one process seen from outside and from inside; a restart there is
  `Restart` here. The bridge prompts an OpenCode that answers or fails.
* Slack's and Telegram's own delivery beyond order and repetition.
* The rest of the repository by size: user interface, orchestrator, electron and
  tauri shells, routes and repositories. Most of it is presentation, argument
  handling and single synchronous statements, in which a step is a call and a
  model would repeat the code.

## 6. Hazards

`PROJECT.json` lists every hazard with its line and the properties that would
catch it. Those without a property are of components that are not modelled yet,
or carry the reason in a note.

## 7. Plan

Done: HomeSync, Migrations with SchemaPromise, WorkspaceTree with FileTree,
BashDaemon, RuntimeSupervisor, RouterBridge, EnvStore; the theorems of section 4.

Every safety property of the passing runs is a theorem, within the exclusions that
section 4 names. Worth proving next: an outcome of `mv` for a shell among others
that keep away from its paths, for which `Lone` would have to be about the rows at
and below the call's paths only.

Models worth adding:

1. **SharedHome**: two daemons, or two sandboxes, on one workspace: HomeSync's
   walk and mirror per actor over shared rows, with the restore of `setup.sh` at
   start. Properties: what one saved is not pruned by the other; a hand-over
   (flush, exit, restore) loses nothing. The abstract specification is a register
   per path that a saved edit never leaves.
2. **SyncTree**: directories in `syncFromFs` and `syncToFs` (types that change,
   order of creation and pruning), on FileTree.
3. **TokenStore** (load race of `tokens.ts` against the queue of `env-file.ts`),
   **ReloadWatch** (rescans and close), **FileSessions** (cursors over a log that
   is cut).
4. **ConnectTunnel**: handshake against chunks, timeout and close.
