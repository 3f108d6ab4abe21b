------------------------------ MODULE HomeSync ------------------------------
(***************************************************************************)
(* The bidirectional sync of one sandbox's /home/agent with its rows in    *)
(* _openrind.workspace_files.                                              *)
(*                                                                         *)
(*   agent     Claude Code / OpenClaw tools, which write the real files    *)
(*   watcher   watchAndSync() in openrind-shell-js/src/sync.ts             *)
(*   daemon    openrind-shell-bash.mjs: one promise-chain mutex, through   *)
(*             which go the watcher's syncs ("watch"), the bash commands   *)
(*             ("cmd") and the flush at shutdown ("flush")                 *)
(*                                                                         *)
(* syncFromFs is taken in steps, because other processes write the home    *)
(* between them; syncToFs is a query followed by one synchronous run of    *)
(* node:fs calls, which nothing else in the daemon can interrupt.          *)
(* A path is one file of the home. Directories and their rows are not      *)
(* modelled: which of them have no row is left open, see MirrorHome.       *)
(***************************************************************************)
EXTENDS Integers, Sequences, FiniteSets

CONSTANTS
    Path,         \* the file names in play
    Excluded,     \* those shouldExcludePath() rejects (.ssh, .npmrc, ...)
    Nested,       \* those below a directory that is itself synced (proj/.git)
    Content,      \* distinguishable file contents
    None,         \* "no such file" and "no such row"
    Watching,     \* "on", and "none" for OpenClaw: no watcher is started
    QuietSync,    \* the agent leaves the home alone while a sync is queued
    PromptEvents, \* a command arrives after the events of earlier writes
    FaultKinds,   \* which failures occur, see FaultKind
    Stops,        \* whether a signal stops the daemon
    BatchRows,    \* FILE_BATCH_ROWS: rows that force a flush mid-walk
    MaxEdits, MaxCommands, MaxFaults     \* bounds of the model

\* presync     a statement of syncFromFs fails
\* postsync    the SELECT or a file call of syncToFs fails
\* watcher     fs.watch reports an error
\* unreadable  readdirSync or statSync throws on a file that is there
FaultKind == {"presync", "postsync", "watcher", "unreadable"}

ASSUME ConstantsAssumption ==
    /\ Excluded \subseteq Path /\ Nested \subseteq Path
    /\ None \notin Content /\ None \notin Path
    /\ Watching \subseteq {"on", "none"}
    /\ {QuietSync, PromptEvents, Stops} \subseteq BOOLEAN
    /\ FaultKinds \subseteq FaultKind
    /\ BatchRows \in Nat \ {0}

VARIABLES
    home,       \* Path -> content of the real file
    row,        \* Path -> content of the workspace_files row
    stamped,    \* rows whose (mtime_ns, size) equal the file's stat
    watch,      \* "none" no watcher, "on" isWatching(), "error" it failed
    events,     \* inotify events not yet delivered to the daemon
    dirty, timer, syncing, suspended,    \* closure of watchAndSync
    queue,      \* jobs that called runWithSyncMutex, the head runs
    pc,         \* where the running job is
    unvisited, unseen, reading, batch, current,   \* locals of syncFromFs
    rows,       \* result of syncToFs's SELECT
    daemon,     \* "up", "stopping" (signal), "closing" (flushed), "down"
    edited,     \* history: agent edits that are on disk and not in a row
    unmirrored, \* history: command writes that are in a row and not on disk
    absent,     \* history: paths missing, or unreadable, during this walk
    discarded,  \* history: agent edits the daemon overwrote on disk
    reverted,   \* history: command writes a sync overwrote in the rows
    edits, commands, faults              \* counters of the bounds

disk    == <<home, row, stamped>>
watcher == <<watch, events, dirty, timer, syncing, suspended>>
walk    == <<unvisited, unseen, reading, batch, current, absent>>
history == <<edited, unmirrored, discarded, reverted>>
bounds  == <<edits, commands, faults>>
vars    == <<disk, watcher, queue, pc, walk, rows, daemon, history, bounds>>

Synced == Path \ Excluded
File   == Content \cup {None}
NoRows == [p \in Path |-> None]
Present(f) == {p \in Path : f[p] # None}

Job   == {"watch", "cmd", "flush"}
Phase == {"idle", "select", "scan", "exec", "query", "apply"}

TypeOK ==
    /\ home \in [Path -> File] /\ row \in [Path -> File]
    /\ batch \in [Path -> File] /\ rows \in [Path -> File]
    /\ stamped \subseteq Path /\ events \subseteq Path
    /\ unvisited \subseteq Path /\ unseen \subseteq Path
    /\ current \subseteq Path /\ absent \subseteq Path
    /\ edited \subseteq Path /\ unmirrored \subseteq Path
    /\ discarded \subseteq Path /\ reverted \subseteq Path
    /\ watch \in {"none", "on", "error"}
    /\ dirty \in BOOLEAN /\ timer \in BOOLEAN /\ syncing \in BOOLEAN
    /\ suspended \in Nat
    /\ queue \in Seq(Job) /\ pc \in Phase
    /\ reading \in Path \cup {None}
    /\ daemon \in {"up", "stopping", "closing", "down"}
    /\ edits \in Nat /\ commands \in Nat /\ faults \in Nat

\* setup.sh has just restored the home: files and rows agree on the synced
\* paths, and their stats too when its own flush ran.
Init ==
    /\ home \in [Path -> File] /\ row \in [Path -> File]
    /\ \A p \in Synced : home[p] = row[p]
    /\ stamped \in {{}, Synced \cap Present(home)}
    /\ watch \in Watching
    /\ events = {} /\ dirty = FALSE /\ timer = FALSE /\ syncing = FALSE
    /\ suspended = 0
    /\ queue = <<>> /\ pc = "idle"
    /\ unvisited = {} /\ unseen = {} /\ reading = None
    /\ batch = NoRows /\ current = {} /\ absent = {}
    /\ rows = NoRows
    /\ daemon = "up"
    /\ edited = {} /\ unmirrored = {} /\ discarded = {} /\ reverted = {}
    /\ edits = 0 /\ commands = 0 /\ faults = 0

-----------------------------------------------------------------------------
(* The mutex and its jobs *)

ShouldPreSyncIgnoringDirty(isDirty)  == watch # "on"

\* shouldPreSync of execCommandWithSync
ShouldPreSync(isDirty) == watch # "on" \/ isDirty

StartPhaseNamesJob(q, isDirty) == IF q = <<>> THEN "idle" ELSE Head(q)

\* Where the job at the head of q begins once the mutex is handed to it.
StartPhase(q, isDirty) ==
    IF q = <<>> THEN "idle"
    ELSE IF Head(q) = "cmd" /\ ~ShouldPreSync(isDirty) THEN "exec"
    ELSE "select"

Enqueue(job) ==
    /\ queue' = Append(queue, job)
    /\ pc' = IF queue = <<>> THEN StartPhase(<<job>>, dirty) ELSE pc

ReleaseWithoutHandover(isDirty) ==
    /\ queue' = Tail(queue)
    /\ pc' = "idle"

\* The head's promise settled, whether it resolved or threw: resolveNext()
\* runs in finally. The next command tests isDirty() before the watcher's
\* own .then(markClean), which comes some microtasks later.
Release(isDirty) ==
    /\ queue' = Tail(queue)
    /\ pc' = StartPhase(Tail(queue), isDirty)

Running(job, phase) == queue # <<>> /\ Head(queue) = job /\ pc = phase

CanFail(kind) == kind \in FaultKinds /\ faults < MaxFaults

\* Histories follow the files and the rows: an edit (a command's write) stops
\* counting as soon as file and row agree.
Settle(h, r, e, u) ==
    /\ edited' = {p \in e : h[p] # r[p]}
    /\ unmirrored' = {p \in u : h[p] # r[p]}

ResetWalk ==
    /\ unvisited' = {} /\ unseen' = {} /\ reading' = None
    /\ batch' = NoRows /\ current' = {} /\ absent' = {}

-----------------------------------------------------------------------------
(* The agent's tools and the watcher's callbacks *)

AgentWrite(p, c) ==
    /\ daemon # "down" /\ edits < MaxEdits
    /\ QuietSync => daemon = "up" /\ queue = <<>>
    /\ c # home[p]
    /\ home' = [home EXCEPT ![p] = c]
    /\ stamped' = stamped \ {p}
    /\ current' = current \ {p}
    /\ absent' = IF pc = "scan" /\ c = None THEN absent \cup {p} ELSE absent
    /\ events' = IF watch = "on" THEN events \cup {p} ELSE events
    /\ Settle(home', row, edited \cup ({p} \cap Synced), unmirrored)
    /\ edits' = edits + 1
    /\ UNCHANGED <<row, watch, dirty, timer, syncing, suspended, queue, pc,
                   unvisited, unseen, reading, batch, rows, daemon,
                   discarded, reverted, commands, faults>>

\* watcher.on('change'): dropped while suspended or for an excluded path,
\* otherwise markDirty() and scheduleSync() (the debounce timer restarts).
Heeded(p) == suspended = 0 /\ p \in Synced

Deliver(p) ==
    /\ daemon = "up" /\ watch = "on" /\ p \in events
    /\ events' = events \ {p}
    /\ dirty' = (dirty \/ Heeded(p))
    /\ timer' = (timer \/ Heeded(p))
    /\ UNCHANGED <<disk, watch, syncing, suspended, queue, pc, walk, rows,
                   daemon, history, bounds>>

\* The debounce timer of scheduleSync runs out. A sync that is running or
\* suspended drops it: nothing arms it again.
TimerFire ==
    /\ daemon = "up" /\ timer
    /\ timer' = FALSE
    /\ IF ~dirty \/ syncing \/ suspended > 0
       THEN UNCHANGED <<syncing, queue, pc>>
       ELSE syncing' = TRUE /\ Enqueue("watch")
    /\ UNCHANGED <<disk, watch, events, dirty, suspended, walk, rows, daemon,
                   history, bounds>>

\* watcher.on('error')
WatcherError ==
    /\ CanFail("watcher") /\ daemon = "up" /\ watch = "on"
    /\ watch' = "error" /\ dirty' = TRUE /\ events' = {}
    /\ faults' = faults + 1
    /\ UNCHANGED <<disk, timer, syncing, suspended, queue, pc, walk, rows,
                   daemon, history, edits, commands>>

\* A client's request reaches the daemon, which listens until the flush ends.
CommandArrives ==
    /\ daemon \in {"up", "stopping"} /\ commands < MaxCommands
    /\ PromptEvents => events = {}
    /\ Enqueue("cmd")
    /\ commands' = commands + 1
    /\ UNCHANGED <<disk, watcher, walk, rows, daemon, history, edits, faults>>

\* SIGTERM / SIGINT: syncWatch.stop(), then the final flush joins the mutex.
Signal ==
    /\ Stops /\ daemon = "up"
    /\ daemon' = "stopping" /\ timer' = FALSE
    /\ Enqueue("flush")
    /\ UNCHANGED <<disk, watch, events, dirty, syncing, suspended, walk, rows,
                   history, bounds>>

\* pool.end() and process.exit(0), whatever is still queued.
Exit ==
    /\ daemon = "closing"
    /\ daemon' = "down" /\ queue' = <<>> /\ pc' = "idle"
    /\ ResetWalk
    /\ UNCHANGED <<disk, watcher, rows, history, bounds>>

-----------------------------------------------------------------------------
(* syncFromFs: files -> rows *)

WalkTargetsUnfiltered == Path

\* What the walk looks at: shouldExcludePath() filters the entries.
WalkTargets == Synced

\* SELECT of the existing rows, then the walk begins.

BeginScan ==
    /\ pc = "select"
    /\ pc' = "scan"
    /\ unseen' = Present(row)
    /\ unvisited' = WalkTargets
    /\ absent' = Path \ Present(home)
    /\ UNCHANGED <<disk, watcher, queue, reading, batch, current, rows, daemon,
                   history, bounds>>

Batched   == Present(batch)
BatchFull == Cardinality(Batched) >= BatchRows
Walking   == pc = "scan" /\ reading = None

UnchangedIfPresent(p) == row[p] # None

\* The upsert is skipped when mtime and size equal the row's.
Unchanged(p) == p \in stamped

StillThereIfUploaded(p) == IF Unchanged(p) THEN unseen ELSE unseen \ {p}

\* seenPaths after statSync(p) succeeded
StillThere(p) == unseen \ {p}

\* readdirSync + statSync of one entry; a missing one is simply not seen.
Stat(p) ==
    /\ Walking /\ ~BatchFull /\ p \in unvisited
    /\ unvisited' = unvisited \ {p}
    /\ unseen' = IF home[p] = None THEN unseen ELSE StillThere(p)
    /\ IF home[p] = None \/ Unchanged(p)
       THEN UNCHANGED <<reading, current>>
       ELSE reading' = p /\ current' = current \cup {p}
    /\ UNCHANGED <<disk, watcher, queue, pc, batch, absent, rows, daemon,
                   history, bounds>>

\* walkDir returns, or goes to the next entry, on an error of readdirSync or
\* statSync: the path is not seen although the file is there.
StatFails(p) ==
    /\ CanFail("unreadable")
    /\ Walking /\ ~BatchFull /\ p \in unvisited /\ home[p] # None
    /\ unvisited' = unvisited \ {p}
    /\ absent' = absent \cup {p}
    /\ faults' = faults + 1
    /\ UNCHANGED <<disk, watcher, queue, pc, unseen, reading, batch, current,
                   rows, daemon, history, edits, commands>>

\* readFileSync of the entry just statted
Read ==
    /\ pc = "scan" /\ reading # None /\ home[reading] # None
    /\ batch' = [batch EXCEPT ![reading] = home[reading]]
    /\ reading' = None
    /\ UNCHANGED <<disk, watcher, queue, pc, unvisited, unseen, current, absent,
                   rows, daemon, history, bounds>>

\* flushFileBatch: one multi-row upsert
FlushDue == Walking /\ Batched # {} /\ (BatchFull \/ unvisited = {})

Flush ==
    /\ FlushDue
    /\ row' = [p \in Path |-> IF p \in Batched THEN batch[p] ELSE row[p]]
    /\ stamped' = (stamped \ Batched) \cup (Batched \cap current)
    /\ batch' = NoRows /\ current' = {}
    /\ reverted' = reverted \cup {p \in unmirrored : row'[p] # row[p]}
    /\ Settle(home, row', edited, unmirrored)
    /\ UNCHANGED <<home, watcher, queue, pc, unvisited, unseen, reading, absent,
                   rows, daemon, discarded, bounds>>

WalkDoneBeforeFlush == Walking /\ unvisited = {}

\* every entry visited and the last batch forced out
WalkDone == Walking /\ unvisited = {} /\ Batched = {}

AfterWatchSyncStaysBusy(ok) == dirty' = (dirty /\ ~ok) /\ syncing' = TRUE

\* .then(markClean), .catch, .finally(syncing = false)
AfterWatchSync(ok) == dirty' = (dirty /\ ~ok) /\ syncing' = FALSE

\* What follows a syncFromFs that succeeded (ok) or threw, for each caller.
AfterSyncFrom(ok) ==
    \/ /\ Head(queue) = "watch"
       /\ AfterWatchSync(ok)
       /\ Release(dirty)
       /\ UNCHANGED daemon
    \/ /\ Head(queue) = "cmd"
       /\ dirty' = (dirty /\ ~ok)
       /\ IF ok THEN pc' = "exec" /\ UNCHANGED queue ELSE Release(dirty)
       /\ UNCHANGED <<syncing, daemon>>
    \/ /\ Head(queue) = "flush"
       /\ daemon' = "closing"
       /\ Release(dirty)
       /\ UNCHANGED <<dirty, syncing>>

\* DELETE of the rows whose path was not seen, and the end of syncFromFs.
Prune ==
    /\ WalkDone
    /\ row' = [p \in Path |-> IF p \in unseen THEN None ELSE row[p]]
    /\ stamped' = stamped \ unseen
    /\ reverted' = reverted \cup {p \in unmirrored : row'[p] # row[p]}
    /\ Settle(home, row', edited, unmirrored)
    /\ ResetWalk
    /\ AfterSyncFrom(TRUE)
    /\ UNCHANGED <<home, watch, events, timer, suspended, rows, discarded,
                   bounds>>

\* readFileSync throws: the file went away after statSync.
ReadVanished ==
    /\ pc = "scan" /\ reading # None /\ home[reading] = None
    /\ ResetWalk
    /\ AfterSyncFrom(FALSE)
    /\ UNCHANGED <<disk, watch, events, timer, suspended, rows, history, bounds>>

\* A statement of syncFromFs fails: what was flushed before it stays.
SyncFromFails ==
    /\ CanFail("presync")
    /\ pc = "select" \/ FlushDue \/ WalkDone
    /\ faults' = faults + 1
    /\ ResetWalk
    /\ AfterSyncFrom(FALSE)
    /\ UNCHANGED <<disk, watch, events, timer, suspended, rows, history, edits,
                   commands>>

-----------------------------------------------------------------------------
(* The command, and syncToFs: rows -> files *)

\* The shell's WorkspaceFs writes or removes rows, never a file.
CommandWrite(p, c) ==
    /\ Running("cmd", "exec") /\ c # row[p]
    /\ row' = [row EXCEPT ![p] = c]
    /\ stamped' = stamped \ {p}
    /\ Settle(home, row', edited, unmirrored \cup ({p} \cap Synced))
    /\ UNCHANGED <<home, watcher, queue, pc, walk, rows, daemon, discarded,
                   reverted, bounds>>

\* The command ends, or throws: both go on to the sync back to disk, inside
\* suspend() when the watcher runs (which clears the debounce timer).
CommandEnds ==
    /\ Running("cmd", "exec")
    /\ pc' = "query"
    /\ IF watch = "on"
       THEN suspended' = suspended + 1 /\ timer' = FALSE
       ELSE UNCHANGED <<suspended, timer>>
    /\ UNCHANGED <<disk, watch, events, dirty, syncing, queue, walk, rows,
                   daemon, history, bounds>>

\* SELECT path, is_dir, content, mode, less the excluded rows
Query ==
    /\ pc = "query"
    /\ rows' = [p \in Path |-> IF p \in Synced THEN row[p] ELSE None]
    /\ pc' = "apply"
    /\ UNCHANGED <<disk, watcher, queue, walk, daemon, history, bounds>>

MirrorWithoutPrune(stray, written) ==
    [p \in Path |-> IF p \in written THEN rows[p] ELSE home[p]]

\* The files after pruneLocal, which removes the synced files without a row
\* and the directories in stray with all they hold, and after the writes of
\* the paths in written.
Mirror(stray, written) ==
    [p \in Path |-> IF p \in written THEN rows[p]
                    ELSE IF p \in stray \/ (p \in Synced /\ rows[p] = None)
                    THEN None
                    ELSE home[p]]

\* A directory that has no row, or a file's row, goes by rmSync with whatever
\* excluded entries are left in it: any of the nested paths may be under one.
MirrorHome(written) ==
    /\ \E stray \in SUBSET Nested : home' = Mirror(stray, written)
    /\ stamped' = stamped \ (written \cup {p \in Path : home'[p] = None})
    /\ events' = IF watch = "on"
                 THEN events \cup written \cup {p \in Path : home'[p] # home[p]}
                 ELSE events
    /\ discarded' = discarded \cup {p \in edited : home'[p] # home[p]}
    /\ Settle(home', row, edited, unmirrored)

\* pruneLocal, mkdirSync, writeFileSync; then markClean() if the watcher was
\* suspended, the reply, and the next job.
Apply ==
    /\ pc = "apply"
    /\ MirrorHome(Present(rows))
    /\ suspended' = 0
    /\ dirty' = (dirty /\ suspended = 0)
    /\ Release(dirty')
    /\ rows' = NoRows
    /\ UNCHANGED <<row, watch, timer, syncing, walk, daemon, reverted, bounds>>

\* The SELECT fails, or a file call throws after some of the writes: the
\* pruning, which comes first, is over by then.
SyncToFails ==
    /\ CanFail("postsync")
    /\ \/ pc = "query" /\ UNCHANGED <<disk, events, history>>
       \/ /\ pc = "apply"
          /\ \E written \in SUBSET Present(rows) : MirrorHome(written)
          /\ UNCHANGED <<row, reverted>>
    /\ suspended' = 0
    /\ Release(dirty)
    /\ rows' = NoRows
    /\ faults' = faults + 1
    /\ UNCHANGED <<watch, dirty, timer, syncing, walk, daemon, edits, commands>>

-----------------------------------------------------------------------------
JobStep ==
    \/ BeginScan \/ (\E p \in Path : Stat(p)) \/ Read \/ ReadVanished
    \/ Flush \/ Prune \/ CommandEnds \/ Query \/ Apply

Next ==
    \/ \E p \in Path, c \in File : AgentWrite(p, c) \/ CommandWrite(p, c)
    \/ \E p \in Path : Deliver(p)
    \/ TimerFire \/ WatcherError \/ CommandArrives \/ Signal \/ Exit
    \/ JobStep
    \/ (\E p \in Path : StatFails(p)) \/ SyncFromFails \/ SyncToFails

Spec == Init /\ [][Next]_vars

\* Event loop and kernel make progress; agents, clients, signals, failures
\* and the commands' own writes owe nothing.
Fairness ==
    /\ WF_vars(JobStep) /\ WF_vars(TimerFire) /\ WF_vars(Exit)
    /\ WF_vars(\E p \in Path : Deliver(p))

FairSpec == Spec /\ Fairness

-----------------------------------------------------------------------------
(* Properties *)

\* No edit of the agent is overwritten on disk by the sync back from the rows
\* before it has reached the rows (execCommandWithSync's pre-sync).
NoEditDiscarded == discarded = {}

\* No write of a command is undone in the rows by a later syncFromFs, whose
\* files predate it (execCommandWithSync's post-sync).
NoCommandReverted == reverted = {}

\* With no sync queued, no event in flight and isDirty() false, every edit is
\* in the rows: that is what lets execCommandWithSync skip its pre-sync.
CleanMeansSaved ==
    daemon = "up" /\ watch = "on" /\ queue = <<>> /\ events = {} /\ ~dirty
        => edited = {}

\* Once the shutdown flush is over every edit is in the rows.
FlushedAtExit == daemon \in {"closing", "down"} => edited = {}

Pruned(p) == pc = "scan" /\ row[p] # None /\ row'[p] = None

\* syncFromFs deletes a synced row only if its file was missing, or could not
\* be read, at some moment of the walk, whatever the agent does meanwhile (the
\* prune by the snapshot of the rows and seenPaths).
PruneOnlyMissing == [][\A p \in Synced : Pruned(p) => p \in absent]_vars

\* The daemon never uploads an excluded file nor writes one: only a command
\* creates its row, and on disk it changes by the agent, or is removed with the
\* directory above it when a sync back prunes that (pruneLocal's rmSync).
ExcludedStayLocal ==
    [][\A p \in Excluded :
          /\ home'[p] # home[p] =>
                edits' # edits \/ (p \in Nested /\ home'[p] = None /\ pc = "apply")
          /\ row'[p] # row[p] => pc = "exec" \/ row'[p] = None]_vars

\* Every edit is saved, replaced by a command or superseded, without any
\* further event, as long as the watcher lives: the debounced sync of
\* watchAndSync.
EditsAreSaved ==
    \A p \in Path :
        (p \in edited /\ watch = "on") ~> (p \notin edited \/ watch # "on")

\* The promise-chain mutex never jams: every queued job gets its turn.
QueueDrains == queue # <<>> ~> queue = <<>>

-----------------------------------------------------------------------------
(* The inductive invariant behind NoEditDiscarded, for a quiet agent. *)

EditInv ==
    /\ edited \subseteq Synced
    /\ \A p \in edited : home[p] # row[p]
    /\ \A p \in stamped : home[p] = row[p]
    /\ discarded = {}

\* Where the walk has to meet each edit that is not in the rows yet.
ScanInv ==
    /\ pc # "scan" => batch = NoRows /\ reading = None
    /\ reading # None => reading \notin unvisited /\ home[reading] # None
    /\ \A p \in Batched : batch[p] = home[p] /\ p \notin unvisited
    /\ pc = "scan" =>
          /\ \A p \in unvisited : row[p] # None => p \in unseen
          /\ \A p \in edited :
                \/ p \in unvisited \/ p = reading \/ p \in Batched
                \/ home[p] = None /\ p \in unseen

\* A command that is to run without a pre-sync finds nothing to save.
CommandQueued == \E i \in 1..Len(queue) : queue[i] = "cmd"

CommandInv ==
    /\ pc \in {"exec", "query", "apply"} => edited = {}
    /\ CommandQueued /\ watch = "on" /\ ~dirty => edited = {}

\* An edit the watcher does not know of is still on its way to it.
EventInv ==
    /\ watch = "on" /\ ~dirty => edited \subseteq events
    /\ suspended > 0 /\ daemon # "down" => pc \in {"query", "apply"}
    /\ daemon = "down" => pc = "idle"

QuietInv == EditInv /\ ScanInv /\ CommandInv /\ EventInv

=============================================================================
