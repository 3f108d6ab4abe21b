--------------------------- MODULE HomeSyncProofs ---------------------------
(***************************************************************************)
(* Proofs about HomeSync, for every set of paths, of contents and of       *)
(* excluded paths, and every bound.                                        *)
(***************************************************************************)
EXTENDS HomeSync, TLAPS

\* A job runs only while it heads the queue.
RunningInv ==
    /\ queue = <<>> <=> pc = "idle"
    /\ pc \in {"exec", "query", "apply"} => Head(queue) = "cmd"

TypeInv == TypeOK /\ RunningInv

QueueInv == queue \in Seq(Job) /\ pc \in Phase /\ RunningInv

\* The head of the queue, handed the mutex, begins in a phase it may be in.
LEMMA StartPhaseType ==
    ASSUME NEW q \in Seq(Job), NEW d \in BOOLEAN
    PROVE  /\ StartPhase(q, d) \in {"idle", "select", "exec"}
           /\ q = <<>> <=> StartPhase(q, d) = "idle"
           /\ StartPhase(q, d) = "exec" => Head(q) = "cmd"
BY DEF StartPhase

\* runWithSyncMutex: a job that joins the chain keeps the queue consistent.
LEMMA EnqueueKeepsQueue ==
    ASSUME TypeInv, NEW job \in Job, Enqueue(job)
    PROVE  QueueInv'
<1>1. CASE queue = <<>>
    <2>1. queue' = <<job>> /\ pc' = StartPhase(<<job>>, dirty)
        BY <1>1 DEF Enqueue
    <2>2. <<job>> \in Seq(Job) /\ <<job>> # <<>> /\ Head(<<job>>) = job
        OBVIOUS
    <2>3. QED
        BY <2>1, <2>2, StartPhaseType DEF TypeInv, TypeOK, QueueInv, RunningInv, Phase
<1>2. CASE queue # <<>>
    <2>1. pc' = pc /\ queue' = Append(queue, job)
        BY <1>2 DEF Enqueue
    <2>2. Head(queue') = Head(queue) /\ queue' # <<>> /\ queue' \in Seq(Job)
        BY <1>2, <2>1 DEF TypeInv, TypeOK
    <2>3. QED
        BY <1>2, <2>1, <2>2 DEF TypeInv, TypeOK, QueueInv, RunningInv
<1>3. QED
    BY <1>1, <1>2

\* A job that settles hands the mutex to the next one in the chain.
LEMMA ReleaseKeepsQueue ==
    ASSUME TypeInv, queue # <<>>, NEW d \in BOOLEAN, Release(d)
    PROVE  QueueInv'
<1>1. Tail(queue) \in Seq(Job)
    BY DEF TypeInv, TypeOK
<1>2. QED
    BY <1>1, StartPhaseType DEF Release, QueueInv, RunningInv, Phase

LEMMA NoRowsType == NoRows \in [Path -> File]
BY DEF NoRows, File

\* However a syncFromFs ends, its caller leaves a consistent queue.
LEMMA AfterSyncFromType ==
    ASSUME TypeInv, pc \in {"select", "scan"}, NEW ok \in BOOLEAN, AfterSyncFrom(ok)
    PROVE  /\ QueueInv' /\ dirty' \in BOOLEAN /\ syncing' \in BOOLEAN
           /\ daemon' \in {"up", "stopping", "closing", "down"}
<1>1. queue # <<>> /\ dirty \in BOOLEAN
    BY DEF TypeInv, TypeOK, RunningInv
<1>2. CASE Release(dirty)
    BY <1>1, <1>2, ReleaseKeepsQueue DEF AfterSyncFrom, AfterWatchSync, TypeInv, TypeOK
<1>3. CASE Head(queue) = "cmd" /\ pc' = "exec" /\ UNCHANGED queue
    BY <1>1, <1>3 DEF AfterSyncFrom, QueueInv, RunningInv, TypeInv, TypeOK, Phase
<1>4. QED
    BY <1>2, <1>3 DEF AfterSyncFrom

\* syncToFs, complete or cut short, leaves files.
LEMMA MirrorType ==
    ASSUME TypeInv, NEW written \in SUBSET Path, MirrorHome(written)
    PROVE  /\ home' \in [Path -> File] /\ stamped' \subseteq Path
           /\ events' \subseteq Path /\ discarded' \subseteq Path
           /\ edited' \subseteq Path /\ unmirrored' \subseteq Path
<1> USE DEF TypeInv, TypeOK
<1>1. home' \in [Path -> File]
    <2>1. PICK stray \in SUBSET Nested : home' = Mirror(stray, written)
        BY DEF MirrorHome
    <2>2. QED
        BY <2>1 DEF Mirror, File
<1>2. QED
    BY <1>1 DEF MirrorHome, Settle

LEMMA InitTypeInv == Init => TypeInv
<1> SUFFICES ASSUME Init PROVE TypeInv
    OBVIOUS
<1> USE DEF Init
<1>1. stamped \subseteq Path
    BY DEF Present, Synced
<1>2. batch \in [Path -> File] /\ rows \in [Path -> File]
    BY NoRowsType
<1>3. queue \in Seq(Job) /\ RunningInv
    BY DEF RunningInv
<1>4. watch \in {"none", "on", "error"}
    BY ConstantsAssumption
<1>5. QED
    BY <1>1, <1>2, <1>3, <1>4 DEF TypeInv, TypeOK, Phase

\* Every operation of the agent, the watcher and the daemon keeps the types.
LEMMA NextTypeInv == TypeInv /\ [Next]_vars => TypeInv'
<1> SUFFICES ASSUME TypeInv, [Next]_vars PROVE TypeInv'
    OBVIOUS
<1> USE ConstantsAssumption DEF TypeInv, TypeOK, RunningInv, Settle
<1>1. ASSUME NEW p \in Path, NEW c \in File, AgentWrite(p, c) PROVE TypeInv'
    <2>1. home' \in [Path -> File]
        BY <1>1 DEF AgentWrite
    <2>2. edited' \subseteq Path /\ unmirrored' \subseteq Path
        BY <1>1 DEF AgentWrite, Synced
    <2>3. events' \subseteq Path /\ absent' \subseteq Path
        BY <1>1 DEF AgentWrite
    <2>4. QED
        BY <1>1, <2>1, <2>2, <2>3 DEF AgentWrite
<1>2. ASSUME NEW p \in Path, NEW c \in File, CommandWrite(p, c) PROVE TypeInv'
    BY <1>2 DEF CommandWrite, watcher, walk, bounds, Running
<1>3. ASSUME NEW p \in Path, Deliver(p) PROVE TypeInv'
    BY <1>3 DEF Deliver, disk, walk, history, bounds
<1>4. CASE TimerFire
    <2>1. CASE Enqueue("watch") /\ syncing' = TRUE
        <3>1. QueueInv'
            BY <2>1, EnqueueKeepsQueue DEF Job
        <3>2. QED
            BY <1>4, <2>1, <3>1 DEF TimerFire, QueueInv, disk, walk, history, bounds
    <2>2. CASE UNCHANGED <<syncing, queue, pc>>
        BY <1>4, <2>2 DEF TimerFire, disk, walk, history, bounds
    <2>3. QED
        BY <1>4, <2>1, <2>2 DEF TimerFire
<1>5. CASE WatcherError
    BY <1>5 DEF WatcherError, CanFail, disk, walk, history
<1>6. CASE CommandArrives
    <2>1. QueueInv'
        BY <1>6, EnqueueKeepsQueue DEF CommandArrives, Job
    <2>2. QED
        BY <1>6, <2>1 DEF CommandArrives, QueueInv, disk, watcher, walk, history
<1>7. CASE Signal
    <2>1. QueueInv'
        BY <1>7, EnqueueKeepsQueue DEF Signal, Job
    <2>2. QED
        BY <1>7, <2>1 DEF Signal, QueueInv, disk, walk, history, bounds
<1>8. CASE Exit
    BY <1>8, NoRowsType DEF Exit, ResetWalk, disk, watcher, history, bounds, Phase
<1>9. CASE BeginScan
    BY <1>9 DEF BeginScan, disk, watcher, history, bounds, WalkTargets, Synced, Present, Phase
<1>10. ASSUME NEW p \in Path, Stat(p) PROVE TypeInv'
    BY <1>10 DEF Stat, StillThere, Walking, disk, watcher, history, bounds
<1>11. ASSUME NEW p \in Path, StatFails(p) PROVE TypeInv'
    BY <1>11 DEF StatFails, CanFail, disk, watcher, history
<1>12. CASE Read
    BY <1>12 DEF Read, disk, watcher, history, bounds
<1>13. CASE Flush
    <2>1. row' \in [Path -> File]
        BY <1>13 DEF Flush, Batched, Present
    <2>2. stamped' \subseteq Path
        BY <1>13 DEF Flush, Batched, Present
    <2>3. QED
        BY <1>13, <2>1, <2>2, NoRowsType DEF Flush, watcher, bounds
<1>14. CASE Prune
    <2>1. row' \in [Path -> File]
        BY <1>14 DEF Prune, File
    <2>2. AfterSyncFrom(TRUE) /\ pc = "scan"
        BY <1>14 DEF Prune, WalkDone, Walking
    <2>3. QueueInv' /\ dirty' \in BOOLEAN /\ syncing' \in BOOLEAN
            /\ daemon' \in {"up", "stopping", "closing", "down"}
        BY <2>2, AfterSyncFromType
    <2>4. QED
        BY <1>14, <2>1, <2>3, NoRowsType DEF Prune, ResetWalk, QueueInv, bounds
<1>15. CASE ReadVanished
    <2>1. AfterSyncFrom(FALSE) /\ pc = "scan"
        BY <1>15 DEF ReadVanished
    <2>2. QueueInv' /\ dirty' \in BOOLEAN /\ syncing' \in BOOLEAN
            /\ daemon' \in {"up", "stopping", "closing", "down"}
        BY <2>1, AfterSyncFromType
    <2>3. QED
        BY <1>15, <2>2, NoRowsType DEF ReadVanished, ResetWalk, QueueInv, disk, history, bounds
<1>16. CASE SyncFromFails
    <2>1. AfterSyncFrom(FALSE) /\ pc \in {"select", "scan"}
        BY <1>16 DEF SyncFromFails, FlushDue, WalkDone, Walking
    <2>2. QueueInv' /\ dirty' \in BOOLEAN /\ syncing' \in BOOLEAN
            /\ daemon' \in {"up", "stopping", "closing", "down"}
        BY <2>1, AfterSyncFromType
    <2>3. QED
        BY <1>16, <2>2, NoRowsType DEF SyncFromFails, ResetWalk, QueueInv, disk, history
<1>17. CASE CommandEnds
    <2>1. suspended' \in Nat
        <3>1. suspended' = suspended + 1 \/ suspended' = suspended
            BY <1>17 DEF CommandEnds
        <3>2. QED
            BY <3>1
    <2>a. timer' \in BOOLEAN
        BY <1>17 DEF CommandEnds
    <2>2. RunningInv' /\ pc' \in Phase
        BY <1>17 DEF CommandEnds, Running, Phase
    <2>3. QED
        BY <1>17, <2>1, <2>a, <2>2 DEF CommandEnds, disk, walk, history, bounds
<1>18. CASE Query
    <2>1. rows' \in [Path -> File]
        BY <1>18 DEF Query, File
    <2>2. QED
        BY <1>18, <2>1 DEF Query, disk, watcher, walk, history, bounds, Phase
<1>19. CASE Apply
    <2>1. queue # <<>> /\ Release(dirty') /\ dirty' \in BOOLEAN
        BY <1>19 DEF Apply
    <2>2. QueueInv'
        BY <2>1, ReleaseKeepsQueue
    <2>3. MirrorHome(Present(rows)) /\ Present(rows) \subseteq Path
        BY <1>19 DEF Apply, Present
    <2>4. /\ home' \in [Path -> File] /\ stamped' \subseteq Path
          /\ events' \subseteq Path /\ discarded' \subseteq Path
          /\ edited' \subseteq Path /\ unmirrored' \subseteq Path
        BY <2>3, MirrorType
    <2>5. QED
        BY <1>19, <2>1, <2>2, <2>4, NoRowsType DEF Apply, QueueInv, walk, bounds
<1>20. CASE SyncToFails
    <2>1. queue # <<>> /\ Release(dirty)
        BY <1>20 DEF SyncToFails
    <2>2. QueueInv'
        BY <2>1, ReleaseKeepsQueue
    <2>3. /\ home' \in [Path -> File] /\ stamped' \subseteq Path
          /\ row' \in [Path -> File] /\ reverted' \subseteq Path
          /\ events' \subseteq Path /\ discarded' \subseteq Path
          /\ edited' \subseteq Path /\ unmirrored' \subseteq Path
        <3>1. CASE UNCHANGED <<disk, events, history>>
            BY <3>1 DEF disk, history
        <3>2. CASE /\ \E written \in SUBSET Present(rows) : MirrorHome(written)
                   /\ UNCHANGED <<row, reverted>>
            <4>1. PICK written \in SUBSET Path : MirrorHome(written)
                BY <3>2 DEF Present
            <4>2. QED
                BY <3>2, <4>1, MirrorType
        <3>3. QED
            BY <1>20, <3>1, <3>2 DEF SyncToFails
    <2>4. QED
        BY <1>20, <2>2, <2>3, NoRowsType DEF SyncToFails, CanFail, QueueInv, walk
<1>21. CASE UNCHANGED vars
    BY <1>21 DEF vars, disk, watcher, walk, history, bounds
<1>22. QED
    BY <1>1, <1>2, <1>3, <1>4, <1>5, <1>6, <1>7, <1>8, <1>9, <1>10, <1>11,
       <1>12, <1>13, <1>14, <1>15, <1>16, <1>17, <1>18, <1>19, <1>20, <1>21
       DEF Next, JobStep

\* Type correctness of the home sync.
THEOREM TypeCorrect == Spec => []TypeOK
<1>1. Spec => []TypeInv
    BY InitTypeInv, NextTypeInv, PTL DEF Spec
<1>2. TypeInv => TypeOK
    BY DEF TypeInv
<1>3. QED
    BY <1>1, <1>2, PTL

-----------------------------------------------------------------------------
(* A quiet agent's edits are never discarded *)

\* The agent leaves the home alone while a sync is queued, the watcher's
\* events precede the command that follows the edit, and the home is readable.
Quiet ==
    /\ QuietSync /\ PromptEvents
    /\ "unreadable" \notin FaultKinds

LEMMA InitQuietInv == Init => QuietInv
<1> SUFFICES ASSUME Init PROVE QuietInv
    OBVIOUS
<1> USE DEF Init
<1>1. EditInv
    BY DEF EditInv, Present, Synced
<1>2. ScanInv
    BY DEF ScanInv, Batched, Present, NoRows
<1>3. CommandInv /\ EventInv
    BY DEF CommandInv, EventInv
<1>4. QED
    BY <1>1, <1>2, <1>3 DEF QuietInv

\* A job that settles leaves the commands behind it in the queue, and lets
\* the next one skip its pre-sync only when the watcher is clean.
LEMMA ReleaseSkips ==
    ASSUME TypeInv, queue # <<>>, NEW d \in BOOLEAN, Release(d)
    PROVE  /\ CommandQueued' => CommandQueued
           /\ pc' \in {"idle", "select", "exec"}
           /\ pc' = "exec" => CommandQueued /\ watch = "on" /\ ~d
<1> USE DEF TypeInv, TypeOK
<1>1. \A i \in 1..Len(Tail(queue)) :
         i + 1 \in 1..Len(queue) /\ Tail(queue)[i] = queue[i + 1]
    OBVIOUS
<1>2. CommandQueued' => CommandQueued
    BY <1>1 DEF Release, CommandQueued
<1>3. ASSUME Tail(queue) # <<>>, Head(Tail(queue)) = "cmd" PROVE CommandQueued
    <2>1. 1 \in 1..Len(Tail(queue)) /\ Head(Tail(queue)) = Tail(queue)[1]
        BY <1>3
    <2>2. QED
        BY <1>1, <1>3, <2>1 DEF CommandQueued
<1>4. QED
    BY <1>2, <1>3 DEF Release, StartPhase, ShouldPreSync

\* A job that joins the chain is a command, or brings no command with it.
LEMMA EnqueueSkips ==
    ASSUME TypeInv, NEW job \in Job, Enqueue(job)
    PROVE  /\ CommandQueued' => CommandQueued \/ job = "cmd"
           /\ pc' = pc \/ pc' = "select"
              \/ (pc' = "exec" /\ job = "cmd" /\ watch = "on" /\ ~dirty)
           /\ pc' \in {"scan", "query", "apply"} => pc' = pc
           /\ pc = "scan" => pc' = "scan"
<1> USE DEF TypeInv, TypeOK
<1>1. CommandQueued' => CommandQueued \/ job = "cmd"
    BY DEF Enqueue, CommandQueued
<1>2. CASE queue = <<>>
    <2>1. pc' = StartPhase(<<job>>, dirty) /\ pc = "idle"
        BY <1>2 DEF Enqueue, RunningInv
    <2>2. <<job>> # <<>> /\ Head(<<job>>) = job
        OBVIOUS
    <2>3. QED
        BY <1>1, <2>1, <2>2 DEF StartPhase, ShouldPreSync
<1>3. CASE queue # <<>>
    BY <1>1, <1>3 DEF Enqueue
<1>4. QED
    BY <1>2, <1>3

\* A syncFromFs that ends, well or not, while every edit is either saved or
\* known to the watcher, keeps the promises about commands and events.
LEMMA AfterSyncFromSkips ==
    ASSUME TypeInv, QuietInv, pc \in {"select", "scan"},
           NEW ok \in BOOLEAN, AfterSyncFrom(ok),
           edited' \subseteq edited, ok => edited' = {},
           UNCHANGED <<watch, events, suspended>>
    PROVE  CommandInv' /\ EventInv' /\ pc' # "scan"
<1> USE DEF TypeInv, TypeOK, QuietInv, CommandInv, EventInv
<1>1. queue # <<>>
    BY DEF RunningInv
<1>2. CASE Release(dirty)
    <2>1. /\ CommandQueued' => CommandQueued
          /\ pc' \in {"idle", "select", "exec"}
          /\ pc' = "exec" => CommandQueued /\ watch = "on" /\ ~dirty
        BY <1>1, <1>2, ReleaseSkips
    <2>2. dirty' = dirty \/ (ok /\ dirty' = FALSE)
        BY DEF AfterSyncFrom, AfterWatchSync
    <2>3. suspended = 0 /\ daemon # "down"
        OBVIOUS
    <2>4. daemon' = daemon \/ daemon' = "closing"
        BY DEF AfterSyncFrom
    <2>5. suspended' = 0
        BY <2>3
    <2>6. CommandInv'
        BY <2>1, <2>2
    <2>7. QED
        BY <2>1, <2>2, <2>4, <2>5, <2>6
<1>3. CASE Head(queue) = "cmd" /\ ok /\ pc' = "exec" /\ UNCHANGED <<queue, daemon>>
    BY <1>1, <1>3
<1>4. QED
    BY <1>2, <1>3 DEF AfterSyncFrom

\* syncToFs, complete or cut short, with nothing left to save, discards nothing.
LEMMA MirrorSafe ==
    ASSUME TypeInv, EditInv, edited = {}, UNCHANGED row,
           NEW written \in SUBSET Path, MirrorHome(written)
    PROVE  EditInv' /\ edited' = {}
<1> USE DEF TypeInv, TypeOK
<1>1. edited' = {} /\ discarded' = {}
    BY DEF MirrorHome, Settle, EditInv
<1>2. \A p \in stamped' : home'[p] = home[p] /\ p \in stamped
    BY DEF MirrorHome, Mirror
<1>3. QED
    BY <1>1, <1>2 DEF EditInv

\* Every operation of a quiet agent, the watcher and the daemon keeps the
\* invariant. <2>1 to <2>4 of each case are its four parts.
LEMMA NextQuietInv ==
    ASSUME Quiet, TypeInv, QuietInv, [Next]_vars
    PROVE  QuietInv'
<1> USE ConstantsAssumption DEF TypeInv, TypeOK, QuietInv
<1>1. ASSUME NEW p \in Path, NEW c \in File, AgentWrite(p, c) PROVE QuietInv'
    <2>0. queue = <<>> /\ pc = "idle" /\ daemon = "up"
        BY <1>1 DEF AgentWrite, Quiet, RunningInv
    <2>1. EditInv'
        BY <1>1 DEF EditInv, AgentWrite, Settle, Synced
    <2>2. ScanInv'
        BY <1>1, <2>0 DEF ScanInv, AgentWrite, Batched, Present, NoRows
    <2>3. CommandInv'
        BY <1>1, <2>0 DEF CommandInv, CommandQueued, AgentWrite
    <2>4. EventInv'
        BY <1>1, <2>0 DEF EventInv, AgentWrite, Settle
    <2>5. QED
        BY <2>1, <2>2, <2>3, <2>4
<1>2. ASSUME NEW p \in Path, NEW c \in File, CommandWrite(p, c) PROVE QuietInv'
    <2>0. edited = {} /\ edited' = {} /\ pc = "exec"
        BY <1>2 DEF CommandWrite, Settle, CommandInv, Running
    <2>1. EditInv'
        BY <1>2, <2>0 DEF EditInv, CommandWrite
    <2>2. ScanInv'
        BY <1>2, <2>0 DEF ScanInv, CommandWrite, Batched, Present, NoRows, walk
    <2>3. CommandInv'
        BY <1>2, <2>0 DEF CommandInv
    <2>4. EventInv'
        BY <1>2, <2>0 DEF EventInv, CommandWrite, watcher
    <2>5. QED
        BY <2>1, <2>2, <2>3, <2>4
<1>3. ASSUME NEW p \in Path, Deliver(p) PROVE QuietInv'
    <2>1. EditInv'
        BY <1>3 DEF EditInv, Deliver, disk, history
    <2>2. ScanInv'
        BY <1>3 DEF ScanInv, Deliver, disk, walk, history, Batched, Present
    <2>3. CommandInv'
        BY <1>3 DEF CommandInv, CommandQueued, Deliver, history
    <2>4. EventInv'
        <3>1. CASE Heeded(p)
            BY <1>3, <3>1 DEF EventInv, Deliver, history
        <3>2. CASE p \notin Synced
            BY <1>3, <3>2 DEF EventInv, EditInv, Deliver, history
        <3>3. CASE suspended # 0
            <4>1. suspended > 0
                BY <3>3
            <4>2. edited = {}
                BY <1>3, <4>1 DEF EventInv, CommandInv, Deliver
            <4>3. QED
                BY <1>3, <4>2 DEF EventInv, Deliver, history
        <3>4. QED
            BY <3>1, <3>2, <3>3 DEF Heeded
    <2>5. QED
        BY <2>1, <2>2, <2>3, <2>4
<1>4. CASE TimerFire
    <2>0. UNCHANGED <<queue, pc>> \/ (dirty /\ Enqueue("watch"))
        BY <1>4 DEF TimerFire
    <2>1. EditInv'
        BY <1>4 DEF EditInv, TimerFire, disk, history
    <2>2. pc' = pc \/ (pc' # "scan" /\ pc # "scan")
        BY <2>0, EnqueueSkips DEF Job
    <2>3. ScanInv'
        BY <1>4, <2>2 DEF ScanInv, TimerFire, disk, walk, history, Batched, Present
    <2>4. CommandInv'
        BY <1>4, <2>0, EnqueueSkips DEF CommandInv, CommandQueued, TimerFire, history, Job
    <2>5. EventInv'
        BY <1>4, <2>0, EnqueueSkips DEF EventInv, TimerFire, history, Job, Enqueue, RunningInv
    <2>6. QED
        BY <2>1, <2>3, <2>4, <2>5
<1>5. CASE WatcherError
    <2>1. EditInv' /\ ScanInv'
        BY <1>5 DEF EditInv, ScanInv, WatcherError, disk, walk, history, Batched, Present
    <2>2. CommandInv' /\ EventInv'
        BY <1>5 DEF CommandInv, EventInv, CommandQueued, WatcherError, history
    <2>3. QED
        BY <2>1, <2>2
<1>6. CASE CommandArrives
    <2>0. Enqueue("cmd") /\ "cmd" \in Job
        BY <1>6 DEF CommandArrives, Job
    <2>1. EditInv'
        BY <1>6 DEF EditInv, CommandArrives, disk, history
    <2>2. pc' = pc \/ (pc' # "scan" /\ pc # "scan")
        BY <2>0, EnqueueSkips
    <2>3. ScanInv'
        BY <1>6, <2>2 DEF ScanInv, CommandArrives, disk, walk, history, Batched, Present
    <2>4. watch = "on" /\ ~dirty => edited = {}
        BY <1>6 DEF CommandArrives, Quiet, EventInv
    <2>5. CommandInv'
        BY <1>6, <2>0, <2>4, EnqueueSkips DEF CommandInv, CommandArrives, history, watcher
    <2>6. EventInv'
        BY <1>6, <2>0, EnqueueSkips
           DEF EventInv, CommandArrives, history, watcher, Enqueue, RunningInv
    <2>7. QED
        BY <2>1, <2>3, <2>5, <2>6
<1>7. CASE Signal
    <2>0. Enqueue("flush") /\ "flush" \in Job
        BY <1>7 DEF Signal, Job
    <2>1. EditInv'
        BY <1>7 DEF EditInv, Signal, disk, history
    <2>2. pc' = pc \/ (pc' # "scan" /\ pc # "scan")
        BY <2>0, EnqueueSkips
    <2>3. ScanInv'
        BY <1>7, <2>2 DEF ScanInv, Signal, disk, walk, history, Batched, Present
    <2>4. CommandInv'
        BY <1>7, <2>0, EnqueueSkips DEF CommandInv, Signal, history
    <2>5. EventInv'
        BY <1>7, <2>0, EnqueueSkips DEF EventInv, Signal, history, Enqueue, RunningInv
    <2>6. QED
        BY <2>1, <2>3, <2>4, <2>5
<1>8. CASE Exit
    <2>1. EditInv'
        BY <1>8 DEF EditInv, Exit, disk, history
    <2>2. ScanInv'
        BY <1>8 DEF ScanInv, Exit, ResetWalk, Batched, Present, NoRows
    <2>3. CommandInv' /\ EventInv'
        BY <1>8 DEF CommandInv, EventInv, CommandQueued, Exit, watcher, history
    <2>4. QED
        BY <2>1, <2>2, <2>3
<1>9. CASE BeginScan
    <2>1. EditInv'
        BY <1>9 DEF EditInv, BeginScan, disk, history
    <2>0. pc = "select" /\ pc' = "scan" /\ Batched = {} /\ Batched' = {}
        BY <1>9 DEF ScanInv, BeginScan, Batched, Present, NoRows
    <2>2. ScanInv'
        BY <1>9, <2>0
           DEF ScanInv, EditInv, BeginScan, disk, history, WalkTargets, Synced, Present
    <2>3. CommandInv' /\ EventInv'
        BY <1>9 DEF CommandInv, EventInv, CommandQueued, BeginScan, watcher, history
    <2>4. QED
        BY <2>1, <2>2, <2>3
<1>10. ASSUME NEW p \in Path, Stat(p) PROVE QuietInv'
    <2>1. EditInv'
        BY <1>10 DEF EditInv, Stat, disk, history
    <2>2. ScanInv'
        BY <1>10 DEF ScanInv, EditInv, Stat, StillThere, Unchanged, Walking, disk,
                     history, Batched, Present
    <2>3. CommandInv' /\ EventInv'
        BY <1>10 DEF CommandInv, EventInv, CommandQueued, Stat, Walking, watcher, history
    <2>4. QED
        BY <2>1, <2>2, <2>3
<1>12. CASE Read
    <2>1. EditInv'
        BY <1>12 DEF EditInv, Read, disk, history
    <2>2. ScanInv'
        BY <1>12 DEF ScanInv, Read, disk, history, Batched, Present
    <2>3. CommandInv' /\ EventInv'
        BY <1>12 DEF CommandInv, EventInv, CommandQueued, Read, watcher, history
    <2>4. QED
        BY <2>1, <2>2, <2>3
<1>13. CASE Flush
    <2>0. \A p \in Path : row'[p] = IF p \in Batched THEN home[p] ELSE row[p]
        BY <1>13 DEF Flush, ScanInv
    <2>1. EditInv'
        BY <1>13, <2>0 DEF EditInv, Flush, Settle, Batched, Present
    <2>2. ScanInv'
        BY <1>13, <2>0 DEF ScanInv, Flush, FlushDue, Walking, Settle, Batched, Present, NoRows
    <2>3. CommandInv' /\ EventInv'
        BY <1>13 DEF CommandInv, EventInv, CommandQueued, Flush, FlushDue, Walking,
                     Settle, watcher
    <2>4. QED
        BY <2>1, <2>2, <2>3
<1>14. CASE Prune
    <2>0. edited' = {} /\ pc = "scan"
        BY <1>14 DEF Prune, WalkDone, Walking, Settle, ScanInv, EditInv, Synced
    <2>1. EditInv'
        BY <1>14, <2>0 DEF EditInv, Prune
    <2>2. CommandInv' /\ EventInv' /\ pc' # "scan"
        BY <1>14, <2>0, AfterSyncFromSkips DEF Prune
    <2>3. ScanInv'
        BY <1>14, <2>2 DEF ScanInv, Prune, ResetWalk, Batched, Present, NoRows
    <2>4. QED
        BY <2>1, <2>2, <2>3
<1>15. CASE ReadVanished
    <2>1. EditInv'
        BY <1>15 DEF EditInv, ReadVanished, disk, history
    <2>2. CommandInv' /\ EventInv' /\ pc' # "scan"
        BY <1>15, AfterSyncFromSkips DEF ReadVanished, history
    <2>3. ScanInv'
        BY <1>15, <2>2 DEF ScanInv, ReadVanished, ResetWalk, Batched, Present, NoRows
    <2>4. QED
        BY <2>1, <2>2, <2>3
<1>16. CASE SyncFromFails
    <2>0. pc \in {"select", "scan"}
        BY <1>16 DEF SyncFromFails, FlushDue, WalkDone, Walking
    <2>1. EditInv'
        BY <1>16 DEF EditInv, SyncFromFails, disk, history
    <2>2. CommandInv' /\ EventInv' /\ pc' # "scan"
        BY <1>16, <2>0, AfterSyncFromSkips DEF SyncFromFails, history
    <2>3. ScanInv'
        BY <1>16, <2>2 DEF ScanInv, SyncFromFails, ResetWalk, Batched, Present, NoRows
    <2>4. QED
        BY <2>1, <2>2, <2>3
<1>17. CASE CommandEnds
    <2>0. edited = {} /\ edited' = {} /\ pc = "exec" /\ pc' = "query"
        BY <1>17 DEF CommandEnds, CommandInv, Running, history
    <2>1. EditInv'
        BY <1>17 DEF EditInv, CommandEnds, disk, history
    <2>2. ScanInv'
        BY <1>17, <2>0 DEF ScanInv, CommandEnds, disk, walk, history, Batched, Present
    <2>3. CommandInv' /\ EventInv'
        BY <1>17, <2>0 DEF CommandInv, EventInv, CommandEnds
    <2>4. QED
        BY <2>1, <2>2, <2>3
<1>18. CASE Query
    <2>0. edited = {} /\ edited' = {} /\ pc = "query" /\ pc' = "apply"
        BY <1>18 DEF Query, CommandInv, history
    <2>1. EditInv'
        BY <1>18 DEF EditInv, Query, disk, history
    <2>2. ScanInv'
        BY <1>18, <2>0 DEF ScanInv, Query, disk, walk, history, Batched, Present
    <2>3. CommandInv' /\ EventInv'
        BY <1>18, <2>0 DEF CommandInv, EventInv, Query, watcher
    <2>4. QED
        BY <2>1, <2>2, <2>3
<1>19. CASE Apply
    <2>0. edited = {} /\ pc = "apply" /\ queue # <<>>
        BY <1>19 DEF Apply, CommandInv, RunningInv
    <2>1. MirrorHome(Present(rows)) /\ UNCHANGED row
        BY <1>19 DEF Apply
    <2>2. EditInv' /\ edited' = {}
        BY <2>0, <2>1, MirrorSafe DEF Present
    <2>3. dirty' \in BOOLEAN /\ Release(dirty')
        BY <1>19 DEF Apply
    <2>4. pc' \in {"idle", "select", "exec"}
        BY <2>0, <2>3, ReleaseSkips
    <2>5. ScanInv'
        BY <1>19, <2>0, <2>2, <2>4 DEF ScanInv, Apply, walk, Batched, Present, NoRows
    <2>6. CommandInv' /\ EventInv'
        BY <1>19, <2>0, <2>2 DEF CommandInv, EventInv, Apply
    <2>7. QED
        BY <2>2, <2>5, <2>6
<1>20. CASE SyncToFails
    <2>0. edited = {} /\ pc \in {"query", "apply"} /\ queue # <<>>
        BY <1>20 DEF SyncToFails, CommandInv, RunningInv
    <2>1. EditInv' /\ edited' = {}
        <3>1. CASE UNCHANGED <<disk, events, history>>
            BY <2>0, <3>1 DEF EditInv, disk, history
        <3>2. CASE /\ \E written \in SUBSET Present(rows) : MirrorHome(written)
                   /\ UNCHANGED <<row, reverted>>
            <4>1. PICK written \in SUBSET Present(rows) : MirrorHome(written)
                BY <3>2
            <4>2. QED
                BY <2>0, <3>2, <4>1, MirrorSafe DEF Present
        <3>3. QED
            BY <1>20, <3>1, <3>2 DEF SyncToFails
    <2>2. pc' \in {"idle", "select", "exec"}
        BY <1>20, <2>0, ReleaseSkips DEF SyncToFails
    <2>3. ScanInv'
        BY <1>20, <2>0, <2>1, <2>2 DEF ScanInv, SyncToFails, walk, Batched, Present, NoRows
    <2>4. CommandInv' /\ EventInv'
        BY <1>20, <2>0, <2>1 DEF CommandInv, EventInv, SyncToFails
    <2>5. QED
        BY <2>1, <2>3, <2>4
<1>21. CASE UNCHANGED vars
    <2>1. EditInv' /\ ScanInv'
        BY <1>21 DEF EditInv, ScanInv, vars, disk, watcher, walk, history, bounds, Batched, Present
    <2>2. CommandInv' /\ EventInv'
        BY <1>21 DEF CommandInv, EventInv, CommandQueued, vars, watcher, history
    <2>3. QED
        BY <2>1, <2>2
<1>22. ASSUME NEW p \in Path, StatFails(p) PROVE QuietInv'
    BY <1>22 DEF StatFails, CanFail, Quiet
<1>23. QED
    BY <1>1, <1>2, <1>3, <1>4, <1>5, <1>6, <1>7, <1>8, <1>9, <1>10, <1>12,
       <1>13, <1>14, <1>15, <1>16, <1>17, <1>18, <1>19, <1>20, <1>21, <1>22
       DEF Next, JobStep

\* In every run with a quiet agent, whatever fails and whenever the daemon is
\* stopped, no edit is discarded by the sync back to disk.
THEOREM QuietEditsSurvive ==
    ASSUME Quiet PROVE Spec => []NoEditDiscarded
<1>1. TypeInv /\ QuietInv /\ [Next]_vars => QuietInv'
    BY NextQuietInv
<1>2. Spec => [](TypeInv /\ QuietInv)
    BY <1>1, InitTypeInv, NextTypeInv, InitQuietInv, PTL DEF Spec
<1>3. QuietInv => NoEditDiscarded
    BY DEF QuietInv, EditInv, NoEditDiscarded
<1>4. QED
    BY <1>2, <1>3, PTL

\* A quiet agent's clean home is a saved one: with no sync queued, no event in
\* flight and isDirty() false, execCommandWithSync may skip its pre-sync.
THEOREM QuietCleanMeansSaved ==
    ASSUME Quiet PROVE Spec => []CleanMeansSaved
<1>1. TypeInv /\ QuietInv /\ [Next]_vars => QuietInv'
    BY NextQuietInv
<1>2. Spec => [](TypeInv /\ QuietInv)
    BY <1>1, InitTypeInv, NextTypeInv, InitQuietInv, PTL DEF Spec
<1>3. TypeInv /\ QuietInv => CleanMeansSaved
    BY DEF TypeInv, TypeOK, QuietInv, EventInv, CleanMeansSaved
<1>4. QED
    BY <1>2, <1>3, PTL

-----------------------------------------------------------------------------
(* The flush at shutdown leaves nothing unsaved *)

\* A syncFromFs that succeeds leaves nothing unsaved, and only the flush's
\* closes the daemon: with a quiet agent and no failing statement it succeeds.
LEMMA NextFlushed ==
    ASSUME Quiet, "presync" \notin FaultKinds, TypeInv, QuietInv,
           FlushedAtExit, [Next]_vars
    PROVE  FlushedAtExit'
<1> USE DEF TypeInv, TypeOK, FlushedAtExit
<1>1. ASSUME NEW p \in Path, NEW c \in File, AgentWrite(p, c) PROVE FlushedAtExit'
    BY <1>1 DEF AgentWrite, Quiet
<1>2. ASSUME NEW p \in Path, NEW c \in File, CommandWrite(p, c) PROVE FlushedAtExit'
    BY <1>2 DEF CommandWrite, Settle
<1>3. ASSUME NEW p \in Path, Deliver(p) \/ Stat(p) \/ StatFails(p) PROVE FlushedAtExit'
    BY <1>3 DEF Deliver, Stat, StatFails, history
<1>4. CASE TimerFire \/ WatcherError \/ CommandArrives \/ BeginScan \/ Read
           \/ CommandEnds \/ Query
    BY <1>4 DEF TimerFire, WatcherError, CommandArrives, BeginScan, Read,
                CommandEnds, Query, history
<1>5. CASE Signal \/ Exit
    BY <1>5 DEF Signal, Exit, history
<1>6. CASE Flush
    BY <1>6 DEF Flush, Settle
<1>7. CASE Prune
    <2>1. edited' = {}
        BY <1>7, ConstantsAssumption
           DEF Prune, WalkDone, Walking, Settle, QuietInv, ScanInv, EditInv, Synced
    <2>2. QED
        BY <2>1
<1>8. CASE ReadVanished
    BY <1>8 DEF ReadVanished, QuietInv, ScanInv
<1>9. CASE SyncFromFails
    BY <1>9 DEF SyncFromFails, CanFail
<1>10. CASE Apply
    BY <1>10 DEF Apply, MirrorHome, Settle
<1>11. CASE SyncToFails
    BY <1>11 DEF SyncToFails, MirrorHome, Settle, history
<1>12. CASE UNCHANGED vars
    BY <1>12 DEF vars, history
<1>13. QED
    BY <1>1, <1>2, <1>3, <1>4, <1>5, <1>6, <1>7, <1>8, <1>9, <1>10, <1>11, <1>12
       DEF Next, JobStep

\* When the final flush of openrind-shell-bash.mjs is over every edit of a
\* quiet agent is in the rows, unless a statement of that flush failed.
THEOREM QuietFlushedAtExit ==
    ASSUME Quiet, "presync" \notin FaultKinds
    PROVE  Spec => []FlushedAtExit
<1>1. TypeInv /\ QuietInv /\ [Next]_vars => QuietInv'
    BY NextQuietInv
<1>2. TypeInv /\ QuietInv /\ FlushedAtExit /\ [Next]_vars => FlushedAtExit'
    BY NextFlushed
<1>3. Init => FlushedAtExit
    BY DEF Init, FlushedAtExit
<1>4. QED
    BY <1>1, <1>2, <1>3, InitTypeInv, NextTypeInv, InitQuietInv, PTL DEF Spec

-----------------------------------------------------------------------------
(* No sync takes a stale file for newer than a command's row, any agent *)

\* Rows a command wrote are ahead of their files only between the command's
\* first write and its syncToFs, in one hold of the mutex.
AheadInv ==
    /\ unmirrored \subseteq Synced
    /\ unmirrored # {} => pc \in {"exec", "query", "apply"} \/ daemon = "down"
    /\ daemon = "down" => pc = "idle" /\ queue = <<>>
    /\ pc = "apply" => \A p \in Synced : rows[p] = row[p]
    /\ reverted = {}

LEMMA NextAheadInv ==
    ASSUME "postsync" \notin FaultKinds, TypeInv, AheadInv, [Next]_vars
    PROVE  AheadInv'
<1> USE DEF TypeInv, TypeOK, AheadInv
<1>1. ASSUME NEW p \in Path, NEW c \in File, AgentWrite(p, c) PROVE AheadInv'
    BY <1>1 DEF AgentWrite, Settle
<1>2. ASSUME NEW p \in Path, NEW c \in File, CommandWrite(p, c) PROVE AheadInv'
    BY <1>2 DEF CommandWrite, Running, Settle
<1>3. ASSUME NEW p \in Path, Deliver(p) PROVE AheadInv'
    BY <1>3 DEF Deliver, disk, history
<1>4. ASSUME NEW p \in Path, Stat(p) \/ StatFails(p) PROVE AheadInv'
    BY <1>4 DEF Stat, StatFails, disk, history
<1>5. ASSUME NEW job \in Job, Enqueue(job), daemon \in {"up", "stopping"},
             daemon' # "down", UNCHANGED <<disk, rows, history>>
      PROVE  AheadInv'
    <2>1. CASE queue = <<>>
        <3>1. pc = "idle" /\ unmirrored = {}
            BY <1>5, <2>1 DEF RunningInv
        <3>2. pc' # "apply"
            BY <1>5, <3>1, EnqueueSkips
        <3>3. QED
            BY <1>5, <3>1, <3>2 DEF disk, history
    <2>2. CASE queue # <<>>
        BY <1>5, <2>2 DEF Enqueue, disk, history
    <2>3. QED
        BY <2>1, <2>2
<1>6. CASE TimerFire
    <2>1. CASE Enqueue("watch")
        BY <1>5, <1>6, <2>1 DEF TimerFire, Job
    <2>2. CASE UNCHANGED <<syncing, queue, pc>>
        BY <1>6, <2>2 DEF TimerFire, disk, history
    <2>3. QED
        BY <1>6, <2>1, <2>2 DEF TimerFire
<1>7. CASE WatcherError \/ BeginScan \/ Read
    BY <1>7 DEF WatcherError, BeginScan, Read, disk, history, RunningInv
<1>8. CASE CommandArrives
    BY <1>5, <1>8 DEF CommandArrives, Job
<1>9. CASE Signal
    BY <1>5, <1>9 DEF Signal, Job
<1>10. CASE Exit
    BY <1>10 DEF Exit, disk, history
<1>11. CASE Flush
    BY <1>11 DEF Flush, FlushDue, Walking, Settle
<1>12. ASSUME NEW ok \in BOOLEAN, AfterSyncFrom(ok), pc \in {"select", "scan"},
              unmirrored' \subseteq unmirrored,
              reverted' \subseteq reverted \cup unmirrored
       PROVE  AheadInv'
    <2>1. unmirrored = {} /\ daemon # "down" /\ queue # <<>>
        BY <1>12 DEF RunningInv
    <2>2. pc' # "apply"
        BY <1>12, <2>1, ReleaseSkips DEF AfterSyncFrom
    <2>3. daemon' # "down"
        BY <1>12, <2>1 DEF AfterSyncFrom
    <2>4. QED
        BY <1>12, <2>1, <2>2, <2>3
<1>13. CASE Prune
    <2>1. AfterSyncFrom(TRUE) /\ pc = "scan"
        BY <1>13 DEF Prune, WalkDone, Walking
    <2>2. unmirrored' \subseteq unmirrored /\ reverted' \subseteq reverted \cup unmirrored
        BY <1>13 DEF Prune, Settle
    <2>3. QED
        BY <1>12, <2>1, <2>2
<1>14. CASE ReadVanished
    BY <1>12, <1>14 DEF ReadVanished, history
<1>15. CASE SyncFromFails
    BY <1>12, <1>15 DEF SyncFromFails, FlushDue, WalkDone, Walking, history
<1>16. CASE CommandEnds
    BY <1>16 DEF CommandEnds, Running, disk, history
<1>17. CASE Query
    BY <1>17 DEF Query, disk, history, Synced
<1>18. CASE Apply
    <2>1. \A p \in Synced : home'[p] = row'[p]
        BY <1>18 DEF Apply, MirrorHome, Mirror, Present, Synced
    <2>2. unmirrored' = {} /\ reverted' = {}
        BY <1>18, <2>1 DEF Apply, MirrorHome, Settle
    <2>3. queue # <<>> /\ dirty' \in BOOLEAN /\ Release(dirty')
        BY <1>18 DEF Apply, RunningInv
    <2>4. pc' # "apply"
        BY <2>3, ReleaseSkips
    <2>5. daemon' # "down"
        BY <1>18 DEF Apply
    <2>6. QED
        BY <2>2, <2>4, <2>5
<1>19. CASE SyncToFails
    BY <1>19 DEF SyncToFails, CanFail
<1>20. CASE UNCHANGED vars
    BY <1>20 DEF vars, disk, history
<1>21. QED
    BY <1>1, <1>2, <1>3, <1>4, <1>6, <1>7, <1>8, <1>9, <1>10, <1>11, <1>13,
       <1>14, <1>15, <1>16, <1>17, <1>18, <1>19, <1>20 DEF Next, JobStep

\* Whatever the agent does and whenever the daemon stops, no syncFromFs undoes a
\* command's write, unless a syncToFs fails.
THEOREM CommandsAreKept ==
    ASSUME "postsync" \notin FaultKinds
    PROVE  Spec => []NoCommandReverted
<1>1. TypeInv /\ AheadInv /\ [Next]_vars => AheadInv'
    BY NextAheadInv
<1>2. Init => AheadInv
    BY DEF Init, AheadInv
<1>3. AheadInv => NoCommandReverted
    BY DEF AheadInv, NoCommandReverted
<1>4. QED
    BY <1>1, <1>2, <1>3, InitTypeInv, NextTypeInv, PTL DEF Spec

-----------------------------------------------------------------------------
(* What the walk may delete, and what it never looks at, any agent *)

\* Only entries that pass shouldExcludePath() are walked, and a row the prune
\* will delete is yet to be visited or its file was missed.
WalkInv ==
    /\ unvisited \subseteq Synced
    /\ reading # None => reading \in Synced
    /\ Batched \subseteq Synced
    /\ pc = "scan" => \A p \in Path : home[p] = None => p \in absent
    /\ pc = "scan" => \A p \in Synced : p \in unseen => p \in unvisited \cup absent

LEMMA ResetWalkKeepsWalkInv ==
    ASSUME ResetWalk, pc' # "scan" PROVE WalkInv'
BY DEF ResetWalk, WalkInv, Batched, Present, NoRows

\* A syncFromFs that ends has left the walk.
LEMMA AfterSyncFromLeavesScan ==
    ASSUME TypeInv, pc \in {"select", "scan"}, NEW ok \in BOOLEAN, AfterSyncFrom(ok)
    PROVE  pc' # "scan"
<1>1. queue # <<>> /\ dirty \in BOOLEAN
    BY DEF TypeInv, TypeOK, RunningInv
<1>2. CASE Release(dirty)
    BY <1>1, <1>2, ReleaseSkips
<1>3. QED
    BY <1>2 DEF AfterSyncFrom

LEMMA NextWalkInv ==
    ASSUME TypeInv, WalkInv, [Next]_vars
    PROVE  WalkInv'
<1> USE ConstantsAssumption DEF TypeInv, TypeOK, WalkInv, Batched, Present
<1>1. ASSUME NEW p \in Path, NEW c \in File, AgentWrite(p, c) PROVE WalkInv'
    BY <1>1 DEF AgentWrite
<1>2. ASSUME NEW p \in Path, NEW c \in File, CommandWrite(p, c) PROVE WalkInv'
    BY <1>2 DEF CommandWrite, walk, Running
<1>3. ASSUME NEW p \in Path, Deliver(p) PROVE WalkInv'
    BY <1>3 DEF Deliver, disk, walk
<1>4. ASSUME NEW job \in Job, Enqueue(job), UNCHANGED <<disk, walk>>
      PROVE  WalkInv'
    <2>1. pc' = "scan" => pc = "scan"
        BY <1>4, EnqueueSkips
    <2>2. QED
        BY <1>4, <2>1 DEF disk, walk
<1>5. CASE TimerFire
    <2>1. CASE Enqueue("watch")
        BY <1>4, <1>5, <2>1 DEF TimerFire, Job
    <2>2. CASE UNCHANGED <<syncing, queue, pc>>
        BY <1>5, <2>2 DEF TimerFire, disk, walk
    <2>3. QED
        BY <1>5, <2>1, <2>2 DEF TimerFire
<1>6. CASE WatcherError
    BY <1>6 DEF WatcherError, disk, walk
<1>7. CASE CommandArrives
    BY <1>4, <1>7 DEF CommandArrives, Job
<1>8. CASE Signal
    BY <1>4, <1>8 DEF Signal, Job
<1>9. CASE Exit
    BY <1>9, ResetWalkKeepsWalkInv DEF Exit
<1>10. CASE BeginScan
    BY <1>10 DEF BeginScan, WalkTargets, disk
<1>11. ASSUME NEW p \in Path, Stat(p) PROVE WalkInv'
    BY <1>11 DEF Stat, StillThere, Walking, disk
<1>12. ASSUME NEW p \in Path, StatFails(p) PROVE WalkInv'
    BY <1>12 DEF StatFails, Walking, disk
<1>13. CASE Read
    BY <1>13 DEF Read, disk
<1>14. CASE Flush
    BY <1>14 DEF Flush, NoRows
<1>15. CASE Prune
    <2>1. AfterSyncFrom(TRUE) /\ pc = "scan" /\ ResetWalk
        BY <1>15 DEF Prune, WalkDone, Walking
    <2>2. QED
        BY <2>1, AfterSyncFromLeavesScan, ResetWalkKeepsWalkInv
<1>16. CASE ReadVanished
    BY <1>16, AfterSyncFromLeavesScan, ResetWalkKeepsWalkInv DEF ReadVanished
<1>17. CASE SyncFromFails
    <2>1. AfterSyncFrom(FALSE) /\ pc \in {"select", "scan"} /\ ResetWalk
        BY <1>17 DEF SyncFromFails, FlushDue, WalkDone, Walking
    <2>2. QED
        BY <2>1, AfterSyncFromLeavesScan, ResetWalkKeepsWalkInv
<1>18. CASE CommandEnds \/ Query
    BY <1>18 DEF CommandEnds, Query, walk
<1>19. CASE Apply
    <2>1. pc' # "scan"
        BY <1>19, ReleaseSkips DEF Apply, RunningInv
    <2>2. QED
        BY <1>19, <2>1 DEF Apply, walk
<1>20. CASE SyncToFails
    <2>1. pc' # "scan"
        BY <1>20, ReleaseSkips DEF SyncToFails, RunningInv
    <2>2. QED
        BY <1>20, <2>1 DEF SyncToFails, walk
<1>21. CASE UNCHANGED vars
    BY <1>21 DEF vars, disk, walk
<1>22. QED
    BY <1>1, <1>2, <1>3, <1>5, <1>6, <1>7, <1>8, <1>9, <1>10, <1>11, <1>12,
       <1>13, <1>14, <1>15, <1>16, <1>17, <1>18, <1>19, <1>20, <1>21
       DEF Next, JobStep

LEMMA InitWalkInv == Init => WalkInv
BY DEF Init, WalkInv, Batched, Present, NoRows

\* syncToFs's filter of the SELECT's result leaves no excluded path.
RowsInv == \A p \in Path \ Synced : rows[p] = None

LEMMA InitRowsInv == Init => RowsInv
BY DEF Init, RowsInv, NoRows

LEMMA NextRowsInv ==
    ASSUME RowsInv, [Next]_vars PROVE RowsInv'
<1>1. CASE Query
    BY <1>1 DEF Query, RowsInv, Synced
<1>2. CASE Apply \/ SyncToFails
    BY <1>2 DEF Apply, SyncToFails, RowsInv, NoRows, Synced
<1>3. CASE UNCHANGED rows
    BY <1>3 DEF RowsInv, Synced
<1>4. QED
    BY <1>1, <1>2, <1>3
       DEF Next, JobStep, AgentWrite, CommandWrite, Deliver, TimerFire,
           WatcherError, CommandArrives, Signal, Exit, BeginScan, Stat, StatFails,
           Read, ReadVanished, Flush, Prune, SyncFromFails, CommandEnds, vars

\* The rows change by a command, the upsert of a batch, or the prune.
LEMMA RowChanges ==
    ASSUME Next
    PROVE  \/ pc = "exec" \/ UNCHANGED row
           \/ \A p \in Path : row'[p] = IF p \in Batched THEN batch[p] ELSE row[p]
           \/ /\ pc = "scan" /\ unvisited = {}
              /\ \A p \in Path : row'[p] = IF p \in unseen THEN None ELSE row[p]
BY DEF Next, JobStep, AgentWrite, CommandWrite, Running, Deliver, TimerFire,
       WatcherError, CommandArrives, Signal, Exit, BeginScan, Stat, StatFails,
       Read, ReadVanished, Flush, Prune, WalkDone, Walking, SyncFromFails,
       CommandEnds, Query, Apply, SyncToFails, disk

\* The real files change by the agent, or by a mirror of the rows.
LEMMA HomeChanges ==
    ASSUME Next
    PROVE  \/ UNCHANGED home \/ edits' = edits + 1
           \/ pc = "apply" /\ \E written \in SUBSET Present(rows) : MirrorHome(written)
<1>1. CASE Apply
    BY <1>1 DEF Apply, Present
<1>2. CASE SyncToFails
    BY <1>2 DEF SyncToFails, Present, disk
<1>3. QED
    BY <1>1, <1>2
       DEF Next, JobStep, AgentWrite, CommandWrite, Deliver, TimerFire,
           WatcherError, CommandArrives, Signal, Exit, BeginScan, Stat, StatFails,
           Read, ReadVanished, Flush, Prune, SyncFromFails, CommandEnds, Query, disk

\* Whatever the agent does during the walk, and whatever fails, the prune only
\* deletes a synced row whose file was missing or unreadable meanwhile.
THEOREM PruneSparesFiles == Spec => PruneOnlyMissing
<1>1. TypeInv /\ WalkInv /\ [Next]_vars => WalkInv'
    BY NextWalkInv
<1>2. ASSUME TypeInv, WalkInv, [Next]_vars, NEW p \in Synced, Pruned(p)
      PROVE  p \in absent
    <2>1. p \in Path /\ pc = "scan" /\ row[p] # None /\ row'[p] = None
        BY <1>2 DEF Pruned, Synced
    <2>2. row' # row /\ Next
        BY <1>2, <2>1 DEF vars, disk
    <2>3. ~ \A q \in Path : row'[q] = IF q \in Batched THEN batch[q] ELSE row[q]
        BY <2>1 DEF Batched, Present
    <2>4. unvisited = {} /\ p \in unseen
        BY <2>1, <2>2, <2>3, RowChanges
    <2>5. QED
        BY <1>2, <2>1, <2>4 DEF WalkInv
<1>3. TypeInv /\ WalkInv /\ [Next]_vars => [\A p \in Synced : Pruned(p) => p \in absent]_vars
    BY <1>2
<1>4. QED
    BY <1>1, <1>3, InitTypeInv, NextTypeInv, InitWalkInv, PTL DEF Spec, PruneOnlyMissing

\* shouldExcludePath() on both ways: an excluded file is never uploaded nor
\* written by the daemon, and only the prune of the directory above it removes
\* it, whatever fails.
THEOREM ExcludedPathsStayLocal == Spec => ExcludedStayLocal
<1> DEFINE Local(p) ==
        /\ home'[p] # home[p] =>
              edits' # edits \/ (p \in Nested /\ home'[p] = None /\ pc = "apply")
        /\ row'[p] # row[p] => pc = "exec" \/ row'[p] = None
<1>1. TypeInv /\ WalkInv /\ [Next]_vars => WalkInv'
    BY NextWalkInv
<1>2. ASSUME TypeInv, WalkInv, RowsInv, [Next]_vars, NEW p \in Excluded
      PROVE  Local(p)
    <2>1. p \in Path /\ p \notin Synced /\ rows[p] = None
        BY <1>2, ConstantsAssumption DEF Synced, RowsInv
    <2>2. CASE UNCHANGED vars
        BY <2>2 DEF vars, disk
    <2>3. CASE Next
        <3>1. home'[p] # home[p] =>
                 edits' # edits \/ (p \in Nested /\ home'[p] = None /\ pc = "apply")
            <4>1. ASSUME NEW written \in SUBSET Present(rows), MirrorHome(written),
                         home'[p] # home[p]
                  PROVE  p \in Nested /\ home'[p] = None
                <5>1. p \notin written
                    BY <2>1 DEF Present
                <5>2. QED
                    BY <2>1, <4>1, <5>1 DEF MirrorHome, Mirror
            <4>2. edits' = edits + 1 => edits' # edits
                BY <1>2 DEF TypeInv, TypeOK
            <4>3. QED
                BY <1>2, <2>3, <4>1, <4>2, HomeChanges
        <3>2. row'[p] # row[p] => pc = "exec" \/ row'[p] = None
            BY <1>2, <2>1, <2>3, RowChanges DEF WalkInv
        <3>3. QED
            BY <3>1, <3>2
    <2>4. QED
        BY <1>2, <2>2, <2>3
<1>3. TypeInv /\ WalkInv /\ RowsInv /\ [Next]_vars => [\A p \in Excluded : Local(p)]_vars
    BY <1>2
<1>4. QED
    BY <1>1, <1>3, InitTypeInv, NextTypeInv, InitWalkInv, InitRowsInv, NextRowsInv, PTL
       DEF Spec, ExcludedStayLocal

=============================================================================
