-------------------------- MODULE RuntimeSupervisor --------------------------
(***************************************************************************)
(* runtime-service.ts of server-v2: one server supervises two child        *)
(* processes, OpenCode and the router that serves chats from it.           *)
(*                                                                         *)
(* The service is one JavaScript thread.  An asynchronous call is a task:  *)
(* the labels it still has to go through, the first of them being where it *)
(* is.  A task in `ready' runs, and everything up to its next real await   *)
(* happens before any other event: a step of the environment (a request, a *)
(* child that is ready or exits, a timer, a file that has been read) needs *)
(* an empty `ready'.  Left out: output, versions, assets, what is          *)
(* persisted, URLs, health texts; elapsed time is a choice.                *)
(***************************************************************************)
EXTENDS Naturals, Sequences

CONSTANTS Opencode, Router,   \* process ids, used again once free
          Request,            \* HTTP requests and the stop of the server
          Ops,                \* what requests may ask for
          None,
          MaxAttempts,        \* restartPolicy.maxAttempts
          MaxFaults           \* bound on crashes and failed starts

Component == {"opencode", "router"}
Child     == Opencode \cup Router
\* bootstrapPromise, the callbacks of the two timers, the exit handlers of
\* OpenCode processes, and the requests
Task      == {"boot", "revive", "restart"} \cup Opencode \cup Request

ASSUME ConstantsAssumption ==
    /\ Opencode \cap Router = {} /\ Request \cap Opencode = {}
    /\ {"boot", "revive", "restart"} \cap (Opencode \cup Request) = {}
    /\ None \notin Child
    /\ Ops \subseteq {"apply", "reload", "upgrade", "close"}
    /\ MaxAttempts \in Nat /\ MaxFaults \in Nat

VARIABLES
    slot,          \* per component: handle, running, status, stopping, timer, history
    shuttingDown,  \* set by dispose(), never reset
    booting,       \* bootstrapPromise # null
    manifest,      \* runtimeManifest # null
    enabled,       \* routerEnablement.enabled
    proc,          \* the operating system's view of each process
    call,          \* per task: [todo, on]
    ready,         \* tasks that go on now, in order
    stopped,       \* the server has exited
    asked,         \* requests so far
    faults,
    overlapped,    \* history: components with two starts or stops under way at once
    told,          \* history: OpenCode processes the service has told to stop
    interfered     \* history: a request came while another call was under way

service == <<slot, shuttingDown, booting, manifest, enabled>>
tasks   == <<call, ready>>
env     == <<stopped, asked, faults>>
history == <<overlapped, told, interfered>>
vars    == <<service, proc, tasks, env, history>>

Status == {"disabled", "stopped", "starting", "running", "error", "crashed",
           "restart_scheduled"}
Label  == {"bundle", "listen", "startOpencode", "startRouter", "disable", "binary",
           "probe", "probeGone", "stopRouter", "routerGone", "stopOpencode",
           "opencodeGone", "forget", "applyStop", "bootstrap", "awaitBoot",
           "bootEnd", "reap", "exit"}

TypeOK ==
    /\ slot \in [Component -> [handle: Child \cup {None}, running: BOOLEAN, status: Status,
                               stopping: BOOLEAN, timer: BOOLEAN, history: 0..MaxAttempts]]
    /\ slot["opencode"].handle \notin Router /\ slot["router"].handle \notin Opencode
    /\ {shuttingDown, booting, manifest, enabled, stopped, interfered} \subseteq BOOLEAN
    /\ proc \in [Child -> {"none", "starting", "up", "dying", "failing", "dead"}]
    /\ call \in [Task -> [todo: Seq(Label), on: Child \cup {None}]]
    /\ ready \in Seq(Task)
    /\ asked \subseteq Request
    /\ faults \in 0..MaxFaults
    /\ overlapped \subseteq Component /\ told \subseteq Opencode

-----------------------------------------------------------------------------
Of(i)   == IF i \in Opencode THEN "opencode" ELSE "router"
Idle(t) == call[t].todo = <<>>
At(t)   == IF Idle(t) THEN "idle" ELSE Head(call[t].todo)
Turn(t, label) == ready # <<>> /\ t = Head(ready) /\ At(t) = label
Free(S) == {i \in S : proc[i] = "none" /\ (i \in Opencode => Idle(i))}
Quiet   == ready = <<>> /\ ~stopped

\* Starts and stops of a component that are under way.
Busy(c) == {t \in Task :
    At(t) \in IF c = "opencode" THEN {"startOpencode", "bundle", "listen", "opencodeGone"}
              ELSE {"binary", "probe", "probeGone", "routerGone"}}
\* The history of components with two of them at once, when one begins.
Overlap(t, c) ==
    overlapped' = IF Busy(c) \ {t} # {} THEN overlapped \cup {c} ELSE overlapped

\* What follows the label a task is at.
Rest(t) == Tail(call[t].todo)
\* The task goes on at once with these labels.
Go(t, todo) ==
    /\ call' = [call EXCEPT ![t] = [todo |-> todo, on |-> None]]
    /\ ready' = IF todo = <<>> THEN Tail(ready) ELSE ready
\* The task waits at a label, for a child or for None in particular.
Wait(t, label, i) ==
    /\ call' = [call EXCEPT ![t] = [todo |-> <<label>> \o Rest(t), on |-> i]]
    /\ ready' = Tail(ready)
\* The event the task waited for has come.
Resume(t) ==
    /\ call' = [call EXCEPT ![t] = [todo |-> Rest(t), on |-> None]]
    /\ ready' = IF Rest(t) = <<>> THEN <<>> ELSE <<t>>

StopStatus(c) == IF c = "router" /\ ~enabled THEN "disabled" ELSE "stopped"

-----------------------------------------------------------------------------
\* stopRouter() and stopOpencode(): without a handle they are done at once.
StopNothing(t, c) ==
    /\ Turn(t, IF c = "router" THEN "stopRouter" ELSE "stopOpencode")
    /\ slot[c].handle = None
    /\ slot' = [slot EXCEPT ![c].timer = FALSE, ![c].running = FALSE,
                            ![c].status = IF c = "router" /\ @ = "disabled" THEN @ ELSE "stopped"]
    /\ Go(t, Rest(t))
    /\ UNCHANGED <<shuttingDown, booting, manifest, enabled, proc, env, history>>

StopChild(t, c) ==
    /\ Turn(t, IF c = "router" THEN "stopRouter" ELSE "stopOpencode")
    /\ slot[c].handle # None
    /\ slot' = [slot EXCEPT ![c].timer = FALSE, ![c].stopping = TRUE, ![c].handle = None]
    /\ proc' = [proc EXCEPT ![slot[c].handle] = "dying"]
    /\ Wait(t, IF c = "router" THEN "routerGone" ELSE "opencodeGone", slot[c].handle)
    /\ Overlap(t, c)
    /\ told' = told \cup ({slot[c].handle} \cap Opencode)
    /\ UNCHANGED <<shuttingDown, booting, manifest, enabled, env, interfered>>

Stopped(t, c) ==
    /\ Turn(t, IF c = "router" THEN "routerGone" ELSE "opencodeGone")
    /\ slot' = [slot EXCEPT ![c].running = FALSE, ![c].status = StopStatus(c),
                            ![c].stopping = FALSE]
    /\ Go(t, Rest(t))
    /\ UNCHANGED <<shuttingDown, booting, manifest, enabled, proc, env, history>>

-----------------------------------------------------------------------------
\* startOpencode(): the bundle is resolved first.
StartOpencode(t) ==
    /\ Turn(t, "startOpencode")
    /\ Wait(t, "bundle", None)
    /\ Overlap(t, "opencode")
    /\ UNCHANGED <<service, proc, env, told, interfered>>

BundleResolved(t, i) ==
    /\ Quiet /\ At(t) = "bundle" /\ i \in Free(Opencode)
    /\ manifest' = TRUE
    /\ slot' = [slot EXCEPT !["opencode"].status = "starting"]
    /\ proc' = [proc EXCEPT ![i] = "starting"]
    /\ call' = [call EXCEPT ![t] = [todo |-> <<"listen">> \o Rest(t), on |-> i]]
    /\ told' = told \ {i}
    /\ UNCHANGED <<shuttingDown, booting, enabled, ready, env, overlapped, interfered>>

\* It listens and passes the health probe.
OpencodeReady(t) ==
    LET i == call[t].on IN
    /\ Quiet /\ At(t) = "listen" /\ proc[i] = "starting"
    /\ slot' = [slot EXCEPT !["opencode"].handle = i, !["opencode"].running = TRUE,
                            !["opencode"].status = "running"]
    /\ proc' = [proc EXCEPT ![i] = "up"]
    /\ Resume(t)
    /\ UNCHANGED <<shuttingDown, booting, manifest, enabled, env, history>>

\* An exception leaves the calls of a task.  bootstrap() notes a start of
\* OpenCode that failed and rejects for all who share the promise; so do the
\* callers, of which the restart timer notes it once more, as OpenCode's.
Waiters == {w \in Task : At(w) = "awaitBoot"}

\* Mutant: only the call that failed learns of it.
ThrowToOne(t, startFailed) ==
    /\ call' = [call EXCEPT ![t] = [todo |-> <<>>, on |-> None]]
    /\ ready' = <<>>
    /\ booting' = (booting /\ t # "boot")
    /\ slot' = IF startFailed THEN [slot EXCEPT !["opencode"].running = FALSE, !["opencode"].status = "error"]
               ELSE slot

Throw(t, startFailed) ==
    /\ call' = [w \in Task |-> IF w = t \/ (t = "boot" /\ w \in Waiters)
                               THEN [todo |-> <<>>, on |-> None] ELSE call[w]]
    /\ ready' = <<>>
    /\ booting' = (booting /\ t # "boot")
    /\ slot' = IF t = "boot" /\ startFailed
               THEN [slot EXCEPT !["opencode"].running = FALSE, !["opencode"].status = "error"]
               ELSE IF t = "boot" /\ "revive" \in Waiters
               THEN [slot EXCEPT !["opencode"].status = "error"]
               ELSE IF t = "restart"
               THEN [slot EXCEPT !["router"].status = "error"]
               ELSE slot

\* The bundle is missing, the process exits early, does not listen in time, or
\* is not healthy: it is killed.
OpencodeFails(t) ==
    /\ Quiet /\ At(t) \in {"bundle", "listen"}
    /\ \/ At(t) = "listen" /\ proc[call[t].on] = "dead" /\ UNCHANGED faults
       \/ faults < MaxFaults /\ faults' = faults + 1 /\ (At(t) = "listen" => proc[call[t].on] # "dead")
    /\ proc' = IF At(t) = "bundle" THEN proc
               ELSE [proc EXCEPT ![call[t].on] = IF @ = "dead" THEN "none" ELSE "failing"]
    /\ Throw(t, TRUE)
    /\ UNCHANGED <<shuttingDown, manifest, enabled, stopped, asked, history>>

-----------------------------------------------------------------------------
\* startRouter(): what it looks at before its first await.
StartRouterOrNot(t) ==
    /\ Turn(t, "startRouter")
    /\ \/ /\ ~enabled
          /\ Go(t, <<"stopRouter", "disable">> \o Rest(t))
          /\ UNCHANGED <<slot, overlapped>>
       \/ /\ enabled
          /\ \/ slot["router"].handle # None /\ slot["router"].running
             \/ ~manifest
          /\ Go(t, Rest(t))
          /\ UNCHANGED <<slot, overlapped>>
       \/ /\ enabled /\ manifest /\ ~slot["opencode"].running
          /\ ~(slot["router"].handle # None /\ slot["router"].running)
          /\ slot' = [slot EXCEPT !["router"].status = "error"]
          /\ Go(t, Rest(t))
          /\ UNCHANGED overlapped
       \/ /\ enabled /\ manifest /\ slot["opencode"].running
          /\ ~(slot["router"].handle # None /\ slot["router"].running)
          /\ Wait(t, "binary", None)
          /\ Overlap(t, "router")
          /\ UNCHANGED slot
    /\ UNCHANGED <<shuttingDown, booting, manifest, enabled, proc, env, told, interfered>>

Disable(t) ==
    /\ Turn(t, "disable")
    /\ slot' = [slot EXCEPT !["router"].status = "disabled"]
    /\ Go(t, Rest(t))
    /\ UNCHANGED <<shuttingDown, booting, manifest, enabled, proc, env, history>>

\* Binary and port are there: the process is started.
BinaryReady(t, i) ==
    /\ Quiet /\ At(t) = "binary" /\ i \in Free(Router)
    /\ slot' = [slot EXCEPT !["router"].status = "starting"]
    /\ proc' = [proc EXCEPT ![i] = "starting"]
    /\ call' = [call EXCEPT ![t] = [todo |-> <<"probe">> \o Rest(t), on |-> i]]
    /\ UNCHANGED <<shuttingDown, booting, manifest, enabled, ready, env, history>>

BinaryFails(t) ==
    /\ Quiet /\ At(t) = "binary"
    /\ faults < MaxFaults /\ faults' = faults + 1
    /\ Throw(t, FALSE)
    /\ UNCHANGED <<shuttingDown, manifest, enabled, proc, stopped, asked, history>>

RouterReady(t) ==
    LET i == call[t].on IN
    /\ Quiet /\ At(t) = "probe" /\ proc[i] = "starting"
    /\ slot' = [slot EXCEPT !["router"].handle = i, !["router"].running = TRUE,
                            !["router"].status = "running"]
    /\ proc' = [proc EXCEPT ![i] = "up"]
    /\ Resume(t)
    /\ UNCHANGED <<shuttingDown, booting, manifest, enabled, env, history>>

\* No answer in time: kill, await the exit, note the error, go on.
RouterTimesOut(t) ==
    LET i == call[t].on IN
    /\ Quiet /\ At(t) = "probe"
    /\ \/ /\ proc[i] = "starting" /\ faults < MaxFaults /\ faults' = faults + 1
          /\ proc' = [proc EXCEPT ![i] = "failing"]
          /\ call' = [call EXCEPT ![t].todo = <<"probeGone">> \o Rest(t)]
          /\ UNCHANGED ready
       \/ /\ proc[i] = "dead" /\ UNCHANGED faults
          /\ proc' = [proc EXCEPT ![i] = "none"]
          /\ call' = [call EXCEPT ![t] = [todo |-> <<"probeGone">> \o Rest(t), on |-> None]]
          /\ ready' = <<t>>
    /\ UNCHANGED <<service, stopped, asked, history>>

RouterFailed(t) ==
    /\ Turn(t, "probeGone")
    /\ slot' = [slot EXCEPT !["router"].running = FALSE, !["router"].status = "error"]
    /\ Go(t, Rest(t))
    /\ UNCHANGED <<shuttingDown, booting, manifest, enabled, proc, env, history>>

-----------------------------------------------------------------------------
\* Mutant: the policy's number of attempts is not looked at.
CrashedWithoutPolicy(c) ==
    {[slot EXCEPT ![c].status = "restart_scheduled", ![c].timer = TRUE, ![c].history = recent + 1] :
        recent \in 0..slot[c].history}

\* An exit the supervisor takes for a crash: of the recorded attempts some have
\* left the window by now, and within the policy the exit is followed by a restart.
Crashed(c) ==
    {IF recent < MaxAttempts
     THEN [slot EXCEPT ![c].status = "restart_scheduled", ![c].timer = TRUE, ![c].history = recent + 1]
     ELSE [slot EXCEPT ![c].status = "crashed"] : recent \in 0..slot[c].history}
\* Mutant: the exit handlers look at shuttingDown only.
TakenForShutdown(c) == c \in Component /\ shuttingDown
TakenForStop(c) == slot[c].stopping \/ shuttingDown

\* Mutant: the exit handler forgets the running flag.
ReleaseHandle(s, c, i) == [s EXCEPT ![c].handle = IF @ = i THEN None ELSE @]
Release(s, c, i) == [s EXCEPT ![c].handle = IF @ = i THEN None ELSE @, ![c].running = FALSE]

\* A process ends.  One that was adopted has an exit handler, which comes before
\* whoever stopped it.
ProcessExits(i) ==
    LET c == Of(i)
        stopper == {t \in Task : call[t].on = i /\ At(t) \in {"routerGone", "opencodeGone", "probeGone"}}
        after == IF stopper = {} THEN <<>> ELSE <<CHOOSE t \in stopper : TRUE>>
    IN
    /\ Quiet
    /\ \/ proc[i] \in {"dying", "failing"} /\ UNCHANGED faults
       \/ proc[i] \in {"starting", "up"} /\ faults < MaxFaults /\ faults' = faults + 1
    /\ proc' = [proc EXCEPT ![i] = IF @ = "starting" THEN "dead" ELSE "none"]
    /\ IF proc[i] \in {"up", "dying"}
       THEN IF c = "router"
            THEN /\ \E answered \in IF TakenForStop(c)
                                    THEN {[slot EXCEPT ![c].status = StopStatus(c)]} ELSE Crashed(c) :
                        slot' = Release(answered, c, i)
                 /\ call' = call
                 /\ ready' = after
            ELSE /\ slot' = Release(slot, c, i)
                 /\ call' = [call EXCEPT ![i].todo = <<"stopRouter", "reap">>]
                 /\ ready' = <<i>> \o after
       ELSE slot' = slot /\ call' = call /\ ready' = after
    /\ UNCHANGED <<shuttingDown, booting, manifest, enabled, stopped, asked, history>>

\* The rest of OpenCode's exit handler, after its router has been stopped.
Reap(i) ==
    /\ Turn(i, "reap")
    /\ slot' \in IF TakenForStop("opencode")
                 THEN {[slot EXCEPT !["opencode"].status = "stopped"]} ELSE Crashed("opencode")
    /\ Go(i, Rest(i))
    /\ UNCHANGED <<shuttingDown, booting, manifest, enabled, proc, env, history>>

\* setTimeout of the exit handlers.  A second call of bootstrap by the timer
\* joins the first.
TimerFires(c) ==
    LET t == IF c = "opencode" THEN "revive" ELSE "restart" IN
    /\ Quiet /\ slot[c].timer /\ (c = "router" => Idle(t))
    /\ slot' = [slot EXCEPT ![c].timer = FALSE]
    /\ IF shuttingDown \/ ~Idle(t) THEN UNCHANGED tasks
       ELSE /\ call' = [call EXCEPT ![t].todo =
                   IF c = "opencode" THEN <<"bootstrap">> ELSE <<"startRouter">>]
            /\ ready' = <<t>>
    /\ UNCHANGED <<shuttingDown, booting, manifest, enabled, proc, env, history>>

-----------------------------------------------------------------------------
\* bootstrap(): whoever comes while a promise is pending shares it.
BootLabels == (IF slot["opencode"].running THEN <<>> ELSE <<"startOpencode">>)
              \o <<"startRouter", "bootEnd">>

JoinBoot(t) ==
    /\ Turn(t, "bootstrap") /\ booting
    /\ Wait(t, "awaitBoot", None)
    /\ UNCHANGED <<service, proc, env, history>>

\* routerEnablement follows the repositories, which any request may have changed.
Bootstrap(t, wanted) ==
    /\ Turn(t, "bootstrap") /\ ~booting
    /\ booting' = TRUE
    /\ enabled' = wanted
    /\ call' = [call EXCEPT ![t].todo = <<"awaitBoot">> \o Rest(t),
                            !["boot"].todo = BootLabels]
    /\ ready' = <<"boot">> \o Tail(ready)
    /\ UNCHANGED <<slot, shuttingDown, manifest, proc, env, history>>

\* finally: the promise is forgotten, and all who shared it go on.
BootEnds ==
    /\ Turn("boot", "bootEnd")
    /\ booting' = FALSE
    /\ call' = [w \in Task |-> IF w \in Waiters \cup {"boot"}
                               THEN [todo |-> Rest(w), on |-> None] ELSE call[w]]
    /\ ready' = Tail(ready)
    /\ UNCHANGED <<slot, shuttingDown, manifest, enabled, proc, env, history>>

-----------------------------------------------------------------------------
\* A request arrives.  applyRouterConfig() after a change of identities or
\* bindings; dispose() and bootstrap() of reloadWorkspaceEngine; upgradeRuntime();
\* dispose() of the server's stop, which has closed its listener before.
ApplyRouterConfig(r, wanted) ==
    /\ enabled' = wanted
    /\ call' = [call EXCEPT ![r].todo =
           (IF slot["opencode"].running THEN <<>> ELSE <<"startOpencode">>)
           \o <<"applyStop", "startRouter">>]
    /\ UNCHANGED <<slot, shuttingDown>>

\* Mutant: the stop of OpenCode is left to its router's.
DisposeRouter(r, then) ==
    /\ shuttingDown' = TRUE
    /\ slot' = [c \in Component |-> [slot[c] EXCEPT !.timer = FALSE]]
    /\ call' = [call EXCEPT ![r].todo = <<"stopRouter">> \o then]
    /\ UNCHANGED enabled

Dispose(r, then) ==
    /\ shuttingDown' = TRUE
    /\ slot' = [c \in Component |-> [slot[c] EXCEPT !.timer = FALSE]]
    /\ call' = [call EXCEPT ![r].todo = <<"stopRouter", "stopOpencode">> \o then]
    /\ UNCHANGED enabled

UpgradeRuntime(r) ==
    /\ call' = [call EXCEPT ![r].todo = <<"stopRouter", "stopOpencode", "forget", "bootstrap">>]
    /\ UNCHANGED <<slot, shuttingDown, enabled>>

Arrives(r) ==
    /\ Quiet /\ r \notin asked
    /\ \A q \in asked : \A k \in DOMAIN call[q].todo : call[q].todo[k] # "exit"
    /\ asked' = asked \cup {r}
    /\ \/ "apply" \in Ops /\ \E w \in BOOLEAN : ApplyRouterConfig(r, w)
       \/ "reload" \in Ops /\ Dispose(r, <<"bootstrap">>)
       \/ "upgrade" \in Ops /\ UpgradeRuntime(r)
       \/ "close" \in Ops /\ Dispose(r, <<"exit">>)
    /\ interfered' = (interfered \/ \E t \in Task : ~Idle(t))
    /\ ready' = <<r>>
    /\ UNCHANGED <<booting, manifest, proc, stopped, faults, overlapped, told>>

ApplyStop(t) ==
    /\ Turn(t, "applyStop")
    /\ Go(t, IF slot["router"].handle # None \/ slot["router"].running
             THEN <<"stopRouter">> \o Rest(t) ELSE Rest(t))
    /\ UNCHANGED <<service, proc, env, history>>

ForgetManifest(t) ==
    /\ Turn(t, "forget")
    /\ manifest' = FALSE
    /\ Go(t, Rest(t))
    /\ UNCHANGED <<slot, shuttingDown, booting, enabled, proc, env, history>>

\* process.exit: whatever the process was doing is over; its children are not.
ServerExits(t) ==
    /\ Turn(t, "exit")
    /\ stopped' = TRUE
    /\ call' = [w \in Task |-> [todo |-> <<>>, on |-> None]]
    /\ ready' = <<>>
    /\ UNCHANGED <<service, proc, asked, faults, history>>

-----------------------------------------------------------------------------
\* startServer with the policy "eager": bootstrap() has just been called.
Init ==
    /\ slot = [c \in Component |->
           [handle |-> None, running |-> FALSE, stopping |-> FALSE, timer |-> FALSE,
            history |-> 0, status |-> IF c = "router" THEN "disabled" ELSE "stopped"]]
    /\ shuttingDown = FALSE /\ booting = TRUE /\ manifest = FALSE
    /\ enabled \in BOOLEAN
    /\ proc = [i \in Child |-> "none"]
    /\ call = [t \in Task |-> [on |-> None, todo |->
           IF t = "boot" THEN <<"startOpencode", "startRouter", "bootEnd">> ELSE <<>>]]
    /\ ready = <<"boot">>
    /\ stopped = FALSE /\ asked = {} /\ faults = 0
    /\ overlapped = {} /\ told = {} /\ interfered = FALSE

\* What the task at the front of `ready' does next.
Run(t) ==
    \/ \E c \in Component : StopNothing(t, c) \/ StopChild(t, c) \/ Stopped(t, c)
    \/ StartOpencode(t) \/ StartRouterOrNot(t) \/ Disable(t) \/ RouterFailed(t)
    \/ t \in Opencode /\ Reap(t)
    \/ JoinBoot(t) \/ \E wanted \in BOOLEAN : Bootstrap(t, wanted)
    \/ ApplyStop(t) \/ ForgetManifest(t) \/ ServerExits(t)

\* What a waiting task waits for, other than the end of a child.
Answer(t) ==
    \/ \E i \in Opencode : BundleResolved(t, i)
    \/ \E i \in Router : BinaryReady(t, i)
    \/ OpencodeReady(t) \/ OpencodeFails(t)
    \/ BinaryFails(t) \/ RouterReady(t) \/ RouterTimesOut(t)

\* What the service does by itself, and what nobody else decides.
Service ==
    \/ \E t \in Task : Run(t) \/ Answer(t)
    \/ BootEnds
    \/ \E c \in Component : TimerFires(c)

Next ==
    \/ Service
    \/ \E i \in Child : ProcessExits(i)
    \/ \E r \in Request : Arrives(r)

Spec == Init /\ [][Next]_vars

-----------------------------------------------------------------------------
Alive(i) == proc[i] \in {"starting", "up"}

\* As long as no two starts or stops of a component were under way at once, the
\* child of that component which was adopted and not told to stop is the one the
\* service holds, and it reports as running what it holds or is stopping.
OneChildHeld ==
    ~stopped => \A c \in Component \ overlapped :
        /\ \A i \in Child : Of(i) = c /\ proc[i] = "up" => slot[c].handle = i
        /\ slot[c].handle # None => proc[slot[c].handle] = "up" /\ slot[c].running
        /\ slot[c].running /\ slot[c].handle = None =>
               \E t \in Task : At(t) \in {"routerGone", "opencodeGone"} /\ Of(call[t].on) = c

\* Whoever waits, waits for something that is still to come: an answer, the exit
\* of a process that was killed, or a bootstrap that is under way.  A promise
\* that is never settled would hang a request, and every later bootstrap with it.
NobodyWaitsInVain ==
    Quiet => \A t \in Task :
        \/ Idle(t)
        \/ At(t) \in {"bundle", "binary"}
        \/ At(t) \in {"listen", "probe"} /\ proc[call[t].on] \in {"starting", "dead"}
        \/ At(t) \in {"routerGone", "opencodeGone", "probeGone"}
               /\ proc[call[t].on] \in {"dying", "failing"}
        \/ At(t) = "awaitBoot" /\ t # "boot" /\ booting /\ ~Idle("boot")

\* A server whose stop finds no call under way leaves no child behind.
StopLeavesNoChild ==
    stopped /\ ~interfered /\ overlapped = {} => \A i \in Child : ~Alive(i)

\* While requests come one at a time, the exit of a child that was told to stop is
\* not answered with a restart, although the flags that tell the two apart are
\* read after an await and reset by another task.
StopIsNoCrash ==
    [][~interfered /\ overlapped = {} /\ ~stopped' =>
        /\ \A r \in Router : proc[r] = "dying" /\ proc'[r] = "none" => ~slot'["router"].timer
        /\ \A i \in told : At(i) = "reap" /\ call'[i].todo = <<>> => ~slot'["opencode"].timer]_vars

\* architecture.md: one router child per local server. (The code may have two that
\* are up, one of which it no longer holds.)
OneRouter == \A r, q \in Router : proc[r] = "up" /\ proc[q] = "up" => r = q
=====
