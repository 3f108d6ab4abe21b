----------------------------- MODULE BashDaemon -----------------------------
(***************************************************************************)
(* How bash commands reach a shell in one sandbox:                         *)
(*                                                                         *)
(*   setup.sh  every terminal session and every prewarm of the desktop     *)
(*             runs it; it starts a daemon of its own                      *)
(*   daemon    openrind-shell-bash.mjs --daemon, on a Unix socket all      *)
(*             daemons of the sandbox share the name of                    *)
(*   client    openrind-shell-bash.mjs -c, one per command, which falls    *)
(*             back to running the command itself                          *)
(*                                                                         *)
(* A job of the daemon's mutex is one step here, or two; HomeSync has what *)
(* it does to the home.                                                    *)
(***************************************************************************)
EXTENDS Integers, Sequences, FiniteSets

CONSTANTS
    Session,     \* runs of setup.sh; each names its daemon too
    Prewarm,     \* those with OPENRIND_SHELL_SETUP_ONLY: they exit
    Client,      \* commands
    FaultKinds,  \* which failures occur, see FaultKind
    MaxFaults    \* bound of the model

None  == "none"    \* no socket file, no daemon
Flush == "flush"   \* the shutdown's job of the mutex

\* crash    a daemon is killed outright, or runs out of memory
\* start    a daemon ends before it listens (database, import)
\* late     a daemon listens only after setup.sh has stopped looking for it
\* presync  syncFromFs fails: the command is answered but not executed
\* alone    a client on its own gets no database or no shell, or its pre-sync
\*          fails: it ends with an error and its command is not executed
FaultKind == {"crash", "start", "late", "presync", "alone"}

ASSUME ConstantsAssumption ==
    /\ None \notin Session \cup Client /\ Flush \notin Session \cup Client
    /\ Prewarm \subseteq Session
    /\ FaultKinds \subseteq FaultKind /\ MaxFaults \in Nat

VARIABLES
    socket,     \* daemon whose socket the file SOCKET_PATH is
    session,    \* Session -> where its setup.sh is
    daemon,     \* Session -> where its daemon is
    stopping,   \* daemons that have had SIGTERM while they listened
    jobs,       \* Session -> clients (and Flush) in its daemon's mutex
    ran,        \* daemons whose head job is done but not answered
    client,     \* Client -> where it is
    server,     \* Client -> the daemon it connected to
    executed,   \* history: Client -> times its command was executed
    refused,    \* history: clients told, by an error, that theirs was not
    excused,    \* history: clients that came to a stopping daemon, or whose
                \* daemon crashed
    faults      \* counter of the bound

vars == <<socket, session, daemon, stopping, jobs, ran, client, server,
          executed, refused, excused, faults>>

daemons == <<daemon, stopping, jobs, ran>>
clients == <<client, server, executed, refused, excused>>

TypeOK ==
    /\ socket \in Session \cup {None}
    /\ session \in [Session -> {"out", "waiting", "blind", "ready", "agent", "over"}]
    /\ daemon \in [Session -> {"off", "starting", "unlinked", "listening",
                               "closed", "dead"}]
    /\ stopping \subseteq Session
    /\ jobs \in [Session -> Seq(Client \cup {Flush})]
    /\ ran \subseteq {d \in Session : jobs[d] # <<>> /\ Head(jobs[d]) # Flush}
    /\ client \in [Client -> {"new", "connected", "alone", "done"}]
    /\ server \in [Client -> Session \cup {None}]
    /\ executed \in [Client -> Nat]
    /\ refused \subseteq Client /\ excused \subseteq Client
    /\ faults \in Nat

Init ==
    /\ socket = None
    /\ session = [s \in Session |-> "out"]
    /\ daemon = [s \in Session |-> "off"]
    /\ stopping = {} /\ ran = {}
    /\ jobs = [s \in Session |-> <<>>]
    /\ client = [c \in Client |-> "new"]
    /\ server = [c \in Client |-> None]
    /\ executed = [c \in Client |-> 0]
    /\ refused = {} /\ excused = {}
    /\ faults = 0

CanFail(kind) ==
    /\ kind \in FaultKinds /\ faults < MaxFaults
    /\ faults' = faults + 1

-----------------------------------------------------------------------------
(* setup.sh *)

\* node openrind-shell-bash.mjs --daemon &
SessionStarts(s) ==
    /\ session[s] = "out"
    /\ session' = [session EXCEPT ![s] = "waiting"]
    /\ daemon' = [daemon EXCEPT ![s] = "starting"]
    /\ UNCHANGED <<socket, stopping, jobs, ran, clients, faults>>

\* [ -S ], which any daemon's socket satisfies, up to 300 times: after that the
\* session forgets its daemon's pid.
SocketSeen(s) ==
    /\ session[s] = "waiting"
    /\ \/ /\ socket # None
          /\ session' = [session EXCEPT ![s] = "ready"]
          /\ UNCHANGED faults
       \/ /\ socket = None
          /\ session' = [session EXCEPT ![s] = "blind"]
          /\ IF daemon[s] = "dead" THEN UNCHANGED faults ELSE CanFail("late")
    /\ UNCHANGED <<socket, daemons, clients>>

\* exec of the agent: the EXIT trap is gone with the shell that had set it.
HandsOver(s) ==
    /\ session[s] \in {"blind", "ready"} /\ s \notin Prewarm
    /\ session' = [session EXCEPT ![s] = "agent"]
    /\ UNCHANGED <<socket, daemons, clients, faults>>

AgentEnds(s) ==
    /\ session[s] = "agent"
    /\ session' = [session EXCEPT ![s] = "over"]
    /\ UNCHANGED <<socket, daemons, clients, faults>>

FlushIfIdle(d) == jobs' = [jobs EXCEPT ![d] = IF @ = <<>> THEN <<Flush>> ELSE @]

\* shutdown(): the flush takes its turn behind the jobs that are there.
FlushLast(d) == jobs' = [jobs EXCEPT ![d] = Append(@, Flush)]

\* SIGTERM: the handlers are there once the daemon listens.
Terminate(d) ==
    \/ /\ daemon[d] \in {"starting", "unlinked"}
       /\ daemon' = [daemon EXCEPT ![d] = "dead"]
       /\ UNCHANGED <<stopping, jobs, ran>>
    \/ /\ daemon[d] = "listening" /\ d \notin stopping
       /\ stopping' = stopping \cup {d}
       /\ FlushLast(d)
       /\ UNCHANGED <<daemon, ran>>
    \/ /\ daemon[d] \in {"closed", "dead"} \/ d \in stopping
       /\ UNCHANGED daemons

\* The EXIT trap: kill, if the pid is known, and rm -f of the socket. The
\* prewarm exits; so does an interactive setup.sh that finds no agent.
Exits(s) ==
    /\ session[s] \in {"blind", "ready"}
    /\ session' = [session EXCEPT ![s] = "over"]
    /\ socket' = None
    /\ IF session[s] = "ready" THEN Terminate(s) ELSE UNCHANGED daemons
    /\ UNCHANGED <<clients, faults>>

-----------------------------------------------------------------------------
(* The daemon *)

\* existsSync and unlinkSync of whatever has the name
CleanUp(d) ==
    /\ daemon[d] = "starting"
    /\ daemon' = [daemon EXCEPT ![d] = "unlinked"]
    /\ socket' = None
    /\ UNCHANGED <<session, stopping, jobs, ran, clients, faults>>

\* listen(): EADDRINUSE if another daemon was quicker, an error nobody handles
Listen(d) ==
    /\ daemon[d] = "unlinked"
    /\ IF socket = None
       THEN socket' = d /\ daemon' = [daemon EXCEPT ![d] = "listening"]
       ELSE daemon' = [daemon EXCEPT ![d] = "dead"] /\ UNCHANGED socket
    /\ UNCHANGED <<session, stopping, jobs, ran, clients, faults>>

Serving(d) == daemon[d] \in {"listening", "closed"}
Head1(d)   == IF jobs[d] = <<>> THEN None ELSE Head(jobs[d])

\* execCommandWithSync up to its last sync
Execute(d) ==
    /\ Serving(d) /\ Head1(d) \in Client /\ d \notin ran
    /\ executed' = [executed EXCEPT ![Head1(d)] = @ + 1]
    /\ ran' = ran \cup {d}
    /\ UNCHANGED <<socket, session, daemon, stopping, jobs, client, server,
                   refused, excused, faults>>

PreSyncFails(d) ==
    /\ CanFail("presync")
    /\ Serving(d) /\ Head1(d) \in Client /\ d \notin ran
    /\ refused' = refused \cup {Head1(d)}
    /\ ran' = ran \cup {d}
    /\ UNCHANGED <<socket, session, daemon, stopping, jobs, client, server,
                   executed, excused>>

\* conn.end(result), and the next job
Reply(d) ==
    /\ Serving(d) /\ d \in ran
    /\ client' = [client EXCEPT ![Head1(d)] = "done"]
    /\ jobs' = [jobs EXCEPT ![d] = Tail(@)]
    /\ ran' = ran \ {d}
    /\ UNCHANGED <<socket, session, daemon, stopping, server, executed, refused,
                   excused, faults>>

CloseAtOnce(d) ==
    /\ daemon[d] = "listening" /\ d \in stopping
    /\ daemon' = [daemon EXCEPT ![d] = "closed"]
    /\ jobs' = [jobs EXCEPT ![d] = SelectSeq(@, LAMBDA j : j # Flush)]
    /\ socket' = None
    /\ UNCHANGED <<session, stopping, ran, clients, faults>>

\* The flush is over: server.close() and unlinkSync(), both by name.
Close(d) ==
    /\ daemon[d] = "listening" /\ Head1(d) = Flush
    /\ daemon' = [daemon EXCEPT ![d] = "closed"]
    /\ jobs' = [jobs EXCEPT ![d] = Tail(@)]
    /\ socket' = None
    /\ UNCHANGED <<session, stopping, ran, clients, faults>>

DroppedTakenForDone(d) ==
    client' = [c \in Client |-> IF client[c] = "connected" /\ server[c] = d
                                THEN "done" ELSE client[c]]

\* A connection that ends without an answer: 'Invalid daemon response', and
\* the client executes its command itself.
Dropped(d) ==
    client' = [c \in Client |-> IF client[c] = "connected" /\ server[c] = d
                                THEN "alone" ELSE client[c]]

EndsWithoutReset(d) ==
    /\ daemon' = [daemon EXCEPT ![d] = "dead"]
    /\ jobs' = [jobs EXCEPT ![d] = <<>>]
    /\ UNCHANGED ran
    /\ Dropped(d)

EndsUnnoticed(d) ==
    /\ daemon' = [daemon EXCEPT ![d] = "dead"]
    /\ jobs' = [jobs EXCEPT ![d] = <<>>]
    /\ ran' = ran \ {d}
    /\ UNCHANGED client

Ends(d) ==
    /\ daemon' = [daemon EXCEPT ![d] = "dead"]
    /\ jobs' = [jobs EXCEPT ![d] = <<>>]
    /\ ran' = ran \ {d}
    /\ Dropped(d)

\* pool.end() and process.exit(0): nobody waits for the jobs behind the flush.
ProcessExits(d) ==
    /\ daemon[d] = "closed"
    /\ Ends(d)
    /\ UNCHANGED <<socket, session, stopping, server, executed, refused, excused,
                   faults>>

\* The socket file stays.
Crash(d) ==
    /\ CanFail("crash")
    /\ Serving(d)
    /\ Ends(d)
    /\ excused' = excused \cup {c \in Client : server[c] = d}
    /\ UNCHANGED <<socket, session, stopping, server, executed, refused>>

StartFails(d) ==
    /\ CanFail("start")
    /\ daemon[d] = "starting"
    /\ daemon' = [daemon EXCEPT ![d] = "dead"]
    /\ UNCHANGED <<socket, session, stopping, jobs, ran, clients>>

-----------------------------------------------------------------------------
(* The client *)

\* execViaDaemon, or execStandalone when nobody answers at SOCKET_PATH
Connect(c) ==
    /\ client[c] = "new"
    /\ IF socket # None /\ daemon[socket] = "listening"
       THEN /\ client' = [client EXCEPT ![c] = "connected"]
            /\ server' = [server EXCEPT ![c] = socket]
            /\ jobs' = [jobs EXCEPT ![socket] = Append(@, c)]
            /\ excused' = IF socket \in stopping THEN excused \cup {c} ELSE excused
       ELSE /\ client' = [client EXCEPT ![c] = "alone"]
            /\ UNCHANGED <<server, jobs, excused>>
    /\ UNCHANGED <<socket, session, daemon, stopping, ran, executed, refused, faults>>

RunsAlone(c) ==
    /\ client[c] = "alone"
    /\ client' = [client EXCEPT ![c] = "done"]
    /\ executed' = [executed EXCEPT ![c] = @ + 1]
    /\ UNCHANGED <<socket, session, daemons, server, refused, excused, faults>>

\* getDatabaseConnection, createOpenrindShell or the pre-sync fails: main() or
\* the result reports it, and exit code 1.
AloneFails(c) ==
    /\ CanFail("alone")
    /\ client[c] = "alone"
    /\ client' = [client EXCEPT ![c] = "done"]
    /\ refused' = refused \cup {c}
    /\ UNCHANGED <<socket, session, daemons, server, executed, excused>>

-----------------------------------------------------------------------------
DaemonStep(d) ==
    CleanUp(d) \/ Listen(d) \/ Execute(d) \/ Reply(d) \/ Close(d) \/ ProcessExits(d)

Next ==
    \/ \E s \in Session :
          \/ SessionStarts(s) \/ SocketSeen(s) \/ HandsOver(s) \/ AgentEnds(s)
          \/ Exits(s)
          \/ DaemonStep(s) \/ PreSyncFails(s) \/ Crash(s) \/ StartFails(s)
    \/ \E c \in Client : Connect(c) \/ RunsAlone(c) \/ AloneFails(c)

Spec == Init /\ [][Next]_vars

\* Daemons and clients make progress; sessions, signals and failures come or
\* do not.
Fairness ==
    /\ \A d \in Session : WF_vars(DaemonStep(d))
    /\ \A c \in Client : WF_vars(Connect(c)) /\ WF_vars(RunsAlone(c))

FairSpec == Spec /\ Fairness

-----------------------------------------------------------------------------
(* Properties *)

\* No command is dropped, whatever becomes of sessions and daemons: a client
\* that has ended saw it executed, or was told by an error that it was not
\* (its pre-sync failed, or standalone mode got no database or no shell).
NoCommandDropped ==
    \A c \in Client : client[c] = "done" => executed[c] > 0 \/ c \in refused

\* A command is executed again only if its daemon crashed or was already being
\* stopped when it came, and then once: a graceful stop answers the jobs that
\* were in the mutex before its flush.
RepeatedOnlyIfExcused ==
    \A c \in Client : /\ executed[c] <= 2
                      /\ executed[c] = 2 => c \in excused

\* Every client ends, also when its daemon goes away underneath it.
EveryClientEnds == \A c \in Client : client[c] = "connected" ~> client[c] = "done"

\* A stopping daemon goes away, whatever is still sent to it.
StopIsFinal == \A d \in Session : d \in stopping ~> daemon[d] = "dead"

=============================================================================
