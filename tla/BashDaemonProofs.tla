-------------------------- MODULE BashDaemonProofs --------------------------
(***************************************************************************)
(* Proofs about BashDaemon, for any number of sessions, prewarms, clients  *)
(* and failures. A mutex is a sequence of jobs that is only appended to    *)
(* and cut at its head: the first lemmas say what that does, the rest uses *)
(* them and no sequence any more.                                          *)
(***************************************************************************)
EXTENDS BashDaemon, TLAPS

Job == Client \cup {Flush}

Has(q, x) == \E i \in 1..Len(q) : q[i] = x

\* No job is twice in a mutex, and those behind the flush came late (are in E).
Orderly(q, E) ==
    \A i, j \in 1..Len(q) : i < j => q[i] # q[j] /\ (q[i] = Flush => q[j] \in E)

LEMMA EmptyMutex ==
    ASSUME NEW E PROVE Orderly(<<>>, E) /\ \A x : ~Has(<<>>, x)
BY DEF Orderly, Has

LEMMA HeadIsIn ==
    ASSUME NEW q \in Seq(Job), q # <<>> PROVE Has(q, Head(q)) /\ Head(q) \in Job
BY DEF Has

LEMMA AppendedMutex ==
    ASSUME NEW q \in Seq(Job), NEW x \in Job
    PROVE  /\ Append(q, x) \in Seq(Job) /\ Append(q, x) # <<>>
           /\ q # <<>> => Head(Append(q, x)) = Head(q)
           /\ \A y : Has(Append(q, x), y) => Has(q, y) \/ y = x
<1>0. Append(q, x) \in Seq(Job) /\ Len(Append(q, x)) = Len(q) + 1
    OBVIOUS
<1>1. /\ Append(q, x) \in Seq(Job) /\ Append(q, x) # <<>>
      /\ q # <<>> => Head(Append(q, x)) = Head(q)
    <2>1. Append(q, x) # <<>>
        <3>1. Len(q) \in Nat /\ Len(<<>>) = 0
            OBVIOUS
        <3>2. SUFFICES ASSUME Append(q, x) = <<>> PROVE FALSE
            OBVIOUS
        <3>3. Len(Append(q, x)) = 0
            BY <3>1, <3>2, Zenon
        <3>4. QED
            BY <1>0, <3>1, <3>3
    <2>2. ASSUME q # <<>> PROVE Head(Append(q, x)) = Head(q)
        <3>1. 1 \in 1..Len(q) /\ Head(q) = q[1] /\ Append(q, x)[1] = q[1]
            BY <2>2
        <3>2. Head(Append(q, x)) = Append(q, x)[1]
            BY <1>0, <2>1
        <3>3. QED
            BY <3>1, <3>2
    <2>3. QED
        BY <1>0, <2>1, <2>2
<1>2. \A i \in 1..Len(Append(q, x)) :
         \/ i \in 1..Len(q) /\ Append(q, x)[i] = q[i]
         \/ Append(q, x)[i] = x
    OBVIOUS
<1>3. QED
    BY <1>1, <1>2 DEF Has

LEMMA AppendedOrderly ==
    ASSUME NEW q \in Seq(Job), NEW x \in Job, NEW E, NEW F,
           Orderly(q, E), E \subseteq F, ~Has(q, x), Has(q, Flush) => x \in F
    PROVE  Orderly(Append(q, x), F)
<1> DEFINE r == Append(q, x)
<1> SUFFICES ASSUME NEW i \in 1..Len(r), NEW j \in 1..Len(r), i < j
             PROVE  r[i] # r[j] /\ (r[i] = Flush => r[j] \in F)
    BY DEF Orderly
<1>1. i \in 1..Len(q) /\ r[i] = q[i]
    OBVIOUS
<1>2. CASE j \in 1..Len(q)
    <2>1. r[j] = q[j]
        BY <1>2
    <2>2. QED
        BY <1>1, <1>2, <2>1 DEF Orderly
<1>3. CASE j = Len(q) + 1
    <2>1. r[j] = x
        BY <1>3
    <2>2. QED
        BY <1>1, <2>1 DEF Has
<1>4. QED
    BY <1>2, <1>3

LEMMA CutMutex ==
    ASSUME NEW q \in Seq(Job), q # <<>>, NEW E, Orderly(q, E)
    PROVE  /\ Tail(q) \in Seq(Job)
           /\ Orderly(Tail(q), E)
           /\ ~Has(Tail(q), Head(q))
           /\ \A y : Has(Tail(q), y) => Has(q, y) /\ (Head(q) = Flush => y \in E)
<1>1. Tail(q) \in Seq(Job) /\ Head(q) = q[1] /\ 1 \in 1..Len(q)
    OBVIOUS
<1>2. \A i \in 1..Len(Tail(q)) :
         i + 1 \in 1..Len(q) /\ 1 < i + 1 /\ Tail(q)[i] = q[i + 1]
    OBVIOUS
<1>3. \A i, j \in 1..Len(Tail(q)) : i < j => i + 1 < j + 1
    OBVIOUS
<1>4. Orderly(Tail(q), E)
    BY <1>2, <1>3 DEF Orderly
<1>5. ~Has(Tail(q), Head(q))
    BY <1>1, <1>2 DEF Orderly, Has
<1>6. \A y : Has(Tail(q), y) => Has(q, y) /\ (Head(q) = Flush => y \in E)
    BY <1>1, <1>2 DEF Orderly, Has
<1>7. QED
    BY <1>1, <1>4, <1>5, <1>6

LEMMA LaterOrderly ==
    ASSUME NEW q, NEW E, NEW F, Orderly(q, E), E \subseteq F PROVE Orderly(q, F)
BY DEF Orderly

-----------------------------------------------------------------------------
(* Types *)

LEMMA InitType == Init => TypeOK
<1> SUFFICES ASSUME Init PROVE TypeOK
    OBVIOUS
<1> USE DEF Init
<1>1. jobs \in [Session -> Seq(Client \cup {Flush})]
    OBVIOUS
<1>2. QED
    BY <1>1 DEF TypeOK

LEMMA EndsType ==
    ASSUME TypeOK, NEW d \in Session, Ends(d)
    PROVE  /\ daemon' \in [Session -> {"off", "starting", "unlinked", "listening",
                                       "closed", "dead"}]
           /\ jobs' \in [Session -> Seq(Job)]
           /\ ran' \subseteq {e \in Session : jobs'[e] # <<>> /\ Head(jobs'[e]) # Flush}
           /\ client' \in [Client -> {"new", "connected", "alone", "done"}]
BY DEF TypeOK, Ends, Dropped, Job

LEMMA FailType ==
    ASSUME TypeOK, NEW kind, CanFail(kind) PROVE faults' \in Nat
BY DEF TypeOK, CanFail

\* Each step of setup.sh, a daemon or a client keeps the types.
LEMMA NextType == TypeOK /\ [Next]_vars => TypeOK'
<1> SUFFICES ASSUME TypeOK, [Next]_vars PROVE TypeOK'
    OBVIOUS
<1> USE ConstantsAssumption DEF TypeOK, daemons, clients
<1>1. ASSUME NEW s \in Session, SessionStarts(s) PROVE TypeOK'
    BY <1>1 DEF SessionStarts
<1>2. ASSUME NEW s \in Session, SocketSeen(s) PROVE TypeOK'
    <2>1. session' \in [Session -> {"out", "waiting", "blind", "ready", "agent", "over"}]
        BY <1>2 DEF SocketSeen
    <2>2. faults' \in Nat
        BY <1>2, FailType DEF SocketSeen
    <2>3. QED
        BY <1>2, <2>1, <2>2 DEF SocketSeen
<1>3. ASSUME NEW s \in Session, HandsOver(s) \/ AgentEnds(s) PROVE TypeOK'
    BY <1>3 DEF HandsOver, AgentEnds
<1>4. ASSUME NEW s \in Session, Exits(s) PROVE TypeOK'
    <2>1. CASE UNCHANGED daemons
        BY <1>4, <2>1 DEF Exits
    <2>2. CASE /\ daemon' = [daemon EXCEPT ![s] = "dead"]
               /\ UNCHANGED <<stopping, jobs, ran>>
        BY <1>4, <2>2 DEF Exits
    <2>3. CASE stopping' = stopping \cup {s} /\ FlushLast(s) /\ UNCHANGED <<daemon, ran>>
        <3>1. jobs' \in [Session -> Seq(Client \cup {Flush})]
            BY <2>3 DEF FlushLast
        <3>2. \A d \in Session : jobs[d] # <<>> =>
                 jobs'[d] # <<>> /\ Head(jobs'[d]) = Head(jobs[d])
            BY <2>3, AppendedMutex DEF FlushLast, Job
        <3>3. QED
            BY <1>4, <2>3, <3>1, <3>2 DEF Exits
    <2>4. QED
        BY <1>4, <2>1, <2>2, <2>3 DEF Exits, Terminate
<1>5. ASSUME NEW d \in Session, CleanUp(d) \/ Listen(d) \/ StartFails(d) PROVE TypeOK'
    <2>1. faults' \in Nat
        BY <1>5, FailType DEF CleanUp, Listen, StartFails
    <2>2. QED
        BY <1>5, <2>1 DEF CleanUp, Listen, StartFails
<1>6. ASSUME NEW d \in Session, Execute(d) PROVE TypeOK'
    <2>1. jobs[d] # <<>> /\ Head(jobs[d]) \in Client /\ Head1(d) \in Client
        BY <1>6 DEF Execute, Head1
    <2>2. executed' \in [Client -> Nat]
        BY <1>6, <2>1 DEF Execute
    <2>3. QED
        BY <1>6, <2>1, <2>2 DEF Execute
<1>7. ASSUME NEW d \in Session, PreSyncFails(d) PROVE TypeOK'
    <2>1. jobs[d] # <<>> /\ Head(jobs[d]) \in Client /\ Head1(d) \in Client
        BY <1>7 DEF PreSyncFails, Head1
    <2>2. QED
        BY <1>7, <2>1, FailType DEF PreSyncFails
<1>8. ASSUME NEW d \in Session, Reply(d) PROVE TypeOK'
    <2>1. jobs[d] # <<>> /\ Tail(jobs[d]) \in Seq(Client \cup {Flush})
        BY <1>8 DEF Reply
    <2>2. QED
        BY <1>8, <2>1 DEF Reply
<1>9. ASSUME NEW d \in Session, Close(d) PROVE TypeOK'
    <2>1. jobs[d] # <<>> /\ Head(jobs[d]) = Flush
        BY <1>9 DEF Close, Head1, Flush, None
    <2>2. Tail(jobs[d]) \in Seq(Client \cup {Flush}) /\ d \notin ran
        BY <2>1
    <2>3. QED
        BY <1>9, <2>2 DEF Close
<1>10. ASSUME NEW d \in Session, ProcessExits(d) \/ Crash(d) PROVE TypeOK'
    <2>1. Ends(d)
        BY <1>10 DEF ProcessExits, Crash
    <2>2. QED
        BY <1>10, <2>1, EndsType, FailType DEF ProcessExits, Crash, Job
<1>11. ASSUME NEW c \in Client, Connect(c) PROVE TypeOK'
    <2>1. CASE /\ socket # None
               /\ jobs' = [jobs EXCEPT ![socket] = Append(@, c)]
               /\ server' = [server EXCEPT ![c] = socket]
               /\ client' = [client EXCEPT ![c] = "connected"]
        <3>1. jobs' \in [Session -> Seq(Client \cup {Flush})]
            BY <2>1
        <3>2. \A d \in Session : jobs[d] # <<>> =>
                 jobs'[d] # <<>> /\ Head(jobs'[d]) = Head(jobs[d])
            BY <2>1, AppendedMutex DEF Job
        <3>3. QED
            BY <1>11, <2>1, <3>1, <3>2 DEF Connect
    <2>2. CASE /\ client' = [client EXCEPT ![c] = "alone"]
               /\ UNCHANGED <<server, jobs, excused>>
        BY <1>11, <2>2 DEF Connect
    <2>3. QED
        BY <1>11, <2>1, <2>2 DEF Connect
<1>12. ASSUME NEW c \in Client, RunsAlone(c) PROVE TypeOK'
    <2>1. executed' \in [Client -> Nat]
        BY <1>12 DEF RunsAlone
    <2>2. QED
        BY <1>12, <2>1 DEF RunsAlone
<1>13. ASSUME NEW c \in Client, AloneFails(c) PROVE TypeOK'
    BY <1>13, FailType DEF AloneFails
<1>14. CASE UNCHANGED vars
    BY <1>14 DEF vars
<1>15. QED
    BY <1>1, <1>2, <1>3, <1>4, <1>5, <1>6, <1>7, <1>8, <1>9, <1>10, <1>11,
       <1>12, <1>13, <1>14 DEF Next, DaemonStep

\* Type correctness of sessions, daemons and clients.
THEOREM TypeCorrect == Spec => []TypeOK
BY InitType, NextType, PTL DEF Spec

-----------------------------------------------------------------------------
(* What a client was answered *)

\* A job that is done was executed, or its pre-sync failed.
RanInv == \A d \in ran : executed[Head1(d)] > 0 \/ Head1(d) \in refused

AnsweredInv == RanInv /\ NoCommandDropped

\* A job added to a mutex leaves the running one where it is.
LEMMA AppendKeepsHeads ==
    ASSUME TypeOK, NEW e \in Session, NEW x \in Job,
           jobs' = [jobs EXCEPT ![e] = Append(@, x)]
    PROVE  \A d \in ran : Head1(d)' = Head1(d)
<1>1. \A d \in ran : d \in Session /\ jobs[d] \in Seq(Job) /\ jobs[d] # <<>>
    BY DEF TypeOK, Job
<1>2. \A d \in ran : jobs'[d] # <<>> /\ Head(jobs'[d]) = Head(jobs[d])
    BY <1>1, AppendedMutex DEF TypeOK
<1>3. QED
    BY <1>1, <1>2 DEF Head1

\* The job that a mutex which is not empty runs.
LEMMA RunningHead ==
    ASSUME TypeOK, NEW d \in Session, Head1(d) \in Job
    PROVE  jobs[d] \in Seq(Job) /\ jobs[d] # <<>> /\ Head1(d) = Head(jobs[d])
BY ConstantsAssumption DEF TypeOK, Job, Head1, None, Flush

LEMMA NextAnsweredInv ==
    ASSUME TypeOK, AnsweredInv, [Next]_vars PROVE AnsweredInv'
<1> USE DEF AnsweredInv, RanInv, NoCommandDropped, TypeOK, daemons, clients
<1>1. ASSUME NEW s \in Session,
             SessionStarts(s) \/ SocketSeen(s) \/ HandsOver(s) \/ AgentEnds(s)
      PROVE  AnsweredInv'
    BY <1>1 DEF SessionStarts, SocketSeen, HandsOver, AgentEnds, Head1
<1>2. ASSUME NEW s \in Session, Exits(s) PROVE AnsweredInv'
    <2>1. UNCHANGED <<ran, client, executed, refused>>
        BY <1>2 DEF Exits, Terminate
    <2>2. jobs' = jobs \/ jobs' = [jobs EXCEPT ![s] = Append(@, Flush)]
        BY <1>2 DEF Exits, Terminate, FlushLast
    <2>3. \A d \in ran : Head1(d)' = Head1(d)
        BY <2>2, AppendKeepsHeads DEF Job, Head1
    <2>4. QED
        BY <2>1, <2>3
<1>3. ASSUME NEW d \in Session, CleanUp(d) \/ Listen(d) \/ StartFails(d) PROVE AnsweredInv'
    BY <1>3 DEF CleanUp, Listen, StartFails, Head1
<1>4. ASSUME NEW d \in Session, Execute(d) PROVE AnsweredInv'
    <2>1. Head1(d) \in Client /\ UNCHANGED <<jobs, client, refused>>
        BY <1>4 DEF Execute
    <2>2. /\ executed' = [executed EXCEPT ![Head1(d)] = @ + 1] /\ ran' = ran \cup {d}
        BY <1>4 DEF Execute
    <2>3. executed'[Head1(d)] > 0 /\ \A c \in Client : executed[c] > 0 => executed'[c] > 0
        BY <2>1, <2>2
    <2>4. \A e \in Session : Head1(e)' = Head1(e)
        BY <2>1 DEF Head1
    <2>5. \A e \in ran : Head1(e) \in Client
        BY DEF Head1
    <2>6. RanInv'
        BY <2>1, <2>2, <2>3, <2>4, <2>5
    <2>7. NoCommandDropped'
        BY <2>1, <2>3
    <2>8. QED
        BY <2>6, <2>7
<1>5. ASSUME NEW d \in Session, PreSyncFails(d) PROVE AnsweredInv'
    BY <1>5 DEF PreSyncFails, Head1
<1>6. ASSUME NEW d \in Session, Reply(d) PROVE AnsweredInv'
    <2>1. Head1(d) \in Client
        BY <1>6 DEF Reply, Head1
    <2>2. \A e \in ran' : e \in ran /\ Head1(e)' = Head1(e)
        BY <1>6 DEF Reply, Head1
    <2>3. QED
        BY <1>6, <2>1, <2>2 DEF Reply
<1>7. ASSUME NEW d \in Session, Close(d) PROVE AnsweredInv'
    <2>1. d \notin ran
        BY <1>7 DEF Close, Head1, None, Flush
    <2>2. \A e \in ran' : e \in ran /\ Head1(e)' = Head1(e)
        BY <1>7, <2>1 DEF Close, Head1
    <2>3. QED
        BY <1>7, <2>2 DEF Close
<1>8. ASSUME NEW d \in Session, ProcessExits(d) \/ Crash(d) PROVE AnsweredInv'
    <2>1. Ends(d) /\ UNCHANGED <<executed, refused>>
        BY <1>8 DEF ProcessExits, Crash
    <2>2. \A e \in ran' : e \in ran /\ Head1(e)' = Head1(e)
        BY <2>1 DEF Ends, Head1
    <2>3. \A c \in Client : client'[c] = "done" => client[c] = "done"
        BY <2>1 DEF Ends, Dropped
    <2>4. QED
        BY <2>1, <2>2, <2>3
<1>9. ASSUME NEW c \in Client, Connect(c) PROVE AnsweredInv'
    <2>1. UNCHANGED <<ran, executed, refused>>
        BY <1>9 DEF Connect
    <2>2. \A b \in Client : client'[b] = "done" => client[b] = "done"
        BY <1>9 DEF Connect
    <2>3. jobs' = jobs \/ (socket # None /\ jobs' = [jobs EXCEPT ![socket] = Append(@, c)])
        BY <1>9 DEF Connect
    <2>4. \A d \in ran : Head1(d)' = Head1(d)
        BY <2>3, AppendKeepsHeads DEF Job, Head1
    <2>5. QED
        BY <2>1, <2>2, <2>4
<1>10. ASSUME NEW c \in Client, RunsAlone(c) PROVE AnsweredInv'
    <2>1. /\ executed' = [executed EXCEPT ![c] = @ + 1] /\ UNCHANGED <<jobs, ran, refused>>
          /\ client' = [client EXCEPT ![c] = "done"]
        BY <1>10 DEF RunsAlone
    <2>2. executed'[c] > 0 /\ \A b \in Client : executed[b] > 0 => executed'[b] > 0
        BY <2>1
    <2>3. \A e \in ran : Head1(e) \in Client /\ Head1(e)' = Head1(e)
        BY <2>1 DEF Head1
    <2>4. QED
        BY <2>1, <2>2, <2>3
<1>11. ASSUME NEW c \in Client, AloneFails(c) PROVE AnsweredInv'
    <2>1. /\ refused' = refused \cup {c} /\ UNCHANGED <<jobs, ran, executed>>
          /\ client' = [client EXCEPT ![c] = "done"]
        BY <1>11 DEF AloneFails
    <2>2. \A e \in ran : Head1(e)' = Head1(e)
        BY <2>1 DEF Head1
    <2>3. QED
        BY <2>1, <2>2
<1>12. CASE UNCHANGED vars
    BY <1>12 DEF vars, Head1
<1>13. QED
    BY <1>1, <1>2, <1>3, <1>4, <1>5, <1>6, <1>7, <1>8, <1>9, <1>10, <1>11, <1>12
       DEF Next, DaemonStep

\* However sessions end and daemons stop, crash or fail, a client that has ended
\* saw its command executed or was told by an error that it was not, also when
\* it is left to standalone mode and that fails.
THEOREM AnsweredCommandsRan == Spec => []NoCommandDropped
<1>1. Init => AnsweredInv
    BY DEF Init, AnsweredInv, RanInv, NoCommandDropped
<1>2. TypeOK /\ AnsweredInv /\ [Next]_vars => AnsweredInv'
    BY NextAnsweredInv
<1>3. AnsweredInv => NoCommandDropped
    BY DEF AnsweredInv
<1>4. QED
    BY <1>1, <1>2, <1>3, InitType, NextType, PTL DEF Spec

-----------------------------------------------------------------------------
(* How often a command is executed *)

\* A mutex holds the clients connected to its daemon, each once, with those
\* that came to a stopping daemon behind the flush, and alone once it is over.
MutexInv ==
    \A d \in Session :
       /\ ~Serving(d) => jobs[d] = <<>>
       /\ session[d] = "out" => daemon[d] = "off"
       /\ Has(jobs[d], Flush) => d \in stopping
       /\ \A c \in Client : Has(jobs[d], c) => client[c] = "connected" /\ server[c] = d
       /\ Orderly(jobs[d], excused)
       /\ daemon[d] = "closed" => \A x \in Job : Has(jobs[d], x) => x \in excused

\* Whoever is still to be answered has run at most once: as the job its daemon
\* has done but not answered, or before the daemon went away.
CountInv ==
    \A c \in Client :
       /\ client[c] = "new" => executed[c] = 0
       /\ client[c] # "done" => executed[c] <= 1
       /\ client[c] = "connected" =>
             /\ server[c] \in Session
             /\ executed[c] > 0 => server[c] \in ran /\ Head1(server[c]) = c
       /\ client[c] = "alone" /\ executed[c] > 0 => c \in excused
       /\ executed[c] <= 2
       /\ executed[c] = 2 => c \in excused

OnceInv == MutexInv /\ CountInv

\* Steps that leave the mutexes and the clients alone.
LEMMA MutexUntouched ==
    ASSUME MutexInv, UNCHANGED <<jobs, client, server, excused>>,
           stopping \subseteq stopping',
           \A d \in Session : /\ ~Serving(d)' => ~Serving(d)
                              /\ daemon'[d] = "closed" => daemon[d] = "closed"
                              /\ session'[d] = "out" => daemon'[d] = "off"
    PROVE  MutexInv'
BY DEF MutexInv

\* A job joins the mutex of a daemon that listens: a client, or the flush.
LEMMA MutexJoined ==
    ASSUME jobs \in [Session -> Seq(Job)], MutexInv, NEW e \in Session, NEW x \in Job,
           daemon[e] = "listening", ~Has(jobs[e], x),
           jobs'[e] = Append(jobs[e], x),
           \A d \in Session : d # e => jobs'[d] = jobs[d],
           Has(jobs[e], Flush) => x \in excused',
           x = Flush => e \in stopping',
           \A d \in Session : \A c \in Client :
              (c = x /\ d = e) \/ Has(jobs[d], c) =>
                 client'[c] = "connected" /\ server'[c] = d,
           stopping \subseteq stopping', excused \subseteq excused',
           UNCHANGED daemon,
           \A d \in Session : session'[d] = "out" => session[d] = "out"
    PROVE  MutexInv'
<1> USE DEF MutexInv
<1>1. ASSUME NEW d \in Session, d # e PROVE jobs'[d] = jobs[d]
    BY <1>1
<1>2. jobs[e] \in Seq(Job) /\ Orderly(jobs[e], excused)
    OBVIOUS
<1>3. Orderly(jobs'[e], excused')
    <2>1. Orderly(Append(jobs[e], x), excused')
        BY <1>2, AppendedOrderly
    <2>2. QED
        BY <2>1
<1>4. \A y : Has(jobs'[e], y) => Has(jobs[e], y) \/ y = x
    BY <1>2, AppendedMutex
<1>5. \A d \in Session : Orderly(jobs'[d], excused')
    <2>1. \A d \in Session : Orderly(jobs[d], excused')
        BY LaterOrderly
    <2>2. QED
        BY <1>1, <1>3, <2>1
<1>6. \A d \in Session : ~Serving(d)' => jobs'[d] = <<>>
    BY <1>1 DEF Serving
<1>7. ASSUME NEW d \in Session, Has(jobs'[d], Flush) PROVE d \in stopping'
    <2>1. CASE d = e
        <3>1. Has(jobs[e], Flush) \/ x = Flush
            BY <1>4, <1>7, <2>1
        <3>2. QED
            BY <2>1, <3>1
    <2>2. CASE d # e
        BY <1>1, <1>7, <2>2
    <2>3. QED
        BY <2>1, <2>2
<1>8. \A d \in Session : \A c \in Client :
         Has(jobs'[d], c) => client'[c] = "connected" /\ server'[c] = d
    BY <1>1, <1>4
<1>9. \A d \in Session : daemon'[d] = "closed" => \A y \in Job : Has(jobs'[d], y) => y \in excused'
    BY <1>1
<1>10. QED
    BY <1>5, <1>6, <1>7, <1>8, <1>9

LEMMA NextMutexInv ==
    ASSUME TypeOK, OnceInv, [Next]_vars PROVE MutexInv'
<1> USE DEF OnceInv, TypeOK, daemons, clients
<1>1. ASSUME NEW s \in Session, SessionStarts(s) PROVE MutexInv'
    <2>1. daemon[s] = "off"
        BY <1>1 DEF SessionStarts, MutexInv
    <2>2. \A d \in Session : /\ ~Serving(d)' => ~Serving(d)
                             /\ daemon'[d] = "closed" => daemon[d] = "closed"
                             /\ session'[d] = "out" => daemon'[d] = "off"
        BY <1>1, <2>1 DEF SessionStarts, MutexInv, Serving
    <2>3. QED
        BY <1>1, <2>2, MutexUntouched DEF SessionStarts
<1>2. ASSUME NEW s \in Session, SocketSeen(s) \/ HandsOver(s) \/ AgentEnds(s)
      PROVE  MutexInv'
    <2>1. \A d \in Session : session'[d] = "out" => session[d] = "out"
        BY <1>2 DEF SocketSeen, HandsOver, AgentEnds
    <2>2. UNCHANGED <<jobs, client, server, excused, stopping, daemon>>
        BY <1>2 DEF SocketSeen, HandsOver, AgentEnds
    <2>3. QED
        BY <2>1, <2>2, MutexUntouched DEF MutexInv, Serving
<1>3. ASSUME NEW s \in Session, Exits(s) PROVE MutexInv'
    <2>1. \A d \in Session : session'[d] = "out" => session[d] = "out"
        BY <1>3 DEF Exits
    <2>2. UNCHANGED <<client, server, excused>>
        BY <1>3 DEF Exits
    <2>3. CASE UNCHANGED daemons
        BY <2>1, <2>2, <2>3, MutexUntouched DEF MutexInv, Serving
    <2>4. CASE /\ daemon[s] \in {"starting", "unlinked"}
               /\ daemon' = [daemon EXCEPT ![s] = "dead"]
               /\ UNCHANGED <<stopping, jobs, ran>>
        <3>1. \A d \in Session : /\ ~Serving(d)' => ~Serving(d)
                                 /\ daemon'[d] = "closed" => daemon[d] = "closed"
                                 /\ session'[d] = "out" => daemon'[d] = "off"
            BY <1>3, <2>1, <2>4 DEF MutexInv, Serving
        <3>2. QED
            BY <2>2, <2>4, <3>1, MutexUntouched
    <2>5. CASE /\ daemon[s] = "listening" /\ s \notin stopping
               /\ stopping' = stopping \cup {s} /\ FlushLast(s)
               /\ UNCHANGED <<daemon, ran>>
        <3>1. ~Has(jobs[s], Flush) /\ Flush \in Job
            BY <2>5 DEF MutexInv, Job
        <3>2. Flush \notin Client
            BY ConstantsAssumption
        <3>3. \A d \in Session : \A c \in Client :
                 (c = Flush /\ d = s) \/ Has(jobs[d], c) =>
                    client'[c] = "connected" /\ server'[c] = d
            BY <2>2, <3>2 DEF MutexInv
        <3>4. QED
            <4>1. /\ jobs \in [Session -> Seq(Job)] /\ MutexInv
                  /\ jobs'[s] = Append(jobs[s], Flush)
                  /\ \A d \in Session : d # s => jobs'[d] = jobs[d]
                BY <2>5 DEF FlushLast, Job
            <4>2. /\ s \in stopping' /\ stopping \subseteq stopping'
                  /\ excused \subseteq excused' /\ UNCHANGED daemon
                BY <2>2, <2>5
            <4>3. daemon[s] = "listening" /\ (Has(jobs[s], Flush) => Flush \in excused')
                BY <2>5, <3>1
            <4> HIDE DEF TypeOK, OnceInv, daemons, clients
            <4>4. QED
                BY <2>1, <3>1, <3>3, <4>1, <4>2, <4>3, MutexJoined
    <2>6. QED
        BY <1>3, <2>3, <2>4, <2>5 DEF Exits, Terminate
<1>4. ASSUME NEW d \in Session, CleanUp(d) \/ Listen(d) \/ StartFails(d) PROVE MutexInv'
    <2>1. \A e \in Session : /\ ~Serving(e)' => ~Serving(e)
                             /\ daemon'[e] = "closed" => daemon[e] = "closed"
                             /\ session'[e] = "out" => daemon'[e] = "off"
        BY <1>4 DEF CleanUp, Listen, StartFails, MutexInv, Serving
    <2>2. QED
        BY <1>4, <2>1, MutexUntouched DEF CleanUp, Listen, StartFails
<1>5. ASSUME NEW d \in Session, Execute(d) \/ PreSyncFails(d) PROVE MutexInv'
    <2>1. UNCHANGED <<jobs, client, server, excused, stopping, daemon, session>>
        BY <1>5 DEF Execute, PreSyncFails
    <2>2. QED
        BY <2>1, MutexUntouched DEF MutexInv, Serving
<1>6. ASSUME NEW d \in Session, jobs[d] # <<>>,
             jobs' = [jobs EXCEPT ![d] = Tail(@)],
             \A c \in Client : c # Head(jobs[d]) => client'[c] = client[c],
             UNCHANGED <<session, server, stopping, excused>>,
             daemon' = daemon \/ (Head(jobs[d]) = Flush
                                  /\ daemon' = [daemon EXCEPT ![d] = "closed"])
      PROVE  MutexInv'
    <2>1. jobs[d] \in Seq(Job) /\ jobs'[d] = Tail(jobs[d]) /\ Orderly(jobs[d], excused)
        BY <1>6 DEF Job, MutexInv
    <2>2. \A e \in Session : e # d => jobs'[e] = jobs[e]
        BY <1>6
    <2>3. /\ Orderly(jobs'[d], excused) /\ ~Has(jobs'[d], Head(jobs[d]))
          /\ \A y : Has(jobs'[d], y) => Has(jobs[d], y) /\ (Head(jobs[d]) = Flush => y \in excused)
        BY <1>6, <2>1, CutMutex
    <2>4. Has(jobs[d], Head(jobs[d]))
        BY <1>6, <2>1, HeadIsIn
    <2>5. \A e \in Session : ~Serving(e)' => jobs'[e] = <<>>
        <3>1. Serving(d) /\ Serving(d)'
            BY <1>6 DEF MutexInv, Serving
        <3>2. QED
            BY <1>6, <2>2, <3>1 DEF MutexInv, Serving
    <2>6. \A e \in Session : session'[e] = "out" => daemon'[e] = "off"
        <3>1. Serving(d)
            BY <1>6 DEF MutexInv
        <3>2. QED
            BY <1>6, <3>1 DEF MutexInv, Serving
    <2>7. \A e \in Session : Has(jobs'[e], Flush) => e \in stopping'
        BY <1>6, <2>2, <2>3 DEF MutexInv
    <2>8. \A e \in Session : \A c \in Client :
             Has(jobs'[e], c) => client'[c] = "connected" /\ server'[c] = e
        BY <1>6, <2>2, <2>3, <2>4 DEF MutexInv
    <2>9. \A e \in Session : Orderly(jobs'[e], excused')
        BY <1>6, <2>2, <2>3 DEF MutexInv
    <2>10. \A e \in Session : daemon'[e] = "closed" => \A x \in Job : Has(jobs'[e], x) => x \in excused'
        BY <1>6, <2>2, <2>3 DEF MutexInv
    <2>11. QED
        BY <2>5, <2>6, <2>7, <2>8, <2>9, <2>10 DEF MutexInv
<1>7. ASSUME NEW d \in Session, Reply(d) PROVE MutexInv'
    <2>1. jobs[d] # <<>> /\ Head1(d) = Head(jobs[d])
        BY <1>7 DEF Reply, Head1
    <2>2. QED
        BY <1>6, <1>7, <2>1 DEF Reply
<1>8. ASSUME NEW d \in Session, Close(d) PROVE MutexInv'
    <2>1. jobs[d] # <<>> /\ Head(jobs[d]) = Flush
        BY <1>8, RunningHead DEF Close, Job
    <2>2. QED
        BY <1>6, <1>8, <2>1 DEF Close
<1>9. ASSUME NEW d \in Session, ProcessExits(d) \/ Crash(d) PROVE MutexInv'
    <2>1. Ends(d) /\ Serving(d) /\ excused \subseteq excused'
        BY <1>9 DEF ProcessExits, Crash, Serving
    <2>2. UNCHANGED <<session, stopping, server>>
        BY <1>9 DEF ProcessExits, Crash
    <2>3. jobs'[d] = <<>> /\ \A e \in Session : e # d => jobs'[e] = jobs[e]
        BY <2>1 DEF Ends
    <2>4. daemon'[d] = "dead" /\ \A e \in Session : e # d => daemon'[e] = daemon[e]
        BY <2>1 DEF Ends
    <2>5. Orderly(jobs'[d], excused') /\ \A x : ~Has(jobs'[d], x)
        BY <2>3, EmptyMutex
    <2>6. \A e \in Session : Orderly(jobs'[e], excused')
        BY <2>1, <2>3, <2>5, LaterOrderly DEF MutexInv
    <2>7. \A e \in Session : \A c \in Client :
             Has(jobs'[e], c) => client'[c] = "connected" /\ server'[c] = e
        <3>1. SUFFICES ASSUME NEW e \in Session, NEW c \in Client, Has(jobs'[e], c)
                       PROVE  client'[c] = "connected" /\ server'[c] = e
            OBVIOUS
        <3>2. e # d
            BY <2>5, <3>1
        <3>3. client[c] = "connected" /\ server[c] = e
            BY <2>3, <3>1, <3>2 DEF MutexInv
        <3>4. QED
            BY <2>1, <2>2, <3>2, <3>3 DEF Ends, Dropped
    <2>8. \A e \in Session : /\ ~Serving(e)' => jobs'[e] = <<>>
                             /\ session'[e] = "out" => daemon'[e] = "off"
        BY <2>1, <2>2, <2>3, <2>4 DEF MutexInv, Serving
    <2>9. \A e \in Session : Has(jobs'[e], Flush) => e \in stopping'
        BY <2>2, <2>3, <2>5 DEF MutexInv
    <2>10. \A e \in Session : daemon'[e] = "closed" => \A x \in Job : Has(jobs'[e], x) => x \in excused'
        BY <2>1, <2>3, <2>4 DEF MutexInv
    <2>11. QED
        BY <2>6, <2>7, <2>8, <2>9, <2>10 DEF MutexInv
<1>10. ASSUME NEW c \in Client, Connect(c) PROVE MutexInv'
    <2>1. CASE /\ socket # None /\ daemon[socket] = "listening"
               /\ client' = [client EXCEPT ![c] = "connected"]
               /\ server' = [server EXCEPT ![c] = socket]
               /\ jobs' = [jobs EXCEPT ![socket] = Append(@, c)]
               /\ excused' = IF socket \in stopping THEN excused \cup {c} ELSE excused
        <3>1. \A d \in Session : ~Has(jobs[d], c)
            BY <1>10 DEF Connect, MutexInv
        <3>2. socket \in Session /\ c \in Job /\ c # Flush
            BY <2>1, ConstantsAssumption DEF Job
        <3>3. Has(jobs[socket], Flush) => c \in excused'
            BY <2>1, <3>2 DEF MutexInv
        <3>4. \A d \in Session : \A b \in Client :
                 (b = c /\ d = socket) \/ Has(jobs[d], b) =>
                    client'[b] = "connected" /\ server'[b] = d
            BY <2>1, <3>1, <3>2 DEF MutexInv
        <3>5. UNCHANGED <<session, daemon, stopping>> /\ excused \subseteq excused'
            BY <1>10, <2>1 DEF Connect
        <3>6. QED
            <4>1. /\ jobs \in [Session -> Seq(Job)] /\ MutexInv
                  /\ jobs'[socket] = Append(jobs[socket], c)
                  /\ \A d \in Session : d # socket => jobs'[d] = jobs[d]
                BY <2>1, <3>2 DEF Job
            <4>2. QED
                BY <2>1, <3>1, <3>2, <3>3, <3>4, <3>5, <4>1, MutexJoined
    <2>2. CASE /\ client' = [client EXCEPT ![c] = "alone"]
               /\ UNCHANGED <<server, jobs, excused>>
        <3>1. \A d \in Session : ~Has(jobs[d], c)
            BY <1>10 DEF Connect, MutexInv
        <3>2. UNCHANGED <<session, daemon, stopping>>
            BY <1>10 DEF Connect
        <3>3. QED
            BY <2>2, <3>1, <3>2 DEF MutexInv, Serving
    <2>3. QED
        BY <1>10, <2>1, <2>2 DEF Connect
<1>11. ASSUME NEW c \in Client, RunsAlone(c) \/ AloneFails(c) PROVE MutexInv'
    <2>1. \A d \in Session : ~Has(jobs[d], c)
        BY <1>11 DEF RunsAlone, AloneFails, MutexInv
    <2>2. QED
        BY <1>11, <2>1 DEF RunsAlone, AloneFails, MutexInv, Serving
<1>12. CASE UNCHANGED vars
    BY <1>12, MutexUntouched DEF vars, MutexInv, Serving
<1>13. QED
    BY <1>1, <1>2, <1>3, <1>4, <1>5, <1>7, <1>8, <1>9, <1>10, <1>11, <1>12
       DEF Next, DaemonStep

\* Steps that execute nothing and answer nobody.
LEMMA CountUntouched ==
    ASSUME CountInv, UNCHANGED <<client, server, executed>>,
           excused \subseteq excused', ran \subseteq ran',
           \A d \in ran : Head1(d)' = Head1(d)
    PROVE  CountInv'
BY DEF CountInv

LEMMA NextCountInv ==
    ASSUME TypeOK, OnceInv, [Next]_vars PROVE CountInv'
<1> USE DEF OnceInv, TypeOK, daemons, clients
<1>1. ASSUME NEW s \in Session,
             SessionStarts(s) \/ SocketSeen(s) \/ HandsOver(s) \/ AgentEnds(s)
      PROVE  CountInv'
    BY <1>1, CountUntouched DEF SessionStarts, SocketSeen, HandsOver, AgentEnds, Head1
<1>2. ASSUME NEW s \in Session, Exits(s) PROVE CountInv'
    <2>1. UNCHANGED <<ran, client, server, executed, excused>>
        BY <1>2 DEF Exits, Terminate
    <2>2. jobs' = jobs \/ jobs' = [jobs EXCEPT ![s] = Append(@, Flush)]
        BY <1>2 DEF Exits, Terminate, FlushLast
    <2>3. \A d \in ran : Head1(d)' = Head1(d)
        BY <2>2, AppendKeepsHeads DEF Job, Head1
    <2>4. QED
        BY <2>1, <2>3, CountUntouched
<1>3. ASSUME NEW d \in Session, CleanUp(d) \/ Listen(d) \/ StartFails(d) PROVE CountInv'
    BY <1>3, CountUntouched DEF CleanUp, Listen, StartFails, Head1
<1>4. ASSUME NEW d \in Session, Execute(d) PROVE CountInv'
    <2>1. Head1(d) \in Client /\ d \notin ran
        BY <1>4 DEF Execute
    <2>2. Has(jobs[d], Head1(d))
        BY <2>1, RunningHead, HeadIsIn DEF Job
    <2>3. client[Head1(d)] = "connected" /\ server[Head1(d)] = d
        BY <2>1, <2>2 DEF MutexInv
    <2>4. executed[Head1(d)] = 0
        BY <2>1, <2>3 DEF CountInv
    <2>5. executed'[Head1(d)] = 1
          /\ \A c \in Client : c # Head1(d) => executed'[c] = executed[c]
        BY <1>4, <2>1, <2>4 DEF Execute
    <2>6. \A e \in Session : Head1(e)' = Head1(e)
        BY <1>4 DEF Execute, Head1
    <2>7. ran' = ran \cup {d} /\ UNCHANGED <<client, server, excused>>
        BY <1>4 DEF Execute
    <2>8. QED
        BY <2>3, <2>5, <2>6, <2>7 DEF CountInv
<1>5. ASSUME NEW d \in Session, PreSyncFails(d) PROVE CountInv'
    <2>1. ran' = ran \cup {d} /\ UNCHANGED <<jobs, client, server, executed, excused>>
        BY <1>5 DEF PreSyncFails
    <2>2. QED
        BY <2>1, CountUntouched DEF Head1
<1>6. ASSUME NEW d \in Session, Reply(d) PROVE CountInv'
    <2>1. /\ client' = [client EXCEPT ![Head1(d)] = "done"]
          /\ ran' = ran \ {d} /\ UNCHANGED <<server, executed, excused>>
        BY <1>6 DEF Reply
    <2>2. \A e \in Session : e # d => Head1(e)' = Head1(e)
        BY <1>6 DEF Reply, Head1
    <2>3. \A c \in Client : client'[c] = "connected" =>
             c # Head1(d) /\ client[c] = "connected"
        BY <2>1
    <2>4. QED
        BY <2>1, <2>2, <2>3 DEF CountInv
<1>7. ASSUME NEW d \in Session, Close(d) PROVE CountInv'
    <2>1. d \notin ran
        BY <1>7 DEF Close, Head1, None, Flush
    <2>2. \A e \in ran : Head1(e)' = Head1(e)
        BY <1>7, <2>1 DEF Close, Head1
    <2>3. QED
        BY <1>7, <2>2, CountUntouched DEF Close
<1>8. ASSUME NEW d \in Session, Ends(d), UNCHANGED <<server, executed>>,
             excused \subseteq excused',
             \A c \in Client : c = Head1(d) /\ server[c] = d => c \in excused'
      PROVE  CountInv'
    <2>1. ran' = ran \ {d} /\ \A e \in Session : e # d => Head1(e)' = Head1(e)
        BY <1>8 DEF Ends, Head1
    <2>2. \A c \in Client : IF client[c] = "connected" /\ server[c] = d
                            THEN client'[c] = "alone" ELSE client'[c] = client[c]
        BY <1>8 DEF Ends, Dropped
    <2>3. QED
        BY <1>8, <2>1, <2>2 DEF CountInv
<1>9. ASSUME NEW d \in Session, ProcessExits(d) PROVE CountInv'
    <2>1. \A c \in Client : c = Head1(d) => c \in excused
        <3>1. SUFFICES ASSUME Head1(d) \in Client PROVE Head1(d) \in excused
            OBVIOUS
        <3>2. Has(jobs[d], Head1(d)) /\ Head1(d) \in Job
            BY <3>1, RunningHead, HeadIsIn DEF Job
        <3>3. QED
            BY <1>9, <3>2 DEF ProcessExits, MutexInv
    <2>2. QED
        BY <1>8, <1>9, <2>1 DEF ProcessExits
<1>10. ASSUME NEW d \in Session, Crash(d) PROVE CountInv'
    BY <1>8, <1>10 DEF Crash
<1>11. ASSUME NEW c \in Client, Connect(c) PROVE CountInv'
    <2>1. UNCHANGED <<ran, executed>> /\ excused \subseteq excused'
        BY <1>11 DEF Connect
    <2>2. executed[c] = 0
        BY <1>11 DEF Connect, CountInv
    <2>3. jobs' = jobs \/ (socket # None /\ jobs' = [jobs EXCEPT ![socket] = Append(@, c)])
        BY <1>11 DEF Connect
    <2>4. \A d \in ran : Head1(d)' = Head1(d)
        BY <2>3, AppendKeepsHeads DEF Job, Head1
    <2>5. \A b \in Client : b # c => client'[b] = client[b] /\ server'[b] = server[b]
        BY <1>11 DEF Connect
    <2>6. client'[c] = "alone" \/ (client'[c] = "connected" /\ server'[c] \in Session)
        BY <1>11 DEF Connect
    <2>7. QED
        BY <2>1, <2>2, <2>4, <2>5, <2>6 DEF CountInv
<1>12. ASSUME NEW c \in Client, RunsAlone(c) PROVE CountInv'
    <2>1. /\ client[c] = "alone" /\ client'[c] = "done"
          /\ executed'[c] = executed[c] + 1 /\ UNCHANGED <<jobs, ran, server, excused>>
        BY <1>12 DEF RunsAlone
    <2>2. \A b \in Client : b # c => client'[b] = client[b] /\ executed'[b] = executed[b]
        BY <1>12 DEF RunsAlone
    <2>3. executed[c] \in Nat /\ executed[c] <= 1 /\ (executed[c] > 0 => c \in excused)
        BY <2>1 DEF CountInv
    <2>4. executed'[c] <= 2 /\ (executed'[c] = 2 => c \in excused)
        BY <2>1, <2>3
    <2>5. \A e \in ran : Head1(e)' = Head1(e)
        BY <2>1 DEF Head1
    <2>6. QED
        BY <2>1, <2>2, <2>4, <2>5 DEF CountInv
<1>13. ASSUME NEW c \in Client, AloneFails(c) PROVE CountInv'
    <2>1. /\ client[c] = "alone" /\ client' = [client EXCEPT ![c] = "done"]
          /\ UNCHANGED <<jobs, ran, server, executed, excused>>
        BY <1>13 DEF AloneFails
    <2>2. \A b \in Client : b # c => client'[b] = client[b]
        BY <2>1
    <2>3. executed[c] <= 1 /\ client'[c] = "done"
        BY <2>1 DEF CountInv
    <2>4. \A e \in ran : Head1(e)' = Head1(e)
        BY <2>1 DEF Head1
    <2>5. QED
        BY <2>1, <2>2, <2>3, <2>4 DEF CountInv
<1>14. CASE UNCHANGED vars
    BY <1>14, CountUntouched DEF vars, Head1
<1>15. QED
    BY <1>1, <1>2, <1>3, <1>4, <1>5, <1>6, <1>7, <1>9, <1>10, <1>11, <1>12,
       <1>13, <1>14 DEF Next, DaemonStep

LEMMA InitOnceInv == Init => OnceInv
<1> SUFFICES ASSUME Init PROVE OnceInv
    OBVIOUS
<1>1. MutexInv
    BY EmptyMutex DEF Init, MutexInv
<1>2. CountInv
    BY DEF Init, CountInv
<1>3. QED
    BY <1>1, <1>2 DEF OnceInv

\* A graceful stop never makes a command run twice: only one whose daemon
\* crashed, or was being stopped when it came, runs again, and then once.
THEOREM RepeatsAreExcused == Spec => []RepeatedOnlyIfExcused
<1>1. TypeOK /\ OnceInv /\ [Next]_vars => OnceInv'
    BY NextMutexInv, NextCountInv DEF OnceInv
<1>2. OnceInv => RepeatedOnlyIfExcused
    BY DEF OnceInv, CountInv, RepeatedOnlyIfExcused
<1>3. QED
    BY <1>1, <1>2, InitType, NextType, InitOnceInv, PTL DEF Spec

=============================================================================
