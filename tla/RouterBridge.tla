----------------------------- MODULE RouterBridge -----------------------------
(***************************************************************************)
(* bridge.ts of the opencode router: chat messages become prompts of       *)
(* OpenCode sessions.  A chat has a binding (its directory) and a row (its *)
(* session), both in SQLite; the handler of a message awaits the creation  *)
(* of a session, and its prompt then waits its turn in the promise chain   *)
(* of that session.                                                        *)
(*                                                                         *)
(* Slack hands messages over as they come.  The Telegram bot awaits the    *)
(* handler of one update before it takes the next, and asks for a batch    *)
(* again if the router dies before it has confirmed it.                    *)
(***************************************************************************)
EXTENDS Integers, Sequences, FiniteSets

CONSTANTS
    Chat,        \* (channel, identity, peer)
    Telegram,    \* the chats of the Telegram bot; the others are Slack's
    Directory,   \* workspace directories
    Default,     \* the one a chat without a binding gets
    Session,     \* names OpenCode has for sessions
    None,
    Senders,     \* the ways the messages may be spread over the chats
    MaxMessages, MaxCommands, MaxFaults    \* bounds of the model

ASSUME ConstantsAssumption ==
    /\ Telegram \subseteq Chat /\ Default \in Directory
    /\ None \notin Session \cup Directory
    /\ Senders \subseteq [1..MaxMessages -> Chat]
    /\ MaxMessages \in Nat /\ MaxCommands \in Nat /\ MaxFaults \in Nat

Msg == 1..MaxMessages     \* in the order in which the adapters hand them over

VARIABLES
    binding,    \* Chat -> its row in the table bindings, or None
    row,        \* Chat -> its row in the table sessions, or None
    place,      \* Session -> the directory it was created for
    queue,      \* Session -> the messages in its promise chain (sessionQueue)
    from,       \* Msg -> the chat it is sent in
    at,         \* Msg -> what its handler or its task awaits
    ses,        \* Msg -> the session it is for
    unconfirmed,          \* updates Telegram would send once more
    commands, faults,     \* counters of the bounds
    bound,      \* Msg -> the chat's directory when it came (boundDirectory)
    dismissed,  \* history: Chat -> sessions given up by a reset of the chat
    barred,     \* history: Msg -> those given up before it came
    crossed     \* history: sessions that were being created at a reset

store   == <<binding, row>>
bounds  == <<commands, faults>>
history == <<bound, barred, dismissed, crossed>>
vars    == <<store, place, queue, from, at, ses, unconfirmed, bounds, history>>

Handling == {"create", "greet"}                \* handleInbound awaits
Running  == {"prompt", "retry", "reply", "error"}  \* the task does
Ended    == {"done", "lost"}
Waiting  == Handling \cup {"queued"} \cup Running

TypeOK ==
    /\ binding \in [Chat -> Directory \cup {None}]
    /\ row \in [Chat -> Session \cup {None}]
    /\ place \in [Session -> Directory \cup {None}]
    /\ queue \in [Session -> Seq(Msg)]
    /\ from \in [Msg -> Chat]
    /\ at \in [Msg -> {"sent"} \cup Waiting \cup Ended]
    /\ ses \in [Msg -> Session \cup {None}]
    /\ \A m \in Msg : at[m] \in Waiting => ses[m] # None /\ bound[m] # None
    /\ unconfirmed \subseteq Msg
    /\ commands \in 0..MaxCommands /\ faults \in 0..MaxFaults
    /\ bound \in [Msg -> Directory \cup {None}]
    /\ dismissed \in [Chat -> SUBSET Session] /\ barred \in [Msg -> SUBSET Session]
    /\ crossed \subseteq Session

\* A database that is new.
Init ==
    /\ binding = [c \in Chat |-> None] /\ row = [c \in Chat |-> None]
    /\ place = [s \in Session |-> None]
    /\ queue = [s \in Session |-> <<>>]
    /\ from \in Senders
    /\ at = [m \in Msg |-> "sent"] /\ ses = [m \in Msg |-> None]
    /\ unconfirmed = {} /\ commands = 0 /\ faults = 0
    /\ bound = [m \in Msg |-> None] /\ barred = [m \in Msg |-> {}]
    /\ dismissed = [c \in Chat |-> {}] /\ crossed = {}

Goto(m, step) == at' = [at EXCEPT ![m] = step]

-----------------------------------------------------------------------------
(* handleInbound *)

BotConcurrent == TRUE

BotIdle == \A m \in Msg : from[m] \in Telegram => at[m] \notin Handling

DirectoryWithoutDefault(c) == IF binding[c] # None THEN binding[c] ELSE None

\* binding?.directory || session?.directory || the identity's or the default
DirectoryFor(c) ==
    IF binding[c] # None THEN binding[c]
    ELSE IF row[c] # None THEN place[row[c]] ELSE Default

ReusableAnywhere(c, d) == row[c] # None

Reusable(c, d) == row[c] # None /\ place[row[c]] = d

\* previous.then(task).catch(...).finally(...)
Enqueue(m, s) == queue' = [queue EXCEPT ![s] = Append(@, m)]

Unused == {s \in Session : place[s] = None}

\* From the arrival of a message to the first await: its chat is bound, and
\* there is a session for it or one is asked for.
Arrive(m) ==
    LET c == from[m]
        d == DirectoryFor(c)
    IN  /\ at[m] = "sent"
        /\ \A n \in 1..(m - 1) : at[n] # "sent"
        /\ c \in Telegram => BotIdle
        /\ binding' = [binding EXCEPT ![c] = d]
        /\ \/ /\ Reusable(c, d)
              /\ ses' = [ses EXCEPT ![m] = row[c]]
              /\ Goto(m, "queued") /\ Enqueue(m, row[c])
              /\ UNCHANGED place
           \/ /\ ~Reusable(c, d)
              /\ Unused # {}
              /\ LET s == CHOOSE s \in Unused : TRUE
                 IN  place' = [place EXCEPT ![s] = d] /\ ses' = [ses EXCEPT ![m] = s]
              /\ Goto(m, "create")
              /\ UNCHANGED queue
        /\ unconfirmed' = IF c \in Telegram THEN unconfirmed \cup {m} ELSE unconfirmed
        /\ bound' = [bound EXCEPT ![m] = d]
        /\ barred' = [barred EXCEPT ![m] = dismissed[c]]
        /\ UNCHANGED <<row, from, bounds, dismissed, crossed>>

\* createSession: upsertSession, then "Session started." is sent.
Created(m) ==
    /\ at[m] = "create"
    /\ row' = [row EXCEPT ![from[m]] = ses[m]]
    /\ Goto(m, "greet")
    /\ UNCHANGED <<binding, place, queue, from, ses, unconfirmed, bounds, history>>

Greeted(m) ==
    /\ at[m] = "greet"
    /\ Goto(m, "queued") /\ Enqueue(m, ses[m])
    /\ UNCHANGED <<store, place, from, ses, unconfirmed, bounds, history>>

\* getUpdates with the next offset, once every handler of the batch is over
Confirm ==
    /\ unconfirmed # {} /\ BotIdle
    /\ unconfirmed' = {}
    /\ UNCHANGED <<store, place, queue, from, at, ses, bounds, history>>

-----------------------------------------------------------------------------
(* The task of a message in the chain of its session *)

TurnOnceStarted(m) ==
    \E i \in 1..Len(queue[ses[m]]) :
        /\ queue[ses[m]][i] = m
        /\ \A j \in 1..(i - 1) : at[queue[ses[m]][j]] # "queued"

Turn(m) == queue[ses[m]] # <<>> /\ Head(queue[ses[m]]) = m

Start(m) ==
    /\ at[m] = "queued" /\ Turn(m)
    /\ Goto(m, "prompt")
    /\ UNCHANGED <<store, place, queue, from, ses, unconfirmed, bounds, history>>

\* A reply with text; no text and no tool call is asked for once more.
Answered(m) ==
    /\ \/ at[m] \in {"prompt", "retry"} /\ Goto(m, "reply")
       \/ at[m] = "prompt" /\ Goto(m, "retry")
    /\ UNCHANGED <<store, place, queue, from, ses, unconfirmed, bounds, history>>

Dismiss(c, S) == dismissed' = [dismissed EXCEPT ![c] = @ \cup (S \ {None})]

KeepRow(c) == UNCHANGED row

DeleteSession(c) == row' = [row EXCEPT ![c] = None]

\* No visible text: whatever session the chat has by now is forgotten.
NoReply(m) ==
    /\ at[m] \in {"prompt", "retry"}
    /\ Goto(m, "reply")
    /\ DeleteSession(from[m])
    /\ Dismiss(from[m], {ses[m], row[from[m]]})
    /\ UNCHANGED <<binding, place, queue, from, ses, unconfirmed, bounds, bound,
                   barred, crossed>>

LeaveUncaught(m, how) ==
    /\ Goto(m, how)
    /\ queue' = IF how = "lost" THEN queue
                ELSE [queue EXCEPT ![ses[m]] = Tail(@)]

\* The task is over, and so is its promise, kept or not.
Leave(m, how) ==
    /\ Goto(m, how)
    /\ queue' = [queue EXCEPT ![ses[m]] = Tail(@)]

Sent(m) ==
    /\ at[m] \in {"reply", "error"}
    /\ Leave(m, "done")
    /\ UNCHANGED <<store, place, from, ses, unconfirmed, bounds, history>>

-----------------------------------------------------------------------------
(* Commands of the chat, and the bindings of the HTTP API *)

Creating(c) == {ses[m] : m \in {n \in Msg : from[n] = c /\ at[n] = "create"}}

\* What a reset, a change of the directory or of the binding have in common.
ForgetSession(c) ==
    /\ commands < MaxCommands
    /\ commands' = commands + 1
    /\ DeleteSession(c)
    /\ Dismiss(c, {row[c]} \cup Creating(c))
    /\ crossed' = crossed \cup Creating(c)
    /\ UNCHANGED <<place, queue, from, at, ses, unconfirmed, faults, bound, barred>>

\* /reset
Reset(c) ==
    /\ c \in Telegram => BotIdle
    /\ ForgetSession(c)
    /\ UNCHANGED binding

\* /dir, setBinding, and sendMessage with autoBind
SetBinding(c, d) ==
    /\ ForgetSession(c)
    /\ binding' = [binding EXCEPT ![c] = d]

ClearBinding(c) ==
    /\ ForgetSession(c)
    /\ binding' = [binding EXCEPT ![c] = None]

-----------------------------------------------------------------------------
(* Failures *)

CanFail == faults < MaxFaults /\ faults' = faults + 1

\* createSession throws: the adapter logs it, the message is gone.
HandlerFails(m) ==
    /\ CanFail /\ at[m] \in Handling
    /\ Goto(m, "lost")
    /\ UNCHANGED <<store, place, queue, from, ses, unconfirmed, commands, history>>

\* The prompt, or the sending of what came of it, throws into the catch block.
PromptFails(m) ==
    /\ CanFail /\ at[m] \in Running \ {"error"}
    /\ Goto(m, "error")
    /\ UNCHANGED <<store, place, queue, from, ses, unconfirmed, commands, history>>

\* The error cannot be sent either: the task rejects.
TaskFails(m) ==
    /\ at[m] = "error"
    /\ Leave(m, "lost")
    /\ UNCHANGED <<store, place, from, ses, unconfirmed, bounds, history>>

\* The router dies and is started again: SQLite is what is left.
Restart ==
    /\ CanFail
    /\ at' = [m \in Msg |-> IF m \in unconfirmed THEN "sent"
                            ELSE IF at[m] \in Waiting THEN "lost" ELSE at[m]]
    /\ queue' = [s \in Session |-> <<>>]
    /\ unconfirmed' = {}
    /\ UNCHANGED <<store, place, from, ses, commands, history>>

-----------------------------------------------------------------------------
Step(m) ==
    Created(m) \/ Greeted(m) \/ Start(m) \/ Answered(m) \/ NoReply(m) \/ Sent(m)

Next ==
    \/ \E m \in Msg :
          Arrive(m) \/ Step(m) \/ HandlerFails(m) \/ PromptFails(m) \/ TaskFails(m)
    \/ \E c \in Chat :
          Reset(c) \/ ClearBinding(c) \/ \E d \in Directory : SetBinding(c, d)
    \/ Confirm \/ Restart

Spec == Init /\ [][Next]_vars

\* Every request to OpenCode, Slack or Telegram is answered or fails; chats,
\* the host and the network owe nothing.
FairSpec == Spec /\ \A m \in Msg : WF_vars(Step(m))

-----------------------------------------------------------------------------
(* Properties *)

InSession(m) == at[m] \in {"queued"} \cup Running

\* "routes messages based on (channel, identityId, peerId) -> directory": a
\* message is prompted in a session of the directory its chat was bound to when
\* it came, although an older message may have stored a session of another
\* directory after the change.
RunsWhereBound == \A m \in Msg : InSession(m) => place[ses[m]] = bound[m]

\* A session its chat has given up, by a command, a change of the binding or for
\* want of a visible reply, is not prompted for any message that comes later,
\* not after a restart either; a session that was being created is excepted.
StaleSessionLeft ==
    \A m \in Msg : InSession(m) /\ ses[m] \in barred[m] => ses[m] \in crossed

\* Two tasks of one session never run at once, whatever fails, however many
\* handlers are under way and whatever Telegram sends again after a restart.
OneAtATime ==
    \A m, n \in Msg : m # n /\ at[m] \in Running /\ at[n] \in Running => ses[m] # ses[n]

\* In a Telegram chat the messages of a session are prompted in the order in
\* which they came, although a handler may wait long before it enqueues and
\* Telegram sends some of them twice.
TelegramInOrder ==
    \A m, n \in Msg :
        /\ m < n /\ ses[m] = ses[n]
        /\ from[n] \in Telegram /\ at[n] \in Running
        => at[m] \in Running \cup Ended

\* No message is left hanging behind one that failed: every message that came
\* is answered, lost to a failure, or asked for again.
EveryMessageEnds ==
    \A m \in Msg : at[m] \in Waiting ~> at[m] \in Ended \cup {"sent"}

\* "Send a message to start fresh": a message that comes after a reset is not
\* prompted in a session that was made for an earlier one.
FreshAfterReset == \A m \in Msg : InSession(m) => ses[m] \notin barred[m]

=============================================================================
