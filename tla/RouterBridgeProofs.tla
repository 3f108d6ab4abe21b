-------------------------- MODULE RouterBridgeProofs --------------------------
(***************************************************************************)
(* For any number of chats, messages, directories, commands and failures:  *)
(* a prompt runs in the directory its chat was bound to, and the prompts   *)
(* of a session run one at a time.  The invariant adds what the code keeps *)
(* without saying so: who has a session has one of its own directory, a    *)
(* stored session exists, and whoever runs is the first of its chain.      *)
(***************************************************************************)
EXTENDS RouterBridge, SequenceTheorems, TLAPS

Placed ==
    /\ \A m \in Msg : at[m] \in Waiting => place[ses[m]] = bound[m]
    /\ \A c \in Chat : row[c] # None => place[row[c]] # None

Front ==
    \A m \in Msg : at[m] \in Running =>
        queue[ses[m]] # <<>> /\ Head(queue[ses[m]]) = m

IInv == TypeOK /\ Placed /\ Front

-----------------------------------------------------------------------------
(* The invariant gives the properties. *)

LEMMA IInvGivesRunsWhereBound == IInv => RunsWhereBound
  BY DEF IInv, Placed, RunsWhereBound, InSession, Waiting

LEMMA IInvGivesOneAtATime == IInv => OneAtATime
  BY DEF IInv, Front, OneAtATime

LEMMA InitIInv == Init => IInv
  <1> SUFFICES ASSUME Init PROVE IInv
    OBVIOUS
  <1> USE ConstantsAssumption
  <1>1. TypeOK
    BY DEF Init, TypeOK, Msg, Waiting, Handling, Running
  <1>2. Placed /\ Front
    BY DEF Init, Placed, Front, Waiting, Handling, Running
  <1> QED BY <1>1, <1>2 DEF IInv

-----------------------------------------------------------------------------
(* handleInbound *)

\* The directory resolved for a chat is one.
LEMMA DirectoryResolved ==
    ASSUME IInv, NEW c \in Chat
    PROVE  DirectoryFor(c) \in Directory /\ DirectoryFor(c) # None
  BY ConstantsAssumption DEF IInv, TypeOK, Placed, DirectoryFor

\* The chain of a session keeps its head when a message is appended.
LEMMA AppendKeepsFront ==
    ASSUME IInv, NEW m \in Msg, NEW s \in Session, Enqueue(m, s)
    PROVE  /\ queue' \in [Session -> Seq(Msg)]
           /\ \A r \in Session : queue[r] # <<>> =>
                 queue'[r] # <<>> /\ Head(queue'[r]) = Head(queue[r])
  <1>1. queue \in [Session -> Seq(Msg)]
    BY DEF IInv, TypeOK
  <1>2. Append(queue[s], m) \in Seq(Msg) /\ Append(queue[s], m) # <<>>
    BY <1>1, AppendProperties
  <1>3. queue' = [queue EXCEPT ![s] = Append(queue[s], m)]
    BY DEF Enqueue
  <1>4. ASSUME queue[s] # <<>>
        PROVE  Head(Append(queue[s], m)) = Head(queue[s])
    <2>1. queue[s] \in Seq(Msg) /\ 1 \in 1..Len(queue[s])
      BY <1>1, <1>4, EmptySeq
    <2>2. Append(queue[s], m)[1] = queue[s][1]
      BY <2>1, AppendProperties
    <2> QED BY <1>2, <1>4, <2>1, <2>2
  <1> QED BY <1>1, <1>2, <1>3, <1>4

LEMMA ArriveIInv ==
    ASSUME IInv, NEW m \in Msg, Arrive(m)
    PROVE  IInv'
  <1> USE ConstantsAssumption
  <1> DEFINE c == from[m]
             d == DirectoryFor(c)
  <1>1. c \in Chat /\ d \in Directory /\ d # None
    BY DirectoryResolved DEF IInv, TypeOK
  <1> HIDE DEF d
  <1>2. /\ at[m] = "sent"
        /\ binding' = [binding EXCEPT ![c] = d]
        /\ bound' = [bound EXCEPT ![m] = d]
        /\ barred' = [barred EXCEPT ![m] = dismissed[c]]
        /\ unconfirmed' \subseteq unconfirmed \cup {m}
        /\ UNCHANGED <<row, from, bounds, dismissed, crossed>>
    BY DEF Arrive, d
  <1>3. /\ binding' \in [Chat -> Directory \cup {None}]
        /\ bound' \in [Msg -> Directory \cup {None}]
        /\ barred' \in [Msg -> SUBSET Session]
        /\ unconfirmed' \subseteq Msg
        /\ row' \in [Chat -> Session \cup {None}] /\ from' \in [Msg -> Chat]
        /\ commands' \in 0..MaxCommands /\ faults' \in 0..MaxFaults
        /\ dismissed' \in [Chat -> SUBSET Session] /\ crossed' \subseteq Session
    BY <1>1, <1>2 DEF IInv, TypeOK, bounds
  <1>4. CASE Reusable(c, d)
    <2>1. /\ row[c] \in Session /\ place[row[c]] = d
          /\ ses' = [ses EXCEPT ![m] = row[c]]
          /\ at' = [at EXCEPT ![m] = "queued"]
          /\ Enqueue(m, row[c]) /\ place' = place
      BY <1>1, <1>4 DEF Arrive, Reusable, Goto, IInv, TypeOK, d
    <2>2. TypeOK'
      BY <1>1, <1>2, <1>3, <2>1, AppendKeepsFront
         DEF IInv, TypeOK, Waiting, Handling, Running, Ended
    <2>3. Placed'
      BY <1>1, <1>2, <2>1 DEF IInv, TypeOK, Placed, Waiting
    <2>4. Front'
      BY <2>1, AppendKeepsFront DEF IInv, TypeOK, Front, Running, Waiting
    <2> QED BY <2>2, <2>3, <2>4 DEF IInv
  <1>5. CASE ~Reusable(c, d)
    <2>1. PICK s \in Unused : place' = [place EXCEPT ![s] = d] /\ ses' = [ses EXCEPT ![m] = s]
      BY <1>5 DEF Arrive, d
    <2>2. /\ s \in Session /\ place[s] = None
          /\ at' = [at EXCEPT ![m] = "create"] /\ queue' = queue
      BY <1>5, <2>1 DEF Arrive, Unused, Goto, d
    <2>3. TypeOK'
      BY <1>1, <1>2, <1>3, <2>1, <2>2
         DEF IInv, TypeOK, Waiting, Handling, Running, Ended
    <2>4. Placed'
      BY <1>1, <1>2, <2>1, <2>2 DEF IInv, TypeOK, Placed, Waiting
    <2>5. Front'
      BY <2>1, <2>2 DEF IInv, TypeOK, Front, Running
    <2> QED BY <2>3, <2>4, <2>5 DEF IInv
  <1> QED BY <1>4, <1>5

LEMMA CreatedIInv ==
    ASSUME IInv, NEW m \in Msg, Created(m)
    PROVE  IInv'
  <1> USE ConstantsAssumption
  <1>1. /\ row' = [row EXCEPT ![from[m]] = ses[m]]
        /\ at' = [at EXCEPT ![m] = "greet"] /\ at[m] = "create"
        /\ UNCHANGED <<binding, place, queue, from, ses, unconfirmed, bounds, history>>
    BY DEF Created, Goto
  <1>2. from[m] \in Chat /\ ses[m] \in Session /\ place[ses[m]] # None
    BY <1>1 DEF IInv, TypeOK, Placed, Waiting, Handling
  <1>3. TypeOK'
    BY <1>1, <1>2 DEF IInv, TypeOK, bounds, history, Waiting, Handling, Running
  <1>4. Placed'
    BY <1>1, <1>2 DEF IInv, TypeOK, Placed, history, Waiting, Handling
  <1>5. Front'
    BY <1>1 DEF IInv, TypeOK, Front, Running
  <1> QED BY <1>3, <1>4, <1>5 DEF IInv

LEMMA GreetedIInv ==
    ASSUME IInv, NEW m \in Msg, Greeted(m)
    PROVE  IInv'
  <1> USE ConstantsAssumption
  <1>1. /\ at' = [at EXCEPT ![m] = "queued"] /\ at[m] = "greet"
        /\ Enqueue(m, ses[m])
        /\ UNCHANGED <<store, place, from, ses, unconfirmed, bounds, history>>
    BY DEF Greeted, Goto
  <1>2. ses[m] \in Session
    BY <1>1 DEF IInv, TypeOK, Waiting, Handling
  <1>3. TypeOK'
    BY <1>1, <1>2, AppendKeepsFront
       DEF IInv, TypeOK, store, bounds, history, Waiting, Handling, Running
  <1>4. Placed'
    BY <1>1 DEF IInv, TypeOK, Placed, store, history, Waiting, Handling
  <1>5. Front'
    BY <1>1, <1>2, AppendKeepsFront DEF IInv, TypeOK, Front, Running, Waiting
  <1> QED BY <1>3, <1>4, <1>5 DEF IInv

-----------------------------------------------------------------------------
(* The task of a message *)

\* A step of the task, or of the handler's end, that only moves the message on.
LEMMA MovesOn ==
    ASSUME IInv, NEW m \in Msg, NEW step,
           Goto(m, step),
           step \in {"prompt", "retry", "reply", "error"} \cup Ended,
           step \in Running => \/ at[m] \in Running
                               \/ at[m] = "queued" /\ Turn(m),
           UNCHANGED <<store, place, queue, from, ses, unconfirmed, history>>,
           commands' = commands, faults' \in 0..MaxFaults
    PROVE  IInv'
  <1> USE ConstantsAssumption
  <1>1. at' = [at EXCEPT ![m] = step]
    BY DEF Goto
  <1>2. step \in Waiting => at[m] \in Waiting
    BY DEF Waiting, Handling, Running, Ended
  <1>3. TypeOK'
    BY <1>1, <1>2 DEF IInv, TypeOK, store, history, Waiting, Handling, Running, Ended
  <1>4. Placed'
    BY <1>1, <1>2 DEF IInv, TypeOK, Placed, store, history
  <1>5. Front'
    BY <1>1 DEF IInv, TypeOK, Front, Turn
  <1> QED BY <1>3, <1>4, <1>5 DEF IInv

LEMMA NoReplyIInv ==
    ASSUME IInv, NEW m \in Msg, NoReply(m)
    PROVE  IInv'
  <1> USE ConstantsAssumption
  <1> DEFINE c == from[m]
  <1>1. /\ at' = [at EXCEPT ![m] = "reply"] /\ at[m] \in Running
        /\ row' = [row EXCEPT ![c] = None]
        /\ dismissed' = [dismissed EXCEPT ![c] = @ \cup ({ses[m], row[c]} \ {None})]
        /\ UNCHANGED <<binding, place, queue, from, ses, unconfirmed, bounds, bound,
                       barred, crossed>>
    BY DEF NoReply, Goto, DeleteSession, Dismiss, Running
  <1>2. c \in Chat /\ ses[m] \in Session \cup {None} /\ row[c] \in Session \cup {None}
    BY DEF IInv, TypeOK
  <1>3. dismissed' \in [Chat -> SUBSET Session]
    BY <1>1, <1>2 DEF IInv, TypeOK
  <1>4. TypeOK'
    BY <1>1, <1>2, <1>3 DEF IInv, TypeOK, bounds, Waiting, Running
  <1>5. Placed'
    BY <1>1, <1>2 DEF IInv, TypeOK, Placed, Waiting
  <1>6. Front'
    BY <1>1 DEF IInv, TypeOK, Front, Running
  <1> QED BY <1>4, <1>5, <1>6 DEF IInv

\* The end of a task takes the head off its own chain, where nobody else runs.
LEMMA LeaveIInv ==
    ASSUME IInv, NEW m \in Msg, at[m] \in Running, NEW how \in Ended,
           Leave(m, how),
           UNCHANGED <<store, place, from, ses, unconfirmed, bounds, history>>
    PROVE  IInv'
  <1> USE ConstantsAssumption
  <1>1. /\ at' = [at EXCEPT ![m] = how]
        /\ queue' = [queue EXCEPT ![ses[m]] = Tail(queue[ses[m]])]
    BY DEF Leave, Goto
  <1>2. how \notin Waiting
    BY DEF Ended, Waiting, Handling, Running
  <1>3. ses[m] \in Session /\ queue[ses[m]] \in Seq(Msg) /\ queue[ses[m]] # <<>>
    BY DEF IInv, TypeOK, Front, Waiting
  <1>4. queue' \in [Session -> Seq(Msg)]
    BY <1>1, <1>3, HeadTailProperties DEF IInv, TypeOK
  <1>5. TypeOK'
    BY <1>1, <1>2, <1>4 DEF IInv, TypeOK, store, bounds, history
  <1>6. Placed'
    BY <1>1, <1>2 DEF IInv, TypeOK, Placed, store, history
  <1>7. Front'
    <2> SUFFICES ASSUME NEW n \in Msg, at'[n] \in Running
                 PROVE  queue'[ses'[n]] # <<>> /\ Head(queue'[ses'[n]]) = n
      BY DEF Front
    <2>1. n # m /\ at[n] \in Running
      BY <1>1, <1>2 DEF IInv, TypeOK, Waiting
    <2>2. ses[n] # ses[m]
      BY <2>1 DEF IInv, Front
    <2> QED BY <1>1, <1>3, <2>1, <2>2 DEF IInv, TypeOK, Front
  <1> QED BY <1>5, <1>6, <1>7 DEF IInv

-----------------------------------------------------------------------------
(* Commands and failures *)

LEMMA ForgetIInv ==
    ASSUME IInv, NEW c \in Chat, ForgetSession(c),
           binding' \in [Chat -> Directory \cup {None}]
    PROVE  IInv'
  <1> USE ConstantsAssumption
  <1>1. /\ commands < MaxCommands /\ commands' = commands + 1
        /\ row' = [row EXCEPT ![c] = None]
        /\ dismissed' = [dismissed EXCEPT
              ![c] = @ \cup (({row[c]} \cup Creating(c)) \ {None})]
        /\ crossed' = crossed \cup Creating(c)
        /\ UNCHANGED <<place, queue, from, at, ses, unconfirmed, faults, bound, barred>>
    BY DEF ForgetSession, DeleteSession, Dismiss
  <1>2. Creating(c) \subseteq Session
    BY DEF IInv, TypeOK, Creating, Waiting, Handling
  <1>3. /\ dismissed' \in [Chat -> SUBSET Session] /\ crossed' \subseteq Session
        /\ commands' \in 0..MaxCommands
    BY <1>1, <1>2 DEF IInv, TypeOK
  <1>4. TypeOK'
    BY <1>1, <1>3 DEF IInv, TypeOK
  <1>5. Placed' /\ Front'
    BY <1>1 DEF IInv, TypeOK, Placed, Front
  <1> QED BY <1>4, <1>5 DEF IInv

LEMMA RestartIInv ==
    ASSUME IInv, Restart
    PROVE  IInv'
  <1> USE ConstantsAssumption
  <1>1. /\ at' = [m \in Msg |-> IF m \in unconfirmed THEN "sent"
                                ELSE IF at[m] \in Waiting THEN "lost" ELSE at[m]]
        /\ queue' = [s \in Session |-> <<>>] /\ unconfirmed' = {}
        /\ faults' \in 0..MaxFaults
        /\ UNCHANGED <<store, place, from, ses, commands, history>>
    BY DEF Restart, CanFail, IInv, TypeOK
  <1>2. \A m \in Msg : at'[m] \in {"sent"} \cup Ended /\ at'[m] \notin Waiting
    BY <1>1 DEF IInv, TypeOK, Waiting, Handling, Running, Ended
  <1>3. TypeOK'
    BY <1>1, <1>2 DEF IInv, TypeOK, store, history
  <1>4. Placed' /\ Front'
    BY <1>1, <1>2 DEF IInv, TypeOK, Placed, Front, store, history, Waiting
  <1> QED BY <1>3, <1>4 DEF IInv

LEMMA ConfirmIInv ==
    ASSUME IInv, Confirm
    PROVE  IInv'
  BY DEF IInv, TypeOK, Placed, Front, Confirm, store, bounds, history

LEMMA StutterIInv ==
    ASSUME IInv, UNCHANGED vars
    PROVE  IInv'
  BY DEF IInv, TypeOK, Placed, Front, vars, store, bounds, history

-----------------------------------------------------------------------------
(* Every step *)

LEMMA MessageIInv ==
    ASSUME IInv, NEW m \in Msg,
           Step(m) \/ HandlerFails(m) \/ PromptFails(m) \/ TaskFails(m)
    PROVE  IInv'
  <1> USE ConstantsAssumption
  <1>0. faults \in 0..MaxFaults
    BY DEF IInv, TypeOK
  <1>1. CASE Created(m)
    BY <1>1, CreatedIInv
  <1>2. CASE Greeted(m)
    BY <1>2, GreetedIInv
  <1>3. CASE Start(m)
    <2>1. /\ at[m] = "queued" /\ Turn(m) /\ Goto(m, "prompt")
          /\ UNCHANGED <<store, place, queue, from, ses, unconfirmed, bounds, history>>
      BY <1>3 DEF Start
    <2> QED BY <2>1, <1>0, MovesOn DEF bounds
  <1>4. CASE Answered(m)
    <2>1. PICK step \in {"reply", "retry"} :
            /\ at[m] \in {"prompt", "retry"} /\ Goto(m, step)
            /\ UNCHANGED <<store, place, queue, from, ses, unconfirmed, bounds, history>>
      BY <1>4 DEF Answered
    <2> QED BY <2>1, <1>0, MovesOn DEF bounds, Running
  <1>5. CASE NoReply(m)
    BY <1>5, NoReplyIInv
  <1>6. CASE Sent(m)
    <2>1. /\ at[m] \in Running /\ Leave(m, "done") /\ "done" \in Ended
          /\ UNCHANGED <<store, place, from, ses, unconfirmed, bounds, history>>
      BY <1>6 DEF Sent, Running, Ended
    <2> QED BY <2>1, LeaveIInv
  <1>7. CASE HandlerFails(m)
    <2>1. /\ Goto(m, "lost") /\ "lost" \in Ended /\ "lost" \notin Running
          /\ commands' = commands /\ faults' \in 0..MaxFaults
          /\ UNCHANGED <<store, place, queue, from, ses, unconfirmed, history>>
      BY <1>7, <1>0 DEF HandlerFails, CanFail, Ended, Running
    <2> QED BY <2>1, MovesOn
  <1>8. CASE PromptFails(m)
    <2>1. /\ at[m] \in Running /\ Goto(m, "error")
          /\ commands' = commands /\ faults' \in 0..MaxFaults
          /\ UNCHANGED <<store, place, queue, from, ses, unconfirmed, history>>
      BY <1>8, <1>0 DEF PromptFails, CanFail
    <2> QED BY <2>1, MovesOn
  <1>9. CASE TaskFails(m)
    <2>1. /\ at[m] \in Running /\ Leave(m, "lost") /\ "lost" \in Ended
          /\ UNCHANGED <<store, place, from, ses, unconfirmed, bounds, history>>
      BY <1>9 DEF TaskFails, Running, Ended
    <2> QED BY <2>1, LeaveIInv
  <1> QED BY <1>1, <1>2, <1>3, <1>4, <1>5, <1>6, <1>7, <1>8, <1>9 DEF Step

LEMMA CommandIInv ==
    ASSUME IInv, NEW c \in Chat,
           Reset(c) \/ ClearBinding(c) \/ \E d \in Directory : SetBinding(c, d)
    PROVE  IInv'
  <1>1. ForgetSession(c)
    BY DEF Reset, ClearBinding, SetBinding
  <1>2. binding' \in [Chat -> Directory \cup {None}]
    BY DEF Reset, ClearBinding, SetBinding, IInv, TypeOK
  <1> QED BY <1>1, <1>2, ForgetIInv

LEMMA NextIInv ==
    ASSUME IInv, [Next]_vars
    PROVE  IInv'
  <1>1. CASE \E m \in Msg : Arrive(m)
    BY <1>1, ArriveIInv
  <1>2. CASE \E m \in Msg :
                Step(m) \/ HandlerFails(m) \/ PromptFails(m) \/ TaskFails(m)
    BY <1>2, MessageIInv
  <1>3. CASE \E c \in Chat :
                Reset(c) \/ ClearBinding(c) \/ \E d \in Directory : SetBinding(c, d)
    BY <1>3, CommandIInv
  <1>4. CASE Confirm
    BY <1>4, ConfirmIInv
  <1>5. CASE Restart
    BY <1>5, RestartIInv
  <1>6. CASE UNCHANGED vars
    BY <1>6, StutterIInv
  <1> QED BY <1>1, <1>2, <1>3, <1>4, <1>5, <1>6 DEF Next

\* The invariant holds whatever chats, failures and restarts do.
THEOREM InvariantHolds == Spec => []IInv
  <1>1. Init => IInv
    BY InitIInv
  <1>2. IInv /\ [Next]_vars => IInv'
    BY NextIInv
  <1> QED BY <1>1, <1>2, PTL DEF Spec

\* Every variable has its type, and whoever is under way has a session and a
\* directory.
THEOREM TypeCorrect == Spec => []TypeOK
  <1>1. IInv => TypeOK
    BY DEF IInv
  <1> QED BY <1>1, InvariantHolds, PTL

\* A message is prompted in a session of the directory its chat was bound to
\* when it came: handleInbound takes the stored session only if its directory is
\* that one.
THEOREM PromptsRunWhereBound == Spec => []RunsWhereBound
  BY InvariantHolds, IInvGivesRunsWhereBound, PTL

\* The promise chain of a session serialises its prompts.
THEOREM PromptsRunOneAtATime == Spec => []OneAtATime
  BY InvariantHolds, IInvGivesOneAtATime, PTL

=============================================================================
