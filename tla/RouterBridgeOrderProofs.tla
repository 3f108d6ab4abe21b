----------------------- MODULE RouterBridgeOrderProofs -----------------------
(***************************************************************************)
(* More about RouterBridge, for any number of chats, messages, commands    *)
(* and failures: a session its chat has given up is not prompted for later *)
(* messages, unless it was being created then; and the messages of a       *)
(* Telegram chat are prompted in order.  Each has an invariant of its own, *)
(* on top of IInv.                                                         *)
(***************************************************************************)
EXTENDS RouterBridgeProofs

\* Who is creating a session is alone with it, and what a chat has given up is
\* neither its row nor a session of a later message, but for those that were
\* being created.
GivenUp ==
    /\ \A c \in Chat : \A s \in dismissed[c] : place[s] # None
    /\ \A c \in Chat : row[c] \in dismissed[c] => row[c] \in crossed
    /\ \A m \in Msg : at[m] \in Waiting /\ ses[m] \in barred[m] => ses[m] \in crossed
    /\ \A m \in Msg : at[m] = "create" /\ ses[m] \in dismissed[from[m]] => ses[m] \in crossed
    /\ \A m, n \in Msg : at[m] = "create" /\ at[n] \in Waiting /\ m # n => ses[m] # ses[n]
    /\ \A m \in Msg : at[m] = "create" => \A c \in Chat : row[c] # ses[m]

LEMMA GivenUpGivesStaleSessionLeft == GivenUp => StaleSessionLeft
  BY DEF GivenUp, StaleSessionLeft, InSession, Waiting

LEMMA InitGivenUp == Init => GivenUp
  BY ConstantsAssumption DEF Init, GivenUp, Waiting, Handling, Running

\* A message finds the session of its chat, or asks for a new one.
LEMMA ArriveGivenUp ==
    ASSUME IInv, GivenUp, NEW m \in Msg, Arrive(m)
    PROVE  GivenUp'
  <1> USE ConstantsAssumption
  <1> DEFINE c == from[m]
             d == DirectoryFor(c)
  <1>1. c \in Chat /\ d \in Directory /\ d # None
    BY DirectoryResolved DEF IInv, TypeOK
  <1> HIDE DEF d
  <1>2. /\ at[m] = "sent" /\ barred' = [barred EXCEPT ![m] = dismissed[c]]
        /\ UNCHANGED <<row, from, dismissed, crossed>>
    BY DEF Arrive
  <1>3. CASE Reusable(c, d)
    <2>1. /\ row[c] \in Session /\ row[c] # None
          /\ ses' = [ses EXCEPT ![m] = row[c]]
          /\ at' = [at EXCEPT ![m] = "queued"] /\ place' = place
      BY <1>1, <1>3 DEF Arrive, Reusable, Goto, IInv, TypeOK, d
    <2>2. \A n \in Msg : n # m => /\ at'[n] = at[n] /\ ses'[n] = ses[n]
                                  /\ barred'[n] = barred[n]
      BY <1>2, <2>1 DEF IInv, TypeOK
    <2>3. at'[m] = "queued" /\ ses'[m] = row[c] /\ barred'[m] = dismissed[c]
      BY <1>2, <2>1 DEF IInv, TypeOK
    <2> QED BY <1>1, <1>2, <2>1, <2>2, <2>3 DEF GivenUp
  <1>4. CASE ~Reusable(c, d)
    <2>1. PICK s \in Unused : place' = [place EXCEPT ![s] = d] /\ ses' = [ses EXCEPT ![m] = s]
      BY <1>4 DEF Arrive, d
    <2>2. /\ s \in Session /\ place[s] = None /\ s # None
          /\ at' = [at EXCEPT ![m] = "create"]
      BY <1>4, <2>1 DEF Arrive, Unused, Goto, d
    <2>3. \A n \in Msg : n # m => /\ at'[n] = at[n] /\ ses'[n] = ses[n]
                                  /\ barred'[n] = barred[n]
      BY <1>2, <2>1, <2>2 DEF IInv, TypeOK
    <2>4. at'[m] = "create" /\ ses'[m] = s /\ barred'[m] = dismissed[c]
      BY <1>2, <2>1, <2>2 DEF IInv, TypeOK
    <2>5. \A b \in Chat : row[b] # s /\ s \notin dismissed[b]
      BY <2>2 DEF IInv, Placed, GivenUp
    <2>6. \A n \in Msg : at[n] \in Waiting => ses[n] # s
      BY <2>2 DEF IInv, TypeOK, Placed
    <2>7. \A r \in Session : place[r] # None => place'[r] # None
      BY <1>1, <2>1 DEF IInv, TypeOK
    <2>8. \A b \in Chat : dismissed[b] \subseteq Session
      BY DEF IInv, TypeOK
    <2> QED BY <1>1, <1>2, <2>3, <2>4, <2>5, <2>6, <2>7, <2>8 DEF GivenUp, Waiting, Handling
  <1> QED BY <1>3, <1>4

\* createSession stores the session: it was its creator's alone.
LEMMA CreatedGivenUp ==
    ASSUME IInv, GivenUp, NEW m \in Msg, Created(m)
    PROVE  GivenUp'
  <1>1. /\ row' = [row EXCEPT ![from[m]] = ses[m]]
        /\ at' = [at EXCEPT ![m] = "greet"] /\ at[m] = "create"
        /\ UNCHANGED <<place, from, ses, dismissed, barred, crossed>>
    BY DEF Created, Goto, history
  <1>2. from[m] \in Chat /\ at[m] \in Waiting
    BY <1>1 DEF IInv, TypeOK, Waiting, Handling
  <1>3. \A n \in Msg : at'[n] \in Waiting => at[n] \in Waiting
    BY <1>1, <1>2 DEF IInv, TypeOK
  <1>4. \A n \in Msg : at'[n] = "create" => n # m /\ at[n] = "create"
    BY <1>1 DEF IInv, TypeOK
  <1>5. \A b \in Chat : row'[b] = IF b = from[m] THEN ses[m] ELSE row[b]
    BY <1>1 DEF IInv, TypeOK
  <1> QED BY <1>1, <1>2, <1>3, <1>4, <1>5 DEF GivenUp

\* Steps after which nobody new is under way and no row is new.
LEMMA GoneOnGivenUp ==
    ASSUME GivenUp,
           \A n \in Msg : /\ at'[n] \in Waiting => at[n] \in Waiting
                          /\ at'[n] = "create" => at[n] = "create",
           UNCHANGED <<row, place, from, ses, barred, dismissed, crossed>>
    PROVE  GivenUp'
  BY DEF GivenUp

\* A reply without text: its session and the chat's row are given up.
LEMMA NoReplyGivenUp ==
    ASSUME IInv, GivenUp, NEW m \in Msg, NoReply(m)
    PROVE  GivenUp'
  <1> USE ConstantsAssumption
  <1> DEFINE c == from[m]
             S == {ses[m], row[c]} \ {None}
  <1>1. /\ at' = [at EXCEPT ![m] = "reply"] /\ at[m] \in Waiting
        /\ row' = [row EXCEPT ![c] = None]
        /\ dismissed' = [dismissed EXCEPT ![c] = @ \cup S]
        /\ UNCHANGED <<place, from, ses, barred, crossed>>
    BY DEF NoReply, Goto, DeleteSession, Dismiss, Waiting, Running
  <1>2. c \in Chat /\ at[m] # "create"
    BY DEF NoReply, IInv, TypeOK
  <1>3. \A s \in S : place[s] # None
    BY <1>1, <1>2 DEF IInv, TypeOK, Placed
  <1>4. \A n \in Msg : at[n] = "create" => ses[n] \notin S
    BY <1>1, <1>2 DEF GivenUp
  <1> HIDE DEF S
  <1>5. \A b \in Chat : dismissed'[b] = IF b = c THEN dismissed[b] \cup S ELSE dismissed[b]
    BY <1>1 DEF IInv, TypeOK
  <1>6. \A b \in Chat : row'[b] = IF b = c THEN None ELSE row[b]
    BY <1>1 DEF IInv, TypeOK
  <1>7. \A n \in Msg : /\ at'[n] \in Waiting => at[n] \in Waiting
                       /\ at'[n] = "create" => at[n] = "create"
    BY <1>1, <1>2 DEF IInv, TypeOK
  <1>8. \A b \in Chat : None \notin dismissed'[b]
    <2>1. None \notin S
      BY DEF S
    <2> QED BY <1>5, <2>1 DEF IInv, TypeOK
  <1>9. \A n \in Msg : at[n] = "create" => ses[n] # None
    BY DEF IInv, TypeOK, Waiting, Handling
  <1> QED BY <1>1, <1>2, <1>3, <1>4, <1>5, <1>6, <1>7, <1>8, <1>9 DEF GivenUp

\* A reset, or a change of the directory or the binding.
LEMMA ForgetGivenUp ==
    ASSUME IInv, GivenUp, NEW c \in Chat, ForgetSession(c)
    PROVE  GivenUp'
  <1> USE ConstantsAssumption
  <1> DEFINE S == ({row[c]} \cup Creating(c)) \ {None}
  <1>1. /\ row' = [row EXCEPT ![c] = None]
        /\ dismissed' = [dismissed EXCEPT ![c] = @ \cup S]
        /\ crossed' = crossed \cup Creating(c)
        /\ UNCHANGED <<place, from, at, ses, barred>>
    BY DEF ForgetSession, DeleteSession, Dismiss
  <1>2. \A s \in S : place[s] # None
    BY DEF IInv, TypeOK, Placed, Creating, Waiting, Handling
  <1>3. \A n \in Msg : at[n] = "create" /\ ses[n] \in S => ses[n] \in crossed'
    BY <1>1 DEF GivenUp
  <1>4. None \notin S
    OBVIOUS
  <1> HIDE DEF S
  <1>5. \A b \in Chat : dismissed'[b] = IF b = c THEN dismissed[b] \cup S ELSE dismissed[b]
    BY <1>1 DEF IInv, TypeOK
  <1>6. \A b \in Chat : row'[b] = IF b = c THEN None ELSE row[b]
    BY <1>1 DEF IInv, TypeOK
  <1>7. \A b \in Chat : None \notin dismissed'[b]
    BY <1>4, <1>5 DEF IInv, TypeOK
  <1>8. \A n \in Msg : at[n] = "create" => ses[n] # None
    BY DEF IInv, TypeOK, Waiting, Handling
  <1> QED BY <1>1, <1>2, <1>3, <1>5, <1>6, <1>7, <1>8 DEF GivenUp

LEMMA NextGivenUp ==
    ASSUME IInv, GivenUp, [Next]_vars
    PROVE  GivenUp'
  <1>1. ASSUME NEW m \in Msg, Arrive(m) PROVE GivenUp'
    BY <1>1, ArriveGivenUp
  <1>2. ASSUME NEW m \in Msg, Created(m) PROVE GivenUp'
    BY <1>2, CreatedGivenUp
  <1>3. ASSUME NEW m \in Msg, NoReply(m) PROVE GivenUp'
    BY <1>3, NoReplyGivenUp
  <1>4. ASSUME NEW m \in Msg, NEW step \in {"queued", "prompt", "retry", "reply", "error"} \cup Ended,
               Goto(m, step), step \in Waiting => at[m] \in Waiting,
               UNCHANGED <<row, place, from, ses, barred, dismissed, crossed>>
        PROVE  GivenUp'
    <2>1. step # "create"
      BY DEF Ended
    <2>2. \A n \in Msg : /\ at'[n] \in Waiting => at[n] \in Waiting
                         /\ at'[n] = "create" => at[n] = "create"
      BY <1>4, <2>1 DEF Goto, IInv, TypeOK
    <2> QED BY <1>4, <2>2, GoneOnGivenUp
  <1>5. ASSUME NEW m \in Msg, Greeted(m) \/ Start(m) \/ Answered(m) \/ PromptFails(m)
        PROVE  GivenUp'
    <2>1. at[m] \in Waiting /\ UNCHANGED <<row, place, from, ses, barred, dismissed, crossed>>
      BY <1>5 DEF Greeted, Start, Answered, PromptFails, Waiting, Handling, Running,
                  store, history
    <2>2. \E step \in {"queued", "prompt", "retry", "reply", "error"} : Goto(m, step)
      BY <1>5 DEF Greeted, Start, Answered, PromptFails
    <2> QED BY <1>4, <2>1, <2>2
  <1>6. ASSUME NEW m \in Msg, Sent(m) \/ HandlerFails(m) \/ TaskFails(m)
        PROVE  GivenUp'
    <2>1. UNCHANGED <<row, place, from, ses, barred, dismissed, crossed>>
      BY <1>6 DEF Sent, HandlerFails, TaskFails, store, history
    <2>2. \E step \in Ended : Goto(m, step)
      BY <1>6 DEF Sent, HandlerFails, TaskFails, Leave, Ended
    <2>3. \A step \in Ended : step \notin Waiting
      BY DEF Ended, Waiting, Handling, Running
    <2> QED BY <1>4, <2>1, <2>2, <2>3
  <1>7. ASSUME NEW c \in Chat,
               Reset(c) \/ ClearBinding(c) \/ \E d \in Directory : SetBinding(c, d)
        PROVE  GivenUp'
    BY <1>7, ForgetGivenUp DEF Reset, ClearBinding, SetBinding
  <1>8. CASE Confirm
    BY <1>8, GoneOnGivenUp DEF Confirm, store, history
  <1>9. CASE Restart
    <2>1. \A n \in Msg : at'[n] \notin Waiting
      BY <1>9 DEF Restart, Waiting, Handling, Running
    <2> QED BY <1>9, <2>1, GoneOnGivenUp DEF Restart, store, history, Waiting, Handling
  <1>10. CASE UNCHANGED vars
    BY <1>10, GoneOnGivenUp DEF vars, store, history
  <1> QED
    BY <1>1, <1>2, <1>3, <1>5, <1>6, <1>7, <1>8, <1>9, <1>10 DEF Next, Step

\* A session its chat has given up is not prompted for a later message, across
\* failures and restarts, unless it was being created when it was given up.
THEOREM GivenUpSessionsStayLeft == Spec => []StaleSessionLeft
  <1>1. IInv /\ GivenUp /\ [Next]_vars => GivenUp'
    BY NextGivenUp
  <1> QED BY <1>1, InitGivenUp, InvariantHolds, GivenUpGivesStaleSessionLeft, PTL DEF Spec

-----------------------------------------------------------------------------
\* A session that was ever a message's or a chat's is one chat's for good.
Owned ==
    /\ \A m \in Msg : ses[m] # None => place[ses[m]] # None
    /\ \A m, n \in Msg : ses[m] = ses[n] /\ ses[m] # None => from[m] = from[n]
    /\ \A m \in Msg : \A c \in Chat : ses[m] # None /\ row[c] = ses[m] => from[m] = c
    /\ \A c, d \in Chat : row[c] = row[d] /\ row[c] # None => c = d

AtRest == {"sent"} \cup Ended
InTask == {"queued"} \cup Running
FromTelegram == {m \in Msg : from[m] \in Telegram}

\* Messages are handed over in order, Telegram's one handler at a time.
HandedOver ==
    /\ \A m, n \in Msg : m < n /\ at[m] = "sent" => at[n] \in AtRest
    /\ \A m, n \in FromTelegram : m < n /\ at[m] \in Handling => at[n] \in AtRest

Has(q, m) == \E i \in 1..Len(q) : q[i] = m

\* No message is twice in a chain, and those in T are in order.
Sorted(q, T) ==
    \A i, j \in 1..Len(q) : i < j => q[i] # q[j] /\ (q[i] \in T => q[i] < q[j])

\* A chain holds the messages whose task has not ended, in order.
Chained ==
    /\ \A s \in Session : \A m \in Msg : Has(queue[s], m) => at[m] \in InTask /\ ses[m] = s
    /\ \A m \in Msg : at[m] = "queued" => Has(queue[ses[m]], m)
    /\ \A s \in Session : Sorted(queue[s], FromTelegram)

OrderInv == Owned /\ HandedOver /\ Chained

LEMMA OrderInvGivesTelegramInOrder ==
    ASSUME IInv, OrderInv
    PROVE  TelegramInOrder
  <1> USE ConstantsAssumption
  <1> SUFFICES ASSUME NEW m \in Msg, NEW n \in Msg, m < n, ses[m] = ses[n],
                      from[n] \in Telegram, at[n] \in Running
               PROVE  at[m] \in Running \cup Ended
    BY DEF TelegramInOrder
  <1>1. at[n] \notin AtRest /\ ses[n] \in Session
    BY DEF AtRest, Running, Ended, IInv, TypeOK, Waiting
  <1>2. n \in FromTelegram /\ from[m] = from[n] /\ m \in FromTelegram
    BY <1>1 DEF OrderInv, Owned, FromTelegram
  <1>3. at[m] # "sent" /\ at[m] \notin Handling
    BY <1>1, <1>2 DEF OrderInv, HandedOver
  <1>4. at[m] # "queued"
    <2> SUFFICES ASSUME at[m] = "queued" PROVE FALSE
      OBVIOUS
    <2>1. PICK i \in 1..Len(queue[ses[n]]) : queue[ses[n]][i] = m
      BY DEF OrderInv, Chained, Has
    <2>2. queue[ses[n]] \in Seq(Msg) /\ queue[ses[n]] # <<>> /\ Head(queue[ses[n]]) = n
      BY <1>1 DEF IInv, TypeOK, Front
    <2>3. queue[ses[n]][1] = n /\ 1 \in 1..Len(queue[ses[n]])
      BY <2>1, <2>2
    <2>4. m # n
      BY ConstantsAssumption DEF Msg
    <2>5. i # 1
      BY <2>1, <2>3, <2>4
    <2>6. 1 < i
      BY <2>1, <2>5
    <2>7. n < m
      BY <1>1, <1>2, <2>1, <2>3, <2>6 DEF OrderInv, Chained, Sorted
    <2> QED BY <2>7 DEF Msg
  <1> QED BY <1>3, <1>4 DEF IInv, TypeOK, Waiting

\* The end of a chain that is sorted, and what its head leaves.
LEMMA AppendSorted ==
    ASSUME NEW q \in Seq(Msg), NEW m \in Msg, NEW T, Sorted(q, T), ~Has(q, m),
           \A k \in Msg : Has(q, k) /\ k \in T => k < m
    PROVE  /\ Sorted(Append(q, m), T)
           /\ Has(Append(q, m), m)
           /\ \A k : Has(Append(q, m), k) <=> Has(q, k) \/ k = m
  <1> DEFINE r == Append(q, m)
  <1>1. /\ Len(r) = Len(q) + 1 /\ r[Len(q) + 1] = m
        /\ \A i \in 1..Len(q) : r[i] = q[i] /\ q[i] \in Msg
    OBVIOUS
  <1>2. \A k : Has(r, k) <=> Has(q, k) \/ k = m
    <2>1. \A i \in 1..Len(r) : i \in 1..Len(q) \/ i = Len(q) + 1
      BY <1>1
    <2>2. Len(q) + 1 \in 1..Len(r) /\ \A i \in 1..Len(q) : i \in 1..Len(r)
      BY <1>1
    <2> HIDE DEF r
    <2> QED BY <1>1, <2>1, <2>2 DEF Has
  <1>3. Sorted(r, T)
    <2> SUFFICES ASSUME NEW i \in 1..Len(r), NEW j \in 1..Len(r), i < j
                 PROVE  r[i] # r[j] /\ (r[i] \in T => r[i] < r[j])
      BY DEF Sorted
    <2>1. i \in 1..Len(q) /\ (j \in 1..Len(q) \/ j = Len(q) + 1)
      BY <1>1
    <2> HIDE DEF r
    <2> QED BY <1>1, <2>1 DEF Sorted, Has
  <1> QED BY <1>2, <1>3

LEMMA TailSorted ==
    ASSUME NEW q \in Seq(Msg), q # <<>>, NEW T, Sorted(q, T)
    PROVE  /\ Sorted(Tail(q), T)
           /\ \A k : Has(Tail(q), k) <=> Has(q, k) /\ k # Head(q)
  <1>1. Head(q) = q[1] /\ 1 \in 1..Len(q)
    OBVIOUS
  <1>2. \A i \in 1..Len(Tail(q)) :
           i + 1 \in 1..Len(q) /\ 1 < i + 1 /\ Tail(q)[i] = q[i + 1]
    OBVIOUS
  <1>3. \A i \in 1..Len(q) : i # 1 => i - 1 \in 1..Len(Tail(q)) /\ Tail(q)[i - 1] = q[i]
    OBVIOUS
  <1>4. \A i, j \in 1..Len(Tail(q)) : i < j => i + 1 < j + 1
    OBVIOUS
  <1>5. Sorted(Tail(q), T)
    BY <1>2, <1>4 DEF Sorted
  <1>6. \A k : Has(Tail(q), k) <=> Has(q, k) /\ k # Head(q)
    BY <1>1, <1>2, <1>3 DEF Sorted, Has
  <1> QED BY <1>5, <1>6

LEMMA InitOrderInv == Init => OrderInv
  <1> SUFFICES ASSUME Init PROVE OrderInv
    OBVIOUS
  <1>1. Owned
    BY DEF Init, Owned
  <1>3. HandedOver
    <2>1. \A m \in Msg : at[m] = "sent" /\ at[m] \in AtRest /\ at[m] \notin Handling
      BY DEF Init, AtRest, Handling
    <2> QED BY <2>1 DEF HandedOver, FromTelegram
  <1>2. Chained
    BY DEF Init, Chained, Has, Sorted
  <1> QED BY <1>1, <1>2, <1>3 DEF OrderInv

-----------------------------------------------------------------------------
(* How the parts are kept *)

LEMMA KeepsOwned ==
    ASSUME OrderInv, UNCHANGED <<place, from, ses>>,
           \A c \in Chat : row'[c] \in {row[c], None}
    PROVE  Owned'
  BY DEF OrderInv, Owned

\* Whoever goes on towards its end leaves the order of the hand-over alone.
LEMMA KeepsHandedOver ==
    ASSUME OrderInv, UNCHANGED from,
           \A n \in Msg : /\ at'[n] = "sent" => at[n] = "sent"
                          /\ at'[n] \in Handling => at[n] \in Handling
                          /\ at[n] \in AtRest => at'[n] \in AtRest
    PROVE  HandedOver'
  BY DEF OrderInv, HandedOver, FromTelegram

\* A message joins the end of a chain: all that are in it came before.
LEMMA JoinsChain ==
    ASSUME IInv, OrderInv, NEW m \in Msg, NEW s \in Session,
           at[m] \notin InTask,
           at' = [at EXCEPT ![m] = "queued"], Enqueue(m, s), UNCHANGED from,
           ses'[m] = s, \A n \in Msg : n # m => ses'[n] = ses[n],
           \A k \in FromTelegram : Has(queue[s], k) => k < m
    PROVE  Chained'
  <1> USE DEF OrderInv, Chained
  <1>1. queue[s] \in Seq(Msg) /\ Sorted(queue[s], FromTelegram) /\ ~Has(queue[s], m)
    BY DEF IInv, TypeOK
  <1>2. /\ queue'[s] = Append(queue[s], m)
        /\ \A r \in Session : r # s => queue'[r] = queue[r]
    BY DEF Enqueue, IInv, TypeOK
  <1>3. /\ Sorted(queue'[s], FromTelegram) /\ Has(queue'[s], m)
        /\ \A k : Has(queue'[s], k) <=> Has(queue[s], k) \/ k = m
    BY <1>1, <1>2, AppendSorted
  <1>4. FromTelegram' = FromTelegram
    BY DEF FromTelegram
  <1>5. at'[m] = "queued" /\ \A n \in Msg : n # m => at'[n] = at[n]
    BY DEF IInv, TypeOK
  <1>6. ASSUME NEW r \in Session, NEW n \in Msg, Has(queue'[r], n)
        PROVE  at'[n] \in InTask /\ ses'[n] = r
    <2>1. CASE n = m
      BY <1>1, <1>2, <1>3, <1>5, <1>6, <2>1 DEF InTask
    <2>2. CASE n # m
      BY <1>2, <1>3, <1>5, <1>6, <2>2
    <2> QED BY <2>1, <2>2
  <1>7. ASSUME NEW n \in Msg, at'[n] = "queued" PROVE Has(queue'[ses'[n]], n)
    <2>1. CASE n = m
      BY <1>3, <2>1
    <2>2. CASE n # m
      <3>1. Has(queue[ses[n]], n) /\ ses'[n] = ses[n] /\ ses[n] \in Session
        BY <1>5, <1>7, <2>2 DEF IInv, TypeOK, Waiting
      <3> QED BY <1>2, <1>3, <3>1
    <2> QED BY <2>1, <2>2
  <1>8. \A r \in Session : Sorted(queue'[r], FromTelegram')
    BY <1>2, <1>3, <1>4
  <1> QED BY <1>6, <1>7, <1>8

\* Steps that leave the chains alone.
LEMMA KeepsChained ==
    ASSUME OrderInv, UNCHANGED <<queue, from, ses>>,
           \A n \in Msg : /\ at'[n] = "queued" => at[n] = "queued"
                          /\ at[n] \in InTask => at'[n] \in InTask
    PROVE  Chained'
  BY DEF OrderInv, Chained, FromTelegram

LEMMA LeavesChain ==
    ASSUME IInv, OrderInv, NEW m \in Msg, at[m] \in Running, NEW how \in Ended,
           Leave(m, how), UNCHANGED <<from, ses>>
    PROVE  Chained'
  <1> USE ConstantsAssumption DEF OrderInv, Chained
  <1> DEFINE s == ses[m]
  <1>1. /\ s \in Session /\ queue[s] \in Seq(Msg) /\ queue[s] # <<>>
        /\ Head(queue[s]) = m
    BY DEF IInv, TypeOK, Front, Waiting
  <1>2. /\ queue'[s] = Tail(queue[s])
        /\ \A r \in Session : r # s => queue'[r] = queue[r]
    BY <1>1 DEF Leave, IInv, TypeOK
  <1>3. /\ Sorted(queue'[s], FromTelegram)
        /\ \A k : Has(queue'[s], k) <=> Has(queue[s], k) /\ k # m
    BY <1>1, <1>2, TailSorted
  <1>4. at'[m] = how /\ how # "queued" /\ \A n \in Msg : n # m => at'[n] = at[n]
    BY DEF Leave, Goto, Ended, IInv, TypeOK
  <1>5. FromTelegram' = FromTelegram
    BY DEF FromTelegram
  <1>6. ASSUME NEW r \in Session, NEW n \in Msg, Has(queue'[r], n)
        PROVE  at'[n] \in InTask /\ ses'[n] = r
    <2>1. Has(queue[r], n) /\ (r = s => n # m)
      BY <1>2, <1>3, <1>6
    <2>2. n # m
      BY <2>1
    <2> QED BY <1>4, <2>1, <2>2
  <1>7. ASSUME NEW n \in Msg, at'[n] = "queued" PROVE Has(queue'[ses'[n]], n)
    <2>1. n # m /\ Has(queue[ses[n]], n) /\ ses[n] \in Session
      BY <1>4, <1>7 DEF IInv, TypeOK, Waiting
    <2> QED BY <1>2, <1>3, <2>1
  <1>8. \A r \in Session : Sorted(queue'[r], FromTelegram')
    BY <1>2, <1>3, <1>5
  <1> QED BY <1>6, <1>7, <1>8

-----------------------------------------------------------------------------
(* Every step *)

LEMMA ArriveOrderInv ==
    ASSUME IInv, OrderInv, NEW m \in Msg, Arrive(m)
    PROVE  OrderInv'
  <1> USE ConstantsAssumption
  <1> DEFINE c == from[m]
             d == DirectoryFor(c)
  <1>1. c \in Chat /\ d \in Directory /\ d # None
    BY DirectoryResolved DEF IInv, TypeOK
  <1> HIDE DEF d
  <1>2. /\ at[m] = "sent" /\ \A n \in 1..(m - 1) : at[n] # "sent"
        /\ c \in Telegram => BotIdle
        /\ UNCHANGED <<row, from>>
    BY DEF Arrive
  <1>3. \A n \in Msg : n < m => at[n] # "sent"
    BY <1>2 DEF Msg
  <1>4. m \in FromTelegram => \A n \in FromTelegram : at[n] \notin Handling
    BY <1>2 DEF FromTelegram, BotIdle
  <1>5. \A n \in Msg : m < n => at[n] \in AtRest
    BY <1>2 DEF OrderInv, HandedOver
  <1>6. ASSUME NEW step \in {"queued", "create"}, at' = [at EXCEPT ![m] = step]
        PROVE  HandedOver'
    <2>1. /\ at'[m] = step /\ step # "sent" /\ step \notin AtRest
          /\ \A n \in Msg : n # m => at'[n] = at[n]
      BY <1>6 DEF IInv, TypeOK, AtRest, Ended
    <2>2. FromTelegram' = FromTelegram /\ FromTelegram \subseteq Msg
      BY <1>2 DEF FromTelegram
    <2>3. \A k, n \in Msg : k < n => k # n
      BY DEF Msg
    <2>4. ASSUME NEW k \in Msg, NEW n \in Msg, k < n, at'[k] = "sent"
          PROVE  at'[n] \in AtRest
      BY <1>3, <2>1, <2>3, <2>4 DEF OrderInv, HandedOver
    <2>5. ASSUME NEW k \in FromTelegram, NEW n \in FromTelegram, k < n, at'[k] \in Handling
          PROVE  at'[n] \in AtRest
      <3>1. CASE k = m
        BY <1>5, <2>1, <2>2, <2>3, <2>5, <3>1
      <3>2. CASE k # m
        BY <1>4, <2>1, <2>2, <2>5, <3>2 DEF OrderInv, HandedOver
      <3> QED BY <3>1, <3>2
    <2> QED BY <2>2, <2>4, <2>5 DEF HandedOver
  <1>7. CASE Reusable(c, d)
    <2>1. /\ row[c] \in Session /\ row[c] # None
          /\ ses' = [ses EXCEPT ![m] = row[c]]
          /\ at' = [at EXCEPT ![m] = "queued"]
          /\ Enqueue(m, row[c]) /\ place' = place
      BY <1>1, <1>7 DEF Arrive, Reusable, Goto, IInv, TypeOK, d
    <2>2. ses'[m] = row[c] /\ \A n \in Msg : n # m => ses'[n] = ses[n]
      BY <2>1 DEF IInv, TypeOK
    <2>3. Owned'
      BY <1>1, <1>2, <2>1, <2>2 DEF OrderInv, Owned, IInv, Placed
    <2>4. HandedOver'
      BY <1>6, <2>1
    <2>5. ASSUME NEW k \in FromTelegram, Has(queue[row[c]], k) PROVE k < m
      <3>1. k \in Msg /\ at[k] \in InTask
        BY <2>1, <2>5 DEF OrderInv, Chained, FromTelegram
      <3>2. at[k] \notin AtRest /\ k # m
        BY <1>2, <3>1 DEF InTask, AtRest, Running, Ended
      <3>3. ~(m < k)
        BY <1>5, <3>1, <3>2
      <3> QED BY <3>1, <3>2, <3>3 DEF Msg
    <2>6. at[m] \notin InTask
      BY <1>2 DEF InTask, Running
    <2>7. Chained'
      BY <1>2, <2>1, <2>2, <2>5, <2>6, JoinsChain
    <2> QED BY <2>3, <2>4, <2>7 DEF OrderInv
  <1>8. CASE ~Reusable(c, d)
    <2>1. PICK s \in Unused : place' = [place EXCEPT ![s] = d] /\ ses' = [ses EXCEPT ![m] = s]
      BY <1>8 DEF Arrive, d
    <2>2. /\ s \in Session /\ place[s] = None /\ s # None
          /\ at' = [at EXCEPT ![m] = "create"] /\ queue' = queue
      BY <1>8, <2>1 DEF Arrive, Unused, Goto, d
    <2>3. ses'[m] = s /\ \A n \in Msg : n # m => ses'[n] = ses[n]
      BY <2>1 DEF IInv, TypeOK
    <2>4. \A n \in Msg : ses[n] # s
      BY <2>2 DEF OrderInv, Owned
    <2>5. \A b \in Chat : row[b] # s
      BY <2>2 DEF IInv, Placed
    <2>6. \A r \in Session : place[r] # None => place'[r] # None
      BY <1>1, <2>1 DEF IInv, TypeOK
    <2>7. place'[s] # None /\ \A n \in Msg : ses[n] \in Session \cup {None}
      BY <1>1, <2>1, <2>2 DEF IInv, TypeOK
    <2>8. Owned'
      BY <1>1, <1>2, <2>2, <2>3, <2>4, <2>5, <2>6, <2>7 DEF OrderInv, Owned
    <2>9. HandedOver'
      BY <1>6, <2>2
    <2>10. Chained'
      <3>1. at'[m] = "create" /\ \A n \in Msg : n # m => at'[n] = at[n]
        BY <2>2 DEF IInv, TypeOK
      <3>2. \A r \in Session : ~Has(queue[r], m)
        BY <1>2 DEF OrderInv, Chained, InTask, Running
      <3>3. FromTelegram' = FromTelegram
        BY <1>2 DEF FromTelegram
      <3> QED BY <2>2, <2>3, <3>1, <3>2, <3>3 DEF OrderInv, Chained
    <2> QED BY <2>8, <2>9, <2>10 DEF OrderInv
  <1> QED BY <1>7, <1>8

LEMMA CreatedOrderInv ==
    ASSUME IInv, OrderInv, NEW m \in Msg, Created(m)
    PROVE  OrderInv'
  <1>1. /\ row' = [row EXCEPT ![from[m]] = ses[m]]
        /\ at' = [at EXCEPT ![m] = "greet"] /\ at[m] = "create"
        /\ UNCHANGED <<place, queue, from, ses>>
    BY DEF Created, Goto
  <1>2. ses[m] # None /\ from[m] \in Chat
    BY <1>1 DEF IInv, TypeOK, Waiting, Handling
  <1>3. \A b \in Chat : row'[b] = IF b = from[m] THEN ses[m] ELSE row[b]
    BY <1>1 DEF IInv, TypeOK
  <1>4. Owned'
    BY <1>1, <1>2, <1>3 DEF OrderInv, Owned
  <1>5. \A n \in Msg : /\ at'[n] = "sent" => at[n] = "sent"
                       /\ at'[n] \in Handling => at[n] \in Handling
                       /\ at[n] \in AtRest => at'[n] \in AtRest
                       /\ at'[n] = "queued" => at[n] = "queued"
                       /\ at[n] \in InTask => at'[n] \in InTask
    BY <1>1 DEF IInv, TypeOK, Handling, AtRest, Ended, InTask, Running
  <1>6. HandedOver' /\ Chained'
    BY <1>1, <1>5, KeepsHandedOver, KeepsChained
  <1> QED BY <1>4, <1>6 DEF OrderInv

LEMMA GreetedOrderInv ==
    ASSUME IInv, OrderInv, NEW m \in Msg, Greeted(m)
    PROVE  OrderInv'
  <1> USE ConstantsAssumption
  <1>1. /\ at' = [at EXCEPT ![m] = "queued"] /\ at[m] = "greet"
        /\ Enqueue(m, ses[m]) /\ UNCHANGED <<row, place, from, ses>>
    BY DEF Greeted, Goto, store
  <1>2. ses[m] \in Session /\ ses[m] # None /\ at[m] \in Handling /\ at[m] \notin InTask
    BY <1>1 DEF IInv, TypeOK, Waiting, Handling, InTask, Running
  <1>3. Owned'
    BY <1>1, KeepsOwned
  <1>4. \A n \in Msg : /\ at'[n] = "sent" => at[n] = "sent"
                       /\ at'[n] \in Handling => at[n] \in Handling
                       /\ at[n] \in AtRest => at'[n] \in AtRest
    BY <1>1 DEF IInv, TypeOK, Handling, AtRest, Ended
  <1>5. HandedOver'
    BY <1>1, <1>4, KeepsHandedOver
  <1>6. ASSUME NEW k \in FromTelegram, Has(queue[ses[m]], k) PROVE k < m
    <2>1. k \in Msg /\ at[k] \in InTask /\ ses[k] = ses[m]
      BY <1>2, <1>6 DEF OrderInv, Chained, FromTelegram
    <2>2. at[k] \notin AtRest /\ k # m
      BY <1>2, <2>1 DEF InTask, AtRest, Running, Ended
    <2>3. m \in FromTelegram
      BY <1>2, <1>6, <2>1 DEF OrderInv, Owned, FromTelegram
    <2>4. ~(m < k)
      BY <1>2, <1>6, <2>2, <2>3 DEF OrderInv, HandedOver
    <2> QED BY <2>1, <2>2, <2>4 DEF Msg
  <1>7. Chained'
    BY <1>1, <1>2, <1>6, JoinsChain
  <1> QED BY <1>3, <1>5, <1>7 DEF OrderInv

\* The task moves on, or the handler of a message that is in no chain fails.
LEMMA MovedOrderInv ==
    ASSUME IInv, OrderInv, NEW m \in Msg, NEW step, Goto(m, step),
           \/ at[m] \in InTask /\ step \in Running
           \/ at[m] \in Handling /\ step = "lost",
           UNCHANGED <<place, queue, from, ses>>,
           \A c \in Chat : row'[c] \in {row[c], None}
    PROVE  OrderInv'
  <1>1. \A n \in Msg : /\ at'[n] = "sent" => at[n] = "sent"
                       /\ at'[n] \in Handling => at[n] \in Handling
                       /\ at[n] \in AtRest => at'[n] \in AtRest
                       /\ at'[n] = "queued" => at[n] = "queued"
                       /\ at[n] \in InTask => at'[n] \in InTask
    BY DEF Goto, IInv, TypeOK, Handling, AtRest, Ended, InTask, Running
  <1> QED BY <1>1, KeepsOwned, KeepsHandedOver, KeepsChained DEF OrderInv

LEMMA LeaveOrderInv ==
    ASSUME IInv, OrderInv, NEW m \in Msg, at[m] \in Running, NEW how \in Ended,
           Leave(m, how), UNCHANGED <<row, place, from, ses>>
    PROVE  OrderInv'
  <1>1. \A n \in Msg : /\ at'[n] = "sent" => at[n] = "sent"
                       /\ at'[n] \in Handling => at[n] \in Handling
                       /\ at[n] \in AtRest => at'[n] \in AtRest
    BY DEF Leave, Goto, IInv, TypeOK, Handling, AtRest, Ended
  <1>2. Chained'
    BY LeavesChain
  <1> QED BY <1>1, <1>2, KeepsOwned, KeepsHandedOver DEF OrderInv

LEMMA StillOrderInv ==
    ASSUME OrderInv, UNCHANGED <<place, queue, from, at, ses>>,
           \A c \in Chat : row'[c] \in {row[c], None}
    PROVE  OrderInv'
  BY KeepsOwned, KeepsHandedOver, KeepsChained DEF OrderInv

\* After a restart nothing is under way, and the chains are gone.
LEMMA RestartOrderInv ==
    ASSUME IInv, OrderInv, Restart
    PROVE  OrderInv'
  <1>1. /\ at' = [m \in Msg |-> IF m \in unconfirmed THEN "sent"
                                ELSE IF at[m] \in Waiting THEN "lost" ELSE at[m]]
        /\ queue' = [s \in Session |-> <<>>]
        /\ UNCHANGED <<row, place, from, ses>>
    BY DEF Restart, store
  <1>2. \A m \in Msg : at'[m] \in AtRest
    BY <1>1 DEF IInv, TypeOK, AtRest, Ended
  <1>3. Owned'
    BY <1>1, KeepsOwned
  <1>4. HandedOver'
    BY <1>2 DEF HandedOver, FromTelegram
  <1>5. Chained'
    BY <1>1, <1>2 DEF Chained, Has, Sorted, AtRest, Ended
  <1> QED BY <1>3, <1>4, <1>5 DEF OrderInv

LEMMA NextOrderInv ==
    ASSUME IInv, OrderInv, [Next]_vars
    PROVE  OrderInv'
  <1>1. ASSUME NEW m \in Msg, Arrive(m) PROVE OrderInv'
    BY <1>1, ArriveOrderInv
  <1>2. ASSUME NEW m \in Msg, Created(m) \/ Greeted(m) PROVE OrderInv'
    BY <1>2, CreatedOrderInv, GreetedOrderInv
  <1>3. ASSUME NEW m \in Msg, Start(m) \/ Answered(m) \/ PromptFails(m) PROVE OrderInv'
    <2>1. /\ at[m] \in InTask /\ \E step \in Running : Goto(m, step)
          /\ UNCHANGED <<row, place, queue, from, ses>>
      BY <1>3 DEF Start, Answered, PromptFails, InTask, Running, store
    <2> QED BY <2>1, MovedOrderInv
  <1>4. ASSUME NEW m \in Msg, NoReply(m) PROVE OrderInv'
    <2>1. /\ at[m] \in InTask /\ "reply" \in Running /\ Goto(m, "reply")
          /\ UNCHANGED <<place, queue, from, ses>>
          /\ row' = [row EXCEPT ![from[m]] = None]
      BY <1>4 DEF NoReply, InTask, Running, DeleteSession
    <2>2. \A c \in Chat : row'[c] \in {row[c], None}
      BY <2>1 DEF IInv, TypeOK
    <2> QED BY <2>1, <2>2, MovedOrderInv
  <1>5. ASSUME NEW m \in Msg, HandlerFails(m) PROVE OrderInv'
    <2>1. /\ at[m] \in Handling /\ Goto(m, "lost")
          /\ UNCHANGED <<row, place, queue, from, ses>>
      BY <1>5 DEF HandlerFails, store
    <2> QED BY <2>1, MovedOrderInv
  <1>6. ASSUME NEW m \in Msg, Sent(m) \/ TaskFails(m) PROVE OrderInv'
    <2>1. /\ at[m] \in Running /\ \E how \in Ended : Leave(m, how)
          /\ UNCHANGED <<row, place, from, ses>>
      BY <1>6 DEF Sent, TaskFails, Running, Ended, store
    <2> QED BY <2>1, LeaveOrderInv
  <1>7. ASSUME NEW c \in Chat,
               Reset(c) \/ ClearBinding(c) \/ \E d \in Directory : SetBinding(c, d)
        PROVE  OrderInv'
    <2>1. /\ row' = [row EXCEPT ![c] = None]
          /\ UNCHANGED <<place, queue, from, at, ses>>
      BY <1>7 DEF Reset, ClearBinding, SetBinding, ForgetSession, DeleteSession
    <2>2. \A b \in Chat : row'[b] \in {row[b], None}
      BY <2>1 DEF IInv, TypeOK
    <2> QED BY <2>1, <2>2, StillOrderInv
  <1>8. CASE Confirm
    BY <1>8, StillOrderInv DEF Confirm, store
  <1>9. CASE Restart
    BY <1>9, RestartOrderInv
  <1>10. CASE UNCHANGED vars
    BY <1>10, StillOrderInv DEF vars, store
  <1> QED
    BY <1>1, <1>2, <1>3, <1>4, <1>5, <1>6, <1>7, <1>8, <1>9, <1>10 DEF Next, Step

\* The messages of a Telegram chat that share a session are prompted in the
\* order in which they came, however long their handlers wait, whatever fails
\* and whatever Telegram sends again after a restart.
THEOREM TelegramPromptsInOrder == Spec => []TelegramInOrder
  <1>1. IInv /\ OrderInv /\ [Next]_vars => OrderInv'
    BY NextOrderInv
  <1>2. IInv /\ OrderInv => TelegramInOrder
    BY OrderInvGivesTelegramInOrder
  <1> QED BY <1>1, <1>2, InitOrderInv, InvariantHolds, PTL DEF Spec

=============================================================================
