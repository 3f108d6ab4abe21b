------------------------ MODULE RuntimeSupervisorProofs ------------------------
(***************************************************************************)
(* Proofs about RuntimeSupervisor, for any number of process ids, requests *)
(* and failures.                                                           *)
(***************************************************************************)
EXTENDS RuntimeSupervisor, SequenceTheorems, TLAPS

-----------------------------------------------------------------------------
(* The invariant *)

\* Labels at which a task waits for the end of a child it has killed.
Gone == {"routerGone", "opencodeGone", "probeGone"}

\* Labels a task may still have before it, and those that end a call.
Later == {"startRouter", "disable", "stopRouter", "stopOpencode", "forget", "applyStop",
          "bootstrap", "bootEnd", "reap", "exit"}
Final == {"bootstrap", "awaitBoot", "bootEnd", "reap", "exit"}

\* The exit handlers stop the router and reap; only requests stop OpenCode, the
\* server, or forget a bundle; a bootstrap calls no other.
LabelsOf(t) ==
    IF t \in Opencode THEN {"stopRouter", "routerGone", "reap"}
    ELSE IF t = "boot"
    THEN Label \ {"bootstrap", "awaitBoot", "applyStop", "forget", "stopOpencode",
                  "opencodeGone", "exit", "reap"}
    ELSE Label \ ({"bootEnd", "reap"} \cup
                  IF t \in Request THEN {} ELSE {"stopOpencode", "opencodeGone", "exit"})

\* What a task may have to go through.
Fits(t, s) ==
    /\ \A k \in 1..Len(s) : s[k] \in LabelsOf(t)
    /\ \A k \in 2..Len(s) : s[k] \in Later
    /\ \A k \in 1..Len(s) - 1 : s[k] \notin Final
    /\ t = "boot" /\ s # <<>> => s[Len(s)] = "bootEnd"
    /\ \A k \in 2..Len(s) : s[k] = "stopOpencode" => k = 2 /\ s[1] \in {"stopRouter", "routerGone"}
    /\ \A k \in 2..Len(s) : s[k] = "exit" => s[k - 1] \in {"stopOpencode", "opencodeGone"}

In(x, q) == \E k \in 1..Len(q) : q[k] = x
Awake(t) == In(t, ready)

\* At most two tasks go on at once: an exit handler of OpenCode, and behind it
\* whoever has stopped OpenCode.
ReadyInv ==
    \/ ready = <<>>
    \/ \E t \in Task : ready = <<t>>
    \/ \E i \in Opencode, t \in Request :
          /\ ready = <<i, t>> /\ At(i) \in {"stopRouter", "reap"}
          /\ At(t) = "opencodeGone" /\ call[t].on = i

Sleeps(t) ==
    \/ Idle(t) /\ call[t].on = None
    \/ At(t) \in {"bundle", "binary"} /\ call[t].on = None
    \/ At(t) \in {"listen", "probe"} /\ proc[call[t].on] \in {"starting", "dead"}
    \/ At(t) \in {"routerGone", "opencodeGone"} /\ proc[call[t].on] = "dying"
    \/ At(t) = "probeGone" /\ call[t].on # None /\ proc[call[t].on] = "failing"
    \/ At(t) = "awaitBoot" /\ call[t].on = None /\ booting /\ ~Idle("boot")

Runs(t) ==
    \/ At(t) \in Later \cup {"startOpencode", "probeGone"} /\ call[t].on = None
    \/ At(t) \in {"routerGone", "opencodeGone"} /\ proc[call[t].on] = "none"
    \/ At(t) = "probeGone" /\ call[t].on # None /\ proc[call[t].on] = "none"

\* The child a task is concerned with.
Concerns(t) ==
    /\ At(t) \in {"listen", "opencodeGone"} => call[t].on \in Opencode
    /\ At(t) \in {"probe", "routerGone"} => call[t].on \in Router
    /\ At(t) = "probeGone" => call[t].on \in Router \cup {None}
    /\ \A u \in Task : u # t /\ call[u].on = call[t].on => call[t].on = None

TaskInv ==
    /\ ReadyInv
    /\ \A t \in Task : Fits(t, call[t].todo) /\ Concerns(t)
    /\ \A t \in Task : IF Awake(t) THEN Runs(t) ELSE Sleeps(t)
    /\ booting <=> ~Idle("boot")
    /\ \A r \in Request \ asked : Idle(r)
    /\ \A t \in Task : At(t) = "startOpencode" => ready = <<t>> /\ ~slot["opencode"].running

ProcInv ==
    /\ \A i \in Child : proc[i] = "starting" => \E t \in Task : At(t) \in {"listen", "probe"} /\ call[t].on = i
    /\ \A i \in Child : proc[i] = "dying" =>
          \E t \in Task : At(t) \in {"routerGone", "opencodeGone"} /\ call[t].on = i
    /\ \A i \in Opencode : proc[i] # "none" => Idle(i)
    /\ \A c \in Component : slot[c].handle # None => proc[slot[c].handle] = "up"

\* Labels of a start or a stop of a component that is under way.
Work(c) == IF c = "opencode" THEN {"bundle", "listen", "opencodeGone"}
           ELSE {"binary", "probe", "probeGone", "routerGone"}
StopOf(c) == IF c = "opencode" THEN "opencodeGone" ELSE "routerGone"

Held(c) ==
    /\ \A t, u \in Task : At(t) \in Work(c) /\ At(u) \in Work(c) => t = u
    /\ (\E t \in Task : At(t) \in Work(c)) => slot[c].handle = None
    /\ \A i \in Child : Of(i) = c /\ proc[i] = "up" => slot[c].handle = i
    /\ slot[c].handle # None => slot[c].running
    /\ slot[c].running /\ slot[c].handle = None => \E t \in Task : At(t) = StopOf(c)
    /\ (\E t \in Task : At(t) = StopOf(c)) => slot[c].stopping /\ ~slot[c].timer

HeldInv == \A c \in Component \ overlapped : Held(c)

Alone(t) == \A u \in Task \ {t} : Idle(u)

\* Requests that stop OpenCode, as long as they come one at a time.
StopInv ==
    \A t \in Task :
        /\ At(t) = "stopRouter" /\ Len(call[t].todo) > 1 /\ call[t].todo[2] = "stopOpencode" =>
              ready = <<t>> /\ Alone(t)
        /\ At(t) = "stopOpencode" =>
              /\ slot["router"].handle = None /\ ~slot["router"].timer /\ ready = <<t>>
              /\ \A u \in Task \ {t} : At(u) \in {"idle", "bundle", "listen", "awaitBoot"}
        /\ At(t) = "opencodeGone" =>
              /\ slot["router"].handle = None /\ ~slot["router"].timer
              /\ \A u \in Task \ {t} : Idle(u) \/ ready = <<u, t>>

ToldInv ==
    \A i \in told : \/ proc[i] = "dying"
                    \/ proc[i] = "none" /\ (Idle(i) \/ \E t \in Request : ready = <<i, t>>)

Closes(r) == \E k \in 1..Len(call[r].todo) : call[r].todo[k] = "exit"

CloseInv ==
    \A r \in Request : Closes(r) =>
        /\ shuttingDown
        /\ \A t \in Task \ {r} : \A k \in 1..Len(call[t].todo) :
              call[t].todo[k] \in {"stopRouter", "routerGone", "reap"}
        /\ At(r) = "exit" => \A c \in Component : slot[c].handle = None

\* No request came while another was under way, and no component was started or
\* stopped twice at once.
Calm == ~interfered /\ overlapped = {}
QuietInv == Calm => StopInv /\ ToldInv /\ CloseInv

Inv == IF stopped THEN ready = <<>> ELSE TaskInv /\ ProcInv /\ HeldInv /\ QuietInv

-----------------------------------------------------------------------------
(* Sequences of labels and of tasks *)

LEMMA Cons ==
    ASSUME NEW S, NEW s \in Seq(S), NEW x \in S
    PROVE  /\ <<x>> \o s \in Seq(S) /\ <<x>> \o s # <<>>
           /\ Head(<<x>> \o s) = x /\ Tail(<<x>> \o s) = s
           /\ Len(<<x>> \o s) = Len(s) + 1
           /\ \A k \in 1..Len(s) + 1 : (<<x>> \o s)[k] = IF k = 1 THEN x ELSE s[k - 1]
OBVIOUS

\* Places behind one label, and behind two.
LEMMA Shift ==
    ASSUME NEW n \in Nat
    PROVE  /\ \A k \in 1..n + 1 : k = 1 \/ k - 1 \in 1..n
           /\ \A k \in 1..n + 2 : k = 1 \/ k = 2 \/ k - 2 \in 1..n
           /\ \A k \in 1..n + 1 - 1 : k = 1 \/ k - 1 \in 1..n - 1
           /\ \A k \in 1..n + 2 - 1 : k = 1 \/ k = 2 \/ k - 2 \in 1..n - 1
OBVIOUS

LEMMA Uncons ==
    ASSUME NEW S, NEW s \in Seq(S), s # <<>>
    PROVE  /\ Head(s) \in S /\ Head(s) = s[1] /\ Tail(s) \in Seq(S)
           /\ Len(s) \in Nat \ {0} /\ Len(Tail(s)) = Len(s) - 1
           /\ \A k \in 1..Len(s) - 1 : Tail(s)[k] = s[k + 1]
OBVIOUS

LEMMA Nil == Len(<<>>) = 0 /\ \A S : <<>> \in Seq(S)
OBVIOUS

LEMMA LenZero == ASSUME NEW S, NEW s \in Seq(S) PROVE Len(s) = 0 <=> s = <<>>
OBVIOUS

LEMMA TailEmpty ==
    ASSUME NEW S, NEW s \in Seq(S), s # <<>> PROVE Tail(s) = <<>> <=> Len(s) = 1
<1> DEFINE r == Tail(s)
<1>1. r \in Seq(S) /\ Len(r) = Len(s) - 1 /\ Len(s) \in Nat
    BY Uncons
<1> HIDE DEF r
<1>2. r = <<>> <=> Len(r) = 0
    BY <1>1, LenZero
<1>3. QED
    BY <1>1, <1>2 DEF r

LEMMA One ==
    ASSUME NEW S, NEW x \in S
    PROVE  /\ <<x>> \in Seq(S) /\ <<x>> # <<>> /\ Len(<<x>>) = 1
           /\ Head(<<x>>) = x /\ <<x>>[1] = x /\ Tail(<<x>>) = <<>>
OBVIOUS

LEMMA Two ==
    ASSUME NEW S, NEW x \in S, NEW y \in S
    PROVE  /\ <<x, y>> \in Seq(S) /\ <<x, y>> # <<>> /\ Len(<<x, y>>) = 2
           /\ Head(<<x, y>>) = x /\ Tail(<<x, y>>) = <<y>>
           /\ <<x, y>>[1] = x /\ <<x, y>>[2] = y
           /\ <<x>> \o <<y>> = <<x, y>>
<1>1. /\ <<x, y>> \in Seq(S) /\ <<x, y>> # <<>> /\ Len(<<x, y>>) = 2
      /\ Head(<<x, y>>) = x /\ Tail(<<x, y>>) = <<y>>
      /\ <<x, y>>[1] = x /\ <<x, y>>[2] = y
    OBVIOUS
<1>2. <<x>> \o <<y>> = <<x, y>>
    <2>1. /\ <<x>> \o <<y>> \in Seq(S) /\ Len(<<x>> \o <<y>>) = 2
          /\ (<<x>> \o <<y>>)[1] = x /\ (<<x>> \o <<y>>)[2] = y
        BY One, Cons
    <2>2. \A k \in 1..2 : (<<x>> \o <<y>>)[k] = <<x, y>>[k]
        BY <1>1, <2>1
    <2>3. QED
        BY <1>1, <2>1, <2>2, SeqEqual
<1>3. QED
    BY <1>1, <1>2

LEMMA ConsTwo ==
    ASSUME NEW S, NEW s \in Seq(S), NEW x \in S, NEW y \in S
    PROVE  /\ <<x, y>> \o s \in Seq(S) /\ <<x, y>> \o s # <<>>
           /\ Head(<<x, y>> \o s) = x
           /\ Len(<<x, y>> \o s) = Len(s) + 2
           /\ \A k \in 1..Len(s) + 2 :
                 (<<x, y>> \o s)[k] = IF k = 1 THEN x ELSE IF k = 2 THEN y ELSE s[k - 2]
OBVIOUS

LEMMA FitsTail ==
    ASSUME NEW t \in Task, NEW s \in Seq(Label), s # <<>>, Fits(t, s)
    PROVE  /\ Fits(t, Tail(s)) /\ Tail(s) \in Seq(Label)
           /\ Tail(s) # <<>> => Head(Tail(s)) \in Later \cap LabelsOf(t)
           /\ t = "boot" /\ Head(s) # "bootEnd" => Tail(s) # <<>>
           /\ Head(s) \in Final => Tail(s) = <<>>
<1>1. /\ Head(s) = s[1] /\ Tail(s) \in Seq(Label)
      /\ Len(s) \in Nat \ {0} /\ Len(Tail(s)) = Len(s) - 1
      /\ \A k \in 1..Len(s) - 1 : Tail(s)[k] = s[k + 1]
    BY Uncons
<1>2. Tail(s) # <<>> => Head(Tail(s)) = s[2] /\ Len(s) > 1
    <2> DEFINE r == Tail(s)
    <2>1. r # <<>> => Len(r) # 0 /\ Head(r) = r[1]
        BY <1>1, LenZero, Uncons
    <2> HIDE DEF r
    <2>2. Len(r) = Len(s) - 1 /\ \A k \in 1..Len(s) - 1 : r[k] = s[k + 1]
        BY <1>1 DEF r
    <2>3. r # <<>> => Head(r) = s[2] /\ Len(s) > 1
        BY <1>1, <2>1, <2>2
    <2>4. QED
        BY <2>3 DEF r
<1>3. Tail(s) = <<>> <=> Len(s) = 1
    BY TailEmpty
<1>5. Fits(t, Tail(s))
    <2> DEFINE r == Tail(s)
    <2>1. /\ Len(r) = Len(s) - 1 /\ Len(s) \in Nat \ {0} /\ (r # <<>> => Len(s) > 1)
          /\ \A k \in 1..Len(s) - 1 : r[k] = s[k + 1]
        BY <1>1, <1>2
    <2>2. t = "boot" /\ r # <<>> => r[Len(r)] = "bootEnd"
        BY <2>1 DEF Fits
    <2> HIDE DEF r
    <2>3. Fits(t, r)
        BY <2>1, <2>2 DEF Fits
    <2>4. QED
        BY <2>3 DEF r
<1>6. QED
    BY <1>1, <1>2, <1>3, <1>5 DEF Fits

\* Another label at the head of what a task has to go through.
LEMMA FitsHead ==
    ASSUME NEW t \in Task, NEW s \in Seq(Label), s # <<>>, Fits(t, s),
           NEW x \in LabelsOf(t), x \in Final => Head(s) \in Final,
           Head(s) = "bootEnd" => x = "bootEnd",
           Head(s) \in {"stopRouter", "routerGone"} => x \in {"stopRouter", "routerGone"},
           Head(s) \in {"stopOpencode", "opencodeGone"} => x \in {"stopOpencode", "opencodeGone"}
    PROVE  /\ Fits(t, <<x>> \o Tail(s)) /\ <<x>> \o Tail(s) \in Seq(Label)
           /\ <<x>> \o Tail(s) # <<>> /\ Head(<<x>> \o Tail(s)) = x
<1> DEFINE r == <<x>> \o Tail(s)
<1>1. x \in Label /\ Tail(s) \in Seq(Label)
    BY Uncons DEF LabelsOf, Label
<1>2. /\ Len(r) = Len(s) /\ r[1] = x /\ Len(s) \in Nat \ {0} /\ Head(s) = s[1]
      /\ r \in Seq(Label) /\ r # <<>> /\ Head(r) = x
    BY <1>1, Cons, Uncons
<1>3. \A k \in 2..Len(s) : r[k] = s[k]
    BY <1>1, <1>2, Cons, Uncons
<1> HIDE DEF r
<1>4. Fits(t, r)
    BY <1>2, <1>3 DEF Fits
<1>5. QED
    BY <1>2, <1>4 DEF r

-----------------------------------------------------------------------------
(* Steps of a task *)

LEMMA InFacts ==
    /\ \A x : ~In(x, <<>>)
    /\ \A x, t \in Task : In(x, <<t>>) <=> x = t
    /\ \A x, t, v \in Task : In(x, <<t, v>>) <=> x = t \/ x = v
BY Nil, One, Two DEF In

LEMMA AwakeFacts ==
    /\ ready = <<>> => \A u \in Task : ~Awake(u)
    /\ \A t \in Task : ready = <<t>> =>
          /\ Tail(ready) = <<>> /\ Head(ready) = t /\ ready # <<>>
          /\ \A u \in Task : Awake(u) <=> u = t
    /\ \A t, v \in Task : ready = <<t, v>> =>
          /\ Tail(ready) = <<v>> /\ Head(ready) = t /\ ready # <<>> /\ Len(ready) = 2
          /\ \A u \in Task : Awake(u) <=> u = t \/ u = v
<1>1. ready = <<>> => \A u \in Task : ~Awake(u)
    BY InFacts DEF Awake
<1>2. ASSUME NEW t \in Task, ready = <<t>>
      PROVE  /\ Tail(ready) = <<>> /\ Head(ready) = t /\ ready # <<>>
             /\ \A u \in Task : Awake(u) <=> u = t
    BY <1>2, InFacts, One DEF Awake
<1>3. ASSUME NEW t \in Task, NEW v \in Task, ready = <<t, v>>
      PROVE  /\ Tail(ready) = <<v>> /\ Head(ready) = t /\ ready # <<>> /\ Len(ready) = 2
             /\ \A u \in Task : Awake(u) <=> u = t \/ u = v
    BY <1>3, InFacts, Two DEF Awake
<1>4. QED
    BY <1>1, <1>2, <1>3

LEMMA AtFacts ==
    ASSUME TypeOK, TaskInv
    PROVE  \A t \in Task :
              /\ Idle(t) <=> At(t) = "idle"
              /\ At(t) \in LabelsOf(t) \cup {"idle"}
              /\ Fits(t, call[t].todo) /\ call[t].todo \in Seq(Label)
              /\ ~Idle(t) => /\ call[t].todo # <<>> /\ Head(call[t].todo) = At(t)
                             /\ Rest(t) \in Seq(Label) /\ Fits(t, Rest(t))
                             /\ Rest(t) # <<>> => Head(Rest(t)) \in Later
                             /\ t = "boot" /\ At(t) # "bootEnd" => Rest(t) # <<>>
<1> SUFFICES ASSUME NEW t \in Task
    PROVE  /\ Idle(t) <=> At(t) = "idle"
           /\ At(t) \in LabelsOf(t) \cup {"idle"}
           /\ Fits(t, call[t].todo) /\ call[t].todo \in Seq(Label)
           /\ ~Idle(t) => /\ call[t].todo # <<>> /\ Head(call[t].todo) = At(t)
                          /\ Rest(t) \in Seq(Label) /\ Fits(t, Rest(t))
                          /\ Rest(t) # <<>> => Head(Rest(t)) \in Later
                          /\ t = "boot" /\ At(t) # "bootEnd" => Rest(t) # <<>>
    OBVIOUS
<1> DEFINE q == call[t].todo
<1>1. q \in Seq(Label) /\ Fits(t, q) /\ "idle" \notin Label
    BY DEF TypeOK, TaskInv, Label
<1>2. /\ Idle(t) <=> q = <<>>
      /\ At(t) = IF q = <<>> THEN "idle" ELSE Head(q)
    BY DEF Idle, At
<1> HIDE DEF q
<1>3. q # <<>> => Head(q) \in LabelsOf(t) /\ Head(q) \in Label
    BY <1>1, Uncons DEF Fits
<1>4. q # <<>> => /\ Tail(q) \in Seq(Label) /\ Fits(t, Tail(q))
                  /\ Tail(q) # <<>> => Head(Tail(q)) \in Later
                  /\ t = "boot" /\ Head(q) # "bootEnd" => Tail(q) # <<>>
    BY <1>1, FitsTail
<1>5. Rest(t) = Tail(q)
    BY DEF Rest, q
<1>6. QED
    BY <1>1, <1>2, <1>3, <1>4, <1>5 DEF q

\* What is known of the task that goes on, and of the one behind it.
LEMMA TurnFacts ==
    ASSUME TypeOK, TaskInv, NEW t, NEW label, label # "idle", Turn(t, label)
    PROVE  /\ t \in Task /\ At(t) = label /\ ~Idle(t) /\ Awake(t) /\ Runs(t)
           /\ call[t].todo \in Seq(Label) /\ call[t].todo # <<>> /\ Head(call[t].todo) = label
           /\ label \in LabelsOf(t) /\ Fits(t, call[t].todo)
           /\ Fits(t, Rest(t)) /\ Rest(t) \in Seq(Label)
           /\ Rest(t) # <<>> => Head(Rest(t)) \in Later \cap LabelsOf(t)
           /\ t = "boot" /\ label # "bootEnd" => Rest(t) # <<>>
           /\ label \in Final => Rest(t) = <<>>
           /\ \/ ready = <<t>> /\ Tail(ready) = <<>> /\ \A u \in Task : Awake(u) <=> u = t
              \/ \E v \in Request :
                    /\ ready = <<t, v>> /\ Tail(ready) = <<v>> /\ t \in Opencode /\ v # t
                    /\ label \in {"stopRouter", "reap"} /\ At(v) = "opencodeGone" /\ call[v].on = t
                    /\ \A u \in Task : Awake(u) <=> u = t \/ u = v
<1>1. t \in Task /\ ready # <<>> /\ Head(ready) = t
    BY Uncons DEF TypeOK, Turn
<1>2. At(t) = label /\ ~Idle(t) /\ call[t].todo # <<>> /\ Head(call[t].todo) = label
    BY DEF Turn, At, Idle
<1>3. \/ ready = <<t>> /\ Tail(ready) = <<>> /\ \A u \in Task : Awake(u) <=> u = t
      \/ \E v \in Request :
            /\ ready = <<t, v>> /\ Tail(ready) = <<v>> /\ t \in Opencode /\ v # t
            /\ label \in {"stopRouter", "reap"} /\ At(v) = "opencodeGone" /\ call[v].on = t
            /\ \A u \in Task : Awake(u) <=> u = t \/ u = v
    <2>1. CASE \E u \in Task : ready = <<u>>
        <3>1. PICK u \in Task : ready = <<u>>
            BY <2>1
        <3>2. u = t /\ Tail(ready) = <<>> /\ \A w \in Task : Awake(w) <=> w = u
            BY <1>1, <3>1, AwakeFacts
        <3>3. QED
            BY <3>1, <3>2
    <2>2. CASE \E i \in Opencode, v \in Request :
                  /\ ready = <<i, v>> /\ At(i) \in {"stopRouter", "reap"}
                  /\ At(v) = "opencodeGone" /\ call[v].on = i
        <3>1. PICK i \in Opencode, v \in Request :
                  /\ ready = <<i, v>> /\ At(i) \in {"stopRouter", "reap"}
                  /\ At(v) = "opencodeGone" /\ call[v].on = i
            BY <2>2
        <3>2. i \in Task /\ v \in Task
            BY DEF Task
        <3>3. i = t /\ Tail(ready) = <<v>> /\ \A w \in Task : Awake(w) <=> w = i \/ w = v
            BY <1>1, <3>1, <3>2, AwakeFacts
        <3>4. QED
            BY <1>2, <3>1, <3>3
    <2>3. QED
        BY <1>1, <2>1, <2>2 DEF TaskInv, ReadyInv
<1>4. call[t].todo \in Seq(Label) /\ Fits(t, call[t].todo)
    BY <1>1 DEF TypeOK, TaskInv
<1>5. label \in LabelsOf(t)
    <2>1. 1 \in 1..Len(call[t].todo) /\ Head(call[t].todo) = call[t].todo[1]
        BY <1>2, <1>4, Uncons
    <2>2. QED
        BY <1>2, <1>4, <2>1 DEF Fits
<1>6. Awake(t) /\ Runs(t)
    BY <1>1, <1>3 DEF TaskInv
<1>7. /\ Fits(t, Rest(t)) /\ Rest(t) \in Seq(Label)
      /\ Rest(t) # <<>> => Head(Rest(t)) \in Later \cap LabelsOf(t)
      /\ t = "boot" /\ label # "bootEnd" => Rest(t) # <<>>
      /\ label \in Final => Rest(t) = <<>>
    BY <1>1, <1>2, <1>4, FitsTail DEF Rest
<1>8. QED
    BY <1>1, <1>2, <1>3, <1>4, <1>5, <1>6, <1>7

\* A step of one task, or of none, that does not touch what the others wait for.
LEMMA OthersKept ==
    ASSUME TypeOK, TaskInv, NEW t \in Task,
           \A u \in Task \ {t} : call'[u] = call[u] /\ (Awake(u)' <=> Awake(u)),
           \A u \in Task \ {t} : call[u].on # None => proc'[call[u].on] = proc[call[u].on],
           \A u \in Task \ {t} : call'[t].on = call[u].on => call[u].on = None,
           \A u \in Task : At(u) = "startOpencode" => u = t,
           booting' = booting, Idle("boot")' <=> Idle("boot"), asked \subseteq asked',
           t \notin Request \ asked',
           ReadyInv', Fits(t, call'[t].todo),
           At(t)' \in {"listen", "opencodeGone"} => call'[t].on \in Opencode,
           At(t)' \in {"probe", "routerGone"} => call'[t].on \in Router,
           At(t)' = "probeGone" => call'[t].on \in Router \cup {None},
           IF Awake(t)' THEN Runs(t)' ELSE Sleeps(t)',
           At(t)' = "startOpencode" => ready' = <<t>> /\ ~slot'["opencode"].running
    PROVE  TaskInv'
<1>1. \A u \in Task \ {t} : (Idle(u)' <=> Idle(u)) /\ At(u)' = At(u)
    BY DEF Idle, At
<1>2. \A u \in Task : Fits(u, call'[u].todo)
    BY DEF TaskInv
<1>3. ASSUME NEW u \in Task PROVE Concerns(u)'
    BY <1>1, <1>3 DEF TaskInv, Concerns
<1>4. ASSUME NEW u \in Task PROVE IF Awake(u)' THEN Runs(u)' ELSE Sleeps(u)'
    <2>1. CASE u = t
        BY <2>1
    <2>2. CASE u # t
        <3>1. At(u)' = At(u) /\ (Idle(u)' <=> Idle(u)) /\ call'[u] = call[u]
            BY <1>1, <2>2
        <3>2. call[u].on # None => proc'[call[u].on] = proc[call[u].on]
            BY <2>2
        <3>3. At(u) \in {"listen", "probe", "routerGone", "opencodeGone"} => call[u].on # None
            BY ConstantsAssumption DEF TaskInv, Concerns, Child
        <3>4. Runs(u) => Runs(u)'
            BY <3>1, <3>2, <3>3 DEF Runs
        <3>5. Sleeps(u) => Sleeps(u)'
            BY <3>1, <3>2, <3>3 DEF Sleeps
        <3>6. QED
            BY <2>2, <3>4, <3>5 DEF TaskInv
    <2>3. QED
        BY <2>1, <2>2
<1>5. booting' <=> ~Idle("boot")'
    BY DEF TaskInv
<1>6. \A r \in Request \ asked' : Idle(r)'
    BY <1>1 DEF TaskInv, Task
<1>7. \A u \in Task : At(u)' = "startOpencode" => ready' = <<u>> /\ ~slot'["opencode"].running
    BY <1>1
<1>8. QED
    BY <1>2, <1>3, <1>4, <1>5, <1>6, <1>7 DEF TaskInv

CallType == call \in [Task -> [todo: Seq(Label), on: Child \cup {None}]]
ReadyType == ready \in Seq(Task)

\* What the three ways to change a task do to it.
LEMMA Moves ==
    ASSUME TypeOK, NEW t \in Task, NEW s \in Seq(Label), NEW i \in Child \cup {None},
           call' = [call EXCEPT ![t] = [todo |-> s, on |-> i]]
    PROVE  /\ CallType' /\ call'[t].todo = s /\ call'[t].on = i
           /\ \A u \in Task \ {t} : call'[u] = call[u]
           /\ At(t)' = IF s = <<>> THEN "idle" ELSE Head(s)
           /\ Idle(t)' <=> s = <<>>
           /\ \A u \in Task \ {t} : (Idle(u)' <=> Idle(u)) /\ At(u)' = At(u)
BY DEF TypeOK, CallType, At, Idle

LEMMA GoKeepsTasks ==
    ASSUME TypeOK, TaskInv, NEW t, NEW label, label # "idle", Turn(t, label),
           NEW s \in Seq(Label), Go(t, s), Fits(t, s),
           s # <<>> => Head(s) \in Later, t = "boot" => s # <<>>,
           UNCHANGED <<proc, booting, asked>>
    PROVE  TaskInv' /\ CallType' /\ ReadyType'
<1>1. t \in Task /\ ~Idle(t)
    BY TurnFacts
<1>2. /\ CallType' /\ call'[t].todo = s /\ call'[t].on = None
      /\ \A u \in Task \ {t} : call'[u] = call[u]
      /\ At(t)' = (IF s = <<>> THEN "idle" ELSE Head(s)) /\ (Idle(t)' <=> s = <<>>)
      /\ \A u \in Task \ {t} : (Idle(u)' <=> Idle(u)) /\ At(u)' = At(u)
    BY <1>1, Moves DEF Go
<1>3. /\ ready' = IF s = <<>> THEN Tail(ready) ELSE ready
      /\ ready \in Seq(Task) /\ ready # <<>>
    BY <1>1 DEF Go, Turn, TypeOK
<1>4. ReadyType'
    BY <1>3, Uncons DEF ReadyType
<1>5. s # <<>> => Head(s) \in Later \cap LabelsOf(t)
    BY Uncons DEF Fits
<1>6. /\ ReadyInv' /\ \A u \in Task \ {t} : Awake(u)' <=> Awake(u)
      /\ Awake(t)' <=> s # <<>>
    <2>1. CASE ready = <<t>> /\ Tail(ready) = <<>> /\ \A u \in Task : Awake(u) <=> u = t
        BY <1>1, <1>3, <2>1, InFacts DEF ReadyInv, Awake
    <2>2. CASE \E v \in Request :
                 /\ ready = <<t, v>> /\ Tail(ready) = <<v>> /\ t \in Opencode /\ v # t
                 /\ label \in {"stopRouter", "reap"} /\ At(v) = "opencodeGone" /\ call[v].on = t
                 /\ \A u \in Task : Awake(u) <=> u = t \/ u = v
        <3>1. PICK v \in Request :
                 /\ ready = <<t, v>> /\ Tail(ready) = <<v>> /\ t \in Opencode /\ v # t
                 /\ label \in {"stopRouter", "reap"} /\ At(v) = "opencodeGone" /\ call[v].on = t
                 /\ \A u \in Task : Awake(u) <=> u = t \/ u = v
            BY <2>2
        <3>2. v \in Task
            BY DEF Task
        <3>3. CASE s = <<>>
            BY <1>1, <1>3, <3>1, <3>2, <3>3, InFacts DEF ReadyInv, Awake
        <3>4. CASE s # <<>>
            <4>1. ready' = <<t, v>> /\ At(t)' \in {"stopRouter", "reap"}
                BY <1>2, <1>3, <1>5, <3>1, <3>4 DEF Later, LabelsOf
            <4>2. At(v)' = "opencodeGone" /\ call'[v].on = t
                BY <1>2, <3>1, <3>2
            <4>3. ReadyInv'
                BY <3>1, <4>1, <4>2 DEF ReadyInv
            <4>4. QED
                BY <1>1, <3>1, <3>2, <3>4, <4>1, <4>3, InFacts DEF Awake
        <3>5. QED
            BY <3>3, <3>4
    <2>3. QED
        BY <2>1, <2>2, TurnFacts
<1>7. /\ \A u \in Task : At(u) = "startOpencode" => u = t
      /\ t \notin Request \ asked' /\ (Idle("boot")' <=> Idle("boot"))
    BY <1>1, <1>2, AwakeFacts DEF TaskInv, Turn, Task
<1>8. IF Awake(t)' THEN Runs(t)' ELSE Sleeps(t)'
    BY <1>2, <1>5, <1>6 DEF Runs, Sleeps
<1>9. At(t)' \in Later \cup {"idle"}
    BY <1>2, <1>5
<1>10. TaskInv'
    BY <1>1, <1>2, <1>6, <1>7, <1>8, <1>9, OthersKept DEF Later
<1>11. QED
    BY <1>2, <1>4, <1>10

LEMMA WaitKeepsTasks ==
    ASSUME TypeOK, TaskInv, NEW t, NEW label, label # "idle", Turn(t, label),
           NEW x \in LabelsOf(t), NEW i \in Child \cup {None}, Wait(t, x, i),
           x \in Final => label \in Final, label = "bootEnd" => x = "bootEnd",
           label \in {"stopRouter", "routerGone"} => x \in {"stopRouter", "routerGone"},
           label \in {"stopOpencode", "opencodeGone"} => x \in {"stopOpencode", "opencodeGone"},
           x \in {"listen", "opencodeGone"} => i \in Opencode,
           x \in {"probe", "routerGone"} => i \in Router,
           x = "probeGone" => i \in Router \cup {None},
           x \notin {"startOpencode", "idle"},
           \A u \in Task \ {t} : call[u].on # None => proc'[call[u].on] = proc[call[u].on],
           \A u \in Task \ {t} : call[u].on = i => i = None,
           \/ x \in {"bundle", "binary"} /\ i = None
           \/ x \in {"routerGone", "opencodeGone"} /\ proc'[i] = "dying"
           \/ x = "awaitBoot" /\ i = None /\ booting /\ t # "boot",
           UNCHANGED <<booting, asked>>
    PROVE  /\ TaskInv' /\ CallType' /\ ReadyType'
           /\ At(t)' = x /\ call'[t].on = i /\ call'[t].todo = <<x>> \o Rest(t)
           /\ \A u \in Task \ {t} : call'[u] = call[u] /\ At(u)' = At(u)
<1> DEFINE s == <<x>> \o Rest(t)
<1>1. /\ t \in Task /\ ~Idle(t) /\ call[t].todo \in Seq(Label) /\ call[t].todo # <<>>
      /\ Head(call[t].todo) = label /\ Fits(t, call[t].todo)
    BY TurnFacts
<1>2. s \in Seq(Label) /\ s # <<>> /\ Head(s) = x /\ Fits(t, s)
    BY <1>1, FitsHead DEF Rest
<1>3. call' = [call EXCEPT ![t] = [todo |-> s, on |-> i]] /\ ready' = Tail(ready)
    BY DEF Wait
<1> HIDE DEF s
<1>4. /\ CallType' /\ call'[t].todo = s /\ call'[t].on = i
      /\ \A u \in Task \ {t} : call'[u] = call[u]
      /\ At(t)' = x /\ ~Idle(t)'
      /\ \A u \in Task \ {t} : (Idle(u)' <=> Idle(u)) /\ At(u)' = At(u)
    BY <1>1, <1>2, <1>3, Moves
<1>5. ready \in Seq(Task) /\ ready # <<>>
    BY DEF Turn, TypeOK
<1>6. ReadyType'
    BY <1>3, <1>5, Uncons DEF ReadyType
<1>7. /\ ReadyInv' /\ \A u \in Task \ {t} : Awake(u)' <=> Awake(u)
      /\ ~Awake(t)'
    <2>1. CASE ready = <<t>> /\ Tail(ready) = <<>> /\ \A u \in Task : Awake(u) <=> u = t
        BY <1>1, <1>3, <2>1, InFacts DEF ReadyInv, Awake
    <2>2. CASE \E v \in Request :
                 /\ ready = <<t, v>> /\ Tail(ready) = <<v>> /\ t \in Opencode /\ v # t
                 /\ label \in {"stopRouter", "reap"} /\ At(v) = "opencodeGone" /\ call[v].on = t
                 /\ \A u \in Task : Awake(u) <=> u = t \/ u = v
        <3>1. PICK v \in Request :
                 /\ ready = <<t, v>> /\ Tail(ready) = <<v>> /\ t \in Opencode /\ v # t
                 /\ label \in {"stopRouter", "reap"} /\ At(v) = "opencodeGone" /\ call[v].on = t
                 /\ \A u \in Task : Awake(u) <=> u = t \/ u = v
            BY <2>2
        <3>2. v \in Task
            BY DEF Task
        <3>3. QED
            BY <1>1, <1>3, <3>1, <3>2, InFacts DEF ReadyInv, Awake
    <2>3. QED
        BY <2>1, <2>2, TurnFacts
<1>8. /\ \A u \in Task : At(u) = "startOpencode" => u = t
      /\ t \notin Request \ asked' /\ (Idle("boot")' <=> Idle("boot"))
    BY <1>1, <1>4, AwakeFacts DEF TaskInv, Turn, Task
<1>9. Sleeps(t)'
    <2>1. CASE x = "awaitBoot" /\ i = None /\ booting /\ t # "boot"
        BY <1>4, <1>8, <2>1 DEF Sleeps, TaskInv
    <2>2. CASE ~(x = "awaitBoot" /\ i = None /\ booting /\ t # "boot")
        BY <1>4, <2>2 DEF Sleeps
    <2>3. QED
        BY <2>1, <2>2
<1>10. TaskInv'
    BY <1>1, <1>2, <1>4, <1>7, <1>8, <1>9, OthersKept
<1>11. QED
    BY <1>4, <1>6, <1>10 DEF s

\* With nothing in `ready' a waiting task has its answer.
LEMMA ResumeKeepsTasks ==
    ASSUME TypeOK, TaskInv, NEW t \in Task, Quiet, Resume(t), At(t) \in {"listen", "probe"},
           \A u \in Task \ {t} : call[u].on # None => proc'[call[u].on] = proc[call[u].on],
           UNCHANGED <<booting, asked>>
    PROVE  /\ TaskInv' /\ CallType' /\ ReadyType'
           /\ At(t)' \in Later \cup {"idle"} /\ call'[t].on = None /\ call'[t].todo = Rest(t)
           /\ \A u \in Task \ {t} : call'[u] = call[u] /\ At(u)' = At(u)
<1> DEFINE s == Rest(t)
<1>1. /\ ~Idle(t) /\ call[t].todo \in Seq(Label) /\ call[t].todo # <<>>
      /\ Head(call[t].todo) = At(t) /\ Fits(t, call[t].todo)
    BY DEF TypeOK, TaskInv, At, Idle
<1>2. /\ s \in Seq(Label) /\ Fits(t, s)
      /\ t = "boot" => s # <<>>
      /\ s # <<>> => Head(s) \in Later
    BY <1>1, FitsTail DEF Rest
<1>3. call' = [call EXCEPT ![t] = [todo |-> s, on |-> None]]
    BY DEF Resume
<1>4. ready = <<>> /\ ready' = IF s = <<>> THEN <<>> ELSE <<t>>
    BY DEF Resume, Quiet
<1> HIDE DEF s
<1>5. /\ CallType' /\ call'[t].todo = s /\ call'[t].on = None
      /\ \A u \in Task \ {t} : call'[u] = call[u]
      /\ At(t)' = (IF s = <<>> THEN "idle" ELSE Head(s)) /\ (Idle(t)' <=> s = <<>>)
      /\ \A u \in Task \ {t} : (Idle(u)' <=> Idle(u)) /\ At(u)' = At(u)
    <2>1. s \in Seq(Label) /\ None \in Child \cup {None}
        BY <1>2
    <2>2. QED
        BY ONLY TypeOK, t \in Task, <2>1, <1>3, Moves
<1>6. ReadyType'
    BY <1>4, One, Nil DEF ReadyType
<1>7. /\ ReadyInv' /\ \A u \in Task \ {t} : Awake(u)' <=> Awake(u)
      /\ Awake(t)' <=> s # <<>>
    BY <1>4, InFacts DEF ReadyInv, Awake
<1>8. /\ \A u \in Task : At(u) = "startOpencode" => u = t
      /\ t \notin Request \ asked' /\ (Idle("boot")' <=> Idle("boot"))
    BY <1>1, <1>2, <1>4, <1>5, AwakeFacts DEF TaskInv, Task
<1>9. IF Awake(t)' THEN Runs(t)' ELSE Sleeps(t)'
    BY <1>2, <1>5, <1>7 DEF Runs, Sleeps
<1>10. At(t)' \in Later \cup {"idle"}
    BY <1>2, <1>5
<1>11. TaskInv'
    BY <1>2, <1>5, <1>7, <1>8, <1>9, <1>10, OthersKept DEF Later
<1>12. QED
    BY <1>5, <1>6, <1>10, <1>11 DEF s

\* Where the stops of OpenCode and of the server may come from.
LEMMA FitsStop ==
    ASSUME NEW t \in Task, NEW s \in Seq(Label), s # <<>>, Fits(t, s)
    PROVE  /\ Tail(s) # <<>> /\ Head(Tail(s)) = "stopOpencode" => Head(s) \in {"stopRouter", "routerGone"}
           /\ Tail(s) # <<>> /\ Head(Tail(s)) = "exit" => Head(s) \in {"stopOpencode", "opencodeGone"}
           /\ \A k \in 2..Len(Tail(s)) : Tail(s)[k] # "stopOpencode"
           /\ \A k \in 1..Len(s) : s[k] = "exit" =>
                 Head(s) \in {"stopRouter", "routerGone", "stopOpencode", "opencodeGone", "exit"}
           /\ \A k \in 1..Len(Tail(s)) : Tail(s)[k] = s[k + 1] /\ k + 1 \in 1..Len(s)
<1> DEFINE r == Tail(s)
<1>1. /\ Head(s) = s[1] /\ r \in Seq(Label)
      /\ Len(s) \in Nat \ {0} /\ Len(r) = Len(s) - 1
      /\ \A k \in 1..Len(s) - 1 : r[k] = s[k + 1]
    BY Uncons
<1> HIDE DEF r
<1>2. r # <<>> => Len(r) # 0 /\ Head(r) = r[1]
    BY <1>1, LenZero, Uncons
<1>3. r # <<>> => Head(r) = s[2] /\ 2 \in 2..Len(s) /\ 2 - 1 = 1
    BY <1>1, <1>2
<1>4. /\ r # <<>> /\ Head(r) = "stopOpencode" => Head(s) \in {"stopRouter", "routerGone"}
      /\ r # <<>> /\ Head(r) = "exit" => Head(s) \in {"stopOpencode", "opencodeGone"}
    BY <1>1, <1>3 DEF Fits
<1>5. \A k \in 2..Len(r) : r[k] # "stopOpencode"
    BY <1>1 DEF Fits
<1>6. ASSUME NEW k \in 1..Len(s), s[k] = "exit"
      PROVE  Head(s) \in {"stopRouter", "routerGone", "stopOpencode", "opencodeGone", "exit"}
    <2>1. CASE k = 1
        BY <1>1, <1>6, <2>1
    <2>2. CASE k # 1
        <3>1. k \in 2..Len(s) /\ s[k - 1] \in {"stopOpencode", "opencodeGone"}
            BY <1>1, <1>6, <2>2 DEF Fits
        <3>2. CASE k = 2
            BY <1>1, <3>1, <3>2
        <3>3. CASE k # 2
            <4>1. k - 1 \in 2..Len(s)
                BY <1>1, <3>1, <3>3
            <4>2. s[k - 1] \in Later
                BY <4>1 DEF Fits
            <4>3. s[k - 1] = "stopOpencode"
                BY <3>1, <4>2 DEF Later
            <4>4. s[1] \in {"stopRouter", "routerGone"}
                BY <4>1, <4>3 DEF Fits
            <4>5. QED
                BY <1>1, <4>4
        <3>4. QED
            BY <3>2, <3>3
    <2>3. QED
        BY <2>1, <2>2
<1>7. \A k \in 1..Len(r) : r[k] = s[k + 1] /\ k + 1 \in 1..Len(s)
    BY <1>1
<1>8. QED
    BY <1>4, <1>5, <1>6, <1>7 DEF r

\* A step that leaves the processes alone, and those who wait for them.
LEMMA ProcsKept ==
    ASSUME ProcInv, proc' = proc,
           \A c \in Component : slot'[c].handle = slot[c].handle,
           \A u \in Task : /\ At(u) \in {"listen", "probe", "routerGone", "opencodeGone"}
                           /\ proc[call[u].on] \in {"starting", "dying"}
                           => At(u)' = At(u) /\ call'[u].on = call[u].on,
           \A i \in Opencode : Idle(i) => Idle(i)'
    PROVE  ProcInv'
<1>1. ASSUME NEW i \in Child, proc'[i] = "starting"
      PROVE  \E t \in Task : At(t)' \in {"listen", "probe"} /\ call'[t].on = i
    <2>1. PICK t \in Task : At(t) \in {"listen", "probe"} /\ call[t].on = i
        BY <1>1 DEF ProcInv
    <2>2. QED
        BY <1>1, <2>1
<1>2. ASSUME NEW i \in Child, proc'[i] = "dying"
      PROVE  \E t \in Task : At(t)' \in {"routerGone", "opencodeGone"} /\ call'[t].on = i
    <2>1. PICK t \in Task : At(t) \in {"routerGone", "opencodeGone"} /\ call[t].on = i
        BY <1>2 DEF ProcInv
    <2>2. QED
        BY <1>2, <2>1
<1>3. \A i \in Opencode : proc'[i] # "none" => Idle(i)'
    BY DEF ProcInv
<1>4. \A c \in Component : slot'[c].handle # None => proc'[slot'[c].handle] = "up"
    BY DEF ProcInv
<1>5. QED
    BY <1>1, <1>2, <1>3, <1>4 DEF ProcInv

\* A step in which no start or stop of a component begins.
LEMMA HeldKept ==
    ASSUME NEW c \in Component, Held(c),
           \A i \in Child : Of(i) = c /\ proc'[i] = "up" => proc[i] = "up",
           slot'[c].handle = slot[c].handle,
           slot'[c].running => slot[c].running,
           slot[c].handle # None => (slot'[c].running <=> slot[c].running),
           \A u \in Task : At(u)' \in Work(c) => At(u) \in Work(c),
           \A u \in Task : At(u)' = StopOf(c) => At(u) = StopOf(c),
           slot'[c].running => \A u \in Task : At(u) = StopOf(c) => At(u)' = StopOf(c),
           (\E u \in Task : At(u)' = StopOf(c)) =>
               (slot[c].stopping => slot'[c].stopping) /\ (slot'[c].timer => slot[c].timer)
    PROVE  Held(c)'
<1>1. \A t, u \in Task : At(t)' \in Work(c) /\ At(u)' \in Work(c) => t = u
    BY DEF Held
<1>2. (\E t \in Task : At(t)' \in Work(c)) => slot'[c].handle = None
    BY DEF Held
<1>3. \A i \in Child : Of(i) = c /\ proc'[i] = "up" => slot'[c].handle = i
    BY DEF Held
<1>4. slot'[c].handle # None => slot'[c].running
    BY DEF Held
<1>5. slot'[c].running /\ slot'[c].handle = None => \E t \in Task : At(t)' = StopOf(c)
    BY DEF Held
<1>6. (\E t \in Task : At(t)' = StopOf(c)) => slot'[c].stopping /\ ~slot'[c].timer
    BY DEF Held
<1>7. QED
    BY <1>1, <1>2, <1>3, <1>4, <1>5, <1>6 DEF Held, Of, Work, StopOf

-----------------------------------------------------------------------------
(* A task that goes on at once *)

LEMMA GoFacts ==
    ASSUME TypeOK, TaskInv, NEW t, NEW label, label # "idle", Turn(t, label),
           NEW s \in Seq(Label), Go(t, s)
    PROVE  /\ call'[t].todo = s /\ call'[t].on = None
           /\ At(t)' = IF s = <<>> THEN "idle" ELSE Head(s)
           /\ \A u \in Task \ {t} : call'[u] = call[u] /\ (Idle(u)' <=> Idle(u)) /\ At(u)' = At(u)
<1>1. t \in Task
    BY TurnFacts
<1>2. None \in Child \cup {None} /\ call' = [call EXCEPT ![t] = [todo |-> s, on |-> None]]
    BY DEF Go
<1>3. QED
    BY ONLY TypeOK, t \in Task, s \in Seq(Label), <1>1, <1>2, Moves

LEMMA GoKeepsProcs ==
    ASSUME TypeOK, TaskInv, ProcInv, NEW t, NEW label, label # "idle", Turn(t, label),
           NEW s \in Seq(Label), Go(t, s),
           UNCHANGED proc, \A c \in Component : slot'[c].handle = slot[c].handle
    PROVE  ProcInv'
<1>1. /\ \A u \in Task \ {t} : call'[u] = call[u] /\ (Idle(u)' <=> Idle(u)) /\ At(u)' = At(u)
      /\ ~Idle(t) /\ Runs(t)
    BY GoFacts, TurnFacts
<1>2. ~(/\ At(t) \in {"listen", "probe", "routerGone", "opencodeGone"}
        /\ proc[call[t].on] \in {"starting", "dying"})
    BY <1>1 DEF Runs, Later
<1>3. QED
    BY <1>1, <1>2, ProcsKept DEF Task

LEMMA GoKeepsHeld ==
    ASSUME TypeOK, TaskInv, HeldInv, NEW t, NEW label, label # "idle", Turn(t, label),
           NEW s \in Seq(Label), Go(t, s), s # <<>> => Head(s) \in Later,
           UNCHANGED <<proc, overlapped>>,
           \A c \in Component :
               /\ slot'[c].handle = slot[c].handle
               /\ slot'[c].running => slot[c].running
               /\ slot[c].handle # None /\ label \notin Work(c) =>
                     (slot'[c].running <=> slot[c].running)
               /\ label = StopOf(c) => ~slot'[c].running
               /\ label # StopOf(c) => (slot[c].stopping => slot'[c].stopping)
               /\ slot[c].stopping => (slot'[c].timer => slot[c].timer)
    PROVE  HeldInv'
<1>1. /\ \A u \in Task \ {t} : At(u)' = At(u)
      /\ At(t)' \in Later \cup {"idle"} /\ At(t) = label /\ t \in Task
    BY GoFacts, TurnFacts
<1>2. ASSUME NEW c \in Component, c \notin overlapped PROVE Held(c)'
    <2>1. Held(c)
        BY <1>2 DEF HeldInv
    <2>2. /\ \A u \in Task : At(u)' \in Work(c) => u # t /\ At(u) \in Work(c)
          /\ StopOf(c) \in Work(c) /\ "idle" \notin Work(c)
        BY <1>1 DEF Work, Later, StopOf
    <2>3. label \in Work(c) => slot[c].handle = None
        BY <1>1, <2>1 DEF Held
    <2>4. \A u \in Task : At(u)' = StopOf(c) => label # StopOf(c) /\ At(u) = StopOf(c)
        BY <1>1, <2>1, <2>2 DEF Held
    <2>5. slot'[c].running => \A u \in Task : At(u) = StopOf(c) => At(u)' = StopOf(c)
        BY <1>1
    <2>6. (\E u \in Task : At(u)' = StopOf(c)) =>
              (slot[c].stopping => slot'[c].stopping) /\ (slot'[c].timer => slot[c].timer)
        BY <2>1, <2>4 DEF Held
    <2>7. slot[c].handle # None => (slot'[c].running <=> slot[c].running)
        BY <2>3
    <2>8. QED
        BY <2>1, <2>2, <2>4, <2>5, <2>6, <2>7, HeldKept
<1>3. QED
    BY <1>2 DEF HeldInv

\* How a task that goes on has come to the labels of a stop.
GoesTo(t, label, s) ==
    \/ s = Rest(t)
    \/ label = "startRouter" /\ s = <<"stopRouter", "disable">> \o Rest(t)
    \/ label = "applyStop" /\ s = <<"stopRouter">> \o Rest(t)

LEMMA GoStops ==
    ASSUME TypeOK, TaskInv, NEW t, NEW label, label # "idle", Turn(t, label),
           NEW s \in Seq(Label), GoesTo(t, label, s)
    PROVE  /\ ~(Len(s) > 1 /\ Head(s) = "stopRouter" /\ s[2] = "stopOpencode")
           /\ s # <<>> /\ Head(s) = "stopOpencode" => label \in {"stopRouter", "routerGone"}
           /\ s # <<>> /\ Head(s) = "exit" => label \in {"stopOpencode", "opencodeGone"}
           /\ \A k \in 1..Len(s) : s[k] = "exit" => \E j \in 1..Len(call[t].todo) : call[t].todo[j] = "exit"
           /\ label \in {"stopRouter", "routerGone", "reap"} =>
                 \A k \in 1..Len(s) : \E j \in 1..Len(call[t].todo) : s[k] = call[t].todo[j]
<1> DEFINE q == call[t].todo
<1> DEFINE r == Rest(t)
<1>1. t \in Task /\ q \in Seq(Label) /\ q # <<>> /\ Head(q) = label /\ Fits(t, q) /\ r \in Seq(Label)
    BY TurnFacts
<1>2. /\ r # <<>> /\ Head(r) = "stopOpencode" => label \in {"stopRouter", "routerGone"}
      /\ r # <<>> /\ Head(r) = "exit" => label \in {"stopOpencode", "opencodeGone"}
      /\ \A k \in 2..Len(r) : r[k] # "stopOpencode"
      /\ \A k \in 1..Len(r) : r[k] = q[k + 1] /\ k + 1 \in 1..Len(q)
    BY <1>1, FitsStop DEF Rest
<1>3. r # <<>> => Head(r) = r[1] /\ Len(r) # 0
    BY <1>1, Uncons
<1>4. Len(r) \in Nat
    BY <1>1
<1> HIDE DEF q, r
<1>5. CASE s = r
    BY <1>2, <1>4, <1>5 DEF q, r
<1>6. CASE label = "startRouter" /\ s = <<"stopRouter", "disable">> \o r
    <2>1. Head(s) = "stopRouter" /\ Len(s) = Len(r) + 2
        BY <1>1, <1>6, ConsTwo DEF Label
    <2>2. \A k \in 1..Len(r) + 2 :
              s[k] = IF k = 1 THEN "stopRouter" ELSE IF k = 2 THEN "disable" ELSE r[k - 2]
        BY <1>1, <1>6, ConsTwo DEF Label
    <2>3. s[2] = "disable"
        BY <1>4, <2>2
    <2>4. ASSUME NEW k \in 1..Len(s), s[k] = "exit" PROVE \E j \in 1..Len(q) : q[j] = "exit"
        <3>1. k - 2 \in 1..Len(r) /\ r[k - 2] = "exit"
            BY <1>4, <2>1, <2>2, <2>4
        <3>2. QED
            BY <1>2, <3>1
    <2>5. QED
        BY <1>6, <2>1, <2>3, <2>4 DEF q
<1>7. CASE label = "applyStop" /\ s = <<"stopRouter">> \o r
    <2>1. Head(s) = "stopRouter" /\ Len(s) = Len(r) + 1
        BY <1>1, <1>7, Cons DEF Label
    <2>2. \A k \in 1..Len(r) + 1 : s[k] = IF k = 1 THEN "stopRouter" ELSE r[k - 1]
        BY <1>1, <1>7, Cons DEF Label
    <2>3. ~(Len(s) > 1 /\ s[2] = "stopOpencode")
        <3>1. Len(s) > 1 => s[2] = r[1] /\ r # <<>>
            BY <1>4, <2>1, <2>2, LenZero, Nil
        <3>2. QED
            BY <1>2, <1>3, <1>7, <3>1
    <2>4. ASSUME NEW k \in 1..Len(s), s[k] = "exit" PROVE \E j \in 1..Len(q) : q[j] = "exit"
        <3>1. k - 1 \in 1..Len(r) /\ r[k - 1] = "exit"
            BY <1>4, <2>1, <2>2, <2>4
        <3>2. QED
            BY <1>2, <3>1
    <2>5. QED
        BY <1>7, <2>1, <2>3, <2>4 DEF q
<1>8. QED
    BY <1>5, <1>6, <1>7 DEF GoesTo, r

LEMMA GoKeepsQuiet ==
    ASSUME TypeOK, TaskInv, ProcInv, HeldInv, QuietInv,
           NEW t, NEW label, label # "idle", Turn(t, label),
           NEW s \in Seq(Label), Go(t, s), s # <<>> => Head(s) \in Later, GoesTo(t, label, s),
           \A c \in Component : slot'[c].handle = slot[c].handle,
           slot'["router"].timer => slot["router"].timer,
           label = "stopRouter" => slot["router"].handle = None /\ ~slot'["router"].timer,
           label = "stopOpencode" => slot["opencode"].handle = None,
           UNCHANGED <<proc, shuttingDown, told, overlapped, interfered>>
    PROVE  QuietInv'
<1>1. /\ t \in Task /\ At(t) = label /\ ~Idle(t) /\ Runs(t)
      /\ call[t].todo \in Seq(Label) /\ call[t].todo # <<>> /\ Head(call[t].todo) = label
      /\ ready # <<>> /\ t = Head(ready)
    BY TurnFacts DEF Turn
<1>2. /\ call'[t].todo = s /\ call'[t].on = None
      /\ At(t)' = IF s = <<>> THEN "idle" ELSE Head(s)
      /\ Idle(t)' <=> s = <<>>
      /\ \A u \in Task \ {t} : call'[u] = call[u] /\ (Idle(u)' <=> Idle(u)) /\ At(u)' = At(u)
    BY GoFacts DEF Idle
<1>3. /\ ~(Len(s) > 1 /\ Head(s) = "stopRouter" /\ s[2] = "stopOpencode")
      /\ s # <<>> /\ Head(s) = "stopOpencode" => label \in {"stopRouter", "routerGone"}
      /\ s # <<>> /\ Head(s) = "exit" => label \in {"stopOpencode", "opencodeGone"}
      /\ \A k \in 1..Len(s) : s[k] = "exit" => \E j \in 1..Len(call[t].todo) : call[t].todo[j] = "exit"
      /\ label \in {"stopRouter", "routerGone", "reap"} =>
            \A k \in 1..Len(s) : \E j \in 1..Len(call[t].todo) : s[k] = call[t].todo[j]
    BY GoStops
<1>4. ready' = IF s = <<>> THEN Tail(ready) ELSE ready
    BY DEF Go
<1>5. \A u \in Task : ready = <<u>> => u = t
    BY <1>1, One
<1>6. /\ \/ ready = <<t>> /\ \A u \in Task : Awake(u) <=> u = t
         \/ t \in Opencode /\ label \in {"stopRouter", "reap"}
      /\ "router" \in Component /\ "opencode" \in Component
    BY TurnFacts DEF Component
<1>7. ASSUME NEW u \in Task, NEW v \in Task, ready = <<u, v>> PROVE u = t /\ Tail(ready) = <<v>>
    BY <1>1, <1>7, AwakeFacts
<1>8. SUFFICES ASSUME Calm PROVE StopInv' /\ ToldInv' /\ CloseInv'
    <2>1. Calm' <=> Calm
        BY DEF Calm
    <2>2. QED
        BY <2>1 DEF QuietInv
<1>9. StopInv /\ ToldInv /\ CloseInv /\ Held("router") /\ Held("opencode")
    BY <1>6, <1>8 DEF QuietInv, HeldInv, Calm
<1>10. StopInv'
    <2> SUFFICES ASSUME NEW u \in Task
        PROVE  /\ At(u)' = "stopRouter" /\ Len(call'[u].todo) > 1 /\ call'[u].todo[2] = "stopOpencode" =>
                     ready' = <<u>> /\ Alone(u)'
               /\ At(u)' = "stopOpencode" =>
                     /\ slot'["router"].handle = None /\ ~slot'["router"].timer /\ ready' = <<u>>
                     /\ \A v \in Task \ {u} : At(v)' \in {"idle", "bundle", "listen", "awaitBoot"}
               /\ At(u)' = "opencodeGone" =>
                     /\ slot'["router"].handle = None /\ ~slot'["router"].timer
                     /\ \A v \in Task \ {u} : Idle(v)' \/ ready' = <<v, u>>
        BY DEF StopInv
    <2>1. CASE u = t
        <3>1. At(u)' = "stopRouter" => s # <<>> /\ Head(s) = "stopRouter"
            BY <1>2, <2>1
        <3>2. At(u)' # "opencodeGone"
            BY <1>2, <2>1 DEF Later
        <3>3. ASSUME At(u)' = "stopOpencode"
              PROVE  /\ slot'["router"].handle = None /\ ~slot'["router"].timer /\ ready' = <<u>>
                     /\ \A v \in Task \ {u} : At(v)' \in {"idle", "bundle", "listen", "awaitBoot"}
            <4>1. s # <<>> /\ Head(s) = "stopOpencode" /\ label \in {"stopRouter", "routerGone"}
                BY <1>2, <1>3, <2>1, <3>3
            <4>2. CASE label = "stopRouter"
                <5>1. Len(call[t].todo) > 1 /\ call[t].todo[2] = "stopOpencode"
                    <6>1. s = Tail(call[t].todo)
                        BY <4>2 DEF GoesTo, Rest
                    <6>2. Len(s) # 0 /\ Head(s) = s[1] /\ Len(s) \in Nat
                        BY <4>1, Uncons
                    <6>3. /\ Len(s) = Len(call[t].todo) - 1 /\ Len(call[t].todo) \in Nat
                          /\ \A k \in 1..Len(call[t].todo) - 1 : s[k] = call[t].todo[k + 1]
                        BY <1>1, <6>1, Uncons
                    <6>4. QED
                        BY <4>1, <6>2, <6>3
                <5>2. ready = <<t>> /\ Alone(t)
                    BY <1>1, <1>9, <4>2, <5>1 DEF StopInv
                <5>3. QED
                    BY <1>2, <1>4, <1>6, <2>1, <4>1, <4>2, <5>2 DEF Alone, Idle, At
            <4>3. CASE label = "routerGone"
                <5>1. ready = <<t>> /\ \A v \in Task : Awake(v) <=> v = t
                    BY <1>6, <4>3
                <5>2. \A v \in Task \ {t} : Sleeps(v)
                    BY <5>1 DEF TaskInv
                <5>3. \A v \in Task \ {t} : At(v) \notin Work("router")
                    BY <1>1, <1>9, <4>3 DEF Held, Work
                <5>4. slot["router"].handle = None /\ ~slot["router"].timer
                    BY <1>1, <1>9, <4>3 DEF Held, Work, StopOf
                <5>5. \A v \in Task \ {t} : At(v) # "opencodeGone"
                    <6>1. \A v \in Task : ready # <<t, v>>
                        BY <5>1, Two, One
                    <6>2. QED
                        BY <1>1, <1>9, <6>1 DEF StopInv
                <5>6. \A v \in Task \ {t} : At(v) \in {"idle", "bundle", "listen", "awaitBoot"}
                    BY <5>2, <5>3, <5>5 DEF Sleeps, Work, At
                <5>7. QED
                    BY <1>2, <1>4, <1>6, <2>1, <4>1, <5>1, <5>4, <5>6
            <4>4. QED
                BY <4>1, <4>2, <4>3
        <3>4. QED
            BY <1>2, <1>3, <2>1, <3>1, <3>2, <3>3
    <2>2. CASE u # t
        <3>1. At(u)' = At(u) /\ call'[u] = call[u]
            BY <1>2, <2>2
        <3>2. ~(At(u) = "stopRouter" /\ Len(call[u].todo) > 1 /\ call[u].todo[2] = "stopOpencode")
            BY <1>1, <1>9, <2>2 DEF StopInv, Alone
        <3>3. At(u) # "stopOpencode"
            BY <1>5, <1>9, <2>2 DEF StopInv
        <3>4. ASSUME At(u) = "opencodeGone"
              PROVE  /\ slot'["router"].handle = None /\ ~slot'["router"].timer
                     /\ \A v \in Task \ {u} : Idle(v)' \/ ready' = <<v, u>>
            <4>1. /\ slot["router"].handle = None /\ ~slot["router"].timer /\ ready = <<t, u>>
                  /\ \A v \in Task \ {u} : Idle(v) \/ ready = <<v, u>>
                BY <1>1, <1>9, <2>2, <3>4 DEF StopInv
            <4>2. \A v \in Task \ {u, t} : Idle(v)
                BY <1>7, <4>1
            <4>3. Idle(t)' \/ ready' = <<t, u>>
                BY <1>2, <1>4, <4>1
            <4>4. QED
                BY <1>2, <1>6, <4>1, <4>2, <4>3
        <3>5. QED
            BY <3>1, <3>2, <3>3, <3>4
    <2>3. QED
        BY <2>1, <2>2
<1>11. ToldInv'
    <2> SUFFICES ASSUME NEW i \in told
        PROVE  \/ proc[i] = "dying"
               \/ proc[i] = "none" /\ (Idle(i)' \/ \E v \in Request : ready' = <<i, v>>)
        BY DEF ToldInv
    <2>1. i \in Task
        BY DEF TypeOK, Task
    <2>2. CASE proc[i] = "dying"
        BY <2>2
    <2>3. CASE proc[i] = "none" /\ Idle(i)
        BY <1>1, <1>2, <2>1, <2>3
    <2>4. CASE proc[i] = "none" /\ \E v \in Request : ready = <<i, v>>
        <3>1. PICK v \in Request : ready = <<i, v>>
            BY <2>4
        <3>2. i = t
            BY <1>7, <2>1, <3>1 DEF Task
        <3>3. QED
            BY <1>2, <1>4, <2>4, <3>1, <3>2
    <2>5. QED
        BY <1>9, <2>2, <2>3, <2>4 DEF ToldInv
<1>12. CloseInv'
    <2> SUFFICES ASSUME NEW r \in Request, Closes(r)'
        PROVE  /\ shuttingDown
               /\ \A u \in Task \ {r} : \A k \in 1..Len(call'[u].todo) :
                     call'[u].todo[k] \in {"stopRouter", "routerGone", "reap"}
               /\ At(r)' = "exit" => \A c \in Component : slot'[c].handle = None
        BY DEF CloseInv
    <2>1. r \in Task
        BY DEF Task
    <2>2. Closes(r)
        BY <1>2, <1>3, <2>1 DEF Closes
    <2>3. /\ shuttingDown
          /\ \A u \in Task \ {r} : \A k \in 1..Len(call[u].todo) :
                call[u].todo[k] \in {"stopRouter", "routerGone", "reap"}
          /\ At(r) = "exit" => \A c \in Component : slot[c].handle = None
        BY <1>9, <2>2 DEF CloseInv
    <2>4. t # r => label \in {"stopRouter", "routerGone", "reap"}
        BY <1>1, <2>3, Uncons
    <2>5. \A u \in Task \ {r} : \A k \in 1..Len(call'[u].todo) :
              call'[u].todo[k] \in {"stopRouter", "routerGone", "reap"}
        BY <1>2, <1>3, <2>3, <2>4
    <2>6. ASSUME At(r)' = "exit" PROVE \A c \in Component : slot'[c].handle = None
        <3>1. CASE t # r
            BY <1>2, <2>1, <2>3, <2>6, <3>1
        <3>2. CASE t = r
            <4>1. label \in {"stopOpencode", "opencodeGone"}
                BY <1>2, <1>3, <2>6, <3>2
            <4>2. slot["router"].handle = None
                BY <1>1, <1>9, <4>1 DEF StopInv
            <4>3. slot["opencode"].handle = None
                BY <1>1, <1>9, <4>1 DEF Held, Work
            <4>4. QED
                BY <4>2, <4>3 DEF Component
        <3>3. QED
            BY <3>1, <3>2
    <2>7. QED
        BY <2>3, <2>5, <2>6
<1>13. QED
    BY <1>10, <1>11, <1>12

LEMMA GoFits ==
    ASSUME TypeOK, TaskInv, NEW t, NEW label, label \notin {"idle", "bootEnd"}, Turn(t, label),
           NEW s, GoesTo(t, label, s)
    PROVE  /\ s \in Seq(Label) /\ Fits(t, s)
           /\ s # <<>> => Head(s) \in Later
           /\ t = "boot" => s # <<>>
<1> DEFINE q == call[t].todo
<1> DEFINE r == Rest(t)
<1>1. /\ t \in Task /\ q \in Seq(Label) /\ q # <<>> /\ Head(q) = label /\ Fits(t, q)
      /\ r \in Seq(Label) /\ Fits(t, r) /\ label \in LabelsOf(t)
      /\ r # <<>> => Head(r) \in Later
      /\ t = "boot" => r # <<>>
    BY TurnFacts
<1>2. /\ \A k \in 1..Len(r) : r[k] = q[k + 1] /\ k + 1 \in 1..Len(q)
      /\ \A k \in 1..Len(q) : q[k] = "exit" =>
            Head(q) \in {"stopRouter", "routerGone", "stopOpencode", "opencodeGone", "exit"}
      /\ \A k \in 2..Len(r) : r[k] # "stopOpencode"
      /\ r # <<>> /\ Head(r) = "stopOpencode" => Head(q) \in {"stopRouter", "routerGone"}
    BY <1>1, FitsStop DEF Rest
<1>3. /\ r # <<>> => Head(r) = r[1] /\ Len(r) # 0
      /\ Len(r) = Len(q) - 1 /\ Len(q) \in Nat \ {0} /\ q[1] = label /\ Len(r) \in Nat
    BY <1>1, Uncons DEF Rest
<1>4. \/ t \notin Opencode /\ "stopRouter" \in LabelsOf(t) /\ "disable" \in LabelsOf(t)
      \/ label \notin {"startRouter", "applyStop"}
    BY <1>1 DEF LabelsOf, Label
<1>5. label \in {"startRouter", "applyStop"} =>
          \A k \in 1..Len(r) : r[k] # "stopOpencode" /\ r[k] # "exit" /\ r[k] \in Later
    <2>1. label \in {"startRouter", "applyStop"} => \A k \in 1..Len(r) : r[k] # "exit"
        BY <1>1, <1>2
    <2>2. label \in {"startRouter", "applyStop"} => \A k \in 1..Len(r) : r[k] # "stopOpencode"
        BY <1>1, <1>2, <1>3, LenZero, Nil
    <2>3. \A k \in 1..Len(r) : r[k] \in Later
        BY <1>1, <1>3 , <1>2 DEF Fits
    <2>4. QED
        BY <2>1, <2>2, <2>3
<1>6. /\ \A k \in 1..Len(r) : r[k] \in LabelsOf(t)
      /\ \A k \in 1..Len(r) - 1 : r[k] \notin Final
      /\ t = "boot" => r[Len(r)] = "bootEnd"
    BY <1>1 DEF Fits
<1> HIDE DEF q, r
<1>7. CASE s = r
    BY <1>1, <1>7
<1>8. CASE label = "startRouter" /\ s = <<"stopRouter", "disable">> \o r
    <2>1. /\ s \in Seq(Label) /\ s # <<>> /\ Head(s) = "stopRouter" /\ Len(s) = Len(r) + 2
          /\ \A k \in 1..Len(r) + 2 :
                s[k] = IF k = 1 THEN "stopRouter" ELSE IF k = 2 THEN "disable" ELSE r[k - 2]
        BY <1>1, <1>8, ConsTwo DEF Label
    <2>2. t = "boot" => Len(r) # 0
        BY <1>1, <1>3
    <2>3. \A k \in 1..Len(s) :
              \/ k = 1 /\ s[k] = "stopRouter"
              \/ k = 2 /\ s[k] = "disable"
              \/ k - 2 \in 1..Len(r) /\ s[k] = r[k - 2]
        <3>1. \A k \in 1..Len(r) + 2 : k = 1 \/ k = 2 \/ k - 2 \in 1..Len(r)
            BY <1>3, Shift
        <3>2. QED
            BY <2>1, <3>1
    <2>4. Fits(t, s)
        <3>1. \A k \in 1..Len(s) : s[k] \in LabelsOf(t)
            BY <1>4, <1>6, <1>8, <2>3
        <3>2. \A k \in 2..Len(s) : s[k] \in Later /\ s[k] \notin {"stopOpencode", "exit"}
            BY <1>5, <1>8, <2>3 DEF Later
        <3>3. \A k \in 1..Len(s) - 1 : s[k] \notin Final
            BY <1>3, <1>6, <2>1, <2>3 DEF Final
        <3>4. t = "boot" => s[Len(s)] = "bootEnd"
            BY <1>3, <1>6, <2>1, <2>2
        <3>5. QED
            BY <3>1, <3>2, <3>3, <3>4 DEF Fits
    <2>5. QED
        BY <2>1, <2>4 DEF Later
<1>9. CASE label = "applyStop" /\ s = <<"stopRouter">> \o r
    <2>1. /\ s \in Seq(Label) /\ s # <<>> /\ Head(s) = "stopRouter" /\ Len(s) = Len(r) + 1
          /\ \A k \in 1..Len(r) + 1 : s[k] = IF k = 1 THEN "stopRouter" ELSE r[k - 1]
        BY <1>1, <1>9, Cons DEF Label
    <2>2. t = "boot" => Len(r) # 0
        BY <1>1, <1>3
    <2>3. \A k \in 1..Len(s) :
              \/ k = 1 /\ s[k] = "stopRouter"
              \/ k - 1 \in 1..Len(r) /\ s[k] = r[k - 1]
        <3>1. \A k \in 1..Len(r) + 1 : k = 1 \/ k - 1 \in 1..Len(r)
            BY <1>3, Shift
        <3>2. QED
            BY <2>1, <3>1
    <2>4. Fits(t, s)
        <3>1. \A k \in 1..Len(s) : s[k] \in LabelsOf(t)
            BY <1>4, <1>6, <1>9, <2>3
        <3>2. \A k \in 2..Len(s) : s[k] \in Later /\ s[k] \notin {"stopOpencode", "exit"}
            BY <1>5, <1>9, <2>3 DEF Later
        <3>3. \A k \in 1..Len(s) - 1 : s[k] \notin Final
            BY <1>3, <1>6, <2>1, <2>3 DEF Final
        <3>4. t = "boot" => s[Len(s)] = "bootEnd"
            BY <1>3, <1>6, <2>1, <2>2
        <3>5. QED
            BY <3>1, <3>2, <3>3, <3>4 DEF Fits
    <2>5. QED
        BY <2>1, <2>4 DEF Later
<1>10. QED
    BY <1>7, <1>8, <1>9 DEF GoesTo, r

\* What a task that goes on may do to the slots.
SlotKept(label) ==
    /\ \A c \in Component :
           /\ slot'[c].handle = slot[c].handle
           /\ slot'[c].running => slot[c].running
           /\ slot[c].handle # None /\ label \notin Work(c) => (slot'[c].running <=> slot[c].running)
           /\ label = StopOf(c) => ~slot'[c].running
           /\ label # StopOf(c) => (slot[c].stopping => slot'[c].stopping)
           /\ slot[c].stopping => (slot'[c].timer => slot[c].timer)
    /\ slot'["router"].timer => slot["router"].timer
    /\ label = "stopRouter" => slot["router"].handle = None /\ ~slot'["router"].timer
    /\ label = "stopOpencode" => slot["opencode"].handle = None

Parts == TaskInv /\ ProcInv /\ HeldInv /\ QuietInv

LEMMA GoKeeps ==
    ASSUME TypeOK, Parts, NEW t, NEW label, label \notin {"idle", "bootEnd"}, Turn(t, label),
           NEW s, Go(t, s), GoesTo(t, label, s), SlotKept(label),
           UNCHANGED <<proc, booting, asked, shuttingDown, told, overlapped, interfered>>
    PROVE  Parts' /\ CallType' /\ ReadyType'
<1>1. /\ s \in Seq(Label) /\ Fits(t, s)
      /\ s # <<>> => Head(s) \in Later
      /\ t = "boot" => s # <<>>
    BY GoFits DEF Parts
<1>2. TaskInv' /\ CallType' /\ ReadyType'
    BY <1>1, GoKeepsTasks DEF Parts
<1>3. ProcInv'
    BY <1>1, GoKeepsProcs DEF Parts, SlotKept
<1>4. HeldInv'
    BY <1>1, GoKeepsHeld DEF Parts, SlotKept
<1>5. QuietInv'
    BY <1>1, GoKeepsQuiet DEF Parts, SlotKept
<1>6. QED
    BY <1>2, <1>3, <1>4, <1>5 DEF Parts

Slot == [handle: Child \cup {None}, running: BOOLEAN, status: Status,
         stopping: BOOLEAN, timer: BOOLEAN, history: 0..MaxAttempts]
SlotType ==
    /\ slot \in [Component -> Slot]
    /\ slot["opencode"].handle \notin Router /\ slot["router"].handle \notin Opencode

\* One slot is changed.
LEMMA SlotPut ==
    ASSUME TypeOK, NEW c \in Component, NEW r \in Slot, slot' = [slot EXCEPT ![c] = r],
           c = "opencode" => r.handle \notin Router, c = "router" => r.handle \notin Opencode
    PROVE  SlotType' /\ slot'[c] = r /\ \A d \in Component \ {c} : slot'[d] = slot[d]
<1>1. slot \in [Component -> Slot] /\ "opencode" \in Component /\ "router" \in Component
    BY DEF TypeOK, Slot, Component
<1>2. slot' \in [Component -> Slot] /\ slot'[c] = r /\ \A d \in Component \ {c} : slot'[d] = slot[d]
    BY <1>1
<1>3. slot'["opencode"].handle \notin Router /\ slot'["router"].handle \notin Opencode
    BY <1>1, <1>2 DEF TypeOK
<1>4. QED
    BY <1>2, <1>3 DEF SlotType

LEMMA SlotFacts ==
    ASSUME TypeOK
    PROVE  /\ \A c \in Component :
                 /\ slot[c] \in Slot
                 /\ c = "opencode" => slot[c].handle \notin Router
                 /\ c = "router" => slot[c].handle \notin Opencode
           /\ SlotType /\ "opencode" \in Component /\ "router" \in Component
BY DEF TypeOK, SlotType, Slot, Component

\* The rest of the type of the state.
EnvType ==
    /\ {shuttingDown, booting, manifest, enabled, stopped, interfered} \subseteq BOOLEAN
    /\ proc \in [Child -> {"none", "starting", "up", "dying", "failing", "dead"}]
    /\ asked \subseteq Request
    /\ faults \in 0..MaxFaults
    /\ overlapped \subseteq Component /\ told \subseteq Opencode

LEMMA Typed ==
    /\ TypeOK => SlotType /\ CallType /\ ReadyType /\ EnvType
    /\ (SlotType /\ CallType /\ ReadyType /\ EnvType)' => TypeOK'
BY DEF TypeOK, SlotType, Slot, CallType, ReadyType, EnvType

LEMMA StopNothingKeeps ==
    ASSUME TypeOK, Parts, NEW t, NEW c \in Component, StopNothing(t, c)
    PROVE  TypeOK' /\ Parts'
<1> DEFINE label == IF c = "router" THEN "stopRouter" ELSE "stopOpencode"
           r == [slot[c] EXCEPT !.timer = FALSE, !.running = FALSE,
                     !.status = IF c = "router" /\ @ = "disabled" THEN @ ELSE "stopped"]
<1>1. /\ Turn(t, label) /\ label \notin {"idle", "bootEnd"} /\ Go(t, Rest(t)) /\ slot[c].handle = None
      /\ UNCHANGED <<proc, booting, asked, shuttingDown, told, overlapped, interfered>>
    BY DEF StopNothing, env, history
<1>2. r \in Slot /\ slot' = [slot EXCEPT ![c] = r] /\ r.handle = slot[c].handle
      /\ r.running = FALSE /\ r.timer = FALSE /\ r.stopping = slot[c].stopping
    BY SlotFacts DEF StopNothing, Slot, Status
<1> HIDE DEF r
<1>3. SlotType' /\ slot'[c] = r /\ \A d \in Component \ {c} : slot'[d] = slot[d]
    BY <1>2, SlotPut, SlotFacts
<1>4. SlotKept(label)
    BY <1>1, <1>2, <1>3 DEF SlotKept, Component, Work, StopOf
<1> HIDE DEF label
<1>5. Parts' /\ CallType' /\ ReadyType'
    BY <1>1, <1>4, GoKeeps DEF GoesTo
<1>6. EnvType'
    BY Typed DEF EnvType, StopNothing, env, history
<1>7. QED
    BY <1>3, <1>5, <1>6, Typed

LEMMA StoppedKeeps ==
    ASSUME TypeOK, Parts, NEW t, NEW c \in Component, Stopped(t, c)
    PROVE  TypeOK' /\ Parts'
<1> DEFINE label == StopOf(c)
           r == [slot[c] EXCEPT !.running = FALSE, !.status = StopStatus(c), !.stopping = FALSE]
<1>1. /\ Turn(t, label) /\ label \notin {"idle", "bootEnd"} /\ Go(t, Rest(t))
      /\ UNCHANGED <<proc, booting, asked, shuttingDown, told, overlapped, interfered>>
    BY DEF Stopped, env, history, StopOf, Component
<1>2. r \in Slot /\ slot' = [slot EXCEPT ![c] = r] /\ r.handle = slot[c].handle
      /\ r.running = FALSE /\ r.timer = slot[c].timer
    BY SlotFacts DEF Stopped, Slot, Status, StopStatus
<1> HIDE DEF r
<1>3. SlotType' /\ slot'[c] = r /\ \A d \in Component \ {c} : slot'[d] = slot[d]
    BY <1>2, SlotPut, SlotFacts
<1>4. SlotKept(label)
    BY <1>1, <1>2, <1>3 DEF SlotKept, Component, Work, StopOf
<1> HIDE DEF label
<1>5. Parts' /\ CallType' /\ ReadyType'
    BY <1>1, <1>4, GoKeeps DEF GoesTo
<1>6. EnvType'
    BY Typed DEF EnvType, Stopped, env, history
<1>7. QED
    BY <1>3, <1>5, <1>6, Typed

\* A task that goes on and changes no more of a slot than its status.
LEMMA StatusKept ==
    ASSUME TypeOK, NEW label, label \notin {"stopRouter", "stopOpencode", "routerGone", "opencodeGone"},
           \A c \in Component : /\ slot'[c].handle = slot[c].handle
                                /\ slot'[c].running = slot[c].running
                                /\ slot'[c].stopping = slot[c].stopping
                                /\ slot'[c].timer = slot[c].timer
    PROVE  SlotKept(label)
<1>1. \A c \in Component : label # StopOf(c)
    BY DEF StopOf
<1>2. QED
    BY <1>1, SlotFacts DEF SlotKept

LEMMA StatusPut ==
    ASSUME TypeOK, NEW c \in Component, NEW x \in Status, slot' = [slot EXCEPT ![c].status = x]
    PROVE  /\ SlotType'
           /\ \A d \in Component : /\ slot'[d].handle = slot[d].handle
                                   /\ slot'[d].running = slot[d].running
                                   /\ slot'[d].stopping = slot[d].stopping
                                   /\ slot'[d].timer = slot[d].timer
<1> DEFINE r == [slot[c] EXCEPT !.status = x]
<1>1. /\ r \in Slot /\ slot' = [slot EXCEPT ![c] = r] /\ r.handle = slot[c].handle
      /\ r.running = slot[c].running /\ r.stopping = slot[c].stopping /\ r.timer = slot[c].timer
    BY SlotFacts DEF Slot
<1> HIDE DEF r
<1>2. SlotType' /\ slot'[c] = r /\ \A d \in Component \ {c} : slot'[d] = slot[d]
    BY <1>1, SlotPut, SlotFacts
<1>3. QED
    BY <1>1, <1>2

LEMMA DisableKeeps ==
    ASSUME TypeOK, Parts, NEW t, Disable(t)
    PROVE  TypeOK' /\ Parts'
<1>1. /\ Turn(t, "disable") /\ Go(t, Rest(t)) /\ slot' = [slot EXCEPT !["router"].status = "disabled"]
      /\ UNCHANGED <<proc, booting, asked, shuttingDown, told, overlapped, interfered>>
    BY DEF Disable, env, history
<1>2. SlotType' /\ SlotKept("disable")
    BY <1>1, StatusPut, StatusKept, SlotFacts DEF Status
<1>3. Parts' /\ CallType' /\ ReadyType'
    BY <1>1, <1>2, GoKeeps DEF GoesTo
<1>4. EnvType'
    BY Typed DEF EnvType, Disable, env, history
<1>5. QED
    BY <1>2, <1>3, <1>4, Typed

LEMMA RouterFailedKeeps ==
    ASSUME TypeOK, Parts, NEW t, RouterFailed(t)
    PROVE  TypeOK' /\ Parts'
<1> DEFINE r == [slot["router"] EXCEPT !.running = FALSE, !.status = "error"]
<1>1. /\ Turn(t, "probeGone") /\ Go(t, Rest(t))
      /\ UNCHANGED <<proc, booting, asked, shuttingDown, told, overlapped, interfered>>
    BY DEF RouterFailed, env, history
<1>2. r \in Slot /\ slot' = [slot EXCEPT !["router"] = r] /\ r.handle = slot["router"].handle
      /\ r.running = FALSE /\ r.timer = slot["router"].timer /\ r.stopping = slot["router"].stopping
    BY SlotFacts DEF RouterFailed, Slot, Status
<1> HIDE DEF r
<1>3. /\ SlotType' /\ slot'["router"] = r
      /\ \A d \in Component \ {"router"} : slot'[d] = slot[d]
    BY <1>2, SlotPut, SlotFacts
<1>4. SlotKept("probeGone")
    BY <1>2, <1>3 DEF SlotKept, Component, Work, StopOf
<1>5. Parts' /\ CallType' /\ ReadyType'
    BY <1>1, <1>4, GoKeeps DEF GoesTo
<1>6. EnvType'
    BY Typed DEF EnvType, RouterFailed, env, history
<1>7. QED
    BY <1>3, <1>5, <1>6, Typed

LEMMA ApplyStopKeeps ==
    ASSUME TypeOK, Parts, NEW t, ApplyStop(t)
    PROVE  TypeOK' /\ Parts'
<1>1. /\ Turn(t, "applyStop")
      /\ \E s \in {Rest(t), <<"stopRouter">> \o Rest(t)} : Go(t, s)
      /\ UNCHANGED <<slot, proc, booting, asked, shuttingDown, told, overlapped, interfered>>
    BY DEF ApplyStop, service, env, history
<1>2. SlotType' /\ SlotKept("applyStop")
    BY <1>1, StatusKept, SlotFacts DEF SlotType
<1>3. PICK s \in {Rest(t), <<"stopRouter">> \o Rest(t)} : Go(t, s)
    BY <1>1
<1>4. GoesTo(t, "applyStop", s)
    BY DEF GoesTo
<1>5. Parts' /\ CallType' /\ ReadyType'
    BY <1>1, <1>2, <1>3, <1>4, GoKeeps
<1>6. EnvType'
    BY Typed DEF EnvType, ApplyStop, service, env, history
<1>7. QED
    BY <1>2, <1>5, <1>6, Typed

LEMMA ForgetManifestKeeps ==
    ASSUME TypeOK, Parts, NEW t, ForgetManifest(t)
    PROVE  TypeOK' /\ Parts'
<1>1. /\ Turn(t, "forget") /\ Go(t, Rest(t))
      /\ UNCHANGED <<slot, proc, booting, asked, shuttingDown, told, overlapped, interfered>>
    BY DEF ForgetManifest, env, history
<1>2. SlotType' /\ SlotKept("forget")
    BY <1>1, StatusKept, SlotFacts DEF SlotType
<1>3. Parts' /\ CallType' /\ ReadyType'
    BY <1>1, <1>2, GoKeeps DEF GoesTo
<1>4. EnvType'
    BY Typed DEF EnvType, ForgetManifest, env, history
<1>5. QED
    BY <1>2, <1>3, <1>4, Typed

\* What an exit taken for a crash leaves of the slot.
LEMMA CrashedFacts ==
    ASSUME TypeOK, NEW c \in Component, NEW s \in Crashed(c)
    PROVE  \E r \in Slot : /\ s = [slot EXCEPT ![c] = r]
                           /\ r.handle = slot[c].handle /\ r.running = slot[c].running
                           /\ r.stopping = slot[c].stopping
<1>1. slot[c] \in Slot /\ slot \in [Component -> Slot] /\ MaxAttempts \in Nat
    BY SlotFacts, ConstantsAssumption DEF SlotType
<1>2. PICK recent \in 0..slot[c].history :
          s = IF recent < MaxAttempts
              THEN [slot EXCEPT ![c].status = "restart_scheduled", ![c].timer = TRUE, ![c].history = recent + 1]
              ELSE [slot EXCEPT ![c].status = "crashed"]
    BY DEF Crashed
<1>3. CASE recent < MaxAttempts
    <2> DEFINE r == [slot[c] EXCEPT !.status = "restart_scheduled", !.timer = TRUE, !.history = recent + 1]
    <2>1. recent + 1 \in 0..MaxAttempts
        BY <1>1, <1>3 DEF Slot
    <2>2. r \in Slot
        BY <1>1, <2>1 DEF Slot, Status
    <2>3. s = [slot EXCEPT ![c] = r]
        BY <1>1, <1>2, <1>3 DEF Slot
    <2>4. r.handle = slot[c].handle /\ r.running = slot[c].running /\ r.stopping = slot[c].stopping
        BY <1>1 DEF Slot
    <2> HIDE DEF r
    <2>5. QED
        BY <2>2, <2>3, <2>4
<1>4. CASE ~(recent < MaxAttempts)
    <2> DEFINE r == [slot[c] EXCEPT !.status = "crashed"]
    <2>1. r \in Slot
        BY <1>1 DEF Slot, Status
    <2>2. s = [slot EXCEPT ![c] = r]
        BY <1>1, <1>2, <1>4 DEF Slot
    <2>3. r.handle = slot[c].handle /\ r.running = slot[c].running /\ r.stopping = slot[c].stopping
        BY <1>1 DEF Slot
    <2> HIDE DEF r
    <2>4. QED
        BY <2>1, <2>2, <2>3
<1>5. QED
    BY <1>3, <1>4

LEMMA ReapKeeps ==
    ASSUME TypeOK, Parts, NEW t, Reap(t)
    PROVE  TypeOK' /\ Parts'
<1>1. /\ Turn(t, "reap") /\ Go(t, Rest(t))
      /\ UNCHANGED <<proc, booting, asked, shuttingDown, told, overlapped, interfered>>
    BY DEF Reap, env, history
<1>2. \E r \in Slot : /\ slot' = [slot EXCEPT !["opencode"] = r]
                      /\ r.handle = slot["opencode"].handle /\ r.running = slot["opencode"].running
                      /\ r.stopping = slot["opencode"].stopping
                      /\ slot["opencode"].stopping => r.timer = slot["opencode"].timer
    <2>1. CASE TakenForStop("opencode")
        <3> DEFINE r == [slot["opencode"] EXCEPT !.status = "stopped"]
        <3>1. /\ r \in Slot /\ slot' = [slot EXCEPT !["opencode"] = r]
              /\ r.handle = slot["opencode"].handle /\ r.running = slot["opencode"].running
              /\ r.stopping = slot["opencode"].stopping /\ r.timer = slot["opencode"].timer
            BY <2>1, SlotFacts DEF Reap, Slot, Status
        <3> HIDE DEF r
        <3>2. QED
            BY <3>1
    <2>2. CASE ~TakenForStop("opencode")
        <3>1. slot' \in Crashed("opencode") /\ ~slot["opencode"].stopping
            BY <2>2 DEF Reap, TakenForStop
        <3>2. QED
            BY <3>1, CrashedFacts, SlotFacts
    <2>3. QED
        BY <2>1, <2>2
<1>3. PICK r \in Slot : /\ slot' = [slot EXCEPT !["opencode"] = r]
                        /\ r.handle = slot["opencode"].handle /\ r.running = slot["opencode"].running
                        /\ r.stopping = slot["opencode"].stopping
                        /\ slot["opencode"].stopping => r.timer = slot["opencode"].timer
    BY <1>2
<1>4. /\ SlotType' /\ slot'["opencode"] = r
      /\ \A d \in Component \ {"opencode"} : slot'[d] = slot[d]
    BY <1>3, SlotPut, SlotFacts
<1>5. SlotKept("reap")
    BY <1>3, <1>4 DEF SlotKept, Component, Work, StopOf
<1>6. Parts' /\ CallType' /\ ReadyType'
    BY <1>1, <1>5, GoKeeps DEF GoesTo
<1>7. EnvType'
    BY Typed DEF EnvType, Reap, env, history
<1>8. QED
    BY <1>4, <1>6, <1>7, Typed

-----------------------------------------------------------------------------
(* A task that begins to wait *)

LEMMA WaitKeepsQuiet ==
    ASSUME TypeOK, Parts, NEW t, NEW label, label \notin {"idle", "reap", "routerGone"}, Turn(t, label),
           NEW x \in {"bundle", "binary", "routerGone", "opencodeGone", "awaitBoot"},
           call'[t].todo = <<x>> \o Rest(t), At(t)' = x,
           \A u \in Task \ {t} : call'[u] = call[u] /\ At(u)' = At(u),
           ready' = Tail(ready), shuttingDown' = shuttingDown, Calm' => Calm,
           label = "stopRouter" => x = "routerGone" /\ slot["router"].handle # None,
           x = "opencodeGone" => /\ label = "stopOpencode" /\ slot'["router"] = slot["router"]
                                 /\ Calm' => Busy("opencode") \ {t} = {},
           \A j \in told' : proc'[j] = "dying" \/ (j \in told /\ proc'[j] = proc[j])
    PROVE  QuietInv'
<1>1. /\ t \in Task /\ At(t) = label /\ ~Idle(t) /\ label \in LabelsOf(t)
      /\ call[t].todo \in Seq(Label) /\ call[t].todo # <<>> /\ Head(call[t].todo) = label
      /\ ready # <<>> /\ t = Head(ready) /\ Rest(t) \in Seq(Label) /\ Fits(t, call[t].todo)
    BY TurnFacts DEF Turn, Parts
<1>2. \A u \in Task \ {t} : Idle(u)' <=> Idle(u)
    BY DEF Idle
<1>3. \A u \in Task : ready = <<u>> => u = t
    BY <1>1, One
<1>4. \A u \in Task, v \in Task : ready = <<u, v>> => u = t
    BY <1>1, AwakeFacts
<1>5. SUFFICES ASSUME Calm' PROVE StopInv' /\ ToldInv' /\ CloseInv'
    BY DEF QuietInv
<1>6. StopInv /\ ToldInv /\ CloseInv
    BY <1>5 DEF QuietInv, Parts
<1>7. ready = <<t>> /\ \A u \in Task : Awake(u) <=> u = t
    <2>1. CASE \E v \in Request :
                  /\ ready = <<t, v>> /\ t \in Opencode /\ v # t
                  /\ label \in {"stopRouter", "reap"} /\ At(v) = "opencodeGone"
        <3>1. PICK v \in Request : At(v) = "opencodeGone" /\ label = "stopRouter"
            BY <2>1
        <3>2. slot["router"].handle = None
            BY <1>6, <3>1 DEF StopInv, Task
        <3>3. QED
            BY <3>1, <3>2
    <2>2. QED
        BY <2>1, TurnFacts DEF Parts
<1>8. \A u \in Task \ {t} : At(u) # "opencodeGone"
    BY <1>1, <1>4, <1>6, <1>7, One, Two DEF StopInv
<1>9. StopInv'
    <2> SUFFICES ASSUME NEW u \in Task
        PROVE  /\ At(u)' = "stopRouter" /\ Len(call'[u].todo) > 1 /\ call'[u].todo[2] = "stopOpencode" =>
                     ready' = <<u>> /\ Alone(u)'
               /\ At(u)' = "stopOpencode" =>
                     /\ slot'["router"].handle = None /\ ~slot'["router"].timer /\ ready' = <<u>>
                     /\ \A v \in Task \ {u} : At(v)' \in {"idle", "bundle", "listen", "awaitBoot"}
               /\ At(u)' = "opencodeGone" =>
                     /\ slot'["router"].handle = None /\ ~slot'["router"].timer
                     /\ \A v \in Task \ {u} : Idle(v)' \/ ready' = <<v, u>>
        BY DEF StopInv
    <2>1. CASE u = t
        <3>1. ASSUME x = "opencodeGone"
              PROVE  /\ slot'["router"].handle = None /\ ~slot'["router"].timer
                     /\ \A v \in Task \ {t} : Idle(v)'
            <4>1. /\ slot["router"].handle = None /\ ~slot["router"].timer
                  /\ \A v \in Task \ {t} : At(v) \in {"idle", "bundle", "listen", "awaitBoot"}
                BY <1>1, <1>6, <3>1 DEF StopInv
            <4>2. \A v \in Task \ {t} : At(v) \in {"idle", "awaitBoot"}
                BY <1>5, <3>1, <4>1 DEF Busy
            <4>3. \A v \in Task \ {t} : At(v) = "awaitBoot" => ~Idle("boot")
                BY <1>7, AtFacts DEF Parts, TaskInv, Sleeps
            <4>4. "boot" \in Task /\ "boot" # t
                BY <1>1, <3>1, ConstantsAssumption DEF LabelsOf, Task
            <4>5. At("boot") # "awaitBoot"
                BY <4>4, AtFacts, ConstantsAssumption DEF Parts, LabelsOf
            <4>6. Idle("boot")
                BY <4>2, <4>4, <4>5, AtFacts DEF Parts
            <4>7. \A v \in Task \ {t} : At(v) = "idle"
                BY <4>2, <4>3, <4>6
            <4>8. \A v \in Task \ {t} : Idle(v)
                BY <4>7, AtFacts DEF Parts
            <4>9. QED
                BY <1>2, <3>1, <4>1, <4>8
        <3>2. QED
            BY <2>1, <3>1
    <2>2. CASE u # t
        <3>1. ~(At(u) = "stopRouter" /\ Len(call[u].todo) > 1 /\ call[u].todo[2] = "stopOpencode")
            BY <1>1, <1>6, <2>2 DEF StopInv, Alone
        <3>2. At(u) # "stopOpencode"
            BY <1>3, <1>6, <2>2 DEF StopInv
        <3>3. QED
            BY <1>8, <2>2, <3>1, <3>2
    <2>3. QED
        BY <2>1, <2>2
<1>10. ToldInv'
    <2> SUFFICES ASSUME NEW j \in told', proc'[j] # "dying"
        PROVE  proc'[j] = "none" /\ (Idle(j)' \/ \E v \in Request : ready' = <<j, v>>)
        BY DEF ToldInv
    <2>1. j \in told /\ proc'[j] = proc[j] /\ j \in Task
        BY DEF TypeOK, Task
    <2>2. \A v \in Task : ready # <<j, v>>
        BY <1>7, <2>1, One, Two
    <2>3. proc[j] = "none" /\ Idle(j)
        BY <1>6, <2>1, <2>2 DEF ToldInv, Task
    <2>4. QED
        BY <1>1, <1>2, <2>1, <2>3
<1>11. CloseInv'
    <2> SUFFICES ASSUME NEW r \in Request, Closes(r)'
        PROVE  /\ shuttingDown
               /\ \A u \in Task \ {r} : \A k \in 1..Len(call'[u].todo) :
                     call'[u].todo[k] \in {"stopRouter", "routerGone", "reap"}
               /\ At(r)' = "exit" => \A c \in Component : slot'[c].handle = None
        BY DEF CloseInv
    <2>1. r \in Task
        BY DEF Task
    <2>2. /\ Len(call'[t].todo) = Len(call[t].todo)
          /\ \A k \in 1..Len(call[t].todo) : IF k = 1 THEN call'[t].todo[k] = x
                                             ELSE call'[t].todo[k] = call[t].todo[k]
        <3>1. Len(call[t].todo) \in Nat \ {0} /\ Len(Rest(t)) = Len(call[t].todo) - 1
            BY <1>1, Uncons DEF Rest
        <3>2. \A k \in 1..Len(call[t].todo) - 1 : Rest(t)[k] = call[t].todo[k + 1]
            BY <1>1, Uncons DEF Rest
        <3>3. x \in Label
            BY DEF Label
        <3>4. /\ Len(<<x>> \o Rest(t)) = Len(Rest(t)) + 1
              /\ \A k \in 1..Len(Rest(t)) + 1 : (<<x>> \o Rest(t))[k] = IF k = 1 THEN x ELSE Rest(t)[k - 1]
            BY <1>1, <3>3, Cons
        <3>5. QED
            BY <3>1, <3>2, <3>4
    <2>3. Closes(r)
        BY <2>1, <2>2 DEF Closes
    <2>4. /\ shuttingDown
          /\ \A u \in Task \ {r} : \A k \in 1..Len(call[u].todo) :
                call[u].todo[k] \in {"stopRouter", "routerGone", "reap"}
        BY <1>6, <2>3 DEF CloseInv
    <2>5. t # r => label = "stopRouter"
        BY <1>1, <2>4, Uncons
    <2>6. \A u \in Task \ {r} : \A k \in 1..Len(call'[u].todo) :
              call'[u].todo[k] \in {"stopRouter", "routerGone", "reap"}
        <3>1. ASSUME NEW u \in Task \ {r}, NEW k \in 1..Len(call'[u].todo)
              PROVE  call'[u].todo[k] \in {"stopRouter", "routerGone", "reap"}
            <4>1. CASE u # t
                BY <2>4, <4>1
            <4>2. CASE u = t
                BY <2>2, <2>4, <2>5, <4>2
            <4>3. QED
                BY <4>1, <4>2
        <3>2. QED
            BY <3>1
    <2>7. At(r)' # "exit"
        <3>1. r # t => At(r) # "exit"
            BY <1>7, <2>1 DEF Parts, TaskInv, Sleeps, At
        <3>2. QED
            BY <2>1, <3>1
    <2>8. QED
        BY <2>4, <2>6, <2>7
<1>12. QED
    BY <1>9, <1>10, <1>11

LEMMA OverlapFacts ==
    ASSUME TypeOK, NEW t, NEW c \in Component, Overlap(t, c), interfered' = interfered
    PROVE  /\ overlapped \subseteq overlapped' /\ overlapped' \subseteq Component
           /\ Calm' => Calm
           /\ c \notin overlapped' => Busy(c) \ {t} = {}
           /\ Calm' => Busy(c) \ {t} = {}
BY DEF Overlap, Calm, TypeOK

\* A start begins that finds no other under way.
LEMMA WorkBegins ==
    ASSUME NEW c \in Component, Held(c), NEW t \in Task, Busy(c) \ {t} = {},
           UNCHANGED proc, slot'[c] = slot[c], slot[c].handle = None,
           \A u \in Task \ {t} : At(u)' = At(u),
           At(t) # StopOf(c), At(t)' # StopOf(c)
    PROVE  Held(c)'
<1>1. \A u \in Task \ {t} : At(u) \notin Work(c)
    BY DEF Busy, Work, Component
<1>2. StopOf(c) \in Work(c)
    BY DEF StopOf, Work
<1>3. \A u \in Task : At(u) # StopOf(c) /\ At(u)' # StopOf(c)
    BY <1>1, <1>2
<1>4. \A u \in Task : At(u)' \in Work(c) => u = t
    BY <1>1
<1>5. \A i \in Child : Of(i) = c /\ proc'[i] = "up" => slot'[c].handle = i
    BY DEF Held
<1>6. ~slot'[c].running
    BY <1>3 DEF Held
<1>7. QED
    BY <1>3, <1>4, <1>5, <1>6 DEF Held, Of, Work, StopOf

\* Nobody is concerned with a process that is up.
LEMMA OnNotUp ==
    ASSUME TypeOK, TaskInv
    PROVE  \A u \in Task : call[u].on # None => proc[call[u].on] # "up"
BY DEF TaskInv, Sleeps, Runs

\* In a turn, nobody waits at these labels.
LEMMA TurnWaits ==
    ASSUME TypeOK, TaskInv, NEW t, NEW label, label # "idle", Turn(t, label)
    PROVE  ~(/\ At(t) \in {"listen", "probe", "routerGone", "opencodeGone"}
             /\ proc[call[t].on] \in {"starting", "dying"})
BY TurnFacts DEF Runs, Later

LEMMA StartOpencodeKeeps ==
    ASSUME TypeOK, Parts, NEW t, StartOpencode(t)
    PROVE  TypeOK' /\ Parts'
<1>1. /\ Turn(t, "startOpencode") /\ Wait(t, "bundle", None) /\ Overlap(t, "opencode")
      /\ UNCHANGED <<slot, proc, booting, asked, shuttingDown, told, interfered>>
    BY DEF StartOpencode, service, env
<1>2. /\ t \in Task /\ At(t) = "startOpencode" /\ "startOpencode" \in LabelsOf(t)
      /\ ~slot["opencode"].running /\ TaskInv
    BY <1>1, TurnFacts DEF Parts, TaskInv
<1>3. "bundle" \in LabelsOf(t) /\ None \in Child \cup {None}
    BY <1>2, ConstantsAssumption DEF LabelsOf, Label
<1>4. /\ TaskInv' /\ CallType' /\ ReadyType'
      /\ At(t)' = "bundle" /\ call'[t].on = None /\ call'[t].todo = <<"bundle">> \o Rest(t)
      /\ \A u \in Task \ {t} : call'[u] = call[u] /\ At(u)' = At(u)
    BY <1>1, <1>2, <1>3, WaitKeepsTasks DEF Final
<1>5. /\ overlapped \subseteq overlapped' /\ overlapped' \subseteq Component
      /\ Calm' => Calm
      /\ "opencode" \notin overlapped' => Busy("opencode") \ {t} = {}
    BY <1>1, OverlapFacts, SlotFacts
<1>6. ProcInv'
    BY <1>1, <1>2, <1>4, ProcsKept DEF Parts, Idle, At, Task
<1>7. HeldInv'
    <2> SUFFICES ASSUME NEW c \in Component, c \notin overlapped' PROVE Held(c)'
        BY DEF HeldInv
    <2>1. Held(c)
        BY <1>5 DEF Parts, HeldInv
    <2>2. CASE c = "opencode"
        <3>1. slot[c].handle = None
            BY <1>2, <2>1, <2>2 DEF Held
        <3>2. At(t) # StopOf(c) /\ At(t)' # StopOf(c)
            BY <1>2, <1>4, <2>2 DEF StopOf
        <3>3. QED
            BY <1>1, <1>2, <1>4, <1>5, <2>1, <2>2, <3>1, <3>2, WorkBegins
    <2>3. CASE c = "router"
        BY <1>1, <1>2, <1>4, <2>1, <2>3, HeldKept DEF Work, StopOf
    <2>4. QED
        BY <2>2, <2>3 DEF Component
<1>8. QuietInv'
    <2>1. /\ \A j \in told' : j \in told /\ proc'[j] = proc[j]
          /\ ready' = Tail(ready) /\ shuttingDown' = shuttingDown
          /\ "startOpencode" \notin {"idle", "reap", "routerGone", "stopRouter"}
          /\ "bundle" \in {"bundle", "binary", "routerGone", "opencodeGone", "awaitBoot"}
        BY <1>1 DEF Wait
    <2>2. QED
        BY <1>1, <1>4, <1>5, <2>1, WaitKeepsQuiet
<1>9. SlotType' /\ EnvType'
    BY <1>1, <1>5, Typed DEF SlotType, EnvType, StartOpencode, service, env
<1>10. QED
    BY <1>4, <1>6, <1>7, <1>8, <1>9, Typed DEF Parts

LEMMA JoinBootKeeps ==
    ASSUME TypeOK, Parts, NEW t, JoinBoot(t)
    PROVE  TypeOK' /\ Parts'
<1>1. /\ Turn(t, "bootstrap") /\ Wait(t, "awaitBoot", None) /\ booting
      /\ UNCHANGED <<slot, proc, booting, asked, shuttingDown, told, interfered, overlapped>>
    BY DEF JoinBoot, service, env, history
<1>2. t \in Task /\ At(t) = "bootstrap" /\ "bootstrap" \in LabelsOf(t) /\ TaskInv
    BY <1>1, TurnFacts DEF Parts
<1>3. "awaitBoot" \in LabelsOf(t) /\ t # "boot" /\ None \in Child \cup {None}
    BY <1>2, ConstantsAssumption DEF LabelsOf, Label
<1>4. /\ TaskInv' /\ CallType' /\ ReadyType'
      /\ At(t)' = "awaitBoot" /\ call'[t].on = None /\ call'[t].todo = <<"awaitBoot">> \o Rest(t)
      /\ \A u \in Task \ {t} : call'[u] = call[u] /\ At(u)' = At(u)
    BY <1>1, <1>2, <1>3, WaitKeepsTasks DEF Final
<1>5. ProcInv'
    BY <1>1, <1>2, <1>4, ProcsKept DEF Parts, Idle, At, Task
<1>6. HeldInv'
    <2> SUFFICES ASSUME NEW c \in Component, c \notin overlapped' PROVE Held(c)'
        BY DEF HeldInv
    <2>1. Held(c)
        BY <1>1 DEF Parts, HeldInv
    <2>2. QED
        BY <1>1, <1>2, <1>4, <2>1, HeldKept DEF Work, StopOf
<1>7. QuietInv'
    <2>1. /\ \A j \in told' : j \in told /\ proc'[j] = proc[j]
          /\ ready' = Tail(ready) /\ shuttingDown' = shuttingDown
          /\ Calm' => Calm
          /\ "bootstrap" \notin {"idle", "reap", "routerGone", "stopRouter"}
          /\ "awaitBoot" \in {"bundle", "binary", "routerGone", "opencodeGone", "awaitBoot"}
        BY <1>1 DEF Wait, Calm
    <2>2. QED
        BY <1>1, <1>4, <2>1, WaitKeepsQuiet
<1>8. SlotType' /\ EnvType'
    BY <1>1, Typed DEF SlotType, EnvType, JoinBoot, service, env
<1>9. QED
    BY <1>4, <1>5, <1>6, <1>7, <1>8, Typed DEF Parts

LEMMA StartRouterOrNotKeeps ==
    ASSUME TypeOK, Parts, NEW t, StartRouterOrNot(t)
    PROVE  TypeOK' /\ Parts'
<1>1. /\ Turn(t, "startRouter") /\ "startRouter" \notin {"idle", "bootEnd"}
      /\ UNCHANGED <<proc, booting, asked, shuttingDown, told, interfered>>
    BY DEF StartRouterOrNot, env
<1>2. t \in Task /\ At(t) = "startRouter" /\ "startRouter" \in LabelsOf(t) /\ TaskInv
    BY <1>1, TurnFacts DEF Parts
<1>3. CASE \E s : /\ Go(t, s) /\ GoesTo(t, "startRouter", s) /\ overlapped' = overlapped
                  /\ slot' = slot \/ slot' = [slot EXCEPT !["router"].status = "error"]
    <2>1. PICK s : /\ Go(t, s) /\ GoesTo(t, "startRouter", s) /\ overlapped' = overlapped
                   /\ slot' = slot \/ slot' = [slot EXCEPT !["router"].status = "error"]
        BY <1>3
    <2>2. SlotType' /\ SlotKept("startRouter")
        <3>1. CASE slot' = slot
            BY <3>1, StatusKept, SlotFacts DEF SlotType
        <3>2. CASE slot' = [slot EXCEPT !["router"].status = "error"]
            BY <3>2, StatusPut, StatusKept, SlotFacts DEF Status
        <3>3. QED
            BY <2>1, <3>1, <3>2
    <2>3. Parts' /\ CallType' /\ ReadyType'
        BY <1>1, <2>1, <2>2, GoKeeps
    <2>4. EnvType'
        BY <2>1, Typed DEF EnvType, StartRouterOrNot, env
    <2>5. QED
        BY <2>2, <2>3, <2>4, Typed
<1>4. CASE /\ Wait(t, "binary", None) /\ Overlap(t, "router") /\ slot' = slot
           /\ ~(slot["router"].handle # None /\ slot["router"].running)
    <2>1. "binary" \in LabelsOf(t) /\ None \in Child \cup {None}
        BY <1>2, ConstantsAssumption DEF LabelsOf, Label
    <2>2. /\ TaskInv' /\ CallType' /\ ReadyType'
          /\ At(t)' = "binary" /\ call'[t].on = None /\ call'[t].todo = <<"binary">> \o Rest(t)
          /\ \A u \in Task \ {t} : call'[u] = call[u] /\ At(u)' = At(u)
        BY <1>1, <1>2, <1>4, <2>1, WaitKeepsTasks DEF Final
    <2>3. /\ overlapped \subseteq overlapped' /\ overlapped' \subseteq Component
          /\ Calm' => Calm
          /\ "router" \notin overlapped' => Busy("router") \ {t} = {}
        BY <1>1, <1>4, OverlapFacts, SlotFacts
    <2>4. ProcInv'
        BY <1>1, <1>2, <1>4, <2>2, ProcsKept DEF Parts, Idle, At, Task
    <2>5. HeldInv'
        <3> SUFFICES ASSUME NEW c \in Component, c \notin overlapped' PROVE Held(c)'
            BY DEF HeldInv
        <3>1. Held(c)
            BY <2>3 DEF Parts, HeldInv
        <3>2. CASE c = "router"
            <4>1. slot[c].handle = None
                BY <1>4, <3>1, <3>2 DEF Held
            <4>2. At(t) # StopOf(c) /\ At(t)' # StopOf(c)
                BY <1>2, <2>2, <3>2 DEF StopOf
            <4>3. QED
                BY <1>1, <1>2, <1>4, <2>2, <2>3, <3>1, <3>2, <4>1, <4>2, WorkBegins
        <3>3. CASE c = "opencode"
            BY <1>1, <1>2, <1>4, <2>2, <3>1, <3>3, HeldKept DEF Work, StopOf
        <3>4. QED
            BY <3>2, <3>3 DEF Component
    <2>6. QuietInv'
        <3>1. /\ \A j \in told' : j \in told /\ proc'[j] = proc[j]
              /\ ready' = Tail(ready) /\ shuttingDown' = shuttingDown
              /\ "startRouter" \notin {"idle", "reap", "routerGone", "stopRouter"}
              /\ "binary" \in {"bundle", "binary", "routerGone", "opencodeGone", "awaitBoot"}
            BY <1>1, <1>4 DEF Wait
        <3>2. QED
            BY <1>1, <2>2, <2>3, <3>1, WaitKeepsQuiet
    <2>7. SlotType' /\ EnvType'
        BY <1>1, <1>4, <2>3, Typed DEF SlotType, EnvType, StartRouterOrNot, env
    <2>8. QED
        BY <2>2, <2>4, <2>5, <2>6, <2>7, Typed DEF Parts
<1>5. QED
    BY <1>3, <1>4 DEF StartRouterOrNot, GoesTo

LEMMA StopChildKeeps ==
    ASSUME TypeOK, Parts, NEW t, NEW c \in Component, StopChild(t, c)
    PROVE  TypeOK' /\ Parts'
<1> DEFINE label == IF c = "router" THEN "stopRouter" ELSE "stopOpencode"
           h == slot[c].handle
           r == [slot[c] EXCEPT !.timer = FALSE, !.stopping = TRUE, !.handle = None]
<1>1. /\ Turn(t, label) /\ Wait(t, StopOf(c), h) /\ Overlap(t, c) /\ h # None
      /\ proc' = [proc EXCEPT ![h] = "dying"] /\ told' = told \cup ({h} \cap Opencode)
      /\ UNCHANGED <<booting, asked, shuttingDown, interfered>>
      /\ label \in {"stopRouter", "stopOpencode"} /\ (label = "stopRouter" <=> c = "router")
    BY DEF StopChild, env, StopOf, Component
<1>2. r \in Slot /\ slot' = [slot EXCEPT ![c] = r] /\ r.handle = None
      /\ r.stopping = TRUE /\ r.timer = FALSE
    BY SlotFacts DEF StopChild, Slot
<1> HIDE DEF r
<1>3. SlotType' /\ slot'[c] = r /\ \A d \in Component \ {c} : slot'[d] = slot[d]
    <2>1. None \notin Router /\ None \notin Opencode
        BY ConstantsAssumption DEF Child
    <2>2. QED
        BY <1>2, <2>1, SlotPut, SlotFacts
<1> HIDE DEF label, h
<1>4. /\ t \in Task /\ At(t) = label /\ label \in LabelsOf(t) /\ ~Idle(t)
      /\ TaskInv /\ ProcInv /\ HeldInv /\ QuietInv
    BY <1>1, TurnFacts DEF Parts
<1>5. h \in Child /\ (c = "opencode" => h \in Opencode) /\ (c = "router" => h \in Router)
      /\ Of(h) = c /\ proc[h] = "up"
    <2>1. h \in Child /\ (c = "opencode" => h \notin Router) /\ (c = "router" => h \notin Opencode)
        BY <1>1, SlotFacts DEF Slot, h
    <2>2. proc[h] = "up"
        BY <1>1, <1>4 DEF ProcInv, h
    <2>3. QED
        BY <2>1, <2>2, ConstantsAssumption DEF Child, Component, Of
<1>6. /\ proc'[h] = "dying" /\ proc' \in [Child -> {"none", "starting", "up", "dying", "failing", "dead"}]
      /\ \A i \in Child \ {h} : proc'[i] = proc[i]
    BY <1>1, <1>5 DEF TypeOK
<1>7. \A u \in Task : call[u].on # h
    BY <1>1, <1>4, <1>5, OnNotUp
<1>8. StopOf(c) \in LabelsOf(t)
    BY <1>1, <1>4, ConstantsAssumption DEF LabelsOf, Label, StopOf, Component
<1>9. /\ TaskInv' /\ CallType' /\ ReadyType'
      /\ At(t)' = StopOf(c) /\ call'[t].on = h /\ call'[t].todo = <<StopOf(c)>> \o Rest(t)
      /\ \A u \in Task \ {t} : call'[u] = call[u] /\ At(u)' = At(u)
    <2>1. /\ StopOf(c) \notin Final /\ label \notin {"idle", "bootEnd"}
          /\ label \in {"stopRouter", "routerGone"} => StopOf(c) \in {"stopRouter", "routerGone"}
          /\ label \in {"stopOpencode", "opencodeGone"} => StopOf(c) \in {"stopOpencode", "opencodeGone"}
          /\ StopOf(c) \in {"listen", "opencodeGone"} => h \in Opencode
          /\ StopOf(c) \in {"probe", "routerGone"} => h \in Router
          /\ StopOf(c) # "probeGone" /\ StopOf(c) \notin {"startOpencode", "idle"}
          /\ StopOf(c) \in {"routerGone", "opencodeGone"}
        BY <1>1, <1>5 DEF StopOf, Final, Component
    <2>2. \A u \in Task \ {t} : call[u].on # None => proc'[call[u].on] = proc[call[u].on]
        BY <1>6, <1>7 DEF TypeOK
    <2>3. QED
        BY <1>1, <1>4, <1>5, <1>6, <1>7, <1>8, <2>1, <2>2, WaitKeepsTasks
<1>10. /\ overlapped \subseteq overlapped' /\ overlapped' \subseteq Component
       /\ Calm' => Calm
       /\ Calm' => Busy(c) \ {t} = {}
    BY <1>1, OverlapFacts
<1>11. ProcInv'
    <2>1. At(t) \notin {"listen", "probe", "routerGone", "opencodeGone"}
        BY <1>1, <1>4
    <2>2. ASSUME NEW i \in Child, proc'[i] = "starting"
          PROVE  \E u \in Task : At(u)' \in {"listen", "probe"} /\ call'[u].on = i
        <3>1. PICK u \in Task : At(u) \in {"listen", "probe"} /\ call[u].on = i
            BY <1>4, <1>6, <2>2 DEF ProcInv
        <3>2. QED
            BY <1>9, <2>1, <3>1
    <2>3. ASSUME NEW i \in Child, proc'[i] = "dying"
          PROVE  \E u \in Task : At(u)' \in {"routerGone", "opencodeGone"} /\ call'[u].on = i
        <3>1. CASE i = h
            BY <1>4, <1>9, <3>1 DEF StopOf
        <3>2. CASE i # h
            <4>1. PICK u \in Task : At(u) \in {"routerGone", "opencodeGone"} /\ call[u].on = i
                BY <1>4, <1>6, <2>3, <3>2 DEF ProcInv
            <4>2. QED
                BY <1>9, <2>1, <4>1
        <3>3. QED
            BY <3>1, <3>2
    <2>4. \A i \in Opencode : proc'[i] # "none" => Idle(i)'
        <3>1. \A i \in Opencode : i \in Task /\ i \in Child
            BY DEF Task, Child
        <3>2. \A i \in Opencode : proc'[i] # "none" => proc[i] # "none"
            BY <1>5, <1>6, <3>1
        <3>3. \A i \in Opencode : proc'[i] # "none" => i # t /\ Idle(i)
            BY <1>4, <3>2 DEF ProcInv
        <3>4. QED
            BY <1>9, <3>1, <3>3 DEF Idle
    <2>5. ASSUME NEW d \in Component, slot'[d].handle # None PROVE proc'[slot'[d].handle] = "up"
        <3>1. d # c /\ slot'[d] = slot[d]
            BY <1>2, <1>3, <2>5
        <3>2. slot[d].handle \in Child /\ slot[d].handle # h
            BY <1>5, <2>5, <3>1, SlotFacts, ConstantsAssumption DEF Slot, Component
        <3>3. QED
            BY <1>4, <1>6, <2>5, <3>1, <3>2 DEF ProcInv
    <2>6. QED
        BY <2>2, <2>3, <2>4, <2>5 DEF ProcInv
<1>12. HeldInv'
    <2> SUFFICES ASSUME NEW d \in Component, d \notin overlapped' PROVE Held(d)'
        BY DEF HeldInv
    <2>1. Held(d)
        BY <1>4, <1>10 DEF HeldInv
    <2>2. CASE d = c
        <3>1. \A u \in Task : At(u) \notin Work(c)
            BY <1>1, <2>1, <2>2 DEF Held, h
        <3>2. StopOf(c) \in Work(c)
            BY DEF Work, StopOf
        <3>3. \A u \in Task : At(u)' \in Work(c) <=> u = t
            BY <1>9, <3>1, <3>2
        <3>4. \A u \in Task : At(u)' = StopOf(c) => u = t
            BY <3>2, <3>3
        <3>5. \A i \in Child : Of(i) = c => proc'[i] # "up"
            BY <1>6, <2>1, <2>2 DEF Held, h
        <3>6. QED
            BY <1>2, <1>3, <1>4, <1>9, <2>2, <3>3, <3>4, <3>5 DEF Held, Of, Work, StopOf
    <2>3. CASE d # c
        <3>1. \A i \in Child : Of(i) = d /\ proc'[i] = "up" => proc[i] = "up"
            BY <1>6
        <3>2. slot'[d] = slot[d]
            BY <1>3, <2>3
        <3>3. StopOf(c) \notin Work(d) /\ StopOf(c) # StopOf(d) /\ At(t) # StopOf(d)
            BY <1>1, <1>4, <2>3 DEF Work, StopOf, Component
        <3>4. QED
            BY <1>9, <2>1, <3>1, <3>2, <3>3, HeldKept
    <2>4. QED
        BY <2>2, <2>3
<1>13. QuietInv'
    <2>1. \A j \in told' : proc'[j] = "dying" \/ (j \in told /\ proc'[j] = proc[j])
        BY <1>1, <1>6, Typed DEF EnvType, Child
    <2>2. /\ StopOf(c) \in {"bundle", "binary", "routerGone", "opencodeGone", "awaitBoot"}
          /\ label \notin {"idle", "reap", "routerGone"}
          /\ label = "stopRouter" => StopOf(c) = "routerGone" /\ slot["router"].handle # None
          /\ ready' = Tail(ready) /\ shuttingDown' = shuttingDown
        BY <1>1 DEF StopOf, Wait, h
    <2>3. StopOf(c) = "opencodeGone" => /\ label = "stopOpencode" /\ slot'["router"] = slot["router"]
                                        /\ Calm' => Busy("opencode") \ {t} = {}
        <3>1. StopOf(c) = "opencodeGone" => c = "opencode"
            BY DEF StopOf, Component
        <3>2. QED
            BY <1>1, <1>3, <1>10, <3>1, SlotFacts
    <2>4. QED
        BY <1>1, <1>9, <1>10, <2>1, <2>2, <2>3, WaitKeepsQuiet
<1>14. EnvType'
    <2>1. told' \subseteq Opencode
        BY <1>1, Typed DEF EnvType
    <2>2. QED
        BY <1>6, <1>10, <2>1, Typed DEF EnvType, StopChild, env
<1>15. QED
    BY <1>3, <1>9, <1>11, <1>12, <1>13, <1>14, Typed DEF Parts

-----------------------------------------------------------------------------
(* A waiting task has its answer *)

\* With nothing in `ready' everybody sleeps.
LEMMA QuietFacts ==
    ASSUME TypeOK, TaskInv, Quiet
    PROVE  /\ ready = <<>>
           /\ \A u \in Task : /\ Sleeps(u) /\ ~Awake(u)
                              /\ At(u) \notin Later \cup {"startOpencode"}
                              /\ call[u].on # None => proc[call[u].on] \notin {"up", "none"}
           /\ \A u \in Task : ready # <<u>>
           /\ \A u, v \in Task : ready # <<u, v>>
<1>1. ready = <<>> /\ \A u \in Task : ready # <<u>>
    BY One DEF Quiet
<1>2. \A u, v \in Task : ready # <<u, v>>
    <2>1. ASSUME NEW u \in Task, NEW v \in Task PROVE ready # <<u, v>>
        BY <1>1, Two
    <2>2. QED
        BY <2>1
<1>3. \A u \in Task : Sleeps(u) /\ ~Awake(u)
    BY <1>1, AwakeFacts DEF TaskInv
<1>4. \A u \in Task : Idle(u) => At(u) = "idle"
    BY DEF Idle, At
<1>5. QED
    BY <1>1, <1>2, <1>3, <1>4 DEF Sleeps, Later

LEMMA AnswerKeepsQuiet ==
    ASSUME TypeOK, Parts, Quiet, NEW t \in Task, At(t) \in {"bundle", "listen", "binary", "probe"},
           \A u \in Task \ {t} : call'[u].todo \in {call[u].todo, <<>>},
           \/ call'[t].todo \in {<<>>, Rest(t)}
           \/ \E x \in {"listen", "probe", "probeGone"} : call'[t].todo = <<x>> \o Rest(t),
           Calm' => Calm, shuttingDown' = shuttingDown,
           \A j \in told' : j \in told /\ proc'[j] = proc[j]
    PROVE  QuietInv'
<1>1. SUFFICES ASSUME Calm' PROVE StopInv' /\ ToldInv' /\ CloseInv'
    BY DEF QuietInv
<1>2. StopInv /\ ToldInv /\ CloseInv /\ TaskInv
    BY <1>1 DEF QuietInv, Parts
<1> DEFINE q == call[t].todo
<1>3. /\ ~Idle(t) /\ q \in Seq(Label) /\ q # <<>> /\ Head(q) = At(t) /\ Fits(t, q)
      /\ Rest(t) \in Seq(Label) /\ Rest(t) = Tail(q)
    BY <1>2, AtFacts DEF Rest
<1>4. /\ ready = <<>> /\ \A u \in Task : ready # <<u>>
      /\ \A u, v \in Task : ready # <<u, v>>
    BY <1>2, QuietFacts
<1>5. /\ Rest(t) # <<>> => Head(Rest(t)) \notin {"stopOpencode", "opencodeGone"}
      /\ \A k \in 2..Len(Rest(t)) : Rest(t)[k] # "stopOpencode"
      /\ \A k \in 1..Len(q) : q[k] # "exit"
      /\ \A k \in 1..Len(Rest(t)) : Rest(t)[k] # "exit"
    <2>1. Rest(t) # <<>> => Head(Rest(t)) \in Later
        BY <1>2, <1>3, AtFacts
    <2>2. QED
        BY <1>3, <2>1, FitsStop DEF Later
<1> HIDE DEF q
<1>6. \A u \in Task :
         /\ ~(At(u) = "stopRouter" /\ Len(call[u].todo) > 1 /\ call[u].todo[2] = "stopOpencode")
         /\ At(u) \notin {"stopOpencode", "opencodeGone"}
    <2>1. \A u \in Task \ {t} :
             ~(At(u) = "stopRouter" /\ Len(call[u].todo) > 1 /\ call[u].todo[2] = "stopOpencode")
        BY <1>2, <1>4 DEF StopInv
    <2>2. \A u \in Task : At(u) # "stopOpencode"
        BY <1>2, <1>4 DEF StopInv
    <2>3. \A u \in Task \ {t} : At(u) # "opencodeGone"
        BY <1>2, <1>3, <1>4 DEF StopInv
    <2>4. QED
        BY <2>1, <2>2, <2>3
<1>7. \A u \in Task : \/ call'[u].todo = call[u].todo /\ At(u)' = At(u) /\ (Idle(u)' <=> Idle(u))
                      \/ call'[u].todo = <<>> /\ At(u)' = "idle" /\ Idle(u)'
                      \/ u = t
    BY DEF At, Idle
<1>8. \/ call'[t].todo = <<>> /\ At(t)' = "idle"
      \/ call'[t].todo = Rest(t) /\ Rest(t) # <<>> /\ At(t)' = Head(Rest(t))
      \/ At(t)' \in {"listen", "probe", "probeGone"}
    <2>1. ASSUME NEW x \in {"listen", "probe", "probeGone"}, call'[t].todo = <<x>> \o Rest(t)
          PROVE  At(t)' = x
        BY <1>3, <2>1, Cons DEF At, Idle, Label
    <2>2. CASE call'[t].todo \in {<<>>, Rest(t)}
        BY <2>2 DEF At, Idle
    <2>3. QED
        BY <2>1, <2>2
<1>9. StopInv'
    <2>1. \A u \in Task :
             /\ ~(At(u)' = "stopRouter" /\ Len(call'[u].todo) > 1 /\ call'[u].todo[2] = "stopOpencode")
             /\ At(u)' \notin {"stopOpencode", "opencodeGone"}
        <3>1. \A u \in Task \ {t} :
                 /\ ~(At(u)' = "stopRouter" /\ Len(call'[u].todo) > 1 /\ call'[u].todo[2] = "stopOpencode")
                 /\ At(u)' \notin {"stopOpencode", "opencodeGone"}
            BY <1>6, <1>7
        <3>2. ~(At(t)' = "stopRouter" /\ Len(call'[t].todo) > 1 /\ call'[t].todo[2] = "stopOpencode")
            <4>1. Len(Rest(t)) \in Nat
                BY <1>3
            <4>2. Len(Rest(t)) > 1 => Rest(t)[2] # "stopOpencode"
                BY <1>5, <4>1
            <4>3. QED
                BY <1>8, <4>2
        <3>3. At(t)' \notin {"stopOpencode", "opencodeGone"}
            BY <1>5, <1>8
        <3>4. QED
            BY <3>1, <3>2, <3>3
    <2>2. QED
        BY <2>1 DEF StopInv
<1>10. ToldInv'
    <2> SUFFICES ASSUME NEW j \in told', proc'[j] # "dying"
        PROVE  proc'[j] = "none" /\ (Idle(j)' \/ \E v \in Request : ready' = <<j, v>>)
        BY DEF ToldInv
    <2>1. j \in told /\ proc'[j] = proc[j] /\ j \in Task
        BY DEF TypeOK, Task
    <2>2. proc[j] = "none" /\ Idle(j)
        BY <1>2, <1>4, <2>1 DEF ToldInv, Task
    <2>3. QED
        BY <1>3, <1>7, <2>1, <2>2
<1>11. CloseInv'
    <2>1. \A r \in Request : ~Closes(r)
        <3>1. ASSUME NEW r \in Request, r # t PROVE ~Closes(r)
            <4>1. Closes(r) => \A k \in 1..Len(q) : q[k] \in {"stopRouter", "routerGone", "reap"}
                BY <1>2, <3>1 DEF CloseInv, q
            <4>2. 1 \in 1..Len(q) /\ q[1] = At(t)
                BY <1>3, Uncons
            <4>3. QED
                BY <4>1, <4>2
        <3>2. QED
            BY <1>5, <3>1 DEF Closes, q
    <2>2. \A r \in Request : ~Closes(r)'
        <3>1. \A k \in 1..Len(<<>>) : FALSE
            BY Nil
        <3>2. ASSUME NEW r \in Request, r # t PROVE ~Closes(r)'
            BY <2>1, <3>1, <3>2 DEF Closes, Task
        <3>3. \A k \in 1..Len(call'[t].todo) : call'[t].todo[k] # "exit"
            <4>1. CASE call'[t].todo \in {<<>>, Rest(t)}
                BY <1>5, <3>1, <4>1
            <4>2. ASSUME NEW x \in {"listen", "probe", "probeGone"}, call'[t].todo = <<x>> \o Rest(t)
                  PROVE  \A k \in 1..Len(call'[t].todo) : call'[t].todo[k] # "exit"
                <5>1. /\ Len(call'[t].todo) = Len(Rest(t)) + 1 /\ Len(Rest(t)) \in Nat
                      /\ \A k \in 1..Len(Rest(t)) + 1 : call'[t].todo[k] = IF k = 1 THEN x ELSE Rest(t)[k - 1]
                    BY <1>3, <4>2, Cons DEF Label
                <5>2. \A k \in 1..Len(Rest(t)) + 1 : k = 1 \/ k - 1 \in 1..Len(Rest(t))
                    BY <5>1, Shift
                <5>3. QED
                    BY <1>5, <5>1, <5>2
            <4>3. QED
                BY <4>1, <4>2
        <3>4. QED
            BY <3>2, <3>3 DEF Closes
    <2>3. QED
        BY <2>2 DEF CloseInv
<1>12. QED
    BY <1>9, <1>10, <1>11

\* A waiting task that goes on to the next thing to wait for, or to its last step.
Relabel(t, x, i) == call' = [call EXCEPT ![t] = [todo |-> <<x>> \o Rest(t), on |-> i]]

LEMMA RelabelKeepsTasks ==
    ASSUME TypeOK, TaskInv, Quiet, NEW t \in Task, At(t) \in {"bundle", "binary", "probe"},
           NEW x \in {"listen", "probe", "probeGone"}, x \in LabelsOf(t), NEW i \in Child \cup {None},
           Relabel(t, x, i),
           x = "listen" => i \in Opencode, x = "probe" => i \in Router,
           x = "probeGone" => i \in Router \cup {None},
           \A u \in Task \ {t} : call[u].on # None => proc'[call[u].on] = proc[call[u].on],
           \A u \in Task \ {t} : call[u].on = i => i = None,
           \/ x \in {"listen", "probe"} /\ proc'[i] = "starting" /\ ready' = <<>>
           \/ x = "probeGone" /\ i # None /\ proc'[i] = "failing" /\ ready' = <<>>
           \/ x = "probeGone" /\ i = None /\ ready' = <<t>>,
           UNCHANGED <<booting, asked>>
    PROVE  /\ TaskInv' /\ CallType' /\ ReadyType'
           /\ At(t)' = x /\ call'[t].on = i /\ call'[t].todo = <<x>> \o Rest(t)
           /\ \A u \in Task \ {t} : call'[u] = call[u] /\ At(u)' = At(u)
<1> DEFINE s == <<x>> \o Rest(t)
<1>1. /\ ~Idle(t) /\ call[t].todo \in Seq(Label) /\ call[t].todo # <<>>
      /\ Head(call[t].todo) = At(t) /\ Fits(t, call[t].todo)
    BY AtFacts
<1>2. s \in Seq(Label) /\ s # <<>> /\ Head(s) = x /\ Fits(t, s)
    BY <1>1, FitsHead DEF Rest, Final
<1>3. call' = [call EXCEPT ![t] = [todo |-> s, on |-> i]]
    BY DEF Relabel
<1> HIDE DEF s
<1>4. /\ CallType' /\ call'[t].todo = s /\ call'[t].on = i
      /\ \A u \in Task \ {t} : call'[u] = call[u]
      /\ At(t)' = x /\ ~Idle(t)'
      /\ \A u \in Task \ {t} : (Idle(u)' <=> Idle(u)) /\ At(u)' = At(u)
    <2>1. s \in Seq(Label)
        BY <1>2
    <2>2. /\ CallType' /\ call'[t].todo = s /\ call'[t].on = i
          /\ \A u \in Task \ {t} : call'[u] = call[u]
          /\ At(t)' = (IF s = <<>> THEN "idle" ELSE Head(s)) /\ (Idle(t)' <=> s = <<>>)
          /\ \A u \in Task \ {t} : (Idle(u)' <=> Idle(u)) /\ At(u)' = At(u)
        BY ONLY TypeOK, t \in Task, i \in Child \cup {None}, <2>1, <1>3, Moves
    <2>3. QED
        BY <1>2, <2>2
<1>5. ReadyType'
    BY One, Nil DEF ReadyType
<1>6. ready = <<>> /\ \A u \in Task : ~Awake(u) /\ At(u) # "startOpencode"
    BY QuietFacts
<1>7. ReadyInv' /\ \A u \in Task \ {t} : Awake(u)' <=> Awake(u)
    BY <1>6, InFacts DEF ReadyInv, Awake
<1>8. t \notin Request \ asked' /\ (Idle("boot")' <=> Idle("boot"))
    BY <1>1, <1>4 DEF TaskInv, Task
<1>9. IF Awake(t)' THEN Runs(t)' ELSE Sleeps(t)'
    <2>1. CASE ready' = <<>>
        BY <1>4, <2>1, InFacts DEF Awake, Sleeps
    <2>2. CASE x = "probeGone" /\ i = None /\ ready' = <<t>>
        BY <1>4, <2>2, InFacts DEF Awake, Runs
    <2>3. QED
        BY <2>1, <2>2
<1>10. TaskInv'
    <2>1. \A u \in Task \ {t} : call'[t].on = call[u].on => call[u].on = None
        BY <1>4
    <2>2. /\ At(t)' \in {"listen", "opencodeGone"} => call'[t].on \in Opencode
          /\ At(t)' \in {"probe", "routerGone"} => call'[t].on \in Router
          /\ At(t)' = "probeGone" => call'[t].on \in Router \cup {None}
          /\ At(t)' # "startOpencode"
        BY <1>4
    <2>3. /\ \A u \in Task \ {t} : call'[u] = call[u] /\ (Awake(u)' <=> Awake(u))
          /\ \A u \in Task : At(u) = "startOpencode" => u = t
          /\ Fits(t, call'[t].todo) /\ asked \subseteq asked' /\ booting' = booting
        BY <1>2, <1>4, <1>6, <1>7
    <2>4. QED
        BY <1>7, <1>8, <1>9, <2>1, <2>2, <2>3, OthersKept
<1>11. QED
    BY <1>4, <1>5, <1>10 DEF s

\* One process changes, and no more than the labels of who waits for it.
LEMMA ProcMoves ==
    ASSUME ProcInv, NEW t \in Task, NEW i \in Child,
           \A j \in Child \ {i} : proc'[j] = proc[j],
           \A u \in Task : /\ At(u) \in {"listen", "probe", "routerGone", "opencodeGone"}
                           /\ call[u].on # i
                           => At(u)' = At(u) /\ call'[u].on = call[u].on,
           proc'[i] = "starting" => At(t)' \in {"listen", "probe"} /\ call'[t].on = i,
           proc'[i] # "dying",
           \A j \in Opencode : Idle(j) => Idle(j)' \/ (j = i /\ proc'[i] = "none"),
           i \in Opencode /\ proc'[i] # "none" => Idle(i)',
           \A c \in Component : slot'[c].handle # None =>
               \/ slot'[c].handle = slot[c].handle /\ slot[c].handle \in Child \ {i}
               \/ slot'[c].handle = i /\ proc'[i] = "up"
    PROVE  ProcInv'
<1>1. ASSUME NEW j \in Child, proc'[j] = "starting"
      PROVE  \E u \in Task : At(u)' \in {"listen", "probe"} /\ call'[u].on = j
    <2>1. CASE j = i
        BY <1>1, <2>1
    <2>2. CASE j # i
        <3>1. PICK u \in Task : At(u) \in {"listen", "probe"} /\ call[u].on = j
            BY <1>1, <2>2 DEF ProcInv
        <3>2. QED
            BY <2>2, <3>1
    <2>3. QED
        BY <2>1, <2>2
<1>2. ASSUME NEW j \in Child, proc'[j] = "dying"
      PROVE  \E u \in Task : At(u)' \in {"routerGone", "opencodeGone"} /\ call'[u].on = j
    <2>1. j # i /\ proc[j] = "dying"
        BY <1>2
    <2>2. PICK u \in Task : At(u) \in {"routerGone", "opencodeGone"} /\ call[u].on = j
        BY <2>1 DEF ProcInv
    <2>3. QED
        BY <2>1, <2>2
<1>3. \A j \in Opencode : proc'[j] # "none" => Idle(j)'
    BY DEF ProcInv, Child
<1>4. \A c \in Component : slot'[c].handle # None => proc'[slot'[c].handle] = "up"
    BY DEF ProcInv
<1>5. QED
    BY <1>1, <1>2, <1>3, <1>4 DEF ProcInv

\* A process that starts, or is waited for and not yet up, has no handle.
LEMMA HandleFacts ==
    ASSUME TypeOK, ProcInv
    PROVE  \A c \in Component : slot[c].handle # None =>
              slot[c].handle \in Child /\ proc[slot[c].handle] = "up"
BY SlotFacts DEF ProcInv, Slot

LEMMA BundleResolvedKeeps ==
    ASSUME TypeOK, Parts, NEW t \in Task, NEW i \in Opencode, BundleResolved(t, i)
    PROVE  TypeOK' /\ Parts'
<1>1. /\ Quiet /\ At(t) = "bundle" /\ proc[i] = "none" /\ Idle(i)
      /\ proc' = [proc EXCEPT ![i] = "starting"] /\ told' = told \ {i}
      /\ call' = [call EXCEPT ![t] = [todo |-> <<"listen">> \o Rest(t), on |-> i]]
      /\ slot' = [slot EXCEPT !["opencode"].status = "starting"]
      /\ UNCHANGED <<booting, asked, shuttingDown, interfered, overlapped, ready>>
    BY DEF BundleResolved, Free, env
<1>2. TaskInv /\ ProcInv /\ HeldInv /\ i \in Child /\ i \in Child \cup {None}
    BY DEF Parts, Child
<1>3. /\ SlotType'
      /\ \A d \in Component : /\ slot'[d].handle = slot[d].handle
                              /\ slot'[d].running = slot[d].running
                              /\ slot'[d].stopping = slot[d].stopping
                              /\ slot'[d].timer = slot[d].timer
    BY <1>1, StatusPut, SlotFacts DEF Status
<1>4. /\ proc'[i] = "starting" /\ \A j \in Child \ {i} : proc'[j] = proc[j]
      /\ proc' \in [Child -> {"none", "starting", "up", "dying", "failing", "dead"}]
    BY <1>1, <1>2 DEF TypeOK
<1>5. /\ \A u \in Task : call[u].on # i
      /\ \A u \in Task : call[u].on # None => call[u].on \in Child
    BY <1>1, <1>2, QuietFacts, ConstantsAssumption DEF TypeOK
<1>6. ready' = <<>> /\ "listen" \in LabelsOf(t) /\ t \notin Opencode
    BY <1>1, <1>2, QuietFacts, AtFacts DEF LabelsOf, Label
<1>7. /\ TaskInv' /\ CallType' /\ ReadyType'
      /\ At(t)' = "listen" /\ call'[t].on = i /\ call'[t].todo = <<"listen">> \o Rest(t)
      /\ \A u \in Task \ {t} : call'[u] = call[u] /\ At(u)' = At(u)
    <2>1. \A u \in Task \ {t} : call[u].on # None => proc'[call[u].on] = proc[call[u].on]
        BY <1>4, <1>5
    <2>2. /\ "listen" \in {"listen", "probe", "probeGone"} /\ i \in Child \cup {None}
          /\ "listen" \in LabelsOf(t) /\ At(t) \in {"bundle", "binary", "probe"}
        BY <1>1, <1>2, <1>6
    <2>3. /\ \A u \in Task \ {t} : call[u].on = i => i = None
          /\ proc'[i] = "starting" /\ ready' = <<>> /\ UNCHANGED <<booting, asked>>
          /\ Relabel(t, "listen", i) /\ i \in Opencode /\ TaskInv /\ Quiet
        BY <1>1, <1>2, <1>4, <1>5, <1>6 DEF Relabel
    <2>4. QED
        BY ONLY TypeOK, t \in Task, <2>1, <2>2, <2>3, RelabelKeepsTasks
<1>8. ProcInv'
    <2>1. \A j \in Opencode : Idle(j) => Idle(j)'
        BY <1>6, <1>7 DEF Idle, Task
    <2>2. \A c \in Component : slot'[c].handle # None =>
              slot'[c].handle = slot[c].handle /\ slot[c].handle \in Child \ {i}
        BY <1>1, <1>2, <1>3, HandleFacts
    <2>3. /\ \A u \in Task : /\ At(u) \in {"listen", "probe", "routerGone", "opencodeGone"}
                             /\ call[u].on # i
                             => At(u)' = At(u) /\ call'[u].on = call[u].on
          /\ At(t)' \in {"listen", "probe"} /\ call'[t].on = i
          /\ proc'[i] # "dying" /\ Idle(i)'
        BY <1>1, <1>4, <1>7, <2>1
    <2>4. QED
        BY <1>2, <1>4, <2>1, <2>2, <2>3, ProcMoves
<1>9. HeldInv'
    <2> SUFFICES ASSUME NEW c \in Component, c \notin overlapped' PROVE Held(c)'
        BY DEF HeldInv
    <2>1. Held(c)
        BY <1>1, <1>2 DEF HeldInv
    <2>2. \A u \in Task : At(u)' \in Work(c) => At(u) \in Work(c)
        BY <1>1, <1>7 DEF Work
    <2>3. \A u \in Task : At(u)' = StopOf(c) <=> At(u) = StopOf(c)
        BY <1>1, <1>7 DEF StopOf
    <2>4. \A j \in Child : proc'[j] = "up" => proc[j] = "up"
        BY <1>4
    <2>5. QED
        BY <1>3, <2>1, <2>2, <2>3, <2>4, HeldKept
<1>10. QuietInv'
    <2>1. \A j \in told' : j \in told /\ proc'[j] = proc[j]
        BY <1>1, <1>4, Typed DEF EnvType, Child
    <2>2. Calm' => Calm
        BY <1>1 DEF Calm
    <2>3. QED
        BY <1>1, <1>7, <2>1, <2>2, AnswerKeepsQuiet
<1>11. EnvType'
    BY <1>1, <1>4, Typed DEF EnvType, BundleResolved, env
<1>12. QED
    BY <1>3, <1>7, <1>8, <1>9, <1>10, <1>11, Typed DEF Parts

LEMMA BinaryReadyKeeps ==
    ASSUME TypeOK, Parts, NEW t \in Task, NEW i \in Router, BinaryReady(t, i)
    PROVE  TypeOK' /\ Parts'
<1>1. /\ Quiet /\ At(t) = "binary" /\ proc[i] = "none"
      /\ proc' = [proc EXCEPT ![i] = "starting"]
      /\ call' = [call EXCEPT ![t] = [todo |-> <<"probe">> \o Rest(t), on |-> i]]
      /\ slot' = [slot EXCEPT !["router"].status = "starting"]
      /\ UNCHANGED <<booting, asked, shuttingDown, interfered, overlapped, ready, told>>
    BY DEF BinaryReady, Free, env, history
<1>2. TaskInv /\ ProcInv /\ HeldInv /\ i \in Child /\ i \in Child \cup {None}
    BY DEF Parts, Child
<1>3. /\ SlotType'
      /\ \A d \in Component : /\ slot'[d].handle = slot[d].handle
                              /\ slot'[d].running = slot[d].running
                              /\ slot'[d].stopping = slot[d].stopping
                              /\ slot'[d].timer = slot[d].timer
    BY <1>1, StatusPut, SlotFacts DEF Status
<1>4. /\ proc'[i] = "starting" /\ \A j \in Child \ {i} : proc'[j] = proc[j]
      /\ proc' \in [Child -> {"none", "starting", "up", "dying", "failing", "dead"}]
    BY <1>1, <1>2 DEF TypeOK
<1>5. /\ \A u \in Task : call[u].on # i
      /\ \A u \in Task : call[u].on # None => call[u].on \in Child
    BY <1>1, <1>2, QuietFacts, ConstantsAssumption DEF TypeOK
<1>6. ready' = <<>> /\ "probe" \in LabelsOf(t) /\ t \notin Opencode
    BY <1>1, <1>2, QuietFacts, AtFacts DEF LabelsOf, Label
<1>7. /\ TaskInv' /\ CallType' /\ ReadyType'
      /\ At(t)' = "probe" /\ call'[t].on = i /\ call'[t].todo = <<"probe">> \o Rest(t)
      /\ \A u \in Task \ {t} : call'[u] = call[u] /\ At(u)' = At(u)
    <2>1. \A u \in Task \ {t} : call[u].on # None => proc'[call[u].on] = proc[call[u].on]
        BY <1>4, <1>5
    <2>2. /\ "probe" \in {"listen", "probe", "probeGone"} /\ i \in Child \cup {None}
          /\ "probe" \in LabelsOf(t) /\ At(t) \in {"bundle", "binary", "probe"}
        BY <1>1, <1>2, <1>6
    <2>3. /\ \A u \in Task \ {t} : call[u].on = i => i = None
          /\ proc'[i] = "starting" /\ ready' = <<>> /\ UNCHANGED <<booting, asked>>
          /\ Relabel(t, "probe", i) /\ i \in Router /\ TaskInv /\ Quiet
        BY <1>1, <1>2, <1>4, <1>5, <1>6 DEF Relabel
    <2>4. QED
        BY ONLY TypeOK, t \in Task, <2>1, <2>2, <2>3, RelabelKeepsTasks
<1>8. ProcInv'
    <2>1. \A j \in Opencode : Idle(j) => Idle(j)'
        BY <1>6, <1>7 DEF Idle, Task
    <2>2. \A c \in Component : slot'[c].handle # None =>
              slot'[c].handle = slot[c].handle /\ slot[c].handle \in Child \ {i}
        BY <1>1, <1>2, <1>3, HandleFacts
    <2>3. /\ \A u \in Task : /\ At(u) \in {"listen", "probe", "routerGone", "opencodeGone"}
                             /\ call[u].on # i
                             => At(u)' = At(u) /\ call'[u].on = call[u].on
          /\ At(t)' \in {"listen", "probe"} /\ call'[t].on = i
          /\ proc'[i] # "dying" /\ i \notin Opencode
        BY <1>1, <1>4, <1>7, ConstantsAssumption
    <2>4. QED
        BY <1>2, <1>4, <2>1, <2>2, <2>3, ProcMoves
<1>9. HeldInv'
    <2> SUFFICES ASSUME NEW c \in Component, c \notin overlapped' PROVE Held(c)'
        BY DEF HeldInv
    <2>1. Held(c)
        BY <1>1, <1>2 DEF HeldInv
    <2>2. \A u \in Task : At(u)' \in Work(c) => At(u) \in Work(c)
        BY <1>1, <1>7 DEF Work
    <2>3. \A u \in Task : At(u)' = StopOf(c) <=> At(u) = StopOf(c)
        BY <1>1, <1>7 DEF StopOf
    <2>4. \A j \in Child : proc'[j] = "up" => proc[j] = "up"
        BY <1>4
    <2>5. QED
        BY <1>3, <2>1, <2>2, <2>3, <2>4, HeldKept
<1>10. QuietInv'
    <2>1. \A j \in told' : j \in told /\ proc'[j] = proc[j]
        BY <1>1, <1>4, Typed, ConstantsAssumption DEF EnvType, Child
    <2>2. Calm' => Calm
        BY <1>1 DEF Calm
    <2>3. QED
        BY <1>1, <1>7, <2>1, <2>2, AnswerKeepsQuiet
<1>11. EnvType'
    BY <1>1, <1>4, Typed DEF EnvType, BinaryReady, env, history
<1>12. QED
    BY <1>3, <1>7, <1>8, <1>9, <1>10, <1>11, Typed DEF Parts

\* A child that answers is adopted.
Adopts(t, c, i) ==
    /\ call[t].on = i
    /\ Quiet /\ At(t) = (IF c = "opencode" THEN "listen" ELSE "probe") /\ proc[i] = "starting"
    /\ slot' = [slot EXCEPT ![c].handle = i, ![c].running = TRUE, ![c].status = "running"]
    /\ proc' = [proc EXCEPT ![i] = "up"]
    /\ Resume(t)
    /\ UNCHANGED <<shuttingDown, booting, manifest, enabled, env, history>>

LEMMA AdoptsKeeps ==
    ASSUME TypeOK, Parts, NEW t \in Task, NEW c \in Component, NEW i, Adopts(t, c, i)
    PROVE  TypeOK' /\ Parts'
<1> DEFINE r == [slot[c] EXCEPT !.handle = i, !.running = TRUE, !.status = "running"]
<1>1. /\ Quiet /\ At(t) = (IF c = "opencode" THEN "listen" ELSE "probe") /\ proc[i] = "starting"
      /\ call[t].on = i /\ proc' = [proc EXCEPT ![i] = "up"] /\ Resume(t)
      /\ UNCHANGED <<booting, asked, shuttingDown, interfered, overlapped, told>>
    BY DEF Adopts, env, history
<1>2. TaskInv /\ ProcInv /\ HeldInv /\ Concerns(t)
    BY DEF Parts, TaskInv
<1>3. /\ i \in Child /\ Of(i) = c
      /\ c = "opencode" => i \in Opencode /\ i \notin Router
      /\ c = "router" => i \in Router /\ i \notin Opencode
      /\ \A u \in Task \ {t} : call[u].on # i
    BY <1>1, <1>2, ConstantsAssumption DEF Concerns, Child, Of, Component
<1>4. r \in Slot /\ slot' = [slot EXCEPT ![c] = r] /\ r.handle = i /\ r.running = TRUE
    BY <1>3, SlotFacts DEF Adopts, Slot, Status
<1> HIDE DEF r
<1>5. SlotType' /\ slot'[c] = r /\ \A d \in Component \ {c} : slot'[d] = slot[d]
    BY <1>3, <1>4, SlotPut
<1>6. /\ proc'[i] = "up" /\ \A j \in Child \ {i} : proc'[j] = proc[j]
      /\ proc' \in [Child -> {"none", "starting", "up", "dying", "failing", "dead"}]
    BY <1>1, <1>3 DEF TypeOK
<1>7. \A u \in Task \ {t} : call[u].on # None => proc'[call[u].on] = proc[call[u].on]
    BY <1>3, <1>6 DEF TypeOK
<1>8. /\ TaskInv' /\ CallType' /\ ReadyType'
      /\ At(t)' \in Later \cup {"idle"} /\ call'[t].on = None /\ call'[t].todo = Rest(t)
      /\ \A u \in Task \ {t} : call'[u] = call[u] /\ At(u)' = At(u)
    BY <1>1, <1>2, <1>7, ResumeKeepsTasks
<1>9. ~Idle(t)
    BY <1>1, <1>2, AtFacts
<1>10. ProcInv'
    <2>1. \A j \in Opencode : Idle(j) => Idle(j)'
        BY <1>8, <1>9 DEF Idle, Task
    <2>2. \A d \in Component : slot'[d].handle # None =>
              \/ slot'[d].handle = slot[d].handle /\ slot[d].handle \in Child \ {i}
              \/ slot'[d].handle = i /\ proc'[i] = "up"
        <3>1. ASSUME NEW d \in Component, d # c, slot'[d].handle # None
              PROVE  slot'[d].handle = slot[d].handle /\ slot[d].handle \in Child \ {i}
            <4>1. slot[d].handle # None /\ slot'[d].handle = slot[d].handle
                BY <1>5, <3>1
            <4>2. slot[d].handle \in Child /\ proc[slot[d].handle] = "up"
                BY <1>2, <4>1, HandleFacts
            <4>3. proc[i] = "starting"
                BY <1>1
            <4>4. QED
                BY <4>1, <4>2, <4>3
        <3>2. QED
            BY <1>4, <1>5, <1>6, <3>1
    <2>3. \A u \in Task : /\ At(u) \in {"listen", "probe", "routerGone", "opencodeGone"}
                          /\ call[u].on # i
                          => At(u)' = At(u) /\ call'[u].on = call[u].on
        BY <1>1, <1>8
    <2>4. i \in Opencode /\ proc'[i] # "none" => Idle(i)'
        <3>1. proc[i] = "starting"
            BY <1>1
        <3>2. QED
            BY <1>2, <2>1, <3>1 DEF ProcInv
    <2>5. i \in Child /\ proc'[i] \notin {"starting", "dying"}
        BY <1>3, <1>6
    <2>6. \A j \in Child \ {i} : proc'[j] = proc[j]
        BY <1>6
    <2>7. QED
        BY ONLY t \in Task, <1>2, <2>1, <2>2, <2>3, <2>4, <2>5, <2>6, ProcMoves
<1>11. HeldInv'
    <2> SUFFICES ASSUME NEW d \in Component, d \notin overlapped' PROVE Held(d)'
        BY DEF HeldInv
    <2>1. Held(d)
        BY <1>1, <1>2 DEF HeldInv
    <2>2. At(t)' \notin Work(d) /\ At(t)' # StopOf(d)
        BY <1>8 DEF Work, StopOf, Later
    <2>3. CASE d = c
        <3>1. At(t) \in Work(c) /\ StopOf(c) \in Work(c)
            BY <1>1 DEF Work, StopOf, Component
        <3>2. \A u \in Task : At(u)' \notin Work(c)
            BY <1>8, <2>1, <2>2, <2>3, <3>1 DEF Held
        <3>3. \A u \in Task : At(u)' # StopOf(c)
            BY <3>1, <3>2
        <3>4. slot[c].handle = None
            BY <2>1, <2>3, <3>1 DEF Held
        <3>5. \A j \in Child : Of(j) = c /\ proc'[j] = "up" => j = i
            <4>1. \A j \in Child : Of(j) = c /\ proc[j] = "up" => slot[c].handle = j
                BY <2>1, <2>3 DEF Held
            <4>2. \A j \in Child : j # None
                BY ConstantsAssumption
            <4>3. QED
                BY <1>6, <3>4, <4>1, <4>2
        <3>6. i # None
            BY <1>3, ConstantsAssumption
        <3>7. QED
            BY <1>4, <1>5, <2>3, <3>2, <3>3, <3>5, <3>6 DEF Held, Of, Work, StopOf
    <2>4. CASE d # c
        <3>1. \A j \in Child : Of(j) = d /\ proc'[j] = "up" => proc[j] = "up"
            BY <1>3, <1>6, <2>4
        <3>2. slot'[d] = slot[d]
            BY <1>5, <2>4
        <3>3. At(t) # StopOf(d)
            BY <1>1 DEF StopOf
        <3>4. QED
            BY <1>8, <2>1, <2>2, <3>1, <3>2, <3>3, HeldKept
    <2>5. QED
        BY <2>3, <2>4
<1>12. QuietInv'
    <2>1. /\ ToldInv => \A j \in told' : j \in told /\ proc'[j] = proc[j]
          /\ Calm' => Calm /\ QuietInv
        BY <1>1, <1>6, Typed DEF EnvType, Child, ToldInv, Calm, Parts
    <2>2. Calm => ToldInv
        BY DEF QuietInv, Parts
    <2>3. CASE ~Calm'
        BY <2>3 DEF QuietInv
    <2>4. CASE Calm'
        <3>1. \A j \in told' : j \in told /\ proc'[j] = proc[j]
            BY <2>1, <2>2, <2>4
        <3>2. /\ At(t) \in {"bundle", "listen", "binary", "probe"}
              /\ \A u \in Task \ {t} : call'[u].todo \in {call[u].todo, <<>>}
              /\ call'[t].todo \in {<<>>, Rest(t)} /\ shuttingDown' = shuttingDown
            BY <1>1, <1>8
        <3>3. QED
            BY <1>1, <2>1, <3>1, <3>2, AnswerKeepsQuiet
    <2>5. QED
        BY <2>3, <2>4
<1>13. EnvType'
    BY <1>6, Typed DEF EnvType, Adopts, env, history
<1>14. QED
    BY <1>5, <1>8, <1>10, <1>11, <1>12, <1>13, Typed DEF Parts

LEMMA ReadyIsAdopted ==
    /\ \A t : OpencodeReady(t) => Adopts(t, "opencode", call[t].on)
    /\ \A t : RouterReady(t) => Adopts(t, "router", call[t].on)
BY DEF OpencodeReady, RouterReady, Adopts

LEMMA RouterTimesOutKeeps ==
    ASSUME TypeOK, Parts, NEW t \in Task, RouterTimesOut(t)
    PROVE  TypeOK' /\ Parts'
<1>1. /\ Quiet /\ At(t) = "probe" /\ TaskInv /\ ProcInv /\ HeldInv /\ Concerns(t)
      /\ UNCHANGED <<slot, booting, asked, shuttingDown, interfered, overlapped, told>>
    BY DEF RouterTimesOut, Parts, TaskInv, service, history
<1>2. PICK i : i = call[t].on
    OBVIOUS
<1>3. /\ i \in Router /\ i \in Child /\ i \notin Opencode
      /\ \A u \in Task \ {t} : call[u].on # i
    BY <1>1, <1>2, ConstantsAssumption DEF Concerns, Child
<1>4. ready = <<>> /\ "probeGone" \in LabelsOf(t) /\ t \notin Opencode /\ ~Idle(t)
    BY <1>1, QuietFacts, AtFacts DEF LabelsOf, Label
<1>5. PICK j \in Child \cup {None} : /\ Relabel(t, "probeGone", j) /\ j \in {i, None}
              /\ proc[i] \in {"starting", "dead"}
              /\ \E x \in {"failing", "none"} : proc' = [proc EXCEPT ![i] = x]
              /\ \/ j = i /\ proc'[i] = "failing" /\ ready' = <<>>
                 \/ j = None /\ ready' = <<t>>
    <2>1. CASE /\ proc[i] = "starting" /\ proc' = [proc EXCEPT ![i] = "failing"]
               /\ call' = [call EXCEPT ![t].todo = <<"probeGone">> \o Rest(t)] /\ ready' = ready
        <3>1. [call EXCEPT ![t].todo = <<"probeGone">> \o Rest(t)]
              = [call EXCEPT ![t] = [todo |-> <<"probeGone">> \o Rest(t), on |-> i]]
            <4> DEFINE s == <<"probeGone">> \o Rest(t)
            <4> HIDE DEF s
            <4>1. call[t] \in [todo: Seq(Label), on: Child \cup {None}]
                BY DEF TypeOK
            <4>2. [call[t] EXCEPT !.todo = s] = [todo |-> s, on |-> i]
                BY <1>2, <4>1
            <4>3. [call EXCEPT ![t] = [call[t] EXCEPT !.todo = s]] = [call EXCEPT ![t] = [todo |-> s, on |-> i]]
                BY <4>2
            <4>4. QED
                BY <4>3 DEF s
        <3>2. proc'[i] = "failing"
            BY <1>3, <2>1 DEF TypeOK
        <3>3. Relabel(t, "probeGone", i) /\ ready' = <<>>
            BY <1>4, <2>1, <3>1 DEF Relabel
        <3>4. \E x \in {"failing", "none"} : proc' = [proc EXCEPT ![i] = x]
            BY <2>1
        <3>5. i \in Child \cup {None} /\ proc[i] \in {"starting", "dead"}
            BY <1>3, <2>1
        <3>6. QED
            BY ONLY <3>2, <3>3, <3>4, <3>5
    <2>2. CASE /\ proc[i] = "dead" /\ proc' = [proc EXCEPT ![i] = "none"]
               /\ call' = [call EXCEPT ![t] = [todo |-> <<"probeGone">> \o Rest(t), on |-> None]]
               /\ ready' = <<t>>
        BY <2>2 DEF Relabel
    <2>3. QED
        BY <1>2, <2>1, <2>2 DEF RouterTimesOut
<1>6. /\ proc'[i] \in {"failing", "none"} /\ \A k \in Child \ {i} : proc'[k] = proc[k]
      /\ proc' \in [Child -> {"none", "starting", "up", "dying", "failing", "dead"}]
    BY <1>3, <1>5 DEF TypeOK
<1>7. /\ TaskInv' /\ CallType' /\ ReadyType'
      /\ At(t)' = "probeGone" /\ call'[t].todo = <<"probeGone">> \o Rest(t)
      /\ \A u \in Task \ {t} : call'[u] = call[u] /\ At(u)' = At(u)
    <2>1. \A u \in Task \ {t} : call[u].on # None => proc'[call[u].on] = proc[call[u].on]
        BY <1>3, <1>6 DEF TypeOK
    <2>2. /\ "probeGone" \in {"listen", "probe", "probeGone"} /\ "probeGone" \in LabelsOf(t)
          /\ At(t) \in {"bundle", "binary", "probe"} /\ j \in Child \cup {None}
          /\ j \in Router \cup {None} /\ UNCHANGED <<booting, asked>>
        BY <1>1, <1>3, <1>4, <1>5
    <2>3. \A u \in Task \ {t} : call[u].on = j => j = None
        BY <1>3, <1>5
    <2>4. \/ j # None /\ proc'[j] = "failing" /\ ready' = <<>>
          \/ j = None /\ ready' = <<t>>
        BY <1>3, <1>5, ConstantsAssumption
    <2>5. QED
        BY ONLY TypeOK, t \in Task, <1>1, <1>5, <2>1, <2>2, <2>3, <2>4, RelabelKeepsTasks
<1>8. ProcInv'
    <2>1. \A k \in Opencode : Idle(k) => Idle(k)'
        BY <1>4, <1>7 DEF Idle, Task
    <2>2. \A c \in Component : slot'[c].handle # None =>
              slot'[c].handle = slot[c].handle /\ slot[c].handle \in Child \ {i}
        BY <1>1, <1>5, HandleFacts
    <2>3. \A u \in Task : /\ At(u) \in {"listen", "probe", "routerGone", "opencodeGone"}
                          /\ call[u].on # i
                          => At(u)' = At(u) /\ call'[u].on = call[u].on
        BY <1>2, <1>7
    <2>4. proc'[i] \notin {"starting", "dying"} /\ \A k \in Child \ {i} : proc'[k] = proc[k]
        BY <1>6
    <2>5. QED
        BY ONLY t \in Task, <1>1, <1>3, <2>1, <2>2, <2>3, <2>4, ProcMoves
<1>9. HeldInv'
    <2> SUFFICES ASSUME NEW c \in Component, c \notin overlapped' PROVE Held(c)'
        BY DEF HeldInv
    <2>1. Held(c)
        BY <1>1 DEF HeldInv
    <2>2. \A u \in Task : At(u)' \in Work(c) => At(u) \in Work(c)
        BY <1>1, <1>7 DEF Work
    <2>3. \A u \in Task : At(u)' = StopOf(c) <=> At(u) = StopOf(c)
        BY <1>1, <1>7 DEF StopOf
    <2>4. \A k \in Child : proc'[k] = "up" => proc[k] = "up"
        BY <1>6
    <2>5. QED
        BY <1>1, <2>1, <2>2, <2>3, <2>4, HeldKept
<1>10. QuietInv'
    <2>1. \A k \in told' : k \in told /\ proc'[k] = proc[k]
        BY <1>1, <1>3, <1>6, Typed DEF EnvType, Child
    <2>2. Calm' => Calm
        BY <1>1 DEF Calm
    <2>3. QED
        BY <1>1, <1>7, <2>1, <2>2, AnswerKeepsQuiet
<1>11. SlotType' /\ EnvType'
    BY <1>1, <1>6, Typed, ConstantsAssumption DEF SlotType, EnvType, RouterTimesOut, service, history
<1>12. QED
    BY <1>7, <1>8, <1>9, <1>10, <1>11, Typed DEF Parts

\* An exception ends the calls that it leaves.
LEMMA ThrowFacts ==
    ASSUME TypeOK, TaskInv, NEW t \in Task, NEW f \in BOOLEAN, Throw(t, f)
    PROVE  /\ CallType' /\ ReadyType' /\ SlotType' /\ ready' = <<>> /\ booting' \in BOOLEAN
           /\ call'[t] = [todo |-> <<>>, on |-> None] /\ Idle(t)' /\ At(t)' = "idle"
           /\ \A u \in Task :
                 \/ call'[u] = call[u] /\ At(u)' = At(u) /\ (Idle(u)' <=> Idle(u))
                    /\ (t = "boot" => At(u) # "awaitBoot")
                 \/ /\ u = t \/ (t = "boot" /\ At(u) = "awaitBoot")
                    /\ call'[u] = [todo |-> <<>>, on |-> None] /\ Idle(u)' /\ At(u)' = "idle"
           /\ \A c \in Component : /\ slot'[c].handle = slot[c].handle
                                   /\ slot'[c].stopping = slot[c].stopping
                                   /\ slot'[c].timer = slot[c].timer
                                   /\ \/ slot'[c].running = slot[c].running
                                      \/ c = "opencode" /\ f /\ ~slot'[c].running
<1>1. /\ call' = [w \in Task |-> IF w = t \/ (t = "boot" /\ At(w) = "awaitBoot")
                                 THEN [todo |-> <<>>, on |-> None] ELSE call[w]]
      /\ ready' = <<>> /\ booting' = (booting /\ t # "boot")
    BY DEF Throw, Waiters
<1>2. CallType' /\ ReadyType' /\ booting' \in BOOLEAN
    <2>1. <<>> \in Seq(Label) /\ <<>> \in Seq(Task)
        BY Nil
    <2>2. QED
        BY <1>1, <2>1 DEF TypeOK, CallType, ReadyType
<1>3. call'[t] = [todo |-> <<>>, on |-> None] /\ Idle(t)' /\ At(t)' = "idle"
    BY <1>1 DEF Idle, At
<1>4. \A u \in Task :
         \/ call'[u] = call[u] /\ At(u)' = At(u) /\ (Idle(u)' <=> Idle(u))
            /\ (t = "boot" => At(u) # "awaitBoot")
         \/ /\ u = t \/ (t = "boot" /\ At(u) = "awaitBoot")
            /\ call'[u] = [todo |-> <<>>, on |-> None] /\ Idle(u)' /\ At(u)' = "idle"
    <2>1. ASSUME NEW u \in Task, u # t, ~(t = "boot" /\ At(u) = "awaitBoot")
          PROVE  call'[u] = call[u] /\ At(u)' = At(u) /\ (Idle(u)' <=> Idle(u))
        BY <1>1, <2>1 DEF At, Idle
    <2>2. ASSUME NEW u \in Task, u = t \/ (t = "boot" /\ At(u) = "awaitBoot")
          PROVE  call'[u] = [todo |-> <<>>, on |-> None] /\ Idle(u)' /\ At(u)' = "idle"
        BY <1>1, <2>2 DEF At, Idle
    <2>3. QED
        BY <2>1, <2>2
<1>5. /\ SlotType'
      /\ \A c \in Component : /\ slot'[c].handle = slot[c].handle
                              /\ slot'[c].stopping = slot[c].stopping
                              /\ slot'[c].timer = slot[c].timer
                              /\ \/ slot'[c].running = slot[c].running
                                 \/ c = "opencode" /\ f /\ ~slot'[c].running
    <2>1. CASE /\ f
               /\ slot' = [slot EXCEPT !["opencode"].running = FALSE, !["opencode"].status = "error"]
        <3> DEFINE r == [slot["opencode"] EXCEPT !.running = FALSE, !.status = "error"]
        <3>1. /\ r \in Slot /\ slot' = [slot EXCEPT !["opencode"] = r] /\ r.running = FALSE
              /\ r.handle = slot["opencode"].handle /\ r.timer = slot["opencode"].timer
              /\ r.stopping = slot["opencode"].stopping
            BY <2>1, SlotFacts DEF Slot, Status
        <3> HIDE DEF r
        <3>2. /\ SlotType' /\ slot'["opencode"] = r
              /\ \A d \in Component \ {"opencode"} : slot'[d] = slot[d]
            BY <3>1, SlotPut, SlotFacts
        <3>3. QED
            BY <2>1, <3>1, <3>2
    <2>2. ASSUME NEW c \in Component, slot' = [slot EXCEPT ![c].status = "error"]
          PROVE  /\ SlotType'
                 /\ \A d \in Component : /\ slot'[d].handle = slot[d].handle
                                         /\ slot'[d].stopping = slot[d].stopping
                                         /\ slot'[d].timer = slot[d].timer
                                         /\ slot'[d].running = slot[d].running
        BY <2>2, StatusPut DEF Status
    <2>3. CASE slot' = slot
        BY <2>3, SlotFacts DEF SlotType
    <2>4. \/ f /\ slot' = [slot EXCEPT !["opencode"].running = FALSE, !["opencode"].status = "error"]
          \/ \E c \in Component : slot' = [slot EXCEPT ![c].status = "error"]
          \/ slot' = slot
        BY SlotFacts DEF Throw
    <2>5. QED
        BY <2>1, <2>2, <2>3, <2>4
<1>6. QED
    BY <1>1, <1>2, <1>3, <1>4, <1>5

LEMMA ThrowKeepsTasks ==
    ASSUME TypeOK, TaskInv, Quiet, NEW t \in Task, At(t) \in {"bundle", "listen", "binary"},
           NEW f \in BOOLEAN, Throw(t, f),
           \A u \in Task \ {t} : call[u].on # None => proc'[call[u].on] = proc[call[u].on],
           UNCHANGED asked
    PROVE  TaskInv'
<1>1. /\ ready' = <<>> /\ Idle(t)' /\ At(t)' = "idle" /\ call'[t] = [todo |-> <<>>, on |-> None]
      /\ \A u \in Task :
            \/ call'[u] = call[u] /\ At(u)' = At(u) /\ (Idle(u)' <=> Idle(u))
               /\ (t = "boot" => At(u) # "awaitBoot")
            \/ /\ u = t \/ (t = "boot" /\ At(u) = "awaitBoot")
               /\ call'[u] = [todo |-> <<>>, on |-> None] /\ Idle(u)' /\ At(u)' = "idle"
    BY ThrowFacts
<1>2. booting' = (booting /\ t # "boot")
    BY DEF Throw
<1>3. \A u \in Task : Sleeps(u) /\ At(u) # "startOpencode"
    BY QuietFacts
<1>4. ~Idle(t) /\ "boot" \in Task
    BY AtFacts DEF Task
<1>5. ReadyInv' /\ \A u \in Task : ~Awake(u)'
    BY <1>1, InFacts DEF ReadyInv, Awake
<1>6. ASSUME NEW u \in Task PROVE Fits(u, call'[u].todo)
    <2>1. Fits(u, <<>>)
        BY Nil DEF Fits
    <2>2. QED
        BY <1>1, <2>1 DEF TaskInv
<1>7. ASSUME NEW u \in Task PROVE Concerns(u)'
    <2>1. \A v \in Task : call'[v].on = call[v].on \/ call'[v].on = None
        BY <1>1
    <2>2. CASE At(u)' = "idle" /\ call'[u].on = None
        BY <2>2 DEF Concerns
    <2>3. CASE At(u)' = At(u) /\ call'[u] = call[u]
        BY <2>1, <2>3 DEF Concerns, TaskInv
    <2>4. QED
        BY <1>1, <2>2, <2>3
<1>8. ASSUME NEW u \in Task PROVE Sleeps(u)'
    <2>1. CASE Idle(u)' /\ call'[u].on = None
        BY <2>1 DEF Sleeps
    <2>2. CASE /\ u # t /\ call'[u] = call[u] /\ At(u)' = At(u) /\ (Idle(u)' <=> Idle(u))
               /\ (t = "boot" => At(u) # "awaitBoot")
        <3>1. At(u) \in {"listen", "probe", "routerGone", "opencodeGone"} => call[u].on # None
            BY ConstantsAssumption DEF TaskInv, Concerns, Child
        <3>2. call[u].on # None => proc'[call[u].on] = proc[call[u].on]
            BY <2>2
        <3>3. At(u) = "awaitBoot" => booting' = booting /\ (Idle("boot")' <=> Idle("boot"))
            BY <1>1, <1>2, <1>3, <1>4, <2>2, AtFacts DEF Sleeps
        <3>4. QED
            BY <1>3, <2>2, <3>1, <3>2, <3>3 DEF Sleeps
    <2>3. QED
        BY <1>1, <2>1, <2>2
<1>9. booting' <=> ~Idle("boot")'
    BY <1>1, <1>2, <1>4 DEF TaskInv
<1>10. \A r \in Request \ asked' : Idle(r)'
    BY <1>1 DEF TaskInv, Task
<1>11. \A u \in Task : At(u)' # "startOpencode"
    BY <1>1, <1>3
<1>12. QED
    BY <1>5, <1>6, <1>7, <1>8, <1>9, <1>10, <1>11 DEF TaskInv

LEMMA FailsKeeps ==
    ASSUME TypeOK, Parts, Quiet, NEW t \in Task, At(t) \in {"bundle", "listen", "binary"},
           NEW f \in BOOLEAN, Throw(t, f), f => At(t) # "binary",
           IF At(t) = "listen" THEN \E x \in {"none", "failing"} : proc' = [proc EXCEPT ![call[t].on] = x]
           ELSE proc' = proc,
           faults' \in 0..MaxFaults,
           UNCHANGED <<shuttingDown, manifest, enabled, stopped, asked, history>>
    PROVE  TypeOK' /\ Parts'
<1>1. /\ TaskInv /\ ProcInv /\ HeldInv /\ Concerns(t)
      /\ UNCHANGED <<asked, shuttingDown, interfered, overlapped, told>>
    BY DEF Parts, TaskInv, history
<1>2. /\ ready' = <<>> /\ CallType' /\ ReadyType' /\ SlotType' /\ booting' \in BOOLEAN
      /\ call'[t] = [todo |-> <<>>, on |-> None] /\ Idle(t)' /\ At(t)' = "idle"
      /\ \A u \in Task :
            \/ call'[u] = call[u] /\ At(u)' = At(u) /\ (Idle(u)' <=> Idle(u))
               /\ (t = "boot" => At(u) # "awaitBoot")
            \/ /\ u = t \/ (t = "boot" /\ At(u) = "awaitBoot")
               /\ call'[u] = [todo |-> <<>>, on |-> None] /\ Idle(u)' /\ At(u)' = "idle"
      /\ \A c \in Component : /\ slot'[c].handle = slot[c].handle
                              /\ slot'[c].stopping = slot[c].stopping
                              /\ slot'[c].timer = slot[c].timer
                              /\ \/ slot'[c].running = slot[c].running
                                 \/ c = "opencode" /\ f /\ ~slot'[c].running
    BY <1>1, ThrowFacts
<1>3. /\ proc' \in [Child -> {"none", "starting", "up", "dying", "failing", "dead"}]
      /\ \A i \in Child : i # call[t].on => proc'[i] = proc[i]
      /\ \A i \in Child : proc'[i] = proc[i] \/ proc'[i] \in {"none", "failing"}
      /\ call[t].on = None => proc' = proc
    BY <1>1, ConstantsAssumption DEF TypeOK, Concerns, Child
<1>4. \A u \in Task \ {t} : call[u].on # None => proc'[call[u].on] = proc[call[u].on]
    <2>1. \A u \in Task \ {t} : call[u].on # None => call[u].on # call[t].on /\ call[u].on \in Child
        BY <1>1 DEF Concerns, TypeOK
    <2>2. QED
        BY <1>3, <2>1
<1>5. TaskInv'
    BY <1>1, <1>4, ThrowKeepsTasks
<1>6. \A u \in Task : At(u)' # "idle" => At(u)' = At(u) /\ call'[u] = call[u]
    BY <1>2
<1>7. \A u \in Task : At(u) \notin {"bundle", "listen", "binary", "awaitBoot"} =>
          At(u)' = At(u) /\ call'[u] = call[u]
    BY <1>2
<1>8. \A i \in Opencode : Idle(i) => Idle(i)'
    BY <1>2 DEF Task
<1>9. ProcInv'
    <2>1. CASE At(t) # "listen"
        <3>1. \A u \in Task : /\ At(u) \in {"listen", "probe", "routerGone", "opencodeGone"}
                              => At(u)' = At(u) /\ call'[u].on = call[u].on
            BY <1>2, <2>1
        <3>2. QED
            BY <1>1, <1>2, <1>8, <2>1, <3>1, ProcsKept
    <2>2. CASE At(t) = "listen"
        <3>1. PICK i \in Opencode : i = call[t].on
            BY <1>1, <2>2 DEF Concerns
        <3>2. i \in Child /\ proc[i] \in {"starting", "dead"}
            <4>1. Sleeps(t)
                BY <1>1, QuietFacts
            <4>2. QED
                BY <2>2, <3>1, <4>1, AtFacts, <1>1 DEF Sleeps, Child
        <3>3. Idle(i) /\ Idle(i)'
            BY <1>1, <1>8, <3>2 DEF ProcInv
        <3>4. /\ \A j \in Child \ {i} : proc'[j] = proc[j]
              /\ proc'[i] \notin {"starting", "dying"}
            BY <1>3, <2>2, <3>1, <3>2 DEF TypeOK
        <3>5. \A u \in Task : /\ At(u) \in {"listen", "probe", "routerGone", "opencodeGone"}
                              /\ call[u].on # i
                              => At(u)' = At(u) /\ call'[u].on = call[u].on
            BY <1>2, <3>1
        <3>6. \A c \in Component : slot'[c].handle # None =>
                  slot'[c].handle = slot[c].handle /\ slot[c].handle \in Child \ {i}
            BY <1>1, <1>2, <3>2, HandleFacts
        <3>7. QED
            BY ONLY t \in Task, <1>1, <1>8, <3>2, <3>3, <3>4, <3>5, <3>6, ProcMoves
    <2>3. QED
        BY <2>1, <2>2
<1>10. HeldInv'
    <2> SUFFICES ASSUME NEW c \in Component, c \notin overlapped' PROVE Held(c)'
        BY DEF HeldInv
    <2>1. Held(c)
        BY <1>1 DEF HeldInv
    <2>2. /\ \A u \in Task : At(u)' \in Work(c) => At(u) \in Work(c)
          /\ \A u \in Task : At(u)' = StopOf(c) <=> At(u) = StopOf(c)
        BY <1>6, <1>7 DEF Work, StopOf
    <2>3. c = "opencode" /\ f => slot[c].handle = None
        BY <2>1 DEF Held, Work
    <2>4. \A i \in Child : proc'[i] = "up" => proc[i] = "up"
        BY <1>3
    <2>5. slot'[c].handle = slot[c].handle /\ slot'[c].stopping = slot[c].stopping
          /\ slot'[c].timer = slot[c].timer
        BY <1>2
    <2>6. /\ slot'[c].running => slot[c].running
          /\ slot[c].handle # None => (slot'[c].running <=> slot[c].running)
        BY <1>2, <2>3
    <2>7. QED
        BY <2>1, <2>2, <2>4, <2>5, <2>6, HeldKept
<1>11. QuietInv'
    <2>1. /\ \A u \in Task \ {t} : call'[u].todo \in {call[u].todo, <<>>}
          /\ call'[t].todo \in {<<>>, Rest(t)} /\ (Calm' => Calm) /\ shuttingDown' = shuttingDown
          /\ At(t) \in {"bundle", "listen", "binary", "probe"}
        BY <1>1, <1>2 DEF Calm
    <2>2. CASE ~Calm'
        BY <2>2 DEF QuietInv
    <2>3. CASE Calm'
        <3>1. ASSUME NEW j \in told' PROVE j \in told /\ proc'[j] = proc[j]
            <4>1. j \in told /\ j \in Child /\ proc[j] \in {"dying", "none"}
                BY <1>1, <2>1, <2>3, <3>1 DEF Parts, QuietInv, ToldInv, TypeOK, Child
            <4>2. j # call[t].on \/ proc' = proc
                <5>1. CASE At(t) = "listen"
                    <6>1. Sleeps(t)
                        BY <1>1, QuietFacts
                    <6>2. proc[call[t].on] \in {"starting", "dead"}
                        BY <5>1, <6>1, <1>1, AtFacts DEF Sleeps
                    <6>3. QED
                        BY <4>1, <6>2
                <5>2. CASE At(t) # "listen"
                    BY <5>2
                <5>3. QED
                    BY <5>1, <5>2
            <4>3. QED
                BY <1>3, <4>1, <4>2
        <3>2. QED
            BY <2>1, <3>1, AnswerKeepsQuiet
    <2>4. QED
        BY <2>2, <2>3
<1>12. EnvType'
    BY <1>2, <1>3, Typed DEF EnvType, history
<1>13. QED
    BY <1>2, <1>5, <1>9, <1>10, <1>11, <1>12, Typed DEF Parts

LEMMA OpencodeFailsKeeps ==
    ASSUME TypeOK, Parts, NEW t \in Task, OpencodeFails(t)
    PROVE  TypeOK' /\ Parts'
<1>1. /\ Quiet /\ At(t) \in {"bundle", "listen", "binary"} /\ At(t) # "binary" /\ Throw(t, TRUE)
      /\ UNCHANGED <<shuttingDown, manifest, enabled, stopped, asked, history>>
    BY DEF OpencodeFails
<1>2. faults' \in 0..MaxFaults
    BY ConstantsAssumption DEF OpencodeFails, TypeOK
<1>3. IF At(t) = "listen" THEN \E x \in {"none", "failing"} : proc' = [proc EXCEPT ![call[t].on] = x]
      ELSE proc' = proc
    BY DEF OpencodeFails
<1>4. QED
    BY <1>1, <1>2, <1>3, FailsKeeps

LEMMA BinaryFailsKeeps ==
    ASSUME TypeOK, Parts, NEW t \in Task, BinaryFails(t)
    PROVE  TypeOK' /\ Parts'
<1>1. /\ Quiet /\ At(t) \in {"bundle", "listen", "binary"} /\ At(t) # "listen" /\ Throw(t, FALSE)
      /\ UNCHANGED <<shuttingDown, manifest, enabled, stopped, asked, history, proc>>
    BY DEF BinaryFails
<1>2. faults' \in 0..MaxFaults
    BY ConstantsAssumption DEF BinaryFails, TypeOK
<1>3. QED
    BY <1>1, <1>2, FailsKeeps

-----------------------------------------------------------------------------
(* A process ends *)

\* Whoever waits for the end of a process goes on after it.
Stoppers(i) == {t \in Task : call[t].on = i /\ At(t) \in {"routerGone", "opencodeGone", "probeGone"}}
After(i) == IF Stoppers(i) = {} THEN <<>> ELSE <<CHOOSE t \in Stoppers(i) : TRUE>>

LEMMA AfterFacts ==
    ASSUME TypeOK, TaskInv, Quiet, NEW i \in Child
    PROVE  /\ \/ Stoppers(i) = {} /\ After(i) = <<>>
              \/ \E v \in Task : Stoppers(i) = {v} /\ After(i) = <<v>>
           /\ \A u \in Task : u \in Stoppers(i) <=> At(u) \in Gone /\ call[u].on = i
           /\ \A v \in Stoppers(i) :
                 /\ v \in Task /\ i # None
                 /\ proc[i] = IF At(v) = "probeGone" THEN "failing" ELSE "dying"
                 /\ i \in Opencode <=> At(v) = "opencodeGone"
                 /\ i \in Opencode => v \in Request /\ v # i
<1>1. \A u \in Task : u \in Stoppers(i) <=> At(u) \in Gone /\ call[u].on = i
    BY DEF Stoppers, Gone
<1>2. ASSUME NEW v \in Stoppers(i)
      PROVE  /\ v \in Task /\ i # None
             /\ \A u \in Task \ {v} : call[u].on # i
             /\ proc[i] = IF At(v) = "probeGone" THEN "failing" ELSE "dying"
             /\ i \in Opencode <=> At(v) = "opencodeGone"
             /\ i \in Opencode => v \in Request /\ v # i
    <2>1. v \in Task /\ At(v) \in Gone /\ call[v].on = i /\ i # None
        BY <1>2, ConstantsAssumption DEF Stoppers, Gone
    <2>2. \A u \in Task \ {v} : call[u].on # i
        BY <2>1 DEF TaskInv, Concerns
    <2>3. Sleeps(v) /\ ~Idle(v)
        BY <2>1, QuietFacts, AtFacts DEF Gone
    <2>4. proc[i] = IF At(v) = "probeGone" THEN "failing" ELSE "dying"
        BY <2>1, <2>3 DEF Sleeps, Gone
    <2>5. i \in Opencode <=> At(v) = "opencodeGone"
        BY <2>1, ConstantsAssumption DEF TaskInv, Concerns, Gone, Child
    <2>6. At(v) = "opencodeGone" => v \in Request
        BY <2>1, AtFacts DEF LabelsOf
    <2>7. i \in Opencode => v \in Request /\ v # i
        BY <2>5, <2>6, ConstantsAssumption
    <2>8. QED
        BY <2>1, <2>2, <2>4, <2>5, <2>7
<1>3. \/ Stoppers(i) = {} /\ After(i) = <<>>
      \/ \E v \in Task : Stoppers(i) = {v} /\ After(i) = <<v>>
    <2>1. CASE Stoppers(i) = {}
        BY <2>1 DEF After
    <2>2. CASE Stoppers(i) # {}
        <3>1. PICK v : v \in Stoppers(i) /\ After(i) = <<v>>
            BY <2>2 DEF After
        <3>2. v \in Task /\ Stoppers(i) = {v}
            BY <1>1, <1>2, <3>1 DEF Stoppers
        <3>3. QED
            BY <3>1, <3>2
    <2>3. QED
        BY <2>1, <2>2
<1>4. QED
    BY <1>1, <1>2, <1>3

\* An OpenCode that was adopted has an exit handler.
Reaps(i) == i \in Opencode /\ proc[i] \in {"up", "dying"}

\* What the end of a process changes.
Exits(i) ==
    /\ Quiet /\ proc[i] \in {"starting", "up", "dying", "failing"}
    /\ proc'[i] = IF proc[i] = "starting" THEN "dead" ELSE "none"
    /\ \A j \in Child \ {i} : proc'[j] = proc[j]
    /\ \A u \in Task \ {i} : call'[u] = call[u] /\ At(u)' = At(u) /\ (Idle(u)' <=> Idle(u))
    /\ IF Reaps(i)
       THEN /\ Idle(i) /\ ~Idle(i)' /\ At(i)' = "stopRouter"
            /\ call'[i].todo = <<"stopRouter", "reap">> /\ call'[i].on = None
            /\ ready' = <<i>> \o After(i)
       ELSE call' = call /\ ready' = After(i) /\ \A u \in Task : At(u)' = At(u) /\ (Idle(u)' <=> Idle(u))
    /\ IF proc[i] \in {"up", "dying"}
       THEN LET c == Of(i) IN
            /\ slot'[c].handle = IF slot[c].handle = i THEN None ELSE slot[c].handle
            /\ ~slot'[c].running /\ slot'[c].stopping = slot[c].stopping
            /\ slot[c].stopping => slot'[c].timer = slot[c].timer
            /\ \A d \in Component \ {c} : slot'[d] = slot[d]
       ELSE slot' = slot
    /\ UNCHANGED <<shuttingDown, booting, asked, told, overlapped, interfered>>

LEMMA ReleaseFacts ==
    ASSUME TypeOK, NEW c \in Component, NEW i \in Child, Of(i) = c, NEW q \in Slot,
           NEW s, s = [slot EXCEPT ![c] = q], slot' = Release(s, c, i),
           q.handle = slot[c].handle, q.stopping = slot[c].stopping
    PROVE  /\ SlotType'
           /\ slot'[c].handle = IF slot[c].handle = i THEN None ELSE slot[c].handle
           /\ ~slot'[c].running /\ slot'[c].stopping = slot[c].stopping
           /\ slot'[c].timer = q.timer
           /\ \A d \in Component \ {c} : slot'[d] = slot[d]
<1> DEFINE r == [q EXCEPT !.handle = IF q.handle = i THEN None ELSE q.handle, !.running = FALSE]
<1>1. /\ r \in Slot /\ r.handle = (IF q.handle = i THEN None ELSE q.handle) /\ r.running = FALSE
      /\ r.stopping = q.stopping /\ r.timer = q.timer
    BY DEF Slot
<1>2. slot' = [slot EXCEPT ![c] = r]
    <2>1. slot \in [Component -> Slot] /\ s \in [Component -> Slot] /\ s[c] = q
        BY SlotFacts DEF SlotType
    <2>2. Release(s, c, i) = [s EXCEPT ![c] = [s[c] EXCEPT !.handle = IF s[c].handle = i THEN None ELSE s[c].handle,
                                                         !.running = FALSE]]
        BY <2>1 DEF Release, Slot
    <2>3. Release(s, c, i) = [s EXCEPT ![c] = r]
        BY <2>1, <2>2
    <2> HIDE DEF r
    <2>4. [s EXCEPT ![c] = r] = [slot EXCEPT ![c] = r]
        BY <2>1
    <2>5. QED
        BY <2>3, <2>4
<1> HIDE DEF r
<1>3. /\ c = "opencode" => r.handle \notin Router
      /\ c = "router" => r.handle \notin Opencode
    BY <1>1, SlotFacts, ConstantsAssumption DEF Child
<1>4. SlotType' /\ slot'[c] = r /\ \A d \in Component \ {c} : slot'[d] = slot[d]
    BY <1>1, <1>2, <1>3, SlotPut
<1>5. QED
    BY <1>1, <1>4

LEMMA ExitFacts ==
    ASSUME TypeOK, Parts, NEW i \in Child, ProcessExits(i)
    PROVE  Exits(i) /\ SlotType' /\ CallType' /\ EnvType'
<1>1. /\ Quiet /\ proc[i] \in {"starting", "up", "dying", "failing"}
      /\ proc' = [proc EXCEPT ![i] = IF @ = "starting" THEN "dead" ELSE "none"]
      /\ faults' \in 0..MaxFaults
      /\ UNCHANGED <<shuttingDown, booting, manifest, enabled, stopped, asked, overlapped, told, interfered>>
    BY ConstantsAssumption DEF ProcessExits, history, TypeOK
<1>2. /\ proc' \in [Child -> {"none", "starting", "up", "dying", "failing", "dead"}]
      /\ proc'[i] = IF proc[i] = "starting" THEN "dead" ELSE "none"
      /\ \A j \in Child \ {i} : proc'[j] = proc[j]
    BY <1>1 DEF TypeOK
<1>3. EnvType'
    BY <1>1, <1>2, Typed DEF EnvType
<1>4. IF proc[i] \in {"up", "dying"}
      THEN IF Of(i) = "router"
           THEN /\ \E answered \in IF TakenForStop("router")
                                   THEN {[slot EXCEPT !["router"].status = StopStatus("router")]}
                                   ELSE Crashed("router") :
                       slot' = Release(answered, "router", i)
                /\ call' = call /\ ready' = After(i)
           ELSE /\ slot' = Release(slot, "opencode", i)
                /\ call' = [call EXCEPT ![i].todo = <<"stopRouter", "reap">>]
                /\ ready' = <<i>> \o After(i)
      ELSE slot' = slot /\ call' = call /\ ready' = After(i)
    BY DEF ProcessExits, Of, After, Stoppers
<1>5. Of(i) \in Component /\ (Of(i) = "opencode" <=> i \in Opencode) /\ (Of(i) = "router" <=> i \notin Opencode)
    BY DEF Of, Component
<1>6. /\ SlotType'
      /\ IF proc[i] \in {"up", "dying"}
         THEN LET c == Of(i) IN
              /\ slot'[c].handle = IF slot[c].handle = i THEN None ELSE slot[c].handle
              /\ ~slot'[c].running /\ slot'[c].stopping = slot[c].stopping
              /\ slot[c].stopping => slot'[c].timer = slot[c].timer
              /\ \A d \in Component \ {c} : slot'[d] = slot[d]
         ELSE slot' = slot
    <2>1. CASE proc[i] \notin {"up", "dying"}
        BY <1>4, <2>1, SlotFacts DEF SlotType
    <2>2. CASE proc[i] \in {"up", "dying"} /\ Of(i) = "opencode"
        <3>1. slot = [slot EXCEPT !["opencode"] = slot["opencode"]] /\ slot["opencode"] \in Slot
            BY SlotFacts DEF SlotType
        <3>2. slot' = Release(slot, "opencode", i)
            BY <1>4, <2>2
        <3>3. QED
            BY <2>2, <3>1, <3>2, SlotFacts, ReleaseFacts
    <2>3. CASE proc[i] \in {"up", "dying"} /\ Of(i) = "router"
        <3>1. PICK s \in IF TakenForStop("router")
                         THEN {[slot EXCEPT !["router"].status = StopStatus("router")]}
                         ELSE Crashed("router") : slot' = Release(s, "router", i)
            BY <1>4, <2>3
        <3>2. PICK q \in Slot : /\ s = [slot EXCEPT !["router"] = q]
                                /\ q.handle = slot["router"].handle
                                /\ q.stopping = slot["router"].stopping
                                /\ slot["router"].stopping => q.timer = slot["router"].timer
            <4>1. CASE TakenForStop("router")
                <5> DEFINE q == [slot["router"] EXCEPT !.status = StopStatus("router")]
                <5>1. /\ q \in Slot /\ s = [slot EXCEPT !["router"] = q]
                      /\ q.handle = slot["router"].handle /\ q.stopping = slot["router"].stopping
                      /\ q.timer = slot["router"].timer
                    BY <3>1, <4>1, SlotFacts DEF Slot, Status, StopStatus
                <5> HIDE DEF q
                <5>2. QED
                    BY <5>1
            <4>2. CASE ~TakenForStop("router")
                <5>1. s \in Crashed("router") /\ ~slot["router"].stopping
                    BY <3>1, <4>2 DEF TakenForStop
                <5>2. QED
                    BY <5>1, CrashedFacts, SlotFacts
            <4>3. QED
                BY <4>1, <4>2
        <3>3. /\ SlotType'
              /\ slot'["router"].handle = IF slot["router"].handle = i THEN None ELSE slot["router"].handle
              /\ ~slot'["router"].running /\ slot'["router"].stopping = slot["router"].stopping
              /\ slot'["router"].timer = q.timer
              /\ \A d \in Component \ {"router"} : slot'[d] = slot[d]
            <4>1. "router" \in Component /\ Of(i) = "router"
                BY <2>3, SlotFacts
            <4>2. /\ s = [slot EXCEPT !["router"] = q]
                  /\ q.handle = slot["router"].handle
                  /\ q.stopping = slot["router"].stopping
                BY <3>2
            <4>3. slot' = Release(s, "router", i)
                BY <3>1
            <4>4. QED
                BY ONLY TypeOK, i \in Child, q \in Slot, <4>1, <4>2, <4>3, ReleaseFacts
        <3>4. QED
            BY <2>3, <3>2, <3>3
    <2>4. QED
        BY <1>5, <2>1, <2>2, <2>3 DEF Component
<1>7. CASE i \in Opencode /\ proc[i] \in {"up", "dying"}
    <2>1. Idle(i) /\ i \in Task /\ TaskInv
        BY <1>7 DEF Parts, ProcInv, Task
    <2>2. call[i].on = None /\ call[i] \in [todo: Seq(Label), on: Child \cup {None}]
        <3>1. Sleeps(i) /\ At(i) = "idle"
            BY <1>1, <2>1, QuietFacts DEF At
        <3>2. QED
            BY <2>1, <3>1 DEF Sleeps, TypeOK
    <2>3. <<"stopRouter", "reap">> \in Seq(Label) /\ <<"stopRouter", "reap">> # <<>>
          /\ Head(<<"stopRouter", "reap">>) = "stopRouter" /\ None \in Child \cup {None}
        BY Two DEF Label
    <2>4. call' = [call EXCEPT ![i] = [todo |-> <<"stopRouter", "reap">>, on |-> None]]
        <3> DEFINE s == <<"stopRouter", "reap">>
        <3>1. call' = [call EXCEPT ![i].todo = s]
            BY <1>4, <1>5, <1>7
        <3> HIDE DEF s
        <3>2. call' = [call EXCEPT ![i] = [call[i] EXCEPT !.todo = s]]
            BY <3>1
        <3>3. [call[i] EXCEPT !.todo = s] = [todo |-> s, on |-> None]
            BY <2>2
        <3>4. QED
            BY <3>2, <3>3 DEF s
    <2>5. /\ CallType' /\ call'[i].todo = <<"stopRouter", "reap">> /\ call'[i].on = None
          /\ \A u \in Task \ {i} : call'[u] = call[u]
          /\ At(i)' = "stopRouter" /\ ~Idle(i)'
          /\ \A u \in Task \ {i} : (Idle(u)' <=> Idle(u)) /\ At(u)' = At(u)
        <3> DEFINE s == <<"stopRouter", "reap">>
        <3> HIDE DEF s
        <3>1. s \in Seq(Label) /\ call' = [call EXCEPT ![i] = [todo |-> s, on |-> None]]
              /\ s # <<>> /\ Head(s) = "stopRouter"
            BY <2>3, <2>4 DEF s
        <3>2. /\ CallType' /\ call'[i].todo = s /\ call'[i].on = None
              /\ \A u \in Task \ {i} : call'[u] = call[u]
              /\ At(i)' = (IF s = <<>> THEN "idle" ELSE Head(s)) /\ (Idle(i)' <=> s = <<>>)
              /\ \A u \in Task \ {i} : (Idle(u)' <=> Idle(u)) /\ At(u)' = At(u)
            BY ONLY TypeOK, <2>1, <2>3, <3>1, Moves
        <3>3. QED
            BY <3>1, <3>2 DEF s
    <2>6. ready' = <<i>> \o After(i)
        BY <1>4, <1>5, <1>7
    <2>7. Exits(i)
        BY <1>1, <1>2, <1>6, <1>7, <2>1, <2>5, <2>6 DEF Exits, Reaps
    <2>8. QED
        BY <1>3, <1>6, <2>5, <2>7
<1>8. CASE ~(i \in Opencode /\ proc[i] \in {"up", "dying"})
    <2>1. call' = call /\ ready' = After(i)
        BY <1>4, <1>5, <1>8
    <2>2. \A u \in Task : At(u)' = At(u) /\ (Idle(u)' <=> Idle(u))
        BY <2>1 DEF At, Idle
    <2>3. Exits(i)
        BY <1>1, <1>2, <1>6, <1>8, <2>1, <2>2 DEF Exits, Reaps
    <2>4. CallType'
        BY <2>1, Typed DEF CallType
    <2>5. QED
        BY <1>3, <1>6, <2>3, <2>4
<1>9. QED
    BY <1>7, <1>8

LEMMA ExitKeepsTasks ==
    ASSUME TypeOK, TaskInv, NEW i \in Child, Exits(i)
    PROVE  /\ TaskInv' /\ ReadyType'
           /\ Reaps(i) => \A v \in Stoppers(i) : v \in Request /\ ready' = <<i, v>>
<1>1. Quiet /\ \A u \in Task : Sleeps(u) /\ At(u) # "startOpencode"
    BY QuietFacts DEF Exits
<1>2. Reaps(i) => i \in Opencode /\ i \in Task /\ i # "boot" /\ i \notin Request
    BY ConstantsAssumption DEF Reaps, Task
<1>3. /\ \/ Stoppers(i) = {} /\ After(i) = <<>>
         \/ \E v \in Task : Stoppers(i) = {v} /\ After(i) = <<v>>
      /\ \A u \in Task : u \in Stoppers(i) <=> At(u) \in Gone /\ call[u].on = i
      /\ \A v \in Stoppers(i) :
            /\ v \in Task /\ i # None
            /\ proc[i] = IF At(v) = "probeGone" THEN "failing" ELSE "dying"
            /\ i \in Opencode <=> At(v) = "opencodeGone"
            /\ i \in Opencode => v \in Request /\ v # i
    BY <1>1, AfterFacts
<1>4. /\ \A u \in Task : u # i \/ ~Reaps(i) => call'[u] = call[u] /\ At(u)' = At(u) /\ (Idle(u)' <=> Idle(u))
      /\ Reaps(i) => /\ Idle(i) /\ ~Idle(i)' /\ At(i)' = "stopRouter" /\ call'[i].on = None
                     /\ call'[i].todo = <<"stopRouter", "reap">>
                     /\ ready' = <<i>> \o After(i)
      /\ ~Reaps(i) => ready' = After(i)
      /\ UNCHANGED <<booting, asked>>
      /\ proc'[i] = (IF proc[i] = "starting" THEN "dead" ELSE "none")
      /\ proc[i] \in {"starting", "up", "dying", "failing"}
      /\ \A j \in Child \ {i} : proc'[j] = proc[j]
    BY DEF Exits
<1>5. \/ ~Reaps(i) /\ Stoppers(i) = {} /\ ready' = <<>>
      \/ ~Reaps(i) /\ \E v \in Task : Stoppers(i) = {v} /\ ready' = <<v>>
      \/ Reaps(i) /\ Stoppers(i) = {} /\ ready' = <<i>>
      \/ Reaps(i) /\ \E v \in Task : Stoppers(i) = {v} /\ ready' = <<i, v>> /\ v \in Request /\ v # i
    <2>1. CASE Stoppers(i) = {} /\ After(i) = <<>>
        <3>1. Reaps(i) => <<i>> \o <<>> = <<i>>
            BY <1>2, One
        <3>2. QED
            BY <1>4, <2>1, <3>1
    <2>2. ASSUME NEW v \in Task, Stoppers(i) = {v}, After(i) = <<v>>
          PROVE  IF Reaps(i) THEN ready' = <<i, v>> /\ v \in Request /\ v # i ELSE ready' = <<v>>
        <3>1. Reaps(i) => <<i>> \o <<v>> = <<i, v>>
            BY <1>2, Two
        <3>2. Reaps(i) => v \in Request /\ v # i
            BY <1>2, <1>3, <2>2
        <3>3. QED
            BY <1>4, <2>2, <3>1, <3>2
    <2>3. QED
        BY <1>3, <2>1, <2>2
<1>6. \A u \in Task : Awake(u)' <=> (Reaps(i) /\ u = i) \/ u \in Stoppers(i)
    <2>1. \A u \in Task : Awake(u)' <=> In(u, ready')
        BY DEF Awake
    <2>2. QED
        BY <1>2, <1>5, <2>1, InFacts
<1>7. ReadyType'
    <2>1. ready' = <<>> \/ (\E v \in Task : ready' = <<v>>) \/ (\E v, w \in Task : ready' = <<v, w>>)
        BY <1>2, <1>5
    <2>2. QED
        BY <2>1, One, Two, Nil DEF ReadyType
<1>8. ReadyInv'
    <2>1. ASSUME Reaps(i), NEW v \in Task, Stoppers(i) = {v}, ready' = <<i, v>>, v \in Request, v # i
          PROVE  ReadyInv'
        <3>1. At(v)' = "opencodeGone" /\ call'[v].on = i /\ i \in Opencode /\ At(i)' = "stopRouter"
            BY <1>2, <1>3, <1>4, <2>1
        <3>2. QED
            BY <2>1, <3>1 DEF ReadyInv
    <2>2. CASE ready' = <<>> \/ \E v \in Task : ready' = <<v>>
        BY <2>2 DEF ReadyInv
    <2>3. QED
        BY <1>2, <1>5, <2>1, <2>2
<1>9. ASSUME NEW u \in Task PROVE Fits(u, call'[u].todo)
    <2>1. CASE u # i \/ ~Reaps(i)
        BY <1>4, <2>1 DEF TaskInv
    <2>2. CASE u = i /\ Reaps(i)
        <3> DEFINE s == <<"stopRouter", "reap">>
        <3>1. Len(s) = 2 /\ s[1] = "stopRouter" /\ s[2] = "reap"
            BY Two DEF Label
        <3> HIDE DEF s
        <3>2. /\ i \in Opencode /\ i # "boot"
              /\ \A k \in 1..2 : k = 1 \/ k = 2
              /\ \A k \in 2..2 : k = 2
              /\ \A k \in 1..2 - 1 : k = 1
            BY <1>2, <2>2
        <3>3. Fits(i, s)
            BY <3>1, <3>2 DEF Fits, LabelsOf, Later, Final
        <3>4. QED
            BY <1>4, <2>2, <3>3 DEF s
    <2>3. QED
        BY <2>1, <2>2
<1>10. \A u \in Task : call'[u].on = call[u].on \/ call'[u].on = None
    BY <1>4
<1>11. ASSUME NEW u \in Task PROVE Concerns(u)'
    <2>1. CASE u # i \/ ~Reaps(i)
        <3>1. At(u)' = At(u) /\ call'[u] = call[u] /\ Concerns(u)
            BY <1>4, <2>1 DEF TaskInv
        <3>2. QED
            BY <1>10, <3>1 DEF Concerns
    <2>2. CASE u = i /\ Reaps(i)
        BY <1>4, <2>2 DEF Concerns
    <2>3. QED
        BY <2>1, <2>2
<1>12. ASSUME NEW u \in Task PROVE IF Awake(u)' THEN Runs(u)' ELSE Sleeps(u)'
    <2>1. CASE u = i /\ Reaps(i)
        BY <1>4, <1>6, <2>1 DEF Runs, Later
    <2>2. CASE u \in Stoppers(i) /\ ~(u = i /\ Reaps(i))
        <3>1. At(u)' = At(u) /\ call'[u].on = i /\ At(u) \in Gone /\ proc'[i] = "none" /\ i # None
            BY <1>3, <1>4, <2>2
        <3>2. QED
            BY <1>6, <2>2, <3>1 DEF Runs, Gone
    <2>3. CASE u \notin Stoppers(i) /\ ~(u = i /\ Reaps(i))
        <3>1. ~Awake(u)' /\ At(u)' = At(u) /\ call'[u] = call[u] /\ (Idle(u)' <=> Idle(u))
            BY <1>4, <1>6, <2>3
        <3>2. At(u) \in {"listen", "probe", "routerGone", "opencodeGone"} => call[u].on \in Child
            BY DEF TaskInv, Concerns, Child
        <3>3. At(u) \in Gone => call[u].on # i
            BY <1>3, <2>3
        <3>4. At(u) = "probeGone" /\ call[u].on # None => call[u].on \in Child
            BY DEF TaskInv, Concerns, Child
        <3>5. At(u) = "awaitBoot" => booting' /\ ~Idle("boot")'
            BY <1>1, <1>2, <1>4, AtFacts DEF Sleeps, Task
        <3>6. Sleeps(u)
            BY <1>1
        <3>7. Sleeps(u)'
            BY <1>4, <3>1, <3>2, <3>3, <3>4, <3>5, <3>6 DEF Sleeps, Gone
        <3>8. QED
            BY <3>1, <3>7
    <2>4. QED
        BY <2>1, <2>2, <2>3
<1>13. booting' <=> ~Idle("boot")'
    BY <1>2, <1>4 DEF TaskInv, Task
<1>14. \A r \in Request \ asked' : Idle(r)'
    BY <1>2, <1>4 DEF TaskInv, Task
<1>15. \A u \in Task : At(u)' # "startOpencode"
    BY <1>1, <1>4
<1>16. Reaps(i) => \A v \in Stoppers(i) : v \in Request /\ ready' = <<i, v>>
    BY <1>5
<1>17. QED
    BY <1>7, <1>8, <1>9, <1>11, <1>12, <1>13, <1>14, <1>15, <1>16 DEF TaskInv

LEMMA ExitKeepsProcs ==
    ASSUME TypeOK, TaskInv, ProcInv, NEW i \in Child, Exits(i)
    PROVE  ProcInv'
<1>1. "boot" \in Task /\ Quiet
    BY DEF Task, Exits
<1>2. \A j \in Child \ {i} : proc'[j] = proc[j]
    BY DEF Exits
<1>3. \A u \in Task : /\ At(u) \in {"listen", "probe", "routerGone", "opencodeGone"}
                      /\ call[u].on # i
                      => At(u)' = At(u) /\ call'[u].on = call[u].on
    BY AtFacts DEF Exits
<1>4. proc'[i] \notin {"starting", "dying"}
    BY DEF Exits
<1>5. \A j \in Opencode : Idle(j) => Idle(j)' \/ (j = i /\ proc'[i] = "none")
    BY DEF Exits, Reaps, Task
<1>6. i \in Opencode /\ proc'[i] # "none" => Idle(i)'
    <2>1. ASSUME i \in Opencode, proc'[i] # "none" PROVE Idle(i)'
        <3>1. Idle(i) /\ ~Reaps(i) /\ i \in Task
            BY <2>1 DEF Exits, Reaps, ProcInv, Task
        <3>2. QED
            BY <3>1 DEF Exits
    <2>2. QED
        BY <2>1
<1>7. ASSUME NEW c \in Component, slot'[c].handle # None
      PROVE  slot'[c].handle = slot[c].handle /\ slot[c].handle \in Child \ {i}
    <2>1. slot'[c].handle = slot[c].handle /\ slot[c].handle \in Child /\ proc[slot[c].handle] = "up"
        <3>1. slot'[c].handle \in {None, slot[c].handle}
            BY DEF Exits
        <3>2. QED
            BY <1>7, <3>1, HandleFacts
    <2>2. slot[c].handle # i
        <3>1. SUFFICES ASSUME slot[c].handle = i PROVE FALSE
            OBVIOUS
        <3>2. proc[i] = "up" /\ c = Of(i)
            BY <2>1, <3>1, SlotFacts, ConstantsAssumption DEF Of, Component, Child
        <3>3. slot'[c].handle = None
            BY <3>1, <3>2 DEF Exits
        <3>4. QED
            BY <1>7, <3>3
    <2>3. QED
        BY <2>1, <2>2
<1>8. \A c \in Component : slot'[c].handle # None =>
          \/ slot'[c].handle = slot[c].handle /\ slot[c].handle \in Child \ {i}
          \/ slot'[c].handle = i /\ proc'[i] = "up"
    BY <1>7
<1>9. PICK t \in Task : t = "boot"
    BY <1>1
<1>10. QED
    BY ONLY ProcInv, i \in Child, t \in Task, <1>2, <1>3, <1>4, <1>5, <1>6, <1>8, ProcMoves

\* The end of a component's process while none of its starts and stops overlap.
LEMMA EndFacts ==
    ASSUME TypeOK, TaskInv, ProcInv, NEW i \in Child, proc[i] \in {"up", "dying"}, Held(Of(i))
    PROVE  /\ slot[Of(i)].handle \in {i, None}
           /\ proc[i] = "up" => slot[Of(i)].handle = i
           /\ proc[i] = "dying" => \E u \in Task : At(u) = StopOf(Of(i)) /\ call[u].on = i
<1>1. CASE proc[i] = "up"
    BY <1>1 DEF Held
<1>2. CASE proc[i] = "dying"
    <2>1. PICK u \in Task : At(u) \in {"routerGone", "opencodeGone"} /\ call[u].on = i
        BY <1>2 DEF ProcInv
    <2>2. At(u) = StopOf(Of(i)) /\ At(u) \in Work(Of(i))
        BY <2>1, ConstantsAssumption DEF TaskInv, Concerns, Of, StopOf, Work, Child
    <2>3. slot[Of(i)].handle = None
        BY <2>2 DEF Held
    <2>4. QED
        BY <1>2, <2>1, <2>2, <2>3
<1>3. QED
    BY <1>1, <1>2

LEMMA ExitKeepsHeld ==
    ASSUME TypeOK, TaskInv, ProcInv, HeldInv, NEW i \in Child, Exits(i)
    PROVE  HeldInv'
<1> SUFFICES ASSUME NEW d \in Component, d \notin overlapped' PROVE Held(d)'
    BY DEF HeldInv
<1>1. Held(d)
    BY DEF HeldInv, Exits
<1>2. /\ \A u \in Task : At(u)' \in Work(d) <=> At(u) \in Work(d)
      /\ \A u \in Task : At(u)' = StopOf(d) <=> At(u) = StopOf(d)
    <2>1. \A u \in Task : At(u)' = At(u) \/ (Idle(u) /\ At(u)' = "stopRouter")
        BY DEF Exits
    <2>2. \A u \in Task : Idle(u) => At(u) = "idle"
        BY DEF At
    <2>3. QED
        BY <2>1, <2>2 DEF Work, StopOf
<1>3. \A j \in Child : proc'[j] = "up" => proc[j] = "up" /\ j # i
    BY DEF Exits
<1>4. CASE slot'[d] = slot[d]
    BY <1>1, <1>2, <1>3, <1>4, HeldKept
<1>5. CASE proc[i] \in {"up", "dying"} /\ d = Of(i)
    <2>1. /\ slot'[d].handle = (IF slot[d].handle = i THEN None ELSE slot[d].handle)
          /\ ~slot'[d].running /\ slot'[d].stopping = slot[d].stopping
          /\ slot[d].stopping => slot'[d].timer = slot[d].timer
        BY <1>5 DEF Exits
    <2>2. slot[d].handle \in {i, None} /\ (proc[i] = "up" => slot[d].handle = i)
        BY <1>1, <1>5, EndFacts
    <2>3. slot'[d].handle = None
        BY <2>1, <2>2
    <2>4. \A j \in Child : Of(j) = d /\ proc'[j] = "up" => FALSE
        <3>1. \A j \in Child : j # None
            BY ConstantsAssumption
        <3>2. QED
            BY <1>1, <1>3, <2>2, <3>1 DEF Held
    <2>5. QED
        BY <1>1, <1>2, <2>1, <2>3, <2>4 DEF Held, Of, Work, StopOf
<1>6. QED
    BY <1>4, <1>5 DEF Exits

LEMMA ExitKeepsQuiet ==
    ASSUME TypeOK, Parts, NEW i \in Child, Exits(i)
    PROVE  QuietInv'
<1>1. SUFFICES ASSUME Calm' PROVE StopInv' /\ ToldInv' /\ CloseInv'
    BY DEF QuietInv
<1>2. /\ TaskInv /\ ProcInv /\ HeldInv /\ StopInv /\ ToldInv /\ CloseInv /\ Quiet
      /\ \A c \in Component : Held(c)
    BY <1>1 DEF Parts, QuietInv, Calm, Exits, HeldInv
<1>3. /\ ready = <<>> /\ \A u \in Task : ready # <<u>>
      /\ \A u, v \in Task : ready # <<u, v>>
      /\ \A u \in Task : At(u) \notin Later
    BY <1>2, QuietFacts
<1>4. Reaps(i) => \A v \in Stoppers(i) : v \in Request /\ ready' = <<i, v>>
    BY <1>2, ExitKeepsTasks
<1>5. /\ \A u \in Task : u # i \/ ~Reaps(i) => call'[u] = call[u] /\ At(u)' = At(u) /\ (Idle(u)' <=> Idle(u))
      /\ Reaps(i) => At(i)' = "stopRouter" /\ call'[i].todo = <<"stopRouter", "reap">>
      /\ UNCHANGED <<shuttingDown, told>>
    BY DEF Exits
<1>6. Reaps(i) => i \in Opencode /\ i \in Task /\ i \notin Request
    BY ConstantsAssumption DEF Reaps, Task
<1>7. /\ Len(<<"stopRouter", "reap">>) = 2 /\ <<"stopRouter", "reap">>[1] = "stopRouter"
      /\ <<"stopRouter", "reap">>[2] = "reap"
    BY Two DEF Label
\* Nobody but the process that OpenCode's stop waits for ends while it waits.
<1>8. ASSUME NEW t \in Task, At(t) = "opencodeGone"
      PROVE  /\ slot["router"].handle = None /\ ~slot["router"].timer
             /\ \A u \in Task \ {t} : Idle(u)
             /\ proc[i] \in {"up", "dying"} => Reaps(i) /\ t \in Stoppers(i)
    <2>1. /\ slot["router"].handle = None /\ ~slot["router"].timer
          /\ \A u \in Task \ {t} : Idle(u)
        BY <1>2, <1>3, <1>8 DEF StopInv
    <2>2. ASSUME proc[i] \in {"up", "dying"} PROVE Reaps(i) /\ t \in Stoppers(i)
        <3>1. /\ Held(Of(i)) /\ slot[Of(i)].handle \in {i, None}
              /\ proc[i] = "up" => slot[Of(i)].handle = i
              /\ proc[i] = "dying" => \E u \in Task : At(u) = StopOf(Of(i)) /\ call[u].on = i
            <4>1. Of(i) \in Component
                BY DEF Of, Component
            <4>2. QED
                BY <1>2, <2>2, <4>1, EndFacts
        <3>2. i # None
            BY ConstantsAssumption
        <3>3. CASE proc[i] = "up"
            <4>1. slot[Of(i)].handle = i
                BY <3>1, <3>3
            <4>2. Of(i) = "opencode"
                BY <2>1, <3>2, <4>1 DEF Of
            <4>3. slot["opencode"].handle = None
                BY <1>8, <3>1, <4>2 DEF Held, Work
            <4>4. QED
                BY <3>2, <4>1, <4>2, <4>3
        <3>4. CASE proc[i] = "dying"
            <4>1. PICK u \in Task : At(u) = StopOf(Of(i)) /\ call[u].on = i
                BY <3>1, <3>4
            <4>2. ~Idle(u)
                BY <1>2, <4>1, AtFacts DEF StopOf
            <4>3. u = t
                BY <2>1, <4>2
            <4>4. Of(i) = "opencode"
                BY <1>8, <4>1, <4>3 DEF StopOf
            <4>5. QED
                BY <1>8, <3>4, <4>1, <4>3, <4>4 DEF Stoppers, Reaps, Of
        <3>5. QED
            BY <2>2, <3>3, <3>4
    <2>3. QED
        BY <2>1, <2>2
<1>9. StopInv'
    <2>1. ASSUME NEW t \in Task
          PROVE  /\ ~(At(t)' = "stopRouter" /\ Len(call'[t].todo) > 1 /\ call'[t].todo[2] = "stopOpencode")
                 /\ At(t)' # "stopOpencode"
        <3>1. CASE t = i /\ Reaps(i)
            BY <1>5, <1>7, <3>1
        <3>2. CASE ~(t = i /\ Reaps(i))
            <4>1. At(t)' = At(t)
                BY <1>5, <3>2
            <4>2. QED
                BY <1>3, <4>1 DEF Later
        <3>3. QED
            BY <3>1, <3>2
    <2>2. ASSUME NEW t \in Task, At(t)' = "opencodeGone"
          PROVE  /\ slot'["router"].handle = None /\ ~slot'["router"].timer
                 /\ \A u \in Task \ {t} : Idle(u)' \/ ready' = <<u, t>>
        <3>1. At(t) = "opencodeGone"
            BY <1>5, <2>2
        <3>2. /\ slot["router"].handle = None /\ ~slot["router"].timer
              /\ \A u \in Task \ {t} : Idle(u)
              /\ proc[i] \in {"up", "dying"} => Reaps(i) /\ t \in Stoppers(i)
            BY <1>8, <3>1
        <3>3. slot'["router"] = slot["router"]
            <4>1. CASE proc[i] \in {"up", "dying"}
                <5>1. Of(i) = "opencode"
                    BY <3>2, <4>1 DEF Reaps, Of
                <5>2. QED
                    BY <4>1, <5>1, SlotFacts DEF Exits
            <4>2. CASE proc[i] \notin {"up", "dying"}
                BY <4>2 DEF Exits
            <4>3. QED
                BY <4>1, <4>2
        <3>4. ASSUME NEW u \in Task \ {t} PROVE Idle(u)' \/ ready' = <<u, t>>
            <4>1. CASE u = i /\ Reaps(i)
                <5>1. t \in Stoppers(i)
                    BY <3>2, <4>1 DEF Reaps
                <5>2. QED
                    BY <1>4, <4>1, <5>1
            <4>2. CASE ~(u = i /\ Reaps(i))
                BY <1>5, <3>2, <4>2
            <4>3. QED
                BY <4>1, <4>2
        <3>5. QED
            BY <3>2, <3>3, <3>4
    <2>3. QED
        BY <2>1, <2>2 DEF StopInv
<1>10. ToldInv'
    <2> SUFFICES ASSUME NEW j \in told'
        PROVE  \/ proc'[j] = "dying"
               \/ proc'[j] = "none" /\ (Idle(j)' \/ \E t \in Request : ready' = <<j, t>>)
        BY DEF ToldInv
    <2>1. j \in told /\ j \in Opencode /\ j \in Child /\ j \in Task
        BY <1>5 DEF TypeOK, Child, Task
    <2>2. proc[j] = "dying" \/ (proc[j] = "none" /\ Idle(j))
        <3>1. \A v \in Request : v \in Task
            BY DEF Task
        <3>2. QED
            BY <1>2, <1>3, <2>1, <3>1 DEF ToldInv
    <2>3. CASE j # i
        BY <1>5, <2>1, <2>2, <2>3 DEF Exits
    <2>4. CASE j = i
        <3>1. proc[i] = "dying" /\ Reaps(i) /\ proc'[i] = "none"
            BY <2>1, <2>2, <2>4 DEF Exits, Reaps
        <3>2. PICK u \in Task : At(u) = StopOf(Of(i)) /\ call[u].on = i
            <4>1. Of(i) \in Component
                BY DEF Of, Component
            <4>2. QED
                BY <1>2, <3>1, <4>1, EndFacts
        <3>3. u \in Stoppers(i)
            BY <2>1, <2>4, <3>2 DEF Stoppers, StopOf, Of
        <3>4. QED
            BY <1>4, <2>4, <3>1, <3>3
    <2>5. QED
        BY <2>3, <2>4
<1>11. CloseInv'
    <2> SUFFICES ASSUME NEW r \in Request, Closes(r)'
        PROVE  /\ shuttingDown'
               /\ \A t \in Task \ {r} : \A k \in 1..Len(call'[t].todo) :
                     call'[t].todo[k] \in {"stopRouter", "routerGone", "reap"}
               /\ At(r)' = "exit" => \A c \in Component : slot'[c].handle = None
        BY DEF CloseInv
    <2>1. r \in Task /\ ~(r = i /\ Reaps(i))
        BY <1>6 DEF Task
    <2>2. Closes(r) /\ At(r)' # "exit"
        <3>1. call'[r] = call[r] /\ At(r)' = At(r)
            BY <1>5, <2>1
        <3>2. QED
            BY <1>3, <2>1, <3>1 DEF Closes, Later
    <2>3. shuttingDown' /\ \A t \in Task \ {r} : \A k \in 1..Len(call[t].todo) :
                     call[t].todo[k] \in {"stopRouter", "routerGone", "reap"}
        BY <1>2, <1>5, <2>2 DEF CloseInv
    <2>4. ASSUME NEW t \in Task \ {r}, NEW k \in 1..Len(call'[t].todo)
          PROVE  call'[t].todo[k] \in {"stopRouter", "routerGone", "reap"}
        <3>1. CASE t = i /\ Reaps(i)
            <4> DEFINE q == <<"stopRouter", "reap">>
            <4>1. Len(q) = 2 /\ q[1] = "stopRouter" /\ q[2] = "reap"
                BY <1>7
            <4>2. call'[t].todo = q
                BY <1>5, <3>1
            <4> HIDE DEF q
            <4>3. k \in 1..2
                BY <2>4, <4>1, <4>2
            <4>4. QED
                BY <4>1, <4>2, <4>3
        <3>2. CASE ~(t = i /\ Reaps(i))
            BY <1>5, <2>3, <2>4, <3>2
        <3>3. QED
            BY <3>1, <3>2
    <2>5. QED
        BY <2>2, <2>3, <2>4
<1>12. QED
    BY <1>9, <1>10, <1>11

LEMMA ProcessExitsKeeps ==
    ASSUME TypeOK, Parts, NEW i \in Child, ProcessExits(i)
    PROVE  TypeOK' /\ Parts'
<1>1. Exits(i) /\ SlotType' /\ CallType' /\ EnvType'
    BY ExitFacts
<1>2. TaskInv /\ ProcInv /\ HeldInv
    BY DEF Parts
<1>3. TaskInv' /\ ReadyType'
    BY <1>1, <1>2, ExitKeepsTasks
<1>4. ProcInv' /\ HeldInv' /\ QuietInv'
    BY <1>1, <1>2, ExitKeepsProcs, ExitKeepsHeld, ExitKeepsQuiet
<1>5. QED
    BY <1>1, <1>3, <1>4, Typed DEF Parts

-----------------------------------------------------------------------------
(* A task begins *)

Begin(t, s) == call' = [call EXCEPT ![t].todo = s]

LEMMA BeginMoves ==
    ASSUME TypeOK, TaskInv, Quiet, NEW t \in Task, Idle(t), NEW s \in Seq(Label), Begin(t, s)
    PROVE  /\ CallType' /\ call'[t].todo = s /\ call'[t].on = None
           /\ \A u \in Task \ {t} : call'[u] = call[u]
           /\ At(t)' = IF s = <<>> THEN "idle" ELSE Head(s)
           /\ Idle(t)' <=> s = <<>>
           /\ \A u \in Task \ {t} : (Idle(u)' <=> Idle(u)) /\ At(u)' = At(u)
<1>1. Sleeps(t) /\ At(t) = "idle" /\ None \in Child \cup {None}
    BY QuietFacts DEF At
<1>2. call[t].on = None /\ call[t] \in [todo: Seq(Label), on: Child \cup {None}]
    BY <1>1 DEF Sleeps, TypeOK
<1>3. call' = [call EXCEPT ![t] = [call[t] EXCEPT !.todo = s]]
    BY DEF Begin
<1>4. [call[t] EXCEPT !.todo = s] = [todo |-> s, on |-> None]
    BY <1>2
<1>5. call' = [call EXCEPT ![t] = [todo |-> s, on |-> None]]
    BY <1>3, <1>4
<1>6. QED
    BY ONLY TypeOK, t \in Task, s \in Seq(Label), <1>1, <1>5, Moves

\* Of the slots no more than a timer is cleared.
SlotsKept ==
    \A c \in Component : /\ slot'[c].handle = slot[c].handle
                         /\ slot'[c].running = slot[c].running
                         /\ slot'[c].stopping = slot[c].stopping
                         /\ slot'[c].timer => slot[c].timer

LEMMA BeginKeeps ==
    ASSUME TypeOK, TaskInv, ProcInv, HeldInv, Quiet, SlotsKept,
           NEW t \in Task, Idle(t), t # "boot", t \notin Opencode,
           NEW s \in Seq(Label), s # <<>>, Begin(t, s), Fits(t, s),
           Head(s) \in Later \cup {"startOpencode"},
           Head(s) = "startOpencode" => ~slot["opencode"].running,
           ready' = <<t>>, asked \subseteq asked', t \notin Request \ asked',
           UNCHANGED <<proc, booting, overlapped>>
    PROVE  TaskInv' /\ ProcInv' /\ HeldInv' /\ CallType' /\ ReadyType'
<1>1. /\ CallType' /\ call'[t].todo = s /\ call'[t].on = None
      /\ \A u \in Task \ {t} : call'[u] = call[u]
      /\ At(t)' = Head(s) /\ ~Idle(t)'
      /\ \A u \in Task \ {t} : (Idle(u)' <=> Idle(u)) /\ At(u)' = At(u)
    BY BeginMoves
<1>2. /\ ready = <<>>
      /\ \A u \in Task : ~Awake(u) /\ At(u) # "startOpencode"
    BY QuietFacts
<1>3. ReadyType' /\ ReadyInv'
    BY One DEF ReadyType, ReadyInv
<1>4. \A u \in Task : Awake(u)' <=> u = t
    BY InFacts DEF Awake
<1>5. TaskInv'
    <2>1. /\ \A u \in Task \ {t} : call'[u] = call[u] /\ (Awake(u)' <=> Awake(u))
          /\ \A u \in Task \ {t} : call[u].on # None => proc'[call[u].on] = proc[call[u].on]
          /\ \A u \in Task \ {t} : call'[t].on = call[u].on => call[u].on = None
          /\ \A u \in Task : At(u) = "startOpencode" => u = t
        BY <1>1, <1>2, <1>4
    <2>2. Idle("boot")' <=> Idle("boot")
        BY <1>1 DEF Task
    <2>3. Fits(t, call'[t].todo) /\ At(t)' \in Later \cup {"startOpencode"}
        BY <1>1
    <2>4. Runs(t)' /\ Awake(t)'
        BY <1>1, <1>4 DEF Runs
    <2>5. At(t)' = "startOpencode" => ready' = <<t>> /\ ~slot'["opencode"].running
        BY <1>1, SlotFacts DEF SlotsKept
    <2>6. At(t)' \notin {"listen", "opencodeGone", "probe", "routerGone", "probeGone"}
        BY <2>3 DEF Later
    <2>7. QED
        BY <1>3, <2>1, <2>2, <2>3, <2>4, <2>5, <2>6, OthersKept
<1>6. ~(At(t) \in {"listen", "probe", "routerGone", "opencodeGone"}) /\ At(t) = "idle"
    BY DEF At
<1>7. ProcInv'
    <2>1. /\ \A c \in Component : slot'[c].handle = slot[c].handle
          /\ \A i \in Opencode : Idle(i) => Idle(i)'
        BY <1>1 DEF SlotsKept, Task
    <2>2. QED
        BY <1>1, <1>6, <2>1, ProcsKept
<1>8. HeldInv'
    <2> SUFFICES ASSUME NEW c \in Component, c \notin overlapped' PROVE Held(c)'
        BY DEF HeldInv
    <2>1. Held(c)
        BY DEF HeldInv
    <2>2. At(t)' \notin Work(c) /\ At(t)' # StopOf(c) /\ At(t) # StopOf(c)
        BY <1>1, <1>6 DEF Work, StopOf, Later
    <2>3. QED
        BY <1>1, <2>1, <2>2, HeldKept DEF SlotsKept
<1>9. QED
    BY <1>1, <1>3, <1>5, <1>7, <1>8

\* The calls that timers and requests begin with.
LEMMA FitsCalls ==
    /\ <<"bootstrap">> \in Seq(Label) /\ <<"bootstrap">> # <<>>
    /\ Head(<<"bootstrap">>) = "bootstrap" /\ Fits("revive", <<"bootstrap">>)
    /\ <<"startRouter">> \in Seq(Label) /\ <<"startRouter">> # <<>>
    /\ Head(<<"startRouter">>) = "startRouter" /\ Fits("restart", <<"startRouter">>)
<1>1. /\ <<"bootstrap">> \in Seq(Label) /\ <<"bootstrap">> # <<>> /\ Head(<<"bootstrap">>) = "bootstrap"
      /\ Len(<<"bootstrap">>) = 1 /\ <<"bootstrap">>[1] = "bootstrap"
      /\ <<"startRouter">> \in Seq(Label) /\ <<"startRouter">> # <<>>
      /\ Head(<<"startRouter">>) = "startRouter"
      /\ Len(<<"startRouter">>) = 1 /\ <<"startRouter">>[1] = "startRouter"
    BY One DEF Label
<1>2. "revive" \notin Opencode \cup Request /\ "restart" \notin Opencode \cup Request
    BY ConstantsAssumption
<1>3. "bootstrap" \in LabelsOf("revive") /\ "startRouter" \in LabelsOf("restart")
    BY <1>2 DEF LabelsOf, Label
<1>4. (\A k \in 1..1 : k = 1) /\ (\A k \in 2..1 : FALSE) /\ (\A k \in 1..1 - 1 : FALSE)
    OBVIOUS
<1>5. Fits("revive", <<"bootstrap">>)
    <2> DEFINE s == <<"bootstrap">>
    <2>1. Len(s) = 1 /\ s[1] = "bootstrap"
        BY <1>1
    <2> HIDE DEF s
    <2>2. Fits("revive", s)
        BY <1>3, <1>4, <2>1 DEF Fits
    <2>3. QED
        BY <2>2 DEF s
<1>6. Fits("restart", <<"startRouter">>)
    <2> DEFINE s == <<"startRouter">>
    <2>1. Len(s) = 1 /\ s[1] = "startRouter"
        BY <1>1
    <2> HIDE DEF s
    <2>2. Fits("restart", s)
        BY <1>3, <1>4, <2>1 DEF Fits
    <2>3. QED
        BY <2>2 DEF s
<1>7. QED
    BY <1>1, <1>5, <1>6

LEMMA TimerFiresKeeps ==
    ASSUME TypeOK, Parts, NEW c \in Component, TimerFires(c)
    PROVE  TypeOK' /\ Parts'
<1> DEFINE r == [slot[c] EXCEPT !.timer = FALSE]
<1>1. /\ Quiet /\ slot[c].timer /\ slot' = [slot EXCEPT ![c].timer = FALSE]
      /\ UNCHANGED <<proc, booting, asked, shuttingDown, told, overlapped, interfered>>
    BY DEF TimerFires, env, history
<1>2. /\ r \in Slot /\ slot' = [slot EXCEPT ![c] = r] /\ r.handle = slot[c].handle
      /\ r.running = slot[c].running /\ r.stopping = slot[c].stopping /\ r.timer = FALSE
    BY <1>1, SlotFacts DEF Slot
<1> HIDE DEF r
<1>3. SlotType' /\ slot'[c] = r /\ \A d \in Component \ {c} : slot'[d] = slot[d]
    BY <1>2, SlotPut, SlotFacts
<1>4. SlotsKept
    BY <1>2, <1>3 DEF SlotsKept
<1>5. EnvType'
    BY Typed DEF EnvType, TimerFires, env, history
<1>6. TaskInv /\ ProcInv /\ HeldInv /\ QuietInv
    BY DEF Parts
<1>7. CASE UNCHANGED tasks
    <2>1. call' = call /\ ready' = ready
        BY <1>7 DEF tasks
    <2>2. \A u \in Task : At(u)' = At(u) /\ (Idle(u)' <=> Idle(u)) /\ (Awake(u)' <=> Awake(u))
        BY <2>1 DEF At, Idle, Awake
    <2>3. CallType' /\ ReadyType'
        BY <2>1, Typed DEF CallType, ReadyType
    <2>4. TaskInv'
        <3>1. ReadyInv'
            BY <1>6, <2>1, <2>2 DEF TaskInv, ReadyInv, Task
        <3>2. \A u \in Task : Fits(u, call'[u].todo) /\ Concerns(u)'
            BY <1>6, <2>1, <2>2 DEF TaskInv, Concerns
        <3>3. "boot" \in Task
            BY DEF Task
        <3>4. \A u \in Task : (Runs(u) <=> Runs(u)') /\ (Sleeps(u) <=> Sleeps(u)')
            BY <1>1, <2>1, <2>2, <3>3 DEF Runs, Sleeps
        <3>5. \A u \in Task : IF Awake(u)' THEN Runs(u)' ELSE Sleeps(u)'
            BY <1>6, <2>2, <3>4 DEF TaskInv
        <3>6. (booting' <=> ~Idle("boot")') /\ \A q \in Request \ asked' : Idle(q)'
            BY <1>1, <1>6, <2>2 DEF TaskInv, Task
        <3>7. \A u \in Task : At(u)' # "startOpencode"
            BY <1>1, <1>6, <2>2, QuietFacts
        <3>8. QED
            BY <3>1, <3>2, <3>5, <3>6, <3>7 DEF TaskInv
    <2>5. ProcInv'
        BY <1>1, <1>4, <1>6, <2>1, <2>2, ProcsKept DEF SlotsKept, Task
    <2>6. HeldInv'
        <3> SUFFICES ASSUME NEW d \in Component, d \notin overlapped' PROVE Held(d)'
            BY DEF HeldInv
        <3>1. Held(d)
            BY <1>1, <1>6 DEF HeldInv
        <3>2. QED
            BY <1>1, <1>4, <2>2, <3>1, HeldKept DEF SlotsKept
    <2>7. QuietInv'
        <3>1. SUFFICES ASSUME Calm' PROVE StopInv' /\ ToldInv' /\ CloseInv'
            BY DEF QuietInv
        <3>2. StopInv /\ ToldInv /\ CloseInv
            BY <1>1, <1>6, <3>1 DEF QuietInv, Calm
        <3>3. "router" \in Component /\ slot'["router"].handle = slot["router"].handle
              /\ (slot'["router"].timer => slot["router"].timer)
            BY <1>4, SlotFacts DEF SlotsKept
        <3>4. StopInv'
            BY <2>1, <2>2, <3>2, <3>3 DEF StopInv, Alone
        <3>5. ToldInv'
            BY <1>1, <2>1, <3>2 DEF ToldInv, Idle
        <3>6. CloseInv'
            BY <1>1, <1>4, <2>1, <2>2, <3>2 DEF CloseInv, Closes, SlotsKept, Task
        <3>7. QED
            BY <3>4, <3>5, <3>6
    <2>8. QED
        BY <1>3, <1>5, <2>3, <2>4, <2>5, <2>6, <2>7, Typed DEF Parts
<1>8. CASE ~UNCHANGED tasks
    <2>1. PICK t \in {"revive", "restart"}, s \in Seq(Label) :
              /\ t \in Task /\ Idle(t) /\ t # "boot" /\ t \notin Opencode /\ t \notin Request
              /\ s # <<>> /\ Head(s) \in {"bootstrap", "startRouter"} /\ Fits(t, s)
              /\ Begin(t, s) /\ ready' = <<t>> /\ ~shuttingDown
        <3>1. \E s : /\ s = (IF c = "opencode" THEN <<"bootstrap">> ELSE <<"startRouter">>)
                     /\ Begin(IF c = "opencode" THEN "revive" ELSE "restart", s)
                     /\ Idle(IF c = "opencode" THEN "revive" ELSE "restart")
                     /\ ready' = <<IF c = "opencode" THEN "revive" ELSE "restart">> /\ ~shuttingDown
            BY <1>8 DEF TimerFires, Begin
        <3>2. {"revive", "restart"} \cap (Opencode \cup Request \cup {"boot"}) = {}
            BY ConstantsAssumption
        <3>3. CASE c = "opencode"
            BY <3>1, <3>2, <3>3, FitsCalls DEF Task
        <3>4. CASE c # "opencode"
            BY <3>1, <3>2, <3>4, FitsCalls DEF Task
        <3>5. QED
            BY <3>3, <3>4
    <2>2. Head(s) \in Later \cup {"startOpencode"} /\ Head(s) # "startOpencode"
        BY <2>1 DEF Later
    <2>3. TaskInv' /\ ProcInv' /\ HeldInv' /\ CallType' /\ ReadyType'
        <3>1. asked \subseteq asked' /\ t \notin Request \ asked' /\ UNCHANGED <<proc, booting, overlapped>>
            BY <1>1, <2>1
        <3>2. QED
            BY ONLY TypeOK, s \in Seq(Label), <1>1, <1>4, <1>6, <2>1, <2>2, <3>1, BeginKeeps
    <2>4. /\ call'[t].todo = s /\ call'[t].on = None
          /\ \A u \in Task \ {t} : call'[u] = call[u]
          /\ At(t)' = Head(s) /\ ~Idle(t)'
          /\ \A u \in Task \ {t} : (Idle(u)' <=> Idle(u)) /\ At(u)' = At(u)
        BY <1>1, <1>6, <2>1, BeginMoves
    <2>5. /\ ready = <<>> /\ \A u \in Task : At(u) \notin Later
          /\ \A u \in Task : ready # <<u>>
          /\ \A u, v \in Task : ready # <<u, v>>
        BY <1>1, <1>6, QuietFacts
    <2>6. QuietInv'
        <3>1. SUFFICES ASSUME Calm' PROVE StopInv' /\ ToldInv' /\ CloseInv'
            BY DEF QuietInv
        <3>2. StopInv /\ ToldInv /\ CloseInv /\ \A d \in Component : Held(d)
            BY <1>1, <1>6, <3>1 DEF QuietInv, Calm, HeldInv
        <3>3. \A u \in Task : At(u) # "opencodeGone"
            <4>1. ASSUME NEW u \in Task, At(u) = "opencodeGone" PROVE FALSE
                <5>1. ~slot["router"].timer
                    BY <3>2, <4>1 DEF StopInv
                <5>2. ~slot["opencode"].timer
                    BY <3>2, <4>1, SlotFacts DEF Held, StopOf
                <5>3. QED
                    BY <1>1, <5>1, <5>2 DEF Component
            <4>2. QED
                BY <4>1
        <3>4. StopInv'
            <4>1. \A u \in Task : At(u)' \notin {"stopRouter", "stopOpencode", "opencodeGone"}
                BY <2>1, <2>4, <2>5, <3>3 DEF Later
            <4>2. QED
                BY <4>1 DEF StopInv
        <3>5. ToldInv'
            <4> SUFFICES ASSUME NEW j \in told'
                PROVE  proc'[j] = "dying" \/ (proc'[j] = "none" /\ Idle(j)')
                BY DEF ToldInv
            <4>1. j \in told /\ j \in Task /\ j # t
                BY <1>1, <2>1 DEF TypeOK, Task
            <4>2. \A v \in Request : v \in Task
                BY DEF Task
            <4>3. QED
                BY <1>1, <2>4, <2>5, <3>2, <4>1, <4>2 DEF ToldInv
        <3>6. CloseInv'
            <4>1. \A q \in Request : ~Closes(q)'
                <5>1. \A q \in Request : q \in Task /\ q # t
                    BY <2>1 DEF Task
                <5>2. QED
                    BY <2>1, <2>4, <3>2, <5>1 DEF CloseInv, Closes
            <4>2. QED
                BY <4>1 DEF CloseInv
        <3>7. QED
            BY <3>4, <3>5, <3>6
    <2>7. QED
        BY <1>3, <1>5, <2>3, <2>6, Typed DEF Parts
<1>9. QED
    BY <1>7, <1>8

LEMMA ConcatTwoOne ==
    ASSUME NEW S, NEW p \in Seq(S), NEW q \in Seq(S), NEW r \in Seq(S),
           Len(p) = 2, Len(q) = 1, Len(r) = 3, r[1] = p[1], r[2] = p[2], r[3] = q[1]
    PROVE  p \o q = r
<1>1. PICK c : c = p \o q
    OBVIOUS
<1>2. /\ c \in Seq(S) /\ Len(c) = Len(p) + Len(q)
      /\ \A k \in 1..Len(p) + Len(q) : c[k] = IF k <= Len(p) THEN p[k] ELSE q[k - Len(p)]
    BY <1>1, ConcatProperties
<1>3. c \in Seq(S) /\ Len(c) = 3 /\ c[1] = p[1] /\ c[2] = p[2] /\ c[3] = q[1]
    BY <1>2
<1>4. c = r
    BY <1>3, SeqEqual
<1>5. QED
    BY <1>1, <1>4

LEMMA Three ==
    ASSUME NEW S, NEW x \in S, NEW y \in S, NEW z \in S
    PROVE  /\ <<x, y, z>> \in Seq(S) /\ <<x, y, z>> # <<>> /\ Len(<<x, y, z>>) = 3
           /\ Head(<<x, y, z>>) = x
           /\ <<x, y, z>>[1] = x /\ <<x, y, z>>[2] = y /\ <<x, y, z>>[3] = z
OBVIOUS

LEMMA Joined ==
    ASSUME NEW S, NEW x \in S, NEW y \in S, NEW z \in S
    PROVE  <<x>> \o <<y, z>> = <<x, y, z>> /\ <<x, y>> \o <<z>> = <<x, y, z>>
<1>1. /\ <<x, y, z>> \in Seq(S) /\ Len(<<x, y, z>>) = 3
      /\ <<x, y, z>>[1] = x /\ <<x, y, z>>[2] = y /\ <<x, y, z>>[3] = z
    BY Three
<1>2. <<x>> \o <<y, z>> = <<x, y, z>>
    <2>1. PICK q : q = <<y, z>>
        OBVIOUS
    <2>2. q \in Seq(S) /\ Len(q) = 2 /\ q[1] = y /\ q[2] = z
        BY <2>1, Two
    <2>3. PICK p : p = <<x>> \o q
        OBVIOUS
    <2>4. /\ p \in Seq(S) /\ Len(p) = Len(q) + 1
          /\ \A k \in 1..Len(q) + 1 : p[k] = IF k = 1 THEN x ELSE q[k - 1]
        BY <2>2, <2>3, Cons
    <2>5. p \in Seq(S) /\ Len(p) = 3 /\ p[1] = x /\ p[2] = y /\ p[3] = z
        BY <2>2, <2>4
    <2>6. \A k \in 1..3 : p[k] = <<x, y, z>>[k]
        BY <1>1, <2>5
    <2>7. p = <<x, y, z>>
        BY <1>1, <2>5, <2>6, SeqEqual
    <2>8. QED
        BY <2>1, <2>3, <2>7
<1>3. <<x, y>> \o <<z>> = <<x, y, z>>
    <2>1. PICK p, q, r : p = <<x, y>> /\ q = <<z>> /\ r = <<x, y, z>>
        OBVIOUS
    <2>2. /\ p \in Seq(S) /\ q \in Seq(S) /\ r \in Seq(S)
          /\ Len(p) = 2 /\ Len(q) = 1 /\ Len(r) = 3
          /\ r[1] = p[1] /\ r[2] = p[2] /\ r[3] = q[1]
        BY <2>1
    <2>3. p \o q = r
        BY <2>2, ConcatTwoOne
    <2>4. QED
        BY <2>1, <2>3
<1>4. QED
    BY <1>2, <1>3

\* What requests begin with.
LEMMA FitsRequests ==
    ASSUME NEW r \in Request, NEW s,
           s \in {<<"startOpencode", "applyStop", "startRouter">>, <<"applyStop", "startRouter">>,
                  <<"stopRouter", "stopOpencode", "bootstrap">>,
                  <<"stopRouter", "stopOpencode", "exit">>,
                  <<"stopRouter", "stopOpencode", "forget", "bootstrap">>}
    PROVE  /\ s \in Seq(Label) /\ s # <<>> /\ Fits(r, s)
           /\ Head(s) \in {"startOpencode", "applyStop", "stopRouter"}
           /\ Head(s) = "startOpencode" => s = <<"startOpencode", "applyStop", "startRouter">>
           /\ \A k \in 1..Len(s) : s[k] = "exit" => s = <<"stopRouter", "stopOpencode", "exit">>
<1>1. r \notin Opencode /\ r # "boot"
    BY ConstantsAssumption
<1>2. /\ LabelsOf(r) = Label \ {"bootEnd", "reap"}
    BY <1>1 DEF LabelsOf
<1>3. CASE s = <<"applyStop", "startRouter">>
    <2>1. /\ s \in Seq(Label) /\ s # <<>> /\ Head(s) = "applyStop" /\ Len(s) = 2
          /\ s[1] = "applyStop" /\ s[2] = "startRouter"
        BY <1>3, Two DEF Label
    <2>2. (\A k \in 1..2 : k = 1 \/ k = 2) /\ (\A k \in 2..2 : k = 2) /\ (\A k \in 1..2 - 1 : k = 1)
        OBVIOUS
    <2>3. /\ \A k \in 1..Len(s) : s[k] \in LabelsOf(r) /\ s[k] # "exit" /\ s[k] # "stopOpencode"
          /\ \A k \in 2..Len(s) : s[k] \in Later /\ s[k] # "exit" /\ s[k] # "stopOpencode"
          /\ \A k \in 1..Len(s) - 1 : s[k] \notin Final
        BY <1>2, <2>1, <2>2 DEF Later, Final, Label
    <2>4. QED
        BY <1>1, <2>1, <2>3 DEF Fits
<1>4. ASSUME NEW x \in Label, NEW y \in Label, NEW z \in Label, s = <<x, y, z>>,
             x \in {"startOpencode", "stopRouter"}, y \in Later, z \in Later,
             {x, y, z} \subseteq LabelsOf(r), x \notin Final, y \notin Final,
             y = "stopOpencode" => x = "stopRouter", z # "stopOpencode",
             y # "exit", z = "exit" => x = "stopRouter" /\ y = "stopOpencode",
             x = "startOpencode" => y = "applyStop" /\ z = "startRouter"
      PROVE  /\ s \in Seq(Label) /\ s # <<>> /\ Fits(r, s)
             /\ Head(s) \in {"startOpencode", "applyStop", "stopRouter"}
             /\ Head(s) = "startOpencode" => s = <<"startOpencode", "applyStop", "startRouter">>
             /\ \A k \in 1..Len(s) : s[k] = "exit" => s = <<"stopRouter", "stopOpencode", "exit">>
    <2>1. /\ s \in Seq(Label) /\ s # <<>> /\ Head(s) = x /\ Len(s) = 3
          /\ s[1] = x /\ s[2] = y /\ s[3] = z
        BY <1>4, Three
    <2>2. (\A k \in 1..3 : k = 1 \/ k = 2 \/ k = 3) /\ (\A k \in 2..3 : k = 2 \/ k = 3)
          /\ (\A k \in 1..3 - 1 : k = 1 \/ k = 2) /\ 2 - 1 = 1 /\ 3 - 1 = 2
        OBVIOUS
    <2>3. /\ \A k \in 1..Len(s) : s[k] \in LabelsOf(r)
          /\ \A k \in 2..Len(s) : s[k] \in Later
          /\ \A k \in 1..Len(s) - 1 : s[k] \notin Final
        BY <1>4, <2>1, <2>2
    <2>4. /\ \A k \in 2..Len(s) : s[k] = "stopOpencode" => k = 2 /\ s[1] \in {"stopRouter", "routerGone"}
          /\ \A k \in 2..Len(s) : s[k] = "exit" => s[k - 1] \in {"stopOpencode", "opencodeGone"}
        BY <1>4, <2>1, <2>2
    <2>5. Fits(r, s)
        BY <1>1, <2>3, <2>4 DEF Fits
    <2>6. \A k \in 1..Len(s) : s[k] = "exit" => x = "stopRouter" /\ y = "stopOpencode" /\ z = "exit"
        BY <1>4, <2>1, <2>2
    <2>7. QED
        BY <1>4, <2>1, <2>5, <2>6
<1>5. CASE s = <<"stopRouter", "stopOpencode", "forget", "bootstrap">>
    <2>1. /\ s \in Seq(Label) /\ s # <<>> /\ Head(s) = "stopRouter" /\ Len(s) = 4
          /\ s[1] = "stopRouter" /\ s[2] = "stopOpencode" /\ s[3] = "forget" /\ s[4] = "bootstrap"
        BY <1>5 DEF Label
    <2>2. (\A k \in 1..4 : k \in {1, 2, 3, 4}) /\ (\A k \in 2..4 : k \in {2, 3, 4})
          /\ (\A k \in 1..4 - 1 : k \in {1, 2, 3})
        OBVIOUS
    <2>3. /\ \A k \in 1..Len(s) : s[k] \in LabelsOf(r) /\ s[k] # "exit"
          /\ \A k \in 2..Len(s) : s[k] \in Later /\ s[k] # "exit"
          /\ \A k \in 1..Len(s) - 1 : s[k] \notin Final
        BY <1>2, <2>1, <2>2 DEF Later, Final, Label
    <2>4. \A k \in 2..Len(s) : s[k] = "stopOpencode" => k = 2 /\ s[1] \in {"stopRouter", "routerGone"}
        BY <2>1, <2>2
    <2>5. QED
        BY <1>1, <2>1, <2>3, <2>4 DEF Fits
<1>6. CASE s = <<"startOpencode", "applyStop", "startRouter">>
    BY <1>2, <1>4, <1>6 DEF Label, Later, Final
<1>7. CASE s = <<"stopRouter", "stopOpencode", "bootstrap">>
    BY <1>2, <1>4, <1>7 DEF Label, Later, Final
<1>8. CASE s = <<"stopRouter", "stopOpencode", "exit">>
    BY <1>2, <1>4, <1>8 DEF Label, Later, Final
<1>9. QED
    BY <1>3, <1>5, <1>6, <1>7, <1>8

LEMMA ArrivesFacts ==
    ASSUME TypeOK, NEW r \in Request, Arrives(r)
    PROVE  /\ SlotType' /\ SlotsKept /\ EnvType'
           /\ \E s : /\ s \in {<<"startOpencode", "applyStop", "startRouter">>,
                               <<"applyStop", "startRouter">>,
                               <<"stopRouter", "stopOpencode", "bootstrap">>,
                               <<"stopRouter", "stopOpencode", "exit">>,
                               <<"stopRouter", "stopOpencode", "forget", "bootstrap">>}
                     /\ Begin(r, s)
                     /\ s = <<"startOpencode", "applyStop", "startRouter">> => ~slot["opencode"].running
                     /\ s = <<"stopRouter", "stopOpencode", "exit">> => shuttingDown'
<1>1. /\ asked' = asked \cup {r}
      /\ interfered' = (interfered \/ \E t \in Task : ~Idle(t))
      /\ UNCHANGED <<booting, manifest, proc, stopped, faults, overlapped, told>>
    BY DEF Arrives
<1>2. /\ <<"startOpencode">> \o <<"applyStop", "startRouter">> = <<"startOpencode", "applyStop", "startRouter">>
      /\ <<>> \o <<"applyStop", "startRouter">> = <<"applyStop", "startRouter">>
      /\ <<"stopRouter", "stopOpencode">> \o <<"bootstrap">> = <<"stopRouter", "stopOpencode", "bootstrap">>
      /\ <<"stopRouter", "stopOpencode">> \o <<"exit">> = <<"stopRouter", "stopOpencode", "exit">>
    <2>1. /\ "startOpencode" \in Label /\ "applyStop" \in Label /\ "startRouter" \in Label
          /\ "stopRouter" \in Label /\ "stopOpencode" \in Label /\ "bootstrap" \in Label
          /\ "exit" \in Label
        BY DEF Label
    <2>2. <<"startOpencode">> \o <<"applyStop", "startRouter">> = <<"startOpencode", "applyStop", "startRouter">>
        BY ONLY <2>1, Joined
    <2>3. <<"stopRouter", "stopOpencode">> \o <<"bootstrap">> = <<"stopRouter", "stopOpencode", "bootstrap">>
        BY ONLY <2>1, Joined
    <2>4. <<"stopRouter", "stopOpencode">> \o <<"exit">> = <<"stopRouter", "stopOpencode", "exit">>
        BY ONLY <2>1, Joined
    <2>5. <<>> \o <<"applyStop", "startRouter">> = <<"applyStop", "startRouter">>
        OBVIOUS
    <2>6. QED
        BY ONLY <2>2, <2>3, <2>4, <2>5
<1>3. CASE \E w \in BOOLEAN : ApplyRouterConfig(r, w)
    <2>1. PICK w \in BOOLEAN : ApplyRouterConfig(r, w)
        BY <1>3
    <2>2. enabled' = w /\ UNCHANGED <<slot, shuttingDown>>
        BY <2>1 DEF ApplyRouterConfig
    <2>3. SlotType' /\ SlotsKept
        BY <2>2, SlotFacts DEF SlotType, SlotsKept
    <2>4. EnvType'
        BY <1>1, <2>2, Typed DEF EnvType
    <2>5. CASE slot["opencode"].running
        BY <1>2, <2>1, <2>3, <2>4, <2>5, Three DEF ApplyRouterConfig, Begin
    <2>6. CASE ~slot["opencode"].running
        BY <1>2, <2>1, <2>3, <2>4, <2>6, Three DEF ApplyRouterConfig, Begin
    <2>7. QED
        BY <2>5, <2>6
<1>4. CASE \E then \in {<<"bootstrap">>, <<"exit">>} : Dispose(r, then)
    <2>1. PICK then \in {<<"bootstrap">>, <<"exit">>} : Dispose(r, then)
        BY <1>4
    <2>2. /\ shuttingDown' = TRUE /\ UNCHANGED enabled
          /\ slot' = [c \in Component |-> [slot[c] EXCEPT !.timer = FALSE]]
          /\ Begin(r, <<"stopRouter", "stopOpencode">> \o then)
        BY <2>1 DEF Dispose, Begin
    <2>3. /\ slot' \in [Component -> Slot]
          /\ \A c \in Component : /\ slot'[c].handle = slot[c].handle
                                  /\ slot'[c].running = slot[c].running
                                  /\ slot'[c].stopping = slot[c].stopping
                                  /\ slot'[c].timer = FALSE
        BY <2>2, SlotFacts DEF Slot
    <2>4. SlotType' /\ SlotsKept
        BY <2>3, SlotFacts DEF SlotType, SlotsKept
    <2>5. EnvType'
        BY <1>1, <2>2, Typed DEF EnvType
    <2>6. CASE then = <<"bootstrap">>
        <3>1. Begin(r, <<"stopRouter", "stopOpencode", "bootstrap">>)
            BY <1>2, <2>2, <2>6
        <3>2. QED
            BY <2>2, <2>4, <2>5, <3>1
    <2>7. CASE then = <<"exit">>
        <3>1. Begin(r, <<"stopRouter", "stopOpencode", "exit">>)
            BY <1>2, <2>2, <2>7
        <3>2. QED
            BY <2>2, <2>4, <2>5, <3>1
    <2>8. QED
        BY <2>1, <2>6, <2>7
<1>5. CASE UpgradeRuntime(r)
    <2>1. UNCHANGED <<slot, shuttingDown, enabled>>
          /\ Begin(r, <<"stopRouter", "stopOpencode", "forget", "bootstrap">>)
        BY <1>5 DEF UpgradeRuntime, Begin
    <2>2. SlotType' /\ SlotsKept
        BY <2>1, SlotFacts DEF SlotType, SlotsKept
    <2>3. EnvType'
        BY <1>1, <2>1, Typed DEF EnvType
    <2>4. QED
        BY <2>1, <2>2, <2>3
<1>6. QED
    BY <1>3, <1>4, <1>5 DEF Arrives

LEMMA ArrivesKeeps ==
    ASSUME TypeOK, Parts, NEW r \in Request, Arrives(r)
    PROVE  TypeOK' /\ Parts'
<1>1. /\ Quiet /\ r \notin asked /\ asked' = asked \cup {r} /\ ready' = <<r>>
      /\ interfered' = (interfered \/ \E t \in Task : ~Idle(t))
      /\ UNCHANGED <<booting, proc, overlapped, told>>
    BY DEF Arrives
<1>2. SlotType' /\ SlotsKept /\ EnvType'
    BY ArrivesFacts
<1>3. PICK s : /\ s \in {<<"startOpencode", "applyStop", "startRouter">>,
                         <<"applyStop", "startRouter">>,
                         <<"stopRouter", "stopOpencode", "bootstrap">>,
                         <<"stopRouter", "stopOpencode", "exit">>,
                         <<"stopRouter", "stopOpencode", "forget", "bootstrap">>}
               /\ Begin(r, s)
               /\ s = <<"startOpencode", "applyStop", "startRouter">> => ~slot["opencode"].running
               /\ s = <<"stopRouter", "stopOpencode", "exit">> => shuttingDown'
    BY ArrivesFacts
<1>4. /\ s \in Seq(Label) /\ s # <<>> /\ Fits(r, s)
      /\ Head(s) \in {"startOpencode", "applyStop", "stopRouter"}
      /\ Head(s) = "startOpencode" => s = <<"startOpencode", "applyStop", "startRouter">>
      /\ \A k \in 1..Len(s) : s[k] = "exit" => s = <<"stopRouter", "stopOpencode", "exit">>
    BY <1>3, FitsRequests
<1>5. Begin(r, s) /\ (Head(s) = "startOpencode" => ~slot["opencode"].running)
      /\ ((\E k \in 1..Len(s) : s[k] = "exit") => shuttingDown')
    BY <1>3, <1>4
<1>6. TaskInv /\ ProcInv /\ HeldInv /\ r \in Task /\ Idle(r) /\ r # "boot" /\ r \notin Opencode
    BY <1>1, ConstantsAssumption DEF Parts, TaskInv, Task
<1>7. TaskInv' /\ ProcInv' /\ HeldInv' /\ CallType' /\ ReadyType'
    <2>1. /\ s \in Seq(Label) /\ Head(s) \in Later \cup {"startOpencode"}
          /\ asked \subseteq asked' /\ r \notin Request \ asked'
          /\ UNCHANGED <<proc, booting, overlapped>>
        BY <1>1, <1>4 DEF Later
    <2>2. QED
        BY ONLY TypeOK, <1>1, <1>2, <1>4, <1>5, <1>6, <2>1, BeginKeeps
<1>8. /\ call'[r].todo = s /\ call'[r].on = None
      /\ \A u \in Task \ {r} : call'[u] = call[u]
      /\ At(r)' = Head(s) /\ ~Idle(r)'
      /\ \A u \in Task \ {r} : (Idle(u)' <=> Idle(u)) /\ At(u)' = At(u)
    BY ONLY TypeOK, <1>1, <1>4, <1>5, <1>6, BeginMoves
<1>9. QuietInv'
    <2>1. SUFFICES ASSUME Calm' PROVE StopInv' /\ ToldInv' /\ CloseInv'
        BY DEF QuietInv
    <2>2. Calm /\ \A u \in Task : Idle(u) /\ At(u) = "idle"
        BY <1>1, <2>1 DEF Calm, At
    <2>3. StopInv'
        <3>1. \A u \in Task \ {r} : At(u)' = "idle" /\ Idle(u)'
            BY <1>8, <2>2
        <3>2. At(r)' \notin {"stopOpencode", "opencodeGone"}
            BY <1>4, <1>8
        <3>3. QED
            BY <1>1, <3>1, <3>2 DEF StopInv, Alone
    <2>4. ToldInv'
        <3> SUFFICES ASSUME NEW j \in told'
            PROVE  proc'[j] = "dying" \/ (proc'[j] = "none" /\ Idle(j)')
            BY DEF ToldInv
        <3>1. j \in told /\ j \in Task /\ j # r
            BY <1>1, <1>6 DEF TypeOK, Task
        <3>2. QED
            BY <1>1, <1>8, <2>2, <3>1 DEF ToldInv, Parts, QuietInv
    <2>5. CloseInv'
        <3> SUFFICES ASSUME NEW q \in Request, Closes(q)'
            PROVE  /\ shuttingDown'
                   /\ \A t \in Task \ {q} : \A k \in 1..Len(call'[t].todo) :
                         call'[t].todo[k] \in {"stopRouter", "routerGone", "reap"}
                   /\ At(q)' # "exit"
            BY DEF CloseInv
        <3>1. \A t \in Task \ {r} : call'[t].todo = <<>> /\ \A k \in 1..Len(call'[t].todo) : FALSE
            BY <1>8, <2>2, Nil DEF Idle
        <3>2. q \in Task /\ q = r
            BY <3>1 DEF Closes, Task
        <3>3. QED
            BY <1>4, <1>5, <1>8, <3>1, <3>2 DEF Closes
    <2>6. QED
        BY <2>3, <2>4, <2>5
<1>10. QED
    BY <1>2, <1>7, <1>9, Typed DEF Parts

-----------------------------------------------------------------------------
(* A bootstrap *)

LEMMA FitsBoot ==
    ASSUME NEW s, s \in {<<"startOpencode", "startRouter", "bootEnd">>, <<"startRouter", "bootEnd">>}
    PROVE  /\ s \in Seq(Label) /\ s # <<>> /\ Fits("boot", s)
           /\ Head(s) \in {"startOpencode", "startRouter"}
           /\ Head(s) = "startOpencode" => s = <<"startOpencode", "startRouter", "bootEnd">>
<1>1. "boot" \notin Opencode
    BY ConstantsAssumption
<1>2. {"startOpencode", "startRouter", "bootEnd"} \subseteq LabelsOf("boot")
    BY <1>1 DEF LabelsOf, Label
<1>3. CASE s = <<"startRouter", "bootEnd">>
    <2>1. /\ s \in Seq(Label) /\ s # <<>> /\ Head(s) = "startRouter" /\ Len(s) = 2
          /\ s[1] = "startRouter" /\ s[2] = "bootEnd"
        BY <1>3, Two DEF Label
    <2>2. (\A k \in 1..2 : k = 1 \/ k = 2) /\ (\A k \in 2..2 : k = 2) /\ (\A k \in 1..2 - 1 : k = 1)
        OBVIOUS
    <2>3. /\ \A k \in 1..Len(s) : s[k] \in LabelsOf("boot")
          /\ \A k \in 2..Len(s) : s[k] \in Later /\ s[k] # "exit" /\ s[k] # "stopOpencode"
          /\ \A k \in 1..Len(s) - 1 : s[k] \notin Final
          /\ s[Len(s)] = "bootEnd"
        BY <1>2, <2>1, <2>2 DEF Later, Final
    <2>4. QED
        BY <2>1, <2>3 DEF Fits
<1>4. CASE s = <<"startOpencode", "startRouter", "bootEnd">>
    <2>1. /\ s \in Seq(Label) /\ s # <<>> /\ Head(s) = "startOpencode" /\ Len(s) = 3
          /\ s[1] = "startOpencode" /\ s[2] = "startRouter" /\ s[3] = "bootEnd"
        BY <1>4, Three DEF Label
    <2>2. (\A k \in 1..3 : k = 1 \/ k = 2 \/ k = 3) /\ (\A k \in 2..3 : k = 2 \/ k = 3)
          /\ (\A k \in 1..3 - 1 : k = 1 \/ k = 2)
        OBVIOUS
    <2>3. /\ \A k \in 1..Len(s) : s[k] \in LabelsOf("boot")
          /\ \A k \in 2..Len(s) : s[k] \in Later /\ s[k] # "exit" /\ s[k] # "stopOpencode"
          /\ \A k \in 1..Len(s) - 1 : s[k] \notin Final
          /\ s[Len(s)] = "bootEnd"
        BY <1>2, <2>1, <2>2 DEF Later, Final
    <2>4. QED
        BY <1>4, <2>1, <2>3 DEF Fits
<1>5. QED
    BY <1>3, <1>4

LEMMA BootLabelsFacts ==
    /\ BootLabels \in Seq(Label) /\ BootLabels # <<>> /\ Fits("boot", BootLabels)
    /\ Head(BootLabels) \in {"startOpencode", "startRouter"}
    /\ Head(BootLabels) = "startOpencode" => ~slot["opencode"].running
<1>1. "startOpencode" \in Label /\ "startRouter" \in Label /\ "bootEnd" \in Label
    BY DEF Label
<1>2. <<"startOpencode">> \o <<"startRouter", "bootEnd">> = <<"startOpencode", "startRouter", "bootEnd">>
    BY ONLY <1>1, Joined
<1>3. <<>> \o <<"startRouter", "bootEnd">> = <<"startRouter", "bootEnd">>
    OBVIOUS
<1>4. CASE slot["opencode"].running
    <2>1. BootLabels = <<"startRouter", "bootEnd">>
        BY <1>3, <1>4 DEF BootLabels
    <2>2. BootLabels # <<"startOpencode", "startRouter", "bootEnd">>
        <3>1. PICK q : q = <<"startRouter", "bootEnd">>
            OBVIOUS
        <3>2. Len(q) = 2
            BY <1>1, <3>1, Two
        <3>3. q # <<"startOpencode", "startRouter", "bootEnd">>
            BY <3>2
        <3>4. QED
            BY <2>1, <3>1, <3>3
    <2>3. QED
        BY <2>1, <2>2, FitsBoot
<1>5. CASE ~slot["opencode"].running
    <2>1. BootLabels = <<"startOpencode", "startRouter", "bootEnd">>
        BY <1>2, <1>5 DEF BootLabels
    <2>2. QED
        BY <1>5, <2>1, FitsBoot
<1>6. QED
    BY <1>4, <1>5

LEMMA BootstrapKeeps ==
    ASSUME TypeOK, Parts, NEW t, NEW wanted \in BOOLEAN, Bootstrap(t, wanted)
    PROVE  TypeOK' /\ Parts'
<1>1. /\ Turn(t, "bootstrap") /\ ~booting /\ booting' = TRUE /\ enabled' = wanted
      /\ call' = [call EXCEPT ![t].todo = <<"awaitBoot">> \o Rest(t), !["boot"].todo = BootLabels]
      /\ ready' = <<"boot">> \o Tail(ready)
      /\ UNCHANGED <<slot, shuttingDown, manifest, proc, asked, stopped, faults, overlapped, told, interfered>>
    BY DEF Bootstrap, env, history
<1>2. TaskInv /\ ProcInv /\ HeldInv
    BY DEF Parts
<1>3. /\ t \in Task /\ At(t) = "bootstrap" /\ ~Idle(t) /\ Runs(t)
      /\ call[t].todo \in Seq(Label) /\ call[t].todo # <<>> /\ Head(call[t].todo) = "bootstrap"
      /\ "bootstrap" \in LabelsOf(t) /\ Fits(t, call[t].todo)
      /\ ready = <<t>> /\ Tail(ready) = <<>> /\ \A u \in Task : Awake(u) <=> u = t
    <2>1. PICK label : label = "bootstrap"
        OBVIOUS
    <2>2. label # "idle" /\ label \notin {"stopRouter", "reap"} /\ Turn(t, label) /\ TaskInv
        BY <1>1, <1>2, <2>1
    <2>3. /\ t \in Task /\ At(t) = label /\ ~Idle(t) /\ Runs(t)
          /\ call[t].todo \in Seq(Label) /\ call[t].todo # <<>> /\ Head(call[t].todo) = label
          /\ label \in LabelsOf(t) /\ Fits(t, call[t].todo)
        BY ONLY TypeOK, <2>2, TurnFacts
    <2>4. ready = <<t>> /\ Tail(ready) = <<>> /\ \A u \in Task : Awake(u) <=> u = t
        BY ONLY TypeOK, <2>2, TurnFacts
    <2>5. QED
        BY <2>1, <2>3, <2>4
<1>4. t \notin Opencode /\ t # "boot" /\ "awaitBoot" \in LabelsOf(t) /\ "boot" \in Task /\ "boot" \notin Opencode \cup Request
    BY <1>3, ConstantsAssumption DEF LabelsOf, Label, Task
<1>5. PICK q : q = <<"awaitBoot">> \o Rest(t)
    OBVIOUS
<1>6. /\ q \in Seq(Label) /\ q # <<>> /\ Head(q) = "awaitBoot" /\ Fits(t, q)
    <2>1. PICK s : s = call[t].todo
        OBVIOUS
    <2>2. s \in Seq(Label) /\ s # <<>> /\ Fits(t, s) /\ Head(s) = "bootstrap" /\ t \in Task
        BY <1>3, <2>1
    <2>3. /\ "awaitBoot" \in LabelsOf(t) /\ ("awaitBoot" \in Final => Head(s) \in Final)
          /\ Head(s) \notin {"bootEnd", "stopRouter", "routerGone", "stopOpencode", "opencodeGone"}
        BY <1>4, <2>2 DEF Final
    <2>4. /\ Fits(t, <<"awaitBoot">> \o Tail(s)) /\ <<"awaitBoot">> \o Tail(s) \in Seq(Label)
          /\ <<"awaitBoot">> \o Tail(s) # <<>> /\ Head(<<"awaitBoot">> \o Tail(s)) = "awaitBoot"
        BY ONLY <2>2, <2>3, FitsHead
    <2>5. QED
        BY <1>5, <2>1, <2>4 DEF Rest
<1>7. PICK b : b = BootLabels
    OBVIOUS
<1>8. /\ b \in Seq(Label) /\ b # <<>> /\ Fits("boot", b)
      /\ Head(b) \in {"startOpencode", "startRouter"}
      /\ Head(b) = "startOpencode" => ~slot["opencode"].running
    BY <1>7, BootLabelsFacts
<1>9. Idle("boot") /\ call["boot"].on = None /\ call[t].on = None
    <2>1. Idle("boot") /\ At("boot") = "idle"
        BY <1>1, <1>2 DEF TaskInv, At
    <2>2. Sleeps("boot")
        BY <1>2, <1>3, <1>4 DEF TaskInv
    <2>3. call["boot"].on = None
        BY <2>1, <2>2 DEF Sleeps
    <2>4. call[t].on = None
        BY <1>3 DEF Runs
    <2>5. QED
        BY <2>1, <2>3, <2>4
<1>10. /\ call' \in [Task -> [todo: Seq(Label), on: Child \cup {None}]]
       /\ call'[t] = [todo |-> q, on |-> None] /\ call'["boot"] = [todo |-> b, on |-> None]
       /\ \A u \in Task \ {t, "boot"} : call'[u] = call[u]
    <2>1. call \in [Task -> [todo: Seq(Label), on: Child \cup {None}]]
        BY DEF TypeOK
    <2>2. call' = [call EXCEPT ![t].todo = q, !["boot"].todo = b]
        BY <1>1, <1>5, <1>7
    <2>3. /\ [call[t] EXCEPT !.todo = q] = [todo |-> q, on |-> None]
          /\ [call["boot"] EXCEPT !.todo = b] = [todo |-> b, on |-> None]
        BY <1>3, <1>4, <1>9, <2>1
    <2>4. QED
        BY <1>3, <1>4, <1>6, <1>8, <2>1, <2>2, <2>3
<1>11. CallType'
    BY <1>10 DEF CallType
<1>12. /\ At(t)' = "awaitBoot" /\ ~Idle(t)' /\ At("boot")' = Head(b) /\ ~Idle("boot")'
       /\ \A u \in Task \ {t, "boot"} : At(u)' = At(u) /\ (Idle(u)' <=> Idle(u))
    BY <1>6, <1>8, <1>10 DEF At, Idle
<1>13. ready' = <<"boot">>
    <2>1. <<"boot">> \o <<>> = <<"boot">>
        BY <1>4, ConcatEmptySeq, One
    <2>2. QED
        BY <1>1, <1>3, <2>1
<1>14. ReadyType' /\ \A u \in Task : Awake(u)' <=> u = "boot"
    BY <1>4, <1>13, One, InFacts DEF ReadyType, Awake
<1>15. TaskInv'
    <2>1. ReadyInv'
        BY <1>4, <1>13 DEF ReadyInv
    <2>2. ASSUME NEW u \in Task PROVE Fits(u, call'[u].todo)
        <3>1. CASE u = t
            BY <1>6, <1>10, <3>1
        <3>2. CASE u = "boot"
            BY <1>8, <1>10, <3>2
        <3>3. CASE u \notin {t, "boot"}
            BY <1>2, <1>10, <3>3 DEF TaskInv
        <3>4. QED
            BY <3>1, <3>2, <3>3
    <2>3. ASSUME NEW u \in Task PROVE Concerns(u)'
        <3>1. \A w \in Task : call'[w].on = call[w].on \/ call'[w].on = None
            BY <1>10
        <3>2. CASE u \in {t, "boot"}
            BY <1>8, <1>10, <1>12, <3>2 DEF Concerns
        <3>3. CASE u \notin {t, "boot"}
            <4>1. At(u)' = At(u) /\ call'[u] = call[u] /\ Concerns(u)
                BY <1>2, <1>10, <1>12, <3>3 DEF TaskInv
            <4>2. QED
                BY <3>1, <4>1 DEF Concerns
        <3>4. QED
            BY <3>2, <3>3
    <2>4. ASSUME NEW u \in Task PROVE IF Awake(u)' THEN Runs(u)' ELSE Sleeps(u)'
        <3>1. CASE u = "boot"
            BY <1>8, <1>10, <1>12, <1>14, <3>1 DEF Runs, Later
        <3>2. CASE u = t
            BY <1>1, <1>4, <1>10, <1>12, <1>14, <3>2 DEF Sleeps
        <3>3. CASE u \notin {t, "boot"}
            <4>1. Sleeps(u) /\ At(u)' = At(u) /\ call'[u] = call[u] /\ (Idle(u)' <=> Idle(u)) /\ ~Awake(u)'
                BY <1>2, <1>3, <1>10, <1>12, <1>14, <3>3 DEF TaskInv
            <4>2. Sleeps(u)'
                BY <1>1, <4>1 DEF Sleeps
            <4>3. QED
                BY <4>1, <4>2
        <3>4. QED
            BY <3>1, <3>2, <3>3
    <2>5. booting' /\ ~Idle("boot")'
        BY <1>1, <1>12
    <2>6. \A r \in Request \ asked' : Idle(r)'
        BY <1>1, <1>2, <1>3, <1>4, <1>12 DEF TaskInv, Task
    <2>7. ASSUME NEW u \in Task, At(u)' = "startOpencode"
          PROVE  ready' = <<u>> /\ ~slot'["opencode"].running
        <3>1. u # t
            BY <1>12, <2>7
        <3>2. u = "boot"
            <4>1. SUFFICES ASSUME u # "boot" PROVE FALSE
                OBVIOUS
            <4>2. ready = <<u>>
                BY <1>2, <1>12, <2>7, <3>1, <4>1 DEF TaskInv
            <4>3. QED
                BY <1>3, <3>1, <4>2
        <3>3. QED
            BY <1>1, <1>8, <1>12, <1>13, <2>7, <3>2
    <2>8. QED
        BY <2>1, <2>2, <2>3, <2>4, <2>5, <2>6, <2>7 DEF TaskInv
<1>16. ProcInv'
    <2>1. /\ \A i \in Opencode : Idle(i) => Idle(i)'
          /\ \A u \in Task : At(u) \in {"listen", "probe", "routerGone", "opencodeGone"} =>
                At(u)' = At(u) /\ call'[u].on = call[u].on
        BY <1>3, <1>4, <1>9, <1>10, <1>12 DEF Task, At
    <2>2. QED
        BY <1>1, <1>2, <2>1, ProcsKept
<1>17. HeldInv'
    <2> SUFFICES ASSUME NEW c \in Component, c \notin overlapped' PROVE Held(c)'
        BY DEF HeldInv
    <2>1. Held(c)
        BY <1>1, <1>2 DEF HeldInv
    <2>2. /\ \A u \in Task : At(u)' \in Work(c) => At(u) \in Work(c)
          /\ \A u \in Task : At(u)' = StopOf(c) <=> At(u) = StopOf(c)
        <3>1. At(t) = "bootstrap" /\ At("boot") = "idle"
            BY <1>3, <1>9 DEF At
        <3>2. QED
            BY <1>8, <1>12, <3>1 DEF Work, StopOf
    <2>3. QED
        BY <1>1, <2>1, <2>2, HeldKept
<1>18. QuietInv'
    <2>1. SUFFICES ASSUME Calm' PROVE StopInv' /\ ToldInv' /\ CloseInv'
        BY DEF QuietInv
    <2>2. StopInv /\ ToldInv /\ CloseInv
        BY <1>1, <2>1 DEF Parts, QuietInv, Calm
    <2>3. \A u, v \in Task : ready # <<u, v>> /\ (ready = <<u>> => u = t)
        <3>1. Len(ready) = 1
            BY <1>3, One
        <3>2. QED
            BY <1>3, <3>1, Two, One
    <2>4. StopInv'
        <3>1. ASSUME NEW u \in Task
              PROVE  /\ ~(At(u)' = "stopRouter" /\ Len(call'[u].todo) > 1 /\ call'[u].todo[2] = "stopOpencode")
                     /\ At(u)' \notin {"stopOpencode", "opencodeGone"}
            <4>1. CASE u \in {t, "boot"}
                BY <1>8, <1>12, <4>1
            <4>2. CASE u \notin {t, "boot"}
                <5>1. At(u)' = At(u) /\ call'[u] = call[u] /\ ready # <<u>> /\ ready # <<t, u>>
                    BY <1>3, <1>10, <1>12, <2>3, <4>2
                <5>2. QED
                    BY <1>3, <2>2, <4>2, <5>1 DEF StopInv
            <4>3. QED
                BY <4>1, <4>2
        <3>2. QED
            BY <3>1 DEF StopInv
    <2>5. ToldInv'
        <3> SUFFICES ASSUME NEW j \in told'
            PROVE  proc'[j] = "dying" \/ (proc'[j] = "none" /\ Idle(j)')
            BY DEF ToldInv
        <3>1. j \in told /\ j \in Task /\ j # t /\ j # "boot"
            BY <1>1, <1>4 DEF TypeOK, Task
        <3>2. \A v \in Request : v \in Task
            BY DEF Task
        <3>3. QED
            BY <1>1, <1>12, <2>2, <2>3, <3>1, <3>2 DEF ToldInv
    <2>6. CloseInv'
        <3>1. ASSUME NEW r \in Request PROVE ~Closes(r)'
            <4>1. r \in Task /\ r # "boot"
                BY <1>4 DEF Task
            <4>2. CASE r = t
                <5>1. \A k \in 1..Len(q) : q[k] # "exit"
                    BY <1>3, <1>6, FitsStop
                <5>2. QED
                    BY <1>10, <4>2, <5>1 DEF Closes
            <4>3. CASE r # t
                <5>1. 1 \in 1..Len(call[t].todo) /\ call[t].todo[1] = "bootstrap"
                    BY <1>3, Uncons
                <5>2. ~Closes(r)
                    BY <1>3, <2>2, <4>3, <5>1 DEF CloseInv
                <5>3. QED
                    BY <1>10, <4>1, <4>3, <5>2 DEF Closes
            <4>4. QED
                BY <4>2, <4>3
        <3>2. QED
            BY <3>1 DEF CloseInv
    <2>7. QED
        BY <2>4, <2>5, <2>6
<1>19. SlotType' /\ EnvType'
    BY <1>1, Typed DEF SlotType, EnvType
<1>20. QED
    BY <1>11, <1>14, <1>15, <1>16, <1>17, <1>18, <1>19, Typed DEF Parts

LEMMA BootEndsKeeps ==
    ASSUME TypeOK, Parts, BootEnds
    PROVE  TypeOK' /\ Parts'
<1>1. /\ Turn("boot", "bootEnd") /\ booting' = FALSE /\ ready' = Tail(ready)
      /\ call' = [w \in Task |-> IF w \in Waiters \cup {"boot"}
                                 THEN [todo |-> Rest(w), on |-> None] ELSE call[w]]
      /\ UNCHANGED <<slot, shuttingDown, manifest, enabled, proc, asked, stopped, faults,
                     overlapped, told, interfered>>
    BY DEF BootEnds, env, history
<1>2. TaskInv /\ ProcInv /\ HeldInv
    BY DEF Parts
<1>3. /\ "boot" \in Task /\ At("boot") = "bootEnd" /\ ~Idle("boot") /\ Rest("boot") = <<>>
      /\ call["boot"].on = None
      /\ ready = <<"boot">> /\ Tail(ready) = <<>> /\ \A u \in Task : Awake(u) <=> u = "boot"
    <2>1. PICK t, label : t = "boot" /\ label = "bootEnd"
        OBVIOUS
    <2>2. label # "idle" /\ label \notin {"stopRouter", "reap"} /\ Turn(t, label) /\ TaskInv /\ label \in Final
        BY <1>1, <1>2, <2>1 DEF Final
    <2>3. t \in Task /\ At(t) = label /\ ~Idle(t) /\ Rest(t) = <<>> /\ Runs(t)
        BY ONLY TypeOK, <2>2, TurnFacts
    <2>4. ready = <<t>> /\ Tail(ready) = <<>> /\ \A u \in Task : Awake(u) <=> u = t
        BY ONLY TypeOK, <2>2, TurnFacts
    <2>5. QED
        BY <2>1, <2>3, <2>4 DEF Runs
<1>4. \A u \in Task : At(u) = "awaitBoot" => Rest(u) = <<>>
    <2>1. ASSUME NEW u \in Task, At(u) = "awaitBoot" PROVE Rest(u) = <<>>
        <3>1. PICK s : s = call[u].todo
            OBVIOUS
        <3>2. s \in Seq(Label) /\ s # <<>> /\ Fits(u, s) /\ Head(s) = "awaitBoot" /\ Head(s) \in Final
            BY <1>2, <2>1, <3>1, AtFacts DEF Final
        <3>3. Tail(s) = <<>>
            BY ONLY u \in Task, <3>2, FitsTail
        <3>4. QED
            BY <3>1, <3>3 DEF Rest
    <2>2. QED
        BY <2>1
<1>5. \A u \in Task : IF u = "boot" \/ At(u) = "awaitBoot"
                      THEN call'[u] = [todo |-> <<>>, on |-> None] ELSE call'[u] = call[u]
    BY <1>1, <1>3, <1>4 DEF Waiters
<1>6. \A u \in Task : \/ u # "boot" /\ At(u) # "awaitBoot" /\ call'[u] = call[u]
                         /\ At(u)' = At(u) /\ (Idle(u)' <=> Idle(u))
                      \/ u = "boot" /\ At(u)' = "idle" /\ Idle(u)' /\ call'[u] = [todo |-> <<>>, on |-> None]
                      \/ u # "boot" /\ At(u) = "awaitBoot" /\ At(u)' = "idle" /\ Idle(u)'
                         /\ call'[u] = [todo |-> <<>>, on |-> None]
    BY <1>5 DEF At, Idle
<1>7. CallType' /\ ReadyType' /\ ready' = <<>>
    <2>1. \A u \in Task : call'[u] \in [todo: Seq(Label), on: Child \cup {None}]
        <3>1. <<>> \in Seq(Label) /\ call \in [Task -> [todo: Seq(Label), on: Child \cup {None}]]
            BY Nil DEF TypeOK
        <3>2. PICK e : e = <<>>
            OBVIOUS
        <3>3. e \in Seq(Label) /\ \A u \in Task : call'[u] = [todo |-> e, on |-> None] \/ call'[u] = call[u]
            BY <1>5, <3>1, <3>2
        <3>4. QED
            BY ONLY <3>1, <3>3
    <2>2. CallType'
        <3> DEFINE F(w) == IF w \in Waiters \cup {"boot"} THEN [todo |-> Rest(w), on |-> None] ELSE call[w]
        <3>1. call' = [w \in Task |-> F(w)]
            BY <1>1
        <3> HIDE DEF F
        <3>2. QED
            BY ONLY <2>1, <3>1 DEF CallType
    <2>3. ReadyType' /\ ready' = <<>>
        BY <1>1, <1>3, Nil DEF ReadyType
    <2>4. QED
        BY <2>2, <2>3
<1>8. TaskInv'
    <2>1. ReadyInv' /\ \A u \in Task : ~Awake(u)'
        BY <1>7, InFacts DEF ReadyInv, Awake
    <2>2. ASSUME NEW u \in Task PROVE Fits(u, call'[u].todo)
        <3>1. Fits(u, <<>>)
            BY Nil DEF Fits
        <3>2. QED
            BY <1>2, <1>6, <3>1 DEF TaskInv
    <2>3. ASSUME NEW u \in Task PROVE Concerns(u)'
        <3>1. \A v \in Task : call'[v].on = call[v].on \/ call'[v].on = None
            BY <1>6
        <3>2. CASE At(u)' = "idle" /\ call'[u].on = None
            BY <3>2 DEF Concerns
        <3>3. CASE At(u)' = At(u) /\ call'[u] = call[u]
            BY <1>2, <3>1, <3>3 DEF Concerns, TaskInv
        <3>4. QED
            BY <1>6, <3>2, <3>3
    <2>4. ASSUME NEW u \in Task PROVE Sleeps(u)'
        <3>1. CASE Idle(u)' /\ call'[u].on = None
            BY <3>1 DEF Sleeps
        <3>2. CASE /\ u # "boot" /\ At(u) # "awaitBoot" /\ call'[u] = call[u]
                   /\ At(u)' = At(u) /\ (Idle(u)' <=> Idle(u))
            <4>1. Sleeps(u)
                BY <1>2, <1>3, <3>2 DEF TaskInv
            <4>2. QED
                BY <1>1, <3>2, <4>1 DEF Sleeps
        <3>3. QED
            BY <1>6, <3>1, <3>2
    <2>5. booting' <=> ~Idle("boot")'
        BY <1>1, <1>3, <1>6
    <2>6. \A r \in Request \ asked' : Idle(r)'
        BY <1>1, <1>2, <1>6 DEF TaskInv, Task
    <2>7. \A u \in Task : At(u)' # "startOpencode"
        <3>1. \A u \in Task : u # "boot" => At(u) # "startOpencode"
            <4>1. \A u \in Task : ready = <<u>> => u = "boot"
                BY <1>3, One
            <4>2. QED
                BY <1>2, <4>1 DEF TaskInv
        <3>2. QED
            BY <1>6, <3>1
    <2>8. QED
        BY <2>1, <2>2, <2>3, <2>4, <2>5, <2>6, <2>7 DEF TaskInv
<1>9. ProcInv'
    <2>1. \A i \in Opencode : Idle(i) => Idle(i)'
        BY <1>6 DEF Task
    <2>2. \A u \in Task : /\ At(u) \in {"listen", "probe", "routerGone", "opencodeGone"}
                          /\ proc[call[u].on] \in {"starting", "dying"}
                          => At(u)' = At(u) /\ call'[u].on = call[u].on
        BY <1>3, <1>6
    <2>3. QED
        BY <1>1, <1>2, <2>1, <2>2, ProcsKept
<1>10. HeldInv'
    <2> SUFFICES ASSUME NEW c \in Component, c \notin overlapped' PROVE Held(c)'
        BY DEF HeldInv
    <2>1. Held(c)
        BY <1>1, <1>2 DEF HeldInv
    <2>2. /\ \A u \in Task : At(u)' \in Work(c) => At(u) \in Work(c)
          /\ \A u \in Task : At(u)' = StopOf(c) <=> At(u) = StopOf(c)
        BY <1>3, <1>6 DEF Work, StopOf
    <2>3. QED
        BY <1>1, <2>1, <2>2, HeldKept
<1>11. QuietInv'
    <2>1. SUFFICES ASSUME Calm' PROVE StopInv' /\ ToldInv' /\ CloseInv'
        BY DEF QuietInv
    <2>2. StopInv /\ ToldInv /\ CloseInv
        BY <1>1, <2>1 DEF Parts, QuietInv, Calm
    <2>3. \A u, v \in Task : ready # <<u, v>> /\ (ready = <<u>> => u = "boot")
        <3>1. Len(ready) = 1
            BY <1>3, One
        <3>2. QED
            BY <1>3, <3>1, Two, One
    <2>4. StopInv'
        <3>1. ASSUME NEW u \in Task
              PROVE  /\ ~(At(u)' = "stopRouter" /\ Len(call'[u].todo) > 1 /\ call'[u].todo[2] = "stopOpencode")
                     /\ At(u)' # "stopOpencode"
                     /\ At(u)' = "opencodeGone" => At(u) = "opencodeGone"
            BY <1>6, <2>2, <2>3 DEF StopInv
        <3>2. ASSUME NEW u \in Task, At(u)' = "opencodeGone"
              PROVE  /\ slot'["router"].handle = None /\ ~slot'["router"].timer
                     /\ \A v \in Task \ {u} : Idle(v)'
            <4>1. At(u) = "opencodeGone" /\ u # "boot"
                BY <1>3, <3>1, <3>2
            <4>2. /\ slot["router"].handle = None /\ ~slot["router"].timer
                  /\ \A v \in Task \ {u} : Idle(v)
                BY <2>2, <2>3, <4>1 DEF StopInv
            <4>3. QED
                BY <1>1, <1>6, <4>2
        <3>3. QED
            BY <3>1, <3>2 DEF StopInv
    <2>5. ToldInv'
        <3> SUFFICES ASSUME NEW j \in told'
            PROVE  proc'[j] = "dying" \/ (proc'[j] = "none" /\ Idle(j)')
            BY DEF ToldInv
        <3>1. j \in told /\ j \in Task
            BY <1>1 DEF TypeOK, Task
        <3>2. \A v \in Request : v \in Task
            BY DEF Task
        <3>3. QED
            BY <1>1, <1>6, <2>2, <2>3, <3>1, <3>2 DEF ToldInv
    <2>6. CloseInv'
        <3>1. ASSUME NEW r \in Request PROVE ~Closes(r)'
            <4>1. r \in Task /\ r # "boot"
                BY ConstantsAssumption DEF Task
            <4>2. ~Closes(r)
                <5>1. 1 \in 1..Len(call["boot"].todo) /\ call["boot"].todo[1] = "bootEnd"
                    <6>1. call["boot"].todo \in Seq(Label) /\ call["boot"].todo # <<>> /\ Head(call["boot"].todo) = "bootEnd"
                        BY <1>2, <1>3, AtFacts
                    <6>2. QED
                        BY <6>1, Uncons
                <5>2. QED
                    BY <1>3, <2>2, <4>1, <5>1 DEF CloseInv
            <4>3. Len(<<>>) = 0
                BY Nil
            <4>4. QED
                BY <1>6, <4>1, <4>2, <4>3 DEF Closes
        <3>2. QED
            BY <3>1 DEF CloseInv
    <2>7. QED
        BY <2>4, <2>5, <2>6
<1>12. SlotType' /\ EnvType'
    BY <1>1, Typed DEF SlotType, EnvType
<1>13. QED
    BY <1>7, <1>8, <1>9, <1>10, <1>11, <1>12, Typed DEF Parts

-----------------------------------------------------------------------------
(* The server exits *)

LEMMA ServerExitsSafely ==
    ASSUME TypeOK, Parts, NEW t, ServerExits(t)
    PROVE  TypeOK' /\ stopped' /\ ready' = <<>> /\ StopLeavesNoChild'
<1>1. /\ Turn(t, "exit") /\ stopped' = TRUE /\ ready' = <<>>
      /\ call' = [w \in Task |-> [todo |-> <<>>, on |-> None]]
      /\ UNCHANGED <<slot, shuttingDown, booting, manifest, enabled, proc, asked, faults,
                     overlapped, told, interfered>>
    BY DEF ServerExits, service, history
<1>2. TaskInv /\ ProcInv /\ HeldInv /\ QuietInv
    BY DEF Parts
<1>3. /\ t \in Task /\ At(t) = "exit" /\ call[t].todo \in Seq(Label) /\ call[t].todo # <<>>
      /\ Head(call[t].todo) = "exit" /\ "exit" \in LabelsOf(t)
    <2>1. PICK label : label = "exit"
        OBVIOUS
    <2>2. label # "idle" /\ Turn(t, label) /\ TaskInv
        BY <1>1, <1>2, <2>1
    <2>3. /\ t \in Task /\ At(t) = label /\ call[t].todo \in Seq(Label) /\ call[t].todo # <<>>
          /\ Head(call[t].todo) = label /\ label \in LabelsOf(t)
        BY ONLY TypeOK, <2>2, TurnFacts
    <2>4. QED
        BY <2>1, <2>3
<1>4. TypeOK'
    <2>1. CallType'
        <3>1. PICK e : e = <<>>
            OBVIOUS
        <3>2. e \in Seq(Label) /\ call' = [w \in Task |-> [todo |-> e, on |-> None]]
            BY <1>1, <3>1, Nil
        <3>3. QED
            BY ONLY <3>2 DEF CallType
    <2>2. SlotType' /\ ReadyType' /\ EnvType'
        BY <1>1, Nil, Typed DEF SlotType, ReadyType, EnvType
    <2>3. QED
        BY <2>1, <2>2, Typed
<1>5. StopLeavesNoChild'
    <2>1. SUFFICES ASSUME Calm, NEW i \in Child PROVE proc[i] \notin {"starting", "up"}
        BY <1>1 DEF StopLeavesNoChild, Calm, Alive
    <2>2. CloseInv /\ overlapped = {}
        BY <1>2, <2>1 DEF QuietInv, Calm
    <2>3. t \in Request
        BY <1>3 DEF LabelsOf
    <2>4. Closes(t)
        BY <1>3, Uncons DEF Closes
    <2>5. \A c \in Component : slot[c].handle = None
        BY <1>3, <2>2, <2>3, <2>4 DEF CloseInv
    <2>6. \A u \in Task : At(u) \notin {"listen", "probe"}
        <3>1. ASSUME NEW u \in Task \ {t} PROVE At(u) \notin {"listen", "probe"}
            <4>1. call[u].todo \in Seq(Label)
                BY <1>2, AtFacts
            <4>2. \A k \in 1..Len(call[u].todo) : call[u].todo[k] \in {"stopRouter", "routerGone", "reap"}
                BY <2>2, <2>3, <2>4 DEF CloseInv
            <4>3. CASE Idle(u)
                BY <4>3 DEF At
            <4>4. CASE ~Idle(u)
                <5>1. At(u) = call[u].todo[1] /\ 1 \in 1..Len(call[u].todo)
                    BY <4>1, <4>4, Uncons DEF At, Idle
                <5>2. QED
                    BY <4>2, <5>1
            <4>5. QED
                BY <4>3, <4>4
        <3>2. QED
            BY <1>3, <3>1
    <2>7. proc[i] # "starting"
        BY <1>2, <2>6 DEF ProcInv
    <2>8. proc[i] # "up"
        <3>1. Of(i) \in Component /\ Held(Of(i))
            BY <1>2, <2>2 DEF HeldInv, Of, Component
        <3>2. proc[i] = "up" => slot[Of(i)].handle = i
            BY <3>1 DEF Held
        <3>3. QED
            BY <2>5, <3>1, <3>2, ConstantsAssumption
    <2>9. QED
        BY <2>7, <2>8
<1>6. QED
    BY <1>1, <1>4, <1>5

-----------------------------------------------------------------------------
(* The invariant holds *)

LEMMA Begun == Init => TypeOK /\ Parts /\ ~stopped
<1> SUFFICES ASSUME Init PROVE TypeOK /\ Parts /\ ~stopped
    OBVIOUS
<1>1. /\ slot = [c \in Component |->
           [handle |-> None, running |-> FALSE, stopping |-> FALSE, timer |-> FALSE,
            history |-> 0, status |-> IF c = "router" THEN "disabled" ELSE "stopped"]]
      /\ shuttingDown = FALSE /\ booting = TRUE /\ manifest = FALSE /\ enabled \in BOOLEAN
      /\ proc = [i \in Child |-> "none"] /\ ready = <<"boot">> /\ stopped = FALSE /\ asked = {}
      /\ faults = 0 /\ overlapped = {} /\ told = {} /\ interfered = FALSE
    BY DEF Init
<1>2. PICK b : b = <<"startOpencode", "startRouter", "bootEnd">>
    OBVIOUS
<1>3. /\ b \in Seq(Label) /\ b # <<>> /\ Fits("boot", b) /\ Head(b) = "startOpencode"
    BY <1>2, FitsBoot
<1>4. "boot" \in Task /\ "boot" \notin Opencode \cup Request
    BY ConstantsAssumption DEF Task
<1>5. PICK e : e = <<>>
    OBVIOUS
<1>6. e \in Seq(Label) /\ Len(e) = 0
    BY <1>5, Nil
<1>7. call = [u \in Task |-> [on |-> None, todo |-> IF u = "boot" THEN b ELSE e]]
    BY <1>2, <1>5 DEF Init
<1>8. /\ call["boot"].todo = b /\ call["boot"].on = None /\ At("boot") = "startOpencode" /\ ~Idle("boot")
      /\ \A u \in Task : call[u].on = None
      /\ \A u \in Task \ {"boot"} : call[u].todo = e /\ At(u) = "idle" /\ Idle(u)
    BY <1>3, <1>4, <1>5, <1>7 DEF At, Idle
<1>9. \A c \in Component : /\ slot[c].handle = None /\ ~slot[c].running /\ ~slot[c].stopping
                           /\ ~slot[c].timer
    BY <1>1
<1>10. TypeOK
    <2>1. SlotType
        <3>1. \A c \in Component :
                 [handle |-> None, running |-> FALSE, stopping |-> FALSE, timer |-> FALSE,
                  history |-> 0, status |-> IF c = "router" THEN "disabled" ELSE "stopped"] \in Slot
            BY ConstantsAssumption DEF Slot, Status
        <3>2. slot["opencode"].handle \notin Router /\ slot["router"].handle \notin Opencode
            BY <1>9, ConstantsAssumption DEF Component, Child
        <3>3. QED
            BY <1>1, <3>1, <3>2 DEF SlotType
    <2>2. CallType
        <3> DEFINE F(u) == [on |-> None, todo |-> IF u = "boot" THEN b ELSE e]
        <3>1. \A u \in Task : F(u) \in [todo: Seq(Label), on: Child \cup {None}]
            BY ONLY <1>3, <1>6
        <3>2. call = [u \in Task |-> F(u)]
            BY <1>7
        <3> HIDE DEF F
        <3>3. QED
            BY ONLY <3>1, <3>2 DEF CallType
    <2>3. ReadyType
        BY ONLY <1>1, <1>4, One DEF ReadyType
    <2>4. EnvType
        <3>1. {shuttingDown, booting, manifest, enabled, stopped, interfered} \subseteq BOOLEAN
            BY ONLY <1>1, Zenon
        <3>2. proc \in [Child -> {"none", "starting", "up", "dying", "failing", "dead"}]
            BY ONLY <1>1
        <3>3. asked \subseteq Request /\ faults \in 0..MaxFaults /\ overlapped \subseteq Component /\ told \subseteq Opencode
            BY ONLY <1>1, ConstantsAssumption
        <3>4. QED
            BY ONLY <3>1, <3>2, <3>3 DEF EnvType
    <2>5. QED
        BY ONLY <2>1, <2>2, <2>3, <2>4 DEF TypeOK, SlotType, Slot, CallType, ReadyType, EnvType
<1>11. TaskInv
    <2>1. ReadyInv /\ \A u \in Task : Awake(u) <=> u = "boot"
        BY <1>1, <1>4, AwakeFacts DEF ReadyInv
    <2>2. \A u \in Task : Fits(u, call[u].todo)
        <3>1. \A u \in Task : Fits(u, e)
            BY <1>5, <1>6 DEF Fits
        <3>2. QED
            BY <1>3, <1>8, <3>1
    <2>3. \A u \in Task : Concerns(u)
        BY <1>8 DEF Concerns
    <2>4. \A u \in Task : IF Awake(u) THEN Runs(u) ELSE Sleeps(u)
        BY <1>8, <2>1 DEF Runs, Sleeps
    <2>5. \A u \in Task : At(u) = "startOpencode" => ready = <<u>> /\ ~slot["opencode"].running
        BY <1>1, <1>8, <1>9 DEF Component
    <2>6. \A r \in Request \ asked : Idle(r)
        BY <1>4, <1>8 DEF Task
    <2>7. QED
        BY <1>1, <1>8, <2>1, <2>2, <2>3, <2>4, <2>5, <2>6 DEF TaskInv
<1>12. ProcInv
    BY <1>1, <1>4, <1>8, <1>9 DEF ProcInv, Child, Task
<1>13. HeldInv
    <2>1. ASSUME NEW c \in Component PROVE Held(c)
        <3>1. \A u \in Task : At(u) \notin Work(c) /\ At(u) # StopOf(c)
            BY <1>8 DEF Work, StopOf
        <3>2. QED
            BY <1>1, <1>9, <3>1 DEF Held
    <2>2. QED
        BY <2>1 DEF HeldInv
<1>14. QuietInv
    <2>1. StopInv
        BY <1>8 DEF StopInv
    <2>2. ToldInv
        BY <1>1 DEF ToldInv
    <2>3. CloseInv
        <3>1. \A r \in Request : ~Closes(r)
            <4>1. \A r \in Request : call[r].todo = e
                BY <1>4, <1>8 DEF Task
            <4>2. QED
                BY ONLY <1>6, <4>1 DEF Closes
        <3>2. QED
            BY <3>1 DEF CloseInv
    <2>4. QED
        BY <2>1, <2>2, <2>3 DEF QuietInv
<1>15. QED
    BY <1>1, <1>10, <1>11, <1>12, <1>13, <1>14 DEF Parts

\* An action of a turn, and one that needs an empty `ready', say so.
LEMMA NothingAfterExit ==
    ASSUME stopped, ready = <<>>, Next
    PROVE  FALSE
<1>1. ~Quiet /\ \A t, label : ~Turn(t, label)
    BY DEF Quiet, Turn
<1>2. \A t \in Task : ~Run(t)
    <2>1. SUFFICES ASSUME NEW t \in Task, Run(t) PROVE FALSE
        OBVIOUS
    <2>2. \A c \in Component : ~StopNothing(t, c) /\ ~StopChild(t, c) /\ ~Stopped(t, c)
        BY <1>1 DEF StopNothing, StopChild, Stopped
    <2>3. ~StartOpencode(t) /\ ~StartRouterOrNot(t) /\ ~Disable(t) /\ ~RouterFailed(t) /\ ~Reap(t)
        BY <1>1 DEF StartOpencode, StartRouterOrNot, Disable, RouterFailed, Reap
    <2>4. ~JoinBoot(t) /\ ~ApplyStop(t) /\ ~ForgetManifest(t) /\ ~ServerExits(t)
        BY <1>1 DEF JoinBoot, ApplyStop, ForgetManifest, ServerExits
    <2>5. \A wanted \in BOOLEAN : ~Bootstrap(t, wanted)
        BY <1>1 DEF Bootstrap
    <2>6. QED
        BY <2>1, <2>2, <2>3, <2>4, <2>5 DEF Run
<1>3. \A t \in Task : ~Answer(t)
    <2>1. SUFFICES ASSUME NEW t \in Task, Answer(t) PROVE FALSE
        OBVIOUS
    <2>2. (\A i \in Opencode : ~BundleResolved(t, i)) /\ \A i \in Router : ~BinaryReady(t, i)
        BY <1>1 DEF BundleResolved, BinaryReady
    <2>3. ~OpencodeReady(t) /\ ~OpencodeFails(t) /\ ~BinaryFails(t) /\ ~RouterReady(t) /\ ~RouterTimesOut(t)
        BY <1>1 DEF OpencodeReady, OpencodeFails, BinaryFails, RouterReady, RouterTimesOut
    <2>4. QED
        BY <2>1, <2>2, <2>3 DEF Answer
<1>4. ~BootEnds /\ \A c \in Component : ~TimerFires(c)
    BY <1>1 DEF BootEnds, TimerFires
<1>5. (\A i \in Child : ~ProcessExits(i)) /\ \A r \in Request : ~Arrives(r)
    BY <1>1 DEF ProcessExits, Arrives
<1>6. QED
    BY <1>2, <1>3, <1>4, <1>5 DEF Next, Service

\* What every step keeps, but for the end of the server.
Continues == TypeOK' /\ Parts' /\ stopped' = stopped

LEMMA RunKeeps ==
    ASSUME TypeOK, Parts, NEW t \in Task, Run(t)
    PROVE  Continues \/ ServerExits(t)
<1>1. ASSUME NEW c \in Component, StopNothing(t, c) PROVE Continues
    BY <1>1, StopNothingKeeps DEF Continues, StopNothing, env
<1>2. ASSUME NEW c \in Component, StopChild(t, c) PROVE Continues
    BY <1>2, StopChildKeeps DEF Continues, StopChild, env
<1>3. ASSUME NEW c \in Component, Stopped(t, c) PROVE Continues
    BY <1>3, StoppedKeeps DEF Continues, Stopped, env
<1>4. ASSUME StartOpencode(t) PROVE Continues
    BY <1>4, StartOpencodeKeeps DEF Continues, StartOpencode, env
<1>5. ASSUME StartRouterOrNot(t) PROVE Continues
    BY <1>5, StartRouterOrNotKeeps DEF Continues, StartRouterOrNot, env
<1>6. ASSUME Disable(t) PROVE Continues
    BY <1>6, DisableKeeps DEF Continues, Disable, env
<1>7. ASSUME RouterFailed(t) PROVE Continues
    BY <1>7, RouterFailedKeeps DEF Continues, RouterFailed, env
<1>8. ASSUME Reap(t) PROVE Continues
    BY <1>8, ReapKeeps DEF Continues, Reap, env
<1>9. ASSUME JoinBoot(t) PROVE Continues
    BY <1>9, JoinBootKeeps DEF Continues, JoinBoot, env
<1>10. ASSUME NEW wanted \in BOOLEAN, Bootstrap(t, wanted) PROVE Continues
    <2>1. TypeOK' /\ Parts'
        BY ONLY TypeOK, Parts, wanted \in BOOLEAN, <1>10, BootstrapKeeps
    <2>2. QED
        BY <1>10, <2>1 DEF Continues, Bootstrap, env
<1>11. ASSUME ApplyStop(t) PROVE Continues
    BY <1>11, ApplyStopKeeps DEF Continues, ApplyStop, env
<1>12. ASSUME ForgetManifest(t) PROVE Continues
    BY <1>12, ForgetManifestKeeps DEF Continues, ForgetManifest, env
<1>13. QED
    BY <1>1, <1>2, <1>3, <1>4, <1>5, <1>6, <1>7, <1>8, <1>9, <1>10, <1>11, <1>12 DEF Run

LEMMA AnswerKeeps ==
    ASSUME TypeOK, Parts, NEW t \in Task, Answer(t)
    PROVE  Continues
<1>1. ASSUME NEW i \in Opencode, BundleResolved(t, i) PROVE Continues
    BY <1>1, BundleResolvedKeeps DEF Continues, BundleResolved, env
<1>2. ASSUME NEW i \in Router, BinaryReady(t, i) PROVE Continues
    BY <1>2, BinaryReadyKeeps DEF Continues, BinaryReady, env
<1>3. ASSUME OpencodeReady(t) PROVE Continues
    <2>1. Adopts(t, "opencode", call[t].on) /\ "opencode" \in Component
        BY <1>3, ReadyIsAdopted DEF Component
    <2>2. TypeOK' /\ Parts'
        BY ONLY TypeOK, Parts, t \in Task, <2>1, AdoptsKeeps
    <2>3. QED
        BY <1>3, <2>2 DEF Continues, OpencodeReady, env
<1>4. ASSUME OpencodeFails(t) PROVE Continues
    BY <1>4, OpencodeFailsKeeps DEF Continues, OpencodeFails
<1>5. ASSUME BinaryFails(t) PROVE Continues
    BY <1>5, BinaryFailsKeeps DEF Continues, BinaryFails
<1>6. ASSUME RouterReady(t) PROVE Continues
    <2>1. Adopts(t, "router", call[t].on) /\ "router" \in Component
        BY <1>6, ReadyIsAdopted DEF Component
    <2>2. TypeOK' /\ Parts'
        BY ONLY TypeOK, Parts, t \in Task, <2>1, AdoptsKeeps
    <2>3. QED
        BY <1>6, <2>2 DEF Continues, RouterReady, env
<1>7. ASSUME RouterTimesOut(t) PROVE Continues
    BY <1>7, RouterTimesOutKeeps DEF Continues, RouterTimesOut
<1>8. QED
    BY <1>1, <1>2, <1>3, <1>4, <1>5, <1>6, <1>7 DEF Answer

IInv == TypeOK /\ Inv /\ StopLeavesNoChild

LEMMA NextKeeps == IInv /\ [Next]_vars => IInv'
<1> SUFFICES ASSUME IInv, [Next]_vars PROVE IInv'
    OBVIOUS
<1>1. TypeOK /\ Inv /\ StopLeavesNoChild
    BY DEF IInv
<1>2. CASE UNCHANGED vars
    <2>1. TypeOK'
        BY <1>1, <1>2 DEF TypeOK, vars, service, tasks, env, history
    <2>2. StopLeavesNoChild'
        BY <1>1, <1>2 DEF StopLeavesNoChild, Alive, vars, service, tasks, env, history
    <2>3. Inv'
        BY <1>1, <1>2 DEF Inv, TaskInv, ProcInv, HeldInv, QuietInv, ReadyInv, Concerns, Awake, Runs, Sleeps, Held,
              Calm, StopInv, ToldInv, CloseInv, Alone, Closes, At, Idle, vars, service, tasks, env, history
    <2>4. QED
        BY <2>1, <2>2, <2>3 DEF IInv
<1>3. CASE Next
    <2>1. ~stopped /\ Parts
        <3>1. stopped => ready = <<>>
            BY <1>1 DEF Inv
        <3>2. ~stopped
            BY <1>3, <3>1, NothingAfterExit
        <3>3. QED
            BY <1>1, <3>2 DEF Inv, Parts
    <2>2. CASE Continues
        <3>1. ~stopped' /\ TypeOK' /\ Parts'
            BY <2>1, <2>2 DEF Continues
        <3>2. Inv'
            BY <3>1 DEF Inv, Parts
        <3>3. StopLeavesNoChild'
            BY <3>1 DEF StopLeavesNoChild
        <3>4. QED
            BY <3>1, <3>2, <3>3 DEF IInv
    <2>3. ASSUME NEW t \in Task, ServerExits(t) PROVE IInv'
        <3>1. TypeOK' /\ stopped' /\ ready' = <<>> /\ StopLeavesNoChild'
            BY ONLY <1>1, <2>1, <2>3, ServerExitsSafely
        <3>2. Inv'
            BY <3>1 DEF Inv
        <3>3. QED
            BY <3>1, <3>2 DEF IInv
    <2>4. ASSUME NEW t \in Task, Run(t) \/ Answer(t) PROVE Continues \/ ServerExits(t)
        BY <1>1, <2>1, <2>4, RunKeeps, AnswerKeeps
    <2>5. ASSUME BootEnds PROVE Continues
        BY <1>1, <2>1, <2>5, BootEndsKeeps DEF Continues, BootEnds, env
    <2>6. ASSUME NEW c \in Component, TimerFires(c) PROVE Continues
        BY <1>1, <2>1, <2>6, TimerFiresKeeps DEF Continues, TimerFires, env
    <2>7. ASSUME NEW i \in Child, ProcessExits(i) PROVE Continues
        BY <1>1, <2>1, <2>7, ProcessExitsKeeps DEF Continues, ProcessExits
    <2>8. ASSUME NEW r \in Request, Arrives(r) PROVE Continues
        BY <1>1, <2>1, <2>8, ArrivesKeeps DEF Continues, Arrives
    <2>9. QED
        BY <1>3, <2>2, <2>3, <2>4, <2>5, <2>6, <2>7, <2>8 DEF Next, Service
<1>4. QED
    BY <1>2, <1>3

\* The invariant above holds in every behaviour, for any number of process ids,
\* requests, restart attempts and failures.
THEOREM InvariantHolds == Spec => []IInv
<1>1. Init => IInv
    BY Begun DEF IInv, Inv, Parts, StopLeavesNoChild
<1>2. QED
    BY <1>1, NextKeeps, PTL DEF Spec

\* Every variable has its type.
THEOREM TypeCorrect == Spec => []TypeOK
<1>1. IInv => TypeOK
    BY DEF IInv
<1>2. QED
    BY <1>1, InvariantHolds, PTL

\* The supervisor's handle is its child: unless two starts or stops of a
\* component overlap, the child that was adopted and not told to stop is the one
\* held, and what is reported as running is held or being stopped.
THEOREM ChildIsHeld == Spec => []OneChildHeld
<1>1. ASSUME IInv, ~stopped, NEW c \in Component \ overlapped
      PROVE  /\ \A i \in Child : Of(i) = c /\ proc[i] = "up" => slot[c].handle = i
             /\ slot[c].handle # None => proc[slot[c].handle] = "up" /\ slot[c].running
             /\ slot[c].running /\ slot[c].handle = None =>
                    \E t \in Task : At(t) \in {"routerGone", "opencodeGone"} /\ Of(call[t].on) = c
    <2>1. TypeOK /\ TaskInv /\ ProcInv /\ Held(c) /\ c \in Component
        BY <1>1 DEF IInv, Inv, HeldInv
    <2>2. \A t \in Task : At(t) = StopOf(c) =>
              At(t) \in {"routerGone", "opencodeGone"} /\ Of(call[t].on) = c
        BY <2>1, ConstantsAssumption DEF TaskInv, Concerns, StopOf, Of, Component
    <2>3. QED
        BY <2>1, <2>2 DEF ProcInv, Held
<1>2. IInv => OneChildHeld
    BY <1>1 DEF OneChildHeld
<1>3. QED
    BY <1>2, InvariantHolds, PTL

\* No task of the service waits for an answer, an exit or a bootstrap that
\* cannot come any more.
THEOREM WaitsEnd == Spec => []NobodyWaitsInVain
<1>1. ASSUME IInv, Quiet, NEW t \in Task
      PROVE  \/ Idle(t)
             \/ At(t) \in {"bundle", "binary"}
             \/ At(t) \in {"listen", "probe"} /\ proc[call[t].on] \in {"starting", "dead"}
             \/ At(t) \in {"routerGone", "opencodeGone", "probeGone"}
                    /\ proc[call[t].on] \in {"dying", "failing"}
             \/ At(t) = "awaitBoot" /\ t # "boot" /\ booting /\ ~Idle("boot")
    <2>1. TypeOK /\ TaskInv
        BY <1>1 DEF IInv, Inv, Quiet
    <2>2. Sleeps(t)
        BY <1>1, <2>1, QuietFacts
    <2>3. At(t) = "awaitBoot" => t # "boot"
        BY <2>1, AtFacts, ConstantsAssumption DEF LabelsOf
    <2>4. QED
        BY <2>2, <2>3 DEF Sleeps
<1>2. IInv => NobodyWaitsInVain
    BY <1>1 DEF NobodyWaitsInVain
<1>3. QED
    BY <1>2, InvariantHolds, PTL

\* A server whose stop finds no call under way leaves no child behind.
THEOREM NoChildIsLeft == Spec => []StopLeavesNoChild
<1>1. IInv => StopLeavesNoChild
    BY DEF IInv
<1>2. QED
    BY <1>1, InvariantHolds, PTL

-----------------------------------------------------------------------------
(* The exit of a child that was told to stop *)

\* Only its exit ends a process that was told to stop.
LEMMA DyingEnds ==
    ASSUME TypeOK, TaskInv, Next, NEW r \in Child, proc[r] = "dying", proc'[r] = "none"
    PROVE  ProcessExits(r)
<1>1. proc \in [Child -> {"none", "starting", "up", "dying", "failing", "dead"}] /\ proc' # proc
    BY DEF TypeOK
<1>2. ASSUME NEW i, NEW p, p # "none", proc' = [proc EXCEPT ![i] = p] PROVE FALSE
    BY ONLY proc[r] = "dying", proc'[r] = "none", r \in Child, <1>1, <1>2
<1>3. ASSUME NEW t \in Task, Run(t) PROVE FALSE
    <2>1. \A c \in Component : ~StopNothing(t, c) /\ ~Stopped(t, c)
        BY <1>1 DEF StopNothing, Stopped
    <2>2. \A c \in Component : ~StopChild(t, c)
        BY <1>2 DEF StopChild
    <2>3. ~StartOpencode(t) /\ ~StartRouterOrNot(t) /\ ~Disable(t) /\ ~RouterFailed(t) /\ ~Reap(t)
        BY <1>1 DEF StartOpencode, StartRouterOrNot, Disable, RouterFailed, Reap
    <2>4. ~JoinBoot(t) /\ ~ApplyStop(t) /\ ~ForgetManifest(t) /\ ~ServerExits(t)
        BY <1>1 DEF JoinBoot, ApplyStop, ForgetManifest, ServerExits, service
    <2>5. \A wanted \in BOOLEAN : ~Bootstrap(t, wanted)
        BY <1>1 DEF Bootstrap
    <2>6. QED
        BY <1>3, <2>1, <2>2, <2>3, <2>4, <2>5 DEF Run
<1>4. ASSUME NEW t \in Task, Answer(t) PROVE FALSE
    <2>1. (\A i \in Opencode : ~BundleResolved(t, i)) /\ \A i \in Router : ~BinaryReady(t, i)
        BY <1>2 DEF BundleResolved, BinaryReady
    <2>2. ~OpencodeReady(t) /\ ~RouterReady(t)
        <3>1. ASSUME NEW c, NEW i, Adopts(t, c, i) PROVE FALSE
            <4>1. proc' = [proc EXCEPT ![i] = "up"]
                BY <3>1 DEF Adopts
            <4>2. QED
                BY ONLY <1>2, <4>1
        <3>2. QED
            BY <3>1, ReadyIsAdopted
    <2>3. ~BinaryFails(t)
        BY <1>1 DEF BinaryFails
    <2>4. Quiet /\ At(t) \in {"listen", "probe"} => proc[call[t].on] \in {"starting", "dead"}
        <3>1. SUFFICES ASSUME Quiet, At(t) \in {"listen", "probe"}
                       PROVE  proc[call[t].on] \in {"starting", "dead"}
            OBVIOUS
        <3>2. Sleeps(t)
            BY <3>1, QuietFacts
        <3>3. ~Idle(t)
            BY <3>1 DEF At
        <3>4. QED
            BY <3>1, <3>2, <3>3 DEF Sleeps
    <2>5. ~OpencodeFails(t)
        <3>1. SUFFICES ASSUME OpencodeFails(t) PROVE FALSE
            OBVIOUS
        <3>2. At(t) = "listen" /\ call[t].on # r
              /\ proc' = [proc EXCEPT ![call[t].on] = IF proc[call[t].on] = "dead" THEN "none" ELSE "failing"]
            BY <1>1, <2>4, <3>1 DEF OpencodeFails
        <3>3. QED
            BY ONLY proc[r] = "dying", proc'[r] = "none", r \in Child, <1>1, <3>2
    <2>6. ~RouterTimesOut(t)
        <3>1. SUFFICES ASSUME RouterTimesOut(t) PROVE FALSE
            OBVIOUS
        <3>2. At(t) = "probe" /\ call[t].on # r
              /\ \E p \in {"failing", "none"} : proc' = [proc EXCEPT ![call[t].on] = p]
            BY <2>4, <3>1 DEF RouterTimesOut
        <3>3. QED
            BY ONLY proc[r] = "dying", proc'[r] = "none", r \in Child, <1>1, <3>2
    <2>7. QED
        BY <1>4, <2>1, <2>2, <2>3, <2>5, <2>6 DEF Answer
<1>5. ~BootEnds /\ \A c \in Component : ~TimerFires(c)
    BY <1>1 DEF BootEnds, TimerFires
<1>6. \A q \in Request : ~Arrives(q)
    BY <1>1 DEF Arrives
<1>7. ASSUME NEW i \in Child, ProcessExits(i) PROVE i = r
    BY <1>1, <1>7 DEF ProcessExits
<1>8. QED
    BY <1>3, <1>4, <1>5, <1>6, <1>7 DEF Next, Service

\* Whoever is at "reap" and at the front of `ready' reaps.
LEMMA FrontReaps ==
    ASSUME ready # <<>>, NEW i, Head(ready) = i, At(i) = "reap", Next
    PROVE  Reap(i)
<1>1. ~Quiet /\ \A t, label : Turn(t, label) => t = i /\ label = "reap"
    BY DEF Quiet, Turn
<1>2. ASSUME NEW t \in Task, Run(t) PROVE Reap(i)
    <2>1. \A c \in Component : ~StopNothing(t, c) /\ ~StopChild(t, c) /\ ~Stopped(t, c)
        <3>1. ASSUME NEW c \in Component PROVE ~StopNothing(t, c) /\ ~StopChild(t, c) /\ ~Stopped(t, c)
            <4>1. /\ (IF c = "router" THEN "stopRouter" ELSE "stopOpencode") # "reap"
                  /\ (IF c = "router" THEN "routerGone" ELSE "opencodeGone") # "reap"
                OBVIOUS
            <4>2. ~StopNothing(t, c)
                BY <1>1, <4>1 DEF StopNothing
            <4>3. ~StopChild(t, c)
                BY <1>1, <4>1 DEF StopChild
            <4>4. ~Stopped(t, c)
                BY <1>1, <4>1 DEF Stopped
            <4>5. QED
                BY <4>2, <4>3, <4>4
        <3>2. QED
            BY <3>1
    <2>2. ~StartOpencode(t) /\ ~StartRouterOrNot(t) /\ ~Disable(t) /\ ~RouterFailed(t)
        BY <1>1 DEF StartOpencode, StartRouterOrNot, Disable, RouterFailed
    <2>3. ~JoinBoot(t) /\ ~ApplyStop(t) /\ ~ForgetManifest(t) /\ ~ServerExits(t)
        BY <1>1 DEF JoinBoot, ApplyStop, ForgetManifest, ServerExits
    <2>4. \A wanted \in BOOLEAN : ~Bootstrap(t, wanted)
        BY <1>1 DEF Bootstrap
    <2>5. Reap(t) => t = i
        BY <1>1 DEF Reap
    <2>6. QED
        BY <1>2, <2>1, <2>2, <2>3, <2>4, <2>5 DEF Run
<1>3. \A t \in Task : ~Answer(t)
    <2>1. SUFFICES ASSUME NEW t \in Task, Answer(t) PROVE FALSE
        OBVIOUS
    <2>2. (\A j \in Opencode : ~BundleResolved(t, j)) /\ \A j \in Router : ~BinaryReady(t, j)
        BY <1>1 DEF BundleResolved, BinaryReady
    <2>3. ~OpencodeReady(t) /\ ~OpencodeFails(t) /\ ~BinaryFails(t) /\ ~RouterReady(t) /\ ~RouterTimesOut(t)
        BY <1>1 DEF OpencodeReady, OpencodeFails, BinaryFails, RouterReady, RouterTimesOut
    <2>4. QED
        BY <2>1, <2>2, <2>3 DEF Answer
<1>4. ~BootEnds
    BY <1>1 DEF BootEnds
<1>5. \A c \in Component : ~TimerFires(c)
    BY <1>1 DEF TimerFires
<1>6. (\A j \in Child : ~ProcessExits(j)) /\ \A r \in Request : ~Arrives(r)
    BY <1>1 DEF ProcessExits, Arrives
<1>7. QED
    BY <1>2, <1>3, <1>4, <1>5, <1>6 DEF Next, Service

\* While requests come one at a time, the exit of a child that was told to stop is
\* not answered with a restart, although the flags that tell a stop from a crash
\* are read after an await and reset by another task.
THEOREM StopsAreNoCrashes == Spec => StopIsNoCrash
<1>1. ASSUME IInv, Next, ~stopped', NEW r \in Router, Calm, proc[r] = "dying", proc'[r] = "none"
      PROVE  ~slot'["router"].timer
    <2>1. ~stopped
        BY <1>1, NothingAfterExit DEF IInv, Inv
    <2>2. TypeOK /\ Parts /\ TaskInv /\ ProcInv /\ r \in Child /\ Of(r) = "router" /\ Held("router")
        BY <1>1, <2>1, ConstantsAssumption DEF IInv, Inv, Parts, HeldInv, Calm, Component, Child, Of
    <2>3. ProcessExits(r)
        BY ONLY <1>1, <2>2, DyingEnds
    <2>4. Exits(r)
        BY ONLY <2>2, <2>3, ExitFacts
    <2>5. PICK u \in Task : At(u) = StopOf("router")
        BY <1>1, <2>2, EndFacts
    <2>6. slot["router"].stopping /\ ~slot["router"].timer
        BY <2>2, <2>5 DEF Held
    <2>7. QED
        BY <1>1, <2>2, <2>4, <2>6 DEF Exits
<1>2. ASSUME IInv, Next, ~stopped', NEW i \in told, Calm, At(i) = "reap", call'[i].todo = <<>>
      PROVE  ~slot'["opencode"].timer
    <2>1. ~stopped
        BY <1>2, NothingAfterExit DEF IInv, Inv
    <2>2. TypeOK /\ TaskInv /\ ProcInv /\ ToldInv /\ Held("opencode") /\ i \in Opencode
        BY <1>2, <2>1 DEF IInv, Inv, HeldInv, QuietInv, Calm, Component, TypeOK
    <2>3. i \in Task /\ i \in Child /\ ~Idle(i) /\ proc[i] = "none"
        <3>1. i \in Task /\ i \in Child
            BY <2>2 DEF Task, Child
        <3>2. ~Idle(i)
            BY <1>2, <2>2, <3>1, AtFacts
        <3>3. QED
            BY <1>2, <2>2, <3>1, <3>2 DEF ToldInv, ProcInv
    <2>4. PICK u \in Request : ready = <<i, u>>
        BY <1>2, <2>2, <2>3 DEF ToldInv
    <2>5. u \in Task /\ Head(ready) = i /\ ready # <<>> /\ Turn(i, "reap")
        <3>1. u \in Task
            BY DEF Task
        <3>2. Head(ready) = i /\ ready # <<>>
            BY <2>3, <2>4, <3>1, Two
        <3>3. QED
            BY <1>2, <3>1, <3>2 DEF Turn
    <2>6. PICK v \in Task : At(v) = "opencodeGone"
        <3>1. PICK label : label = "reap"
            OBVIOUS
        <3>2. label # "idle" /\ Turn(i, label) /\ ready # <<i>>
            <4>1. Len(ready) = 2
                BY <2>3, <2>4, <2>5, Two
            <4>2. ready # <<i>>
                BY <2>3, <4>1, One
            <4>3. QED
                BY <2>5, <3>1, <4>2
        <3>3. \E w \in Request : At(w) = "opencodeGone"
            BY ONLY <2>2, <3>2, TurnFacts
        <3>4. QED
            BY <3>3 DEF Task
    <2>7. slot["opencode"].stopping /\ ~slot["opencode"].timer
        BY <2>2, <2>6 DEF Held, StopOf
    <2>8. Reap(i)
        BY ONLY <1>2, <2>5, FrontReaps
    <2>9. slot' = [slot EXCEPT !["opencode"].status = "stopped"]
        BY <2>7, <2>8 DEF Reap, TakenForStop
    <2>10. QED
        BY <2>2, <2>7, <2>9 DEF TypeOK, Component
<1>3. IInv /\ [Next]_vars =>
          [~interfered /\ overlapped = {} /\ ~stopped' =>
              /\ \A r \in Router : proc[r] = "dying" /\ proc'[r] = "none" => ~slot'["router"].timer
              /\ \A i \in told : At(i) = "reap" /\ call'[i].todo = <<>> => ~slot'["opencode"].timer]_vars
    BY <1>1, <1>2 DEF Calm
<1>4. QED
    BY <1>3, InvariantHolds, PTL DEF Spec, StopIsNoCrash
=============================================================================
