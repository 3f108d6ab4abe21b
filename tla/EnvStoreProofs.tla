---------------------------- MODULE EnvStoreProofs ----------------------------
(***************************************************************************)
(* For any number of requests, variables, failures and crashes, the file   *)
(* holds what has been acknowledged.  The property is not inductive: a     *)
(* write replaces the whole file, so what it will write must be promised   *)
(* too, and stay so until it is written.  That is what the queue is for:   *)
(* only its first request is beyond waiting, so memory, from which it      *)
(* computed the file's new content, changes under nobody.                  *)
(***************************************************************************)
EXTENDS EnvStore, SequenceTheorems, TLAPS

Ready == {"loaded", "write", "renamed"}

\* Only the first of the queue is beyond waiting.
Alone ==
    \A r \in Request : at[r] \in Ready \cup {"load"} =>
        queue # <<>> /\ Head(queue) = r

\* Memory is loaded once, from a store, and holds promised values only.
MemoryPromised ==
    /\ loading => memory = None
    /\ \A r \in Request : at[r] \in Ready => memory # None
    /\ memory # None /\ ~blind => file # Broken /\ \A k \in Key : memory[k] \in allowed[k]

\* A request writes memory with its own change, and promises it as it does.
WritesMemory ==
    \A r \in Request :
        /\ at[r] \in {"write", "renamed"} =>
              change[r] \in Change /\ next[r] = Changed(memory, change[r])
        /\ at[r] = "renamed" =>
              /\ file = next[r]
              /\ \A k \in DOMAIN change[r] : change[r][k] \in allowed[k]

\* Whoever is in the queue asks for something.
Asked ==
    \A r \in Request :
        at[r] \in Ready \cup {"queued", "load"} => change[r] \in Change \cup {Invalid}

IInv == TypeOK /\ AcknowledgedIsStored /\ Alone /\ MemoryPromised /\ WritesMemory /\ Asked

-----------------------------------------------------------------------------
LEMMA ChangeType ==
    ASSUME NEW c \in Change
    PROVE  /\ DOMAIN c \subseteq Key
           /\ \A k \in DOMAIN c : c[k] \in Value \cup {None}
  <1>1. CASE c \in Upsert
    <2>1. PICK K \in SUBSET Key : c \in [K -> Value]
      BY <1>1 DEF Upsert
    <2> QED BY <2>1
  <1>2. CASE c \in Delete
    <2>1. PICK key \in Key : c = [k \in {key} |-> None]
      BY <1>2 DEF Delete
    <2> QED BY <2>1
  <1> QED BY <1>1, <1>2 DEF Change

LEMMA ChangedType ==
    ASSUME NEW store \in Store, NEW c \in Change
    PROVE  Changed(store, c) \in Store
  BY ChangeType DEF Changed, Store

\* A value written is a promised one or the change's own.
LEMMA ChangedPromised ==
    ASSUME NEW store \in Store, NEW c \in Change, NEW k \in Key
    PROVE  Changed(store, c)[k] = IF k \in DOMAIN c THEN c[k] ELSE store[k]
  BY DEF Changed

LEMMA InitIInv == Init => IInv
  <1> SUFFICES ASSUME Init PROVE IInv
    OBVIOUS
  <1>1. \A r \in Request : at[r] = "out"
    BY DEF Init
  <1>2. allowed \in [Key -> SUBSET (Value \cup {None})]
    <2>1. ASSUME NEW k \in Key
          PROVE  (IF file = Broken THEN {} ELSE {file[k]}) \subseteq Value \cup {None}
      BY DEF Init, Store
    <2> QED BY <2>1 DEF Init
  <1>3. queue \in Seq(Request) /\ 0 \in 0..MaxFaults
    BY ConstantsAssumption, EmptySeq DEF Init
  <1>4. TypeOK
    BY <1>2, <1>3 DEF Init, TypeOK
  <1>5. Alone /\ WritesMemory /\ MemoryPromised /\ Asked
    BY <1>1 DEF Init, Alone, WritesMemory, MemoryPromised, Asked, Ready
  <1>6. AcknowledgedIsStored
    BY DEF Init, AcknowledgedIsStored
  <1> QED BY <1>4, <1>5, <1>6 DEF IInv

-----------------------------------------------------------------------------
(* Waiting for the store, and the queue *)

LEMMA ListIInv ==
    ASSUME IInv, NEW r \in Request, List(r)
    PROVE  IInv'
  <1>1. /\ at' = [at EXCEPT ![r] = IF memory = None THEN "list" ELSE "done"]
        /\ loading' = (memory = None) /\ at[r] = "out"
        /\ UNCHANGED <<file, memory, queue, change, next, faults, allowed, blind>>
    BY DEF history, List, EnsureLoaded, Goto
  <1>2. TypeOK'
    BY <1>1 DEF IInv, TypeOK, Started, Over
  <1>3. Alone' /\ MemoryPromised' /\ WritesMemory' /\ AcknowledgedIsStored' /\ Asked'
    BY <1>1 DEF IInv, TypeOK, Alone, MemoryPromised, WritesMemory, AcknowledgedIsStored, Asked,
           Ready
  <1> QED BY <1>2, <1>3 DEF IInv

\* Whoever comes goes to the end of the queue.
LEMMA EnqueueIInv ==
    ASSUME IInv, NEW r \in Request, NEW c \in Change \cup {Invalid}, Enqueue(r, c)
    PROVE  IInv'
  <1>1. /\ at' = [at EXCEPT ![r] = "queued"] /\ at[r] = "out"
        /\ change' = [change EXCEPT ![r] = c] /\ queue' = Append(queue, r)
        /\ UNCHANGED <<file, memory, loading, next, faults, allowed, blind>>
    BY DEF history, Enqueue, Goto
  <1>2. queue \in Seq(Request) /\ queue' \in Seq(Request) /\ queue' # <<>>
    BY <1>1, AppendProperties DEF IInv, TypeOK
  <1>3. ASSUME queue # <<>> PROVE Head(queue') = Head(queue)
    <2>1. 1 \in 1..Len(queue)
      BY <1>2, <1>3, EmptySeq
    <2>2. Append(queue, r)[1] = queue[1]
      BY <1>2, <2>1, AppendProperties
    <2> QED BY <1>1, <1>2, <1>3, <2>2
  <1>4. TypeOK'
    BY <1>1, <1>2 DEF IInv, TypeOK, Started, Over
  <1>5. Alone'
    BY <1>1, <1>2, <1>3 DEF IInv, TypeOK, Alone, Ready
  <1>6. MemoryPromised' /\ WritesMemory' /\ AcknowledgedIsStored' /\ Asked'
    BY <1>1 DEF IInv, TypeOK, MemoryPromised, WritesMemory, AcknowledgedIsStored, Asked, Ready
  <1> QED BY <1>4, <1>5, <1>6 DEF IInv

LEMMA BeginIInv ==
    ASSUME IInv, NEW r \in Request, Begin(r)
    PROVE  IInv'
  <1>1. /\ at' = [at EXCEPT ![r] = IF memory = None THEN "load" ELSE "loaded"]
        /\ loading' = (memory = None) /\ at[r] = "queued"
        /\ queue # <<>> /\ Head(queue) = r
        /\ UNCHANGED <<file, memory, queue, change, next, faults, allowed, blind>>
    BY DEF history, Begin, EnsureLoaded, Goto, Turn
  <1>2. TypeOK'
    BY <1>1 DEF IInv, TypeOK, Started, Over
  <1>3. Alone'
    BY <1>1 DEF IInv, TypeOK, Alone, Ready
  <1>4. MemoryPromised' /\ WritesMemory' /\ AcknowledgedIsStored' /\ Asked'
    BY <1>1 DEF IInv, TypeOK, MemoryPromised, WritesMemory, AcknowledgedIsStored, Asked, Ready
  <1> QED BY <1>2, <1>3, <1>4 DEF IInv

\* Nobody beyond waiting, so whatever is loaded changes memory under nobody.
LEMMA LoadIInv ==
    ASSUME IInv, NEW store \in Store, Load(store),
           faults' \in 0..MaxFaults, blind' \in BOOLEAN,
           ~blind' => ~blind /\ file = store
    PROVE  IInv'
  <1>1. /\ loading /\ memory = None
        /\ memory' = store /\ loading' = FALSE /\ store # None /\ store # Broken
        /\ at' = [r \in Request |-> CASE at[r] = "load" -> "loaded"
                                      [] at[r] = "list" -> "done"
                                      [] OTHER -> at[r]]
        /\ UNCHANGED <<file, queue, change, next, allowed>>
    BY InvalidAssumption DEF Load, IInv, MemoryPromised
  <1>2. \A r \in Request : at[r] \notin Ready
    BY <1>1 DEF IInv, MemoryPromised
  <1>3. \A r \in Request :
            /\ at'[r] \in {"out"} \cup Started \cup Over
            /\ at'[r] \in Ready \cup {"load"} => at[r] = "load" /\ at'[r] = "loaded"
    BY <1>1, <1>2 DEF IInv, TypeOK, Ready, Started, Over
  <1>4. TypeOK'
    BY <1>1, <1>3 DEF IInv, TypeOK
  <1>5. AcknowledgedIsStored' /\ MemoryPromised'
    BY <1>1, <1>3 DEF IInv, AcknowledgedIsStored, MemoryPromised
  <1>6. Alone' /\ WritesMemory' /\ Asked'
    BY <1>1, <1>3 DEF IInv, TypeOK, Alone, WritesMemory, Asked, Ready
  <1> QED BY <1>4, <1>5, <1>6 DEF IInv

LEMMA LoadedIInv ==
    ASSUME IInv, Loaded \/ NotSeen
    PROVE  IInv'
  <1>1. CASE Loaded
    <2>1. /\ file \in Store /\ Load(file)
          /\ faults' \in 0..MaxFaults /\ blind' = blind /\ blind \in BOOLEAN
      BY <1>1 DEF Loaded, IInv, TypeOK
    <2> QED BY <2>1, LoadIInv
  <1>2. CASE NotSeen
    <2>1. [k \in Key |-> None] \in Store
      BY DEF Store
    <2>2. Load([k \in Key |-> None]) /\ faults' \in 0..MaxFaults /\ blind' = TRUE
      BY <1>2, ConstantsAssumption DEF NotSeen, CanFail, IInv, TypeOK
    <2> QED BY <2>1, <2>2, LoadIInv
  <1> QED BY <1>1, <1>2

-----------------------------------------------------------------------------
(* The end of an operation *)

\* Behind the first of the queue nobody is beyond waiting.
LEMMA NobodyElse ==
    ASSUME IInv, NEW r \in Request, at[r] \in Ready \cup {"load"}
    PROVE  /\ queue # <<>> /\ Tail(queue) \in Seq(Request)
           /\ \A q \in Request \ {r} : at[q] \notin Ready \cup {"load"}
  <1>1. queue \in Seq(Request) /\ queue # <<>> /\ Head(queue) = r
    BY DEF IInv, TypeOK, Alone
  <1>2. Tail(queue) \in Seq(Request)
    BY <1>1, HeadTailProperties
  <1> QED BY <1>1, <1>2 DEF IInv, Alone

\* An operation that ends without a word leaves the invariant to the others.
LEMMA EndsIInv ==
    ASSUME IInv, NEW r \in Request, at[r] \in Ready, Leave(r, "failed"),
           faults' \in 0..MaxFaults,
           UNCHANGED <<file, memory, loading, change, next, allowed, blind>>
    PROVE  IInv'
  <1>1. at' = [at EXCEPT ![r] = "failed"] /\ queue' = Tail(queue)
    BY DEF Leave, Goto
  <1>2. queue' \in Seq(Request) /\ \A q \in Request : at'[q] \notin Ready \cup {"load"}
    BY <1>1, NobodyElse DEF IInv, TypeOK, Ready
  <1>3. TypeOK'
    BY <1>1, <1>2 DEF IInv, TypeOK, Started, Over
  <1>4. Alone' /\ MemoryPromised' /\ WritesMemory' /\ AcknowledgedIsStored' /\ Asked'
    BY <1>1, <1>2
       DEF IInv, TypeOK, Alone, MemoryPromised, WritesMemory, AcknowledgedIsStored, Asked,
           Ready
  <1> QED BY <1>3, <1>4 DEF IInv

LEMMA NotLoadedIInv ==
    ASSUME IInv, NotLoaded
    PROVE  IInv'
  <1>1. /\ memory = None /\ loading' = FALSE
        /\ at' = [r \in Request |-> IF at[r] \in {"load", "list"} THEN "failed" ELSE at[r]]
        /\ queue' = IF \E r \in Request : at[r] = "load" THEN Tail(queue) ELSE queue
        /\ faults' \in 0..MaxFaults
        /\ UNCHANGED <<file, memory, change, next, allowed, blind>>
    BY ConstantsAssumption DEF history, NotLoaded, CanFail, IInv, TypeOK, MemoryPromised
  <1>2. queue' \in Seq(Request)
    <2>1. CASE \E r \in Request : at[r] = "load"
      BY <1>1, <2>1, NobodyElse
    <2>2. CASE ~\E r \in Request : at[r] = "load"
      BY <1>1, <2>2 DEF IInv, TypeOK
    <2> QED BY <2>1, <2>2
  <1>3. \A r \in Request :
            /\ at'[r] \in {"out"} \cup Started \cup Over
            /\ at'[r] \notin Ready \cup {"load"}
    BY <1>1 DEF IInv, TypeOK, MemoryPromised, Ready, Started, Over
  <1>4. TypeOK'
    BY <1>1, <1>2, <1>3 DEF IInv, TypeOK
  <1>5. Alone' /\ MemoryPromised' /\ WritesMemory' /\ AcknowledgedIsStored' /\ Asked'
    BY <1>1, <1>3
       DEF IInv, TypeOK, Alone, MemoryPromised, WritesMemory, AcknowledgedIsStored, Asked,
           Ready
  <1> QED BY <1>4, <1>5 DEF IInv

-----------------------------------------------------------------------------
(* The write *)

LEMMA ComputeIInv ==
    ASSUME IInv, NEW r \in Request, Compute(r)
    PROVE  IInv'
  <1>1. /\ at' = [at EXCEPT ![r] = "write"] /\ at[r] = "loaded" /\ change[r] # Invalid
        /\ next' = [next EXCEPT ![r] = Changed(memory, change[r])]
        /\ UNCHANGED <<file, memory, loading, queue, change, faults, allowed, blind>>
    BY DEF history, Compute, Goto
  <1>2. memory \in Store
    BY <1>1 DEF IInv, TypeOK, MemoryPromised, Ready
  <1>3. \A q \in Request \ {r} : at[q] \notin Ready
    BY <1>1, NobodyElse DEF Ready
  <1>4. change[r] \in Change
    BY <1>1 DEF IInv, Asked, Ready
  <1>5. TypeOK'
    BY <1>1, <1>2, <1>4, ChangedType DEF IInv, TypeOK, Started
  <1>6. Alone' /\ MemoryPromised' /\ AcknowledgedIsStored' /\ Asked'
    BY <1>1 DEF IInv, TypeOK, Alone, MemoryPromised, AcknowledgedIsStored, Asked, Ready
  <1>7. WritesMemory'
    BY <1>1, <1>3, <1>4 DEF IInv, TypeOK, WritesMemory, Ready
  <1> QED BY <1>5, <1>6, <1>7 DEF IInv

LEMMA RenameIInv ==
    ASSUME IInv, NEW r \in Request, Rename(r)
    PROVE  IInv'
  <1>1. /\ at' = [at EXCEPT ![r] = "renamed"] /\ at[r] = "write"
        /\ file' = next[r]
        /\ allowed' = [k \in Key |-> IF k \in DOMAIN change[r]
                                     THEN allowed[k] \cup {change[r][k]} ELSE allowed[k]]
        /\ UNCHANGED <<memory, loading, queue, change, next, faults, blind>>
    BY DEF Rename, Goto
  <1>2. /\ memory \in Store /\ change[r] \in Change
        /\ next[r] = Changed(memory, change[r])
    BY <1>1 DEF IInv, TypeOK, MemoryPromised, WritesMemory, Ready
  <1>3. /\ DOMAIN change[r] \subseteq Key
        /\ \A k \in DOMAIN change[r] : change[r][k] \in Value \cup {None}
        /\ next[r] \in Store /\ next[r] # Broken
    BY <1>2, ChangeType, ChangedType, InvalidAssumption
  <1>4. \A k \in Key : allowed'[k] \in SUBSET (Value \cup {None}) /\ allowed[k] \subseteq allowed'[k]
    BY <1>1, <1>3 DEF IInv, TypeOK
  <1>5. TypeOK'
    BY <1>1, <1>3, <1>4 DEF IInv, TypeOK, Started
  <1>6. Alone' /\ MemoryPromised' /\ Asked'
    BY <1>1, <1>3, <1>4 DEF IInv, TypeOK, Alone, MemoryPromised, Asked, Ready
  <1>7. WritesMemory'
    <2>1. \A q \in Request \ {r} : at[q] \notin Ready
      BY <1>1, NobodyElse DEF Ready
    <2>2. \A k \in DOMAIN change[r] : change[r][k] \in allowed'[k]
      BY <1>1, <1>3
    <2> QED BY <1>1, <1>2, <2>1, <2>2 DEF IInv, TypeOK, WritesMemory, Ready
  <1>8. AcknowledgedIsStored'
    <2> SUFFICES ASSUME NEW k \in Key, ~blind PROVE file'[k] \in allowed'[k]
      BY <1>1 DEF AcknowledgedIsStored
    <2>1. file'[k] = IF k \in DOMAIN change[r] THEN change[r][k] ELSE memory[k]
      BY <1>1, <1>2, ChangedPromised
    <2>2. memory # None
      BY <1>1 DEF IInv, MemoryPromised, Ready
    <2>3. memory[k] \in allowed[k]
      BY <2>2 DEF IInv, MemoryPromised
    <2> QED BY <1>1, <1>4, <2>1, <2>3
  <1> QED BY <1>5, <1>6, <1>7, <1>8 DEF IInv

LEMMA AcknowledgeIInv ==
    ASSUME IInv, NEW r \in Request, Acknowledge(r)
    PROVE  IInv'
  <1>1. /\ at' = [at EXCEPT ![r] = "done"] /\ at[r] = "renamed"
        /\ queue' = Tail(queue) /\ memory' = next[r]
        /\ allowed' = [k \in Key |-> IF k \in DOMAIN change[r]
                                     THEN {change[r][k]} ELSE allowed[k]]
        /\ UNCHANGED <<file, loading, change, next, faults, blind>>
    BY DEF Acknowledge, Leave, Goto
  <1>2. /\ memory \in Store /\ memory # None /\ ~loading
        /\ change[r] \in Change /\ next[r] = Changed(memory, change[r])
        /\ file = next[r]
    BY <1>1 DEF IInv, TypeOK, MemoryPromised, WritesMemory, Ready
  <1>3. /\ DOMAIN change[r] \subseteq Key
        /\ \A k \in DOMAIN change[r] : change[r][k] \in Value \cup {None}
        /\ next[r] \in Store /\ next[r] # Broken
    BY <1>2, ChangeType, ChangedType, InvalidAssumption
  <1>4. queue' \in Seq(Request) /\ \A q \in Request : at'[q] \notin Ready \cup {"load"}
    BY <1>1, NobodyElse DEF IInv, TypeOK, Ready
  <1>5. ~blind => \A k \in Key : next[r][k] \in allowed'[k]
    BY <1>1, <1>2, ChangedPromised DEF IInv, MemoryPromised
  <1>6. TypeOK'
    BY <1>1, <1>3, <1>4 DEF IInv, TypeOK, Over
  <1>7. Alone' /\ WritesMemory' /\ Asked'
    BY <1>1, <1>4 DEF IInv, TypeOK, Alone, WritesMemory, Asked, Ready
  <1>8. MemoryPromised' /\ AcknowledgedIsStored'
    BY <1>1, <1>2, <1>3, <1>4, <1>5 DEF MemoryPromised, AcknowledgedIsStored
  <1> QED BY <1>6, <1>7, <1>8 DEF IInv

-----------------------------------------------------------------------------
(* Failures, and the owner of the file *)

LEMMA CrashIInv ==
    ASSUME IInv, Crash
    PROVE  IInv'
  <1>1. /\ memory' = None /\ loading' = FALSE /\ queue' = <<>>
        /\ at' = [r \in Request |-> IF at[r] \in Started THEN "lost" ELSE at[r]]
        /\ faults' \in 0..MaxFaults
        /\ UNCHANGED <<file, change, next, allowed, blind>>
    BY ConstantsAssumption DEF history, Crash, CanFail, IInv, TypeOK
  <1>2. \A r \in Request : /\ at'[r] \in {"out"} \cup Over
                           /\ at'[r] \notin Ready \cup {"load"}
    BY <1>1 DEF IInv, TypeOK, Started, Over, Ready
  <1>3. TypeOK'
    BY <1>1, <1>2, EmptySeq DEF IInv, TypeOK
  <1>4. Alone' /\ MemoryPromised' /\ WritesMemory' /\ AcknowledgedIsStored' /\ Asked'
    BY <1>1, <1>2 DEF IInv, Alone, MemoryPromised, WritesMemory,
                      AcknowledgedIsStored, Asked, Ready, Over
  <1> QED BY <1>3, <1>4 DEF IInv

LEMMA MendIInv ==
    ASSUME IInv, Mend
    PROVE  IInv'
  <1>1. /\ file = Broken /\ file' \in Store
        /\ allowed' = [k \in Key |-> {file'[k]}]
        /\ UNCHANGED <<memory, loading, queue, at, change, next, faults, blind>>
    BY DEF Mend
  <1>2. /\ ~blind => memory = None
        /\ \A r \in Request : at[r] # "renamed"
    BY <1>1, ChangedType, InvalidAssumption
       DEF IInv, TypeOK, MemoryPromised, WritesMemory, Ready
  <1>3. TypeOK'
    <2>1. \A k \in Key : {file'[k]} \subseteq Value \cup {None}
      BY <1>1 DEF Store
    <2> QED BY <1>1, <2>1 DEF IInv, TypeOK
  <1>4. Alone' /\ MemoryPromised' /\ WritesMemory' /\ Asked'
    BY <1>1, <1>2 DEF IInv, TypeOK, Alone, MemoryPromised, WritesMemory, Asked, Ready
  <1>5. AcknowledgedIsStored'
    BY <1>1 DEF AcknowledgedIsStored
  <1> QED BY <1>3, <1>4, <1>5 DEF IInv

-----------------------------------------------------------------------------
(* Every step *)

LEMMA MutationIInv ==
    ASSUME IInv, NEW r \in Request, Mutation(r)
    PROVE  IInv'
  <1>1. CASE Begin(r)
    BY <1>1, BeginIInv
  <1>2. CASE Refuse(r)
    <2>1. /\ at[r] \in Ready /\ Leave(r, "failed") /\ faults' \in 0..MaxFaults
          /\ UNCHANGED <<file, memory, loading, change, next, allowed, blind>>
      BY <1>2 DEF history, Refuse, Ready, IInv, TypeOK
    <2> QED BY <2>1, EndsIInv
  <1>3. CASE Compute(r)
    BY <1>3, ComputeIInv
  <1>4. CASE Rename(r)
    BY <1>4, RenameIInv
  <1>5. CASE Acknowledge(r)
    BY <1>5, AcknowledgeIInv
  <1>6. CASE WriteFails(r)
    <2>1. /\ at[r] \in Ready /\ Leave(r, "failed") /\ faults' \in 0..MaxFaults
          /\ UNCHANGED <<file, memory, loading, change, next, allowed, blind>>
      BY <1>6, ConstantsAssumption DEF history, WriteFails, CanFail, Ready, IInv, TypeOK
    <2> QED BY <2>1, EndsIInv
  <1> QED BY <1>1, <1>2, <1>3, <1>4, <1>5, <1>6 DEF Mutation

LEMMA NextIInv ==
    ASSUME IInv, [Next]_vars
    PROVE  IInv'
  <1>1. CASE \E r \in Request : List(r)
    BY <1>1, ListIInv
  <1>2. CASE \E r \in Request : Mutation(r)
    BY <1>2, MutationIInv
  <1>3. CASE \E r \in Request : \E c \in Change \cup {Invalid} : Enqueue(r, c)
    BY <1>3, EnqueueIInv
  <1>4. CASE Loaded \/ NotSeen
    BY <1>4, LoadedIInv
  <1>5. CASE NotLoaded
    BY <1>5, NotLoadedIInv
  <1>6. CASE Crash
    BY <1>6, CrashIInv
  <1>7. CASE Mend
    BY <1>7, MendIInv
  <1>8. CASE UNCHANGED vars
    BY <1>8 DEF IInv, TypeOK, AcknowledgedIsStored, Alone, MemoryPromised, WritesMemory,
                Asked, Ready, vars, history
  <1> QED BY <1>1, <1>2, <1>3, <1>4, <1>5, <1>6, <1>7, <1>8 DEF Next

\* The invariant, whatever is asked of the server and whatever fails.
THEOREM InvariantHolds == Spec => []IInv
  <1>1. Init => IInv
    BY InitIInv
  <1>2. IInv /\ [Next]_vars => IInv'
    BY NextIInv
  <1> QED BY <1>1, <1>2, PTL DEF Spec

\* Every variable has its type.
THEOREM TypeCorrect == Spec => []TypeOK
  <1>1. IInv => TypeOK
    BY DEF IInv
  <1> QED BY <1>1, InvariantHolds, PTL

\* An acknowledged change of a variable is in the file until the variable is
\* changed again, for any number of concurrent requests, failures and crashes.
THEOREM AcknowledgedChangesLast == Spec => []AcknowledgedIsStored
  <1>1. IInv => AcknowledgedIsStored
    BY DEF IInv
  <1> QED BY <1>1, InvariantHolds, PTL

=============================================================================
