------------------------------- MODULE EnvStore -------------------------------
(***************************************************************************)
(* EnvService of the desktop server (env-file.ts): environment variables   *)
(* in a JSON file, which the server changes and the shells read when they  *)
(* start a child.  The requests of the HTTP API share one load of the file *)
(* into memory, their changes queue, and each writes the whole file.       *)
(***************************************************************************)
EXTENDS Integers, Sequences

CONSTANTS
    Request,    \* requests of the HTTP API
    Key, Value,
    None,       \* no value
    Invalid,    \* a change that names an ill-formed or a reserved variable
    Broken,     \* a file that cannot be read as a store
    MaxFaults   \* bound on failures and crashes

ASSUME ConstantsAssumption ==
    /\ None \notin Value
    /\ MaxFaults \in Nat

Store == [Key -> Value \cup {None}]

\* upsertMany sets some keys, delete removes one.
Upsert == UNION {[K -> Value] : K \in (SUBSET Key) \ {{}}}
Delete == {[k \in {key} |-> None] : key \in Key}
Change == Upsert \cup Delete

ASSUME InvalidAssumption ==
    /\ Invalid \notin Change /\ None \notin Change \cup Store /\ Broken \notin Store

VARIABLES
    file,       \* the file
    memory,     \* this.variables, None until it is loaded
    loading,    \* loadPromise is there
    queue,      \* requests in the mutationQueue
    at,         \* Request -> what it awaits
    change,     \* Request -> the change it asks for
    next,       \* Request -> its nextVariables
    faults,
    blind,      \* history: a load has taken the file for a missing one
    allowed     \* history: Key -> the values promised to its users

history == <<blind, allowed>>
vars    == <<file, memory, loading, queue, at, change, next, faults, history>>

Started == {"queued", "list", "load", "loaded", "write", "renamed"}
Over    == {"done", "failed", "lost"}

TypeOK ==
    /\ file \in Store \cup {Broken}
    /\ memory \in Store \cup {None}
    /\ loading \in BOOLEAN
    /\ queue \in Seq(Request)
    /\ at \in [Request -> {"out"} \cup Started \cup Over]
    /\ change \in [Request -> Change \cup {Invalid, None}]
    /\ next \in [Request -> Store \cup {None}]
    /\ faults \in 0..MaxFaults /\ blind \in BOOLEAN
    /\ allowed \in [Key -> SUBSET (Value \cup {None})]

\* Whatever the last server left, or somebody's editor.
Init ==
    /\ file \in Store \cup {Broken}
    /\ memory = None /\ loading = FALSE /\ queue = <<>>
    /\ at = [r \in Request |-> "out"]
    /\ change = [r \in Request |-> None] /\ next = [r \in Request |-> None]
    /\ faults = 0 /\ blind = FALSE
    /\ allowed = [k \in Key |-> IF file = Broken THEN {} ELSE {file[k]}]

Goto(r, step) == at' = [at EXCEPT ![r] = step]

CanFail == faults < MaxFaults /\ faults' = faults + 1

-----------------------------------------------------------------------------
\* ensureLoaded: the first to come starts the load, the others await it.
EnsureLoaded(r, waiting, ready) ==
    /\ Goto(r, IF memory = None THEN waiting ELSE ready)
    /\ loading' = (memory = None)

\* list
List(r) ==
    /\ at[r] = "out"
    /\ EnsureLoaded(r, "list", "done")
    /\ UNCHANGED <<file, memory, queue, change, next, faults, history>>

\* upsertMany, delete: enqueueMutation
Enqueue(r, c) ==
    /\ at[r] = "out"
    /\ change' = [change EXCEPT ![r] = c]
    /\ queue' = Append(queue, r)
    /\ Goto(r, "queued")
    /\ UNCHANGED <<file, memory, loading, next, faults, history>>

AnyTurn(r) == TRUE

Turn(r) == queue # <<>> /\ Head(queue) = r

Begin(r) ==
    /\ at[r] = "queued" /\ Turn(r)
    /\ EnsureLoaded(r, "load", "loaded")
    /\ UNCHANGED <<file, memory, queue, change, next, faults, history>>

\* The operation is over, and with it its promise in the queue.
Leave(r, how) == Goto(r, how) /\ queue' = Tail(queue)

\* All who await the load go on with the store.
Load(store) ==
    /\ loading
    /\ memory' = store /\ loading' = FALSE
    /\ at' = [r \in Request |-> CASE at[r] = "load" -> "loaded"
                                  [] at[r] = "list" -> "done"
                                  [] OTHER -> at[r]]
    /\ UNCHANGED <<file, queue, change, next, allowed>>

Loaded ==
    /\ file # Broken
    /\ Load(file)
    /\ UNCHANGED <<faults, blind>>

\* A stat that fails, for whatever reason, means to readStore that there is no
\* file yet (exists).
NotSeen ==
    /\ CanFail
    /\ Load([k \in Key |-> None])
    /\ blind' = TRUE

\* readStore throws: all who await the load fail, the next one tries again.
NotLoaded ==
    /\ loading
    /\ \/ file = Broken /\ faults' = faults
       \/ CanFail
    /\ loading' = FALSE
    /\ at' = [r \in Request |-> IF at[r] \in {"load", "list"} THEN "failed" ELSE at[r]]
    /\ queue' = IF \E r \in Request : at[r] = "load" THEN Tail(queue) ELSE queue
    /\ UNCHANGED <<file, memory, change, next, history>>

Changed(store, c) == [k \in Key |-> IF k \in DOMAIN c THEN c[k] ELSE store[k]]

\* An entry is refused, or the key to delete is not there: nothing is written.
Refuse(r) ==
    /\ at[r] = "loaded"
    /\ \/ change[r] = Invalid
       \/ change[r] \in Delete /\ Changed(memory, change[r]) = memory
    /\ Leave(r, "failed")
    /\ UNCHANGED <<file, memory, loading, change, next, faults, history>>

Compute(r) ==
    /\ at[r] = "loaded" /\ change[r] # Invalid
    /\ change[r] \in Delete => Changed(memory, change[r]) # memory
    /\ next' = [next EXCEPT ![r] = Changed(memory, change[r])]
    /\ Goto(r, "write")
    /\ UNCHANGED <<file, memory, loading, queue, change, faults, history>>

\* The temporary file has been written and renamed over the old one.
Rename(r) ==
    /\ at[r] = "write"
    /\ file' = next[r]
    /\ Goto(r, "renamed")
    /\ allowed' = [k \in Key |->
          IF k \in DOMAIN change[r] THEN allowed[k] \cup {change[r][k]} ELSE allowed[k]]
    /\ UNCHANGED <<memory, loading, queue, change, next, faults, blind>>

\* writeStore is over: the request is answered with success.
Acknowledge(r) ==
    /\ at[r] = "renamed"
    /\ memory' = next[r]
    /\ Leave(r, "done")
    /\ allowed' = [k \in Key |->
          IF k \in DOMAIN change[r] THEN {change[r][k]} ELSE allowed[k]]
    /\ UNCHANGED <<file, loading, change, next, faults, blind>>

\* A step of writeStore throws: before the rename, or the chmod after it.
WriteFails(r) ==
    /\ CanFail /\ at[r] \in {"write", "renamed"}
    /\ Leave(r, "failed")
    /\ UNCHANGED <<file, memory, loading, change, next, history>>

\* The server dies; the next one starts with the file.
Crash ==
    /\ CanFail
    /\ memory' = None /\ loading' = FALSE /\ queue' = <<>>
    /\ at' = [r \in Request |-> IF at[r] \in Started THEN "lost" ELSE at[r]]
    /\ UNCHANGED <<file, change, next, history>>

\* "Fix or remove the local env file before editing."
Mend ==
    /\ file = Broken
    /\ file' \in Store
    /\ allowed' = [k \in Key |-> {file'[k]}]
    /\ UNCHANGED <<memory, loading, queue, at, change, next, faults, blind>>

-----------------------------------------------------------------------------
Mutation(r) ==
    Begin(r) \/ Refuse(r) \/ Compute(r) \/ Rename(r) \/ Acknowledge(r) \/ WriteFails(r)

Next ==
    \/ \E r \in Request :
          List(r) \/ Mutation(r) \/ \E c \in Change \cup {Invalid} : Enqueue(r, c)
    \/ Loaded \/ NotSeen \/ NotLoaded \/ Crash \/ Mend

Spec == Init /\ [][Next]_vars

-----------------------------------------------------------------------------
\* What the file holds for a key, for whoever reads it at any moment, is what
\* the last acknowledged change of the key made it, or a change of the key that
\* was begun afterwards and has not been acknowledged.  No other request's
\* write, failed write, crash or reload brings back an older value, and a file
\* that cannot be read is left to its owner, unless a stat of it failed, after
\* which the next change replaces all that is there ("concurrent upserts do not
\* overwrite each other", "upsertMany does not overwrite an invalid store").
AcknowledgedIsStored ==
    ~blind /\ file # Broken => \A k \in Key : file[k] \in allowed[k]

=============================================================================
