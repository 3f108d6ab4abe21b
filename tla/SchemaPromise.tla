--------------------------- MODULE SchemaPromise ---------------------------
(***************************************************************************)
(* What runMigrations() promises its callers: a schema that becomes        *)
(* complete once and stays so, and no caller that goes on before it is.    *)
(***************************************************************************)
CONSTANT Boot

VARIABLES complete, ready

vars == <<complete, ready>>

Init == complete \in BOOLEAN /\ ready = {}

Complete == complete' = TRUE /\ UNCHANGED ready

\* a call returns, into a state whose schema is complete
GoOn(b) == complete' = TRUE /\ ready' = ready \cup {b}

BootAgain(b) == ready' = ready \ {b} /\ UNCHANGED complete

Next == Complete \/ \E b \in Boot : GoOn(b) \/ BootAgain(b)

Spec == Init /\ [][Next]_vars
=============================================================================
