--------------------------- MODULE MCRouterBridge ---------------------------
(* Model values for the TLC runs of RouterBridge. *)
EXTENDS RouterBridge

CONSTANTS t, k, d1, d2, s1, s2, s3, s4

\* All messages in one chat, whichever it is: sessions are never shared.
OneChat == {[m \in Msg |-> c] : c \in Chat}
=============================================================================
