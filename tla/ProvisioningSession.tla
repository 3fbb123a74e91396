------------------------ MODULE ProvisioningSession -------------------------
(***************************************************************************)
(* What the application of a new node may rely on of                       *)
(* libraries/provisioning: a session is started and ends once, with a      *)
(* result, and every call of Provisioning_stop() is answered by one call   *)
(* of end_cb, whether there is a session or not.                           *)
(***************************************************************************)
EXTENDS Naturals

CONSTANTS Results, NULL

VARIABLES
    session,        \* number of sessions started
    open,           \* the last one has not ended
    calls,          \* how often end_cb was called since it was started
    result,         \* the result it was given last
    stops           \* how often the application has stopped since then

vars == <<session, open, calls, result, stops>>

Init == session = 0 /\ open = FALSE /\ calls = 0 /\ result = NULL /\ stops = 0

Start ==
    /\ ~open
    /\ session' = session + 1 /\ open' = TRUE
    /\ calls' = 0 /\ result' = NULL /\ stops' = 0

End ==
    /\ open
    /\ open' = FALSE /\ calls' = 1
    /\ result' \in Results
    /\ UNCHANGED <<session, stops>>

Stop ==
    /\ open' = FALSE /\ calls' = calls + 1
    /\ result' = "STOPPED" /\ stops' = stops + 1
    /\ UNCHANGED session

Next == Start \/ End \/ Stop

Spec == Init /\ [][Next]_vars
=============================================================================
