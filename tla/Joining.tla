------------------------------ MODULE Joining -------------------------------
(***************************************************************************)
(* libraries/provisioning/joining.c: a new node scans for joining beacons, *)
(* joins the network of the one its application picks and waits for a      *)
(* route.  It ends by calling end_cb, here the parameter `end` of each     *)
(* action: the result given to the callback, or NULL if it is not called.  *)
(*                                                                         *)
(* Delays are left out: a scheduled task may run at any time after it was  *)
(* asked, so that a timeout may come before, after or instead of the event *)
(* it guards.                                                              *)
(***************************************************************************)
EXTENDS Integers, Sequences

CONSTANTS
    NULL,
    nb_retry,
    Scans,          \* what a scan may hear: sequences of networks
    Proxies,        \* the networks that send beacons of JOINING_BEACON_TYPE
    Others,         \* the networks whose beacons are of another type
    Rooms           \* whether the scheduler has room for one more task

ASSUME JoiningAssumption ==
    /\ nb_retry \in Nat /\ Rooms \subseteq BOOLEAN
    /\ NULL \notin Proxies \cup Others
    /\ Scans \subseteq Seq(Proxies \cup Others)

JoiningResults == {"SUCCESS", "TIMEOUT", "ERROR_SCANNING_BEACONS", "ERROR_JOINING",
                   "ERROR_NO_ROUTE", "STOPPED", "ERROR_INTERNAL"}

VARIABLES
    j_state, j_events, j_retry,     \* m_state, m_events and m_retry of joining.c
    j_run_task, j_timeout_task,     \* whether its two tasks are scheduled
    j_route_cb,                     \* route_changed_cb is registered
    m_beacons,                      \* m_beacon_rx_buffer, a list; empty once it will not be used
    scanning,                       \* the stack is scanning
    network, route                  \* the network the stack has joined; the route is valid

joining == <<j_state, j_events, j_retry, j_run_task, j_timeout_task, j_route_cb, m_beacons>>
radio == <<scanning, network, route>>

JoiningInit ==
    /\ j_state = "IDLE" /\ j_events = {} /\ j_retry = 0
    /\ j_run_task = FALSE /\ j_timeout_task = FALSE /\ j_route_cb = FALSE
    /\ m_beacons = << >>
    /\ scanning = FALSE /\ network = NULL /\ route = FALSE

-----------------------------------------------------------------------------
(* The walk over the list: what is left of it after the beacons up to i.   *)
(* start is the first beacon that is kept; prev stays on the very first    *)
(* beacon, whose next pointer (after) is the only one ever changed.        *)
sort_walk(beacons) ==
    LET walk[i \in 0 .. Len(beacons)] ==
            IF i = 0 THEN [start |-> 1, after |-> 2]
            ELSE IF beacons[i] \in Proxies THEN walk[i - 1]
            ELSE IF i = walk[i - 1].start THEN [walk[i - 1] EXCEPT !.start = i + 1]
            ELSE [walk[i - 1] EXCEPT !.after = i + 1]
    IN  walk[Len(beacons)]

\* Mutant: the beacons of another type stay in the list.
sort_provisioning_beacons_not(beacons) == beacons

sort_provisioning_beacons(beacons) ==
    LET w == sort_walk(beacons)
        n == Len(beacons)
    IN  IF w.start = 1 /\ n > 0
        THEN <<beacons[1]>> \o SubSeq(beacons, w.after, n)
        ELSE SubSeq(beacons, w.start, n)

(* What sort_provisioning_beacons() is for: the list holds the provisioning *)
(* beacons that were heard, all of them, in their order.                   *)
ProvisioningBeacons(list, heard) ==
    LET wanted == {i \in DOMAIN heard : heard[i] \in Proxies}
    IN \E at \in [DOMAIN list -> wanted] :
          /\ \A j, k \in DOMAIN list : j < k => at[j] < at[k]
          /\ \A i \in wanted : \E k \in DOMAIN list : at[k] = i
          /\ \A k \in DOMAIN list : list[k] = heard[at[k]]

-----------------------------------------------------------------------------
(* What reset_joining() changes, but for the state, which some callers     *)
(* overwrite.                                                              *)
reset_joining(stopJoining) ==
    /\ scanning' = FALSE
    /\ IF stopJoining THEN network' = NULL /\ route' = FALSE
       ELSE UNCHANGED <<network, route>>
    /\ j_timeout_task' = FALSE /\ j_route_cb' = FALSE /\ j_events' = {}

(* An event of the stack or of the timer: it is noted and the state        *)
(* machine scheduled.                                                      *)
raise(event, room, end) ==
    IF j_run_task \/ room
    THEN /\ j_events' = j_events \cup {event}
         /\ j_run_task' = TRUE
         /\ end = NULL
         /\ UNCHANGED <<j_state, j_route_cb>>
    ELSE /\ reset_joining(TRUE)
         /\ j_state' = "IDLE" /\ UNCHANGED j_run_task
         /\ end = "ERROR_INTERNAL"

joining_beacon_rx_cb(room, end) ==
    /\ scanning
    /\ raise("scan_end", room, end)
    /\ m_beacons' \in Scans
    /\ scanning' = FALSE
    /\ j_run_task \/ room => UNCHANGED <<network, route, j_timeout_task>>
    /\ UNCHANGED j_retry

(* The stack finds or loses its route in the network it has joined.        *)
route_changed_cb(room, end) ==
    /\ network # NULL
    /\ IF j_route_cb
       THEN raise("route_change", room, end)
       ELSE end = NULL /\ UNCHANGED <<j_events, j_run_task, j_state, j_route_cb>>
    /\ j_run_task \/ room \/ ~j_route_cb =>
        route' \in BOOLEAN /\ UNCHANGED <<network, scanning, j_timeout_task>>
    /\ UNCHANGED <<j_retry, m_beacons>>

joining_timeout_task(room, end) ==
    /\ j_timeout_task
    /\ j_timeout_task' = FALSE
    /\ raise("timeout", room, end)
    /\ j_run_task \/ room => UNCHANGED radio
    /\ UNCHANGED <<j_retry, m_beacons>>

-----------------------------------------------------------------------------
joining_state_idle(end) ==
    /\ j_state = "IDLE"
    /\ IF "start" \in j_events
       THEN j_state' = "START" /\ j_retry' = 0 /\ j_run_task' = TRUE
       ELSE j_run_task' = FALSE /\ UNCHANGED <<j_state, j_retry>>
    /\ j_timeout_task' = FALSE /\ j_events' = {}
    /\ end = NULL
    /\ UNCHANGED <<j_route_cb, m_beacons, radio>>

(* A failed attempt: the joining starts again, or ends once there were too *)
(* many.                                                                   *)
retry(res, end) ==
    /\ j_retry' = j_retry + 1
    /\ IF j_retry + 1 > nb_retry
       THEN /\ reset_joining(TRUE)
            /\ j_state' = "IDLE" /\ j_run_task' = FALSE
            /\ end = res
       ELSE /\ j_state' = "START" /\ j_run_task' = TRUE
            /\ end = NULL

joining_state_start(ok, room, end) ==
    /\ j_state = "START"
    /\ m_beacons' = << >>
    /\ IF ~ok
       THEN /\ retry("ERROR_SCANNING_BEACONS", end)
            /\ end = NULL => /\ scanning' = FALSE /\ j_events' = {}
                             /\ UNCHANGED <<network, route, j_timeout_task, j_route_cb>>
       ELSE /\ j_state' = "WAIT_SCAN_END" /\ j_run_task' = FALSE
            /\ UNCHANGED j_retry
            /\ IF room
               THEN /\ scanning' = TRUE /\ j_timeout_task' = TRUE
                    /\ j_events' = {}
                    /\ end = NULL
                    /\ UNCHANGED <<network, route, j_route_cb>>
               ELSE reset_joining(TRUE) /\ end = "ERROR_INTERNAL"

(* The timeout that ends the wait for a route could not be scheduled.      *)
wait_route(room, event, cb, end) ==
    IF room
    THEN /\ j_state' = "WAIT_ROUTE_CHANGE" /\ j_timeout_task' = TRUE
         /\ j_events' = event /\ j_route_cb' = cb
         /\ j_run_task' = (event # {})
         /\ end = NULL
    ELSE /\ reset_joining(TRUE)
         /\ j_state' = "IDLE" /\ j_run_task' = (event # {})
         /\ end = "ERROR_INTERNAL"

(* The application picks a beacon of the sorted list, or none.  The node   *)
(* joins its network, unless it has already.  If the stack does not say    *)
(* which network it is in, the node goes on as if it were this one.        *)
scan_ended(ok, room, end) ==
    LET beacons == sort_provisioning_beacons(m_beacons) IN
    \/ /\ retry("ERROR_SCANNING_BEACONS", end)
       /\ end = NULL => j_timeout_task' = FALSE /\ j_events' = {} /\ UNCHANGED <<radio, j_route_cb>>
    \/ \E i \in DOMAIN beacons :
        \/ /\ network # beacons[i] /\ ok
           /\ wait_route(room, {}, TRUE, end)
           /\ room => network' = beacons[i] /\ route' = FALSE /\ UNCHANGED scanning
           /\ UNCHANGED j_retry
        \/ /\ network # beacons[i] /\ ~ok
           /\ retry("ERROR_JOINING", end)
           /\ end = NULL => j_timeout_task' = FALSE /\ j_events' = {} /\ UNCHANGED <<radio, j_route_cb>>
        \/ /\ wait_route(room, {"route_change"}, j_route_cb, end)
           /\ room => UNCHANGED radio
           /\ UNCHANGED j_retry

joining_state_wait_scan_end(ok, room, end) ==
    /\ j_state = "WAIT_SCAN_END"
    /\ m_beacons' = IF "scan_end" \in j_events THEN << >> ELSE m_beacons
    /\ IF "scan_end" \in j_events THEN scan_ended(ok, room, end)
       ELSE IF "timeout" \in j_events
       THEN /\ retry("TIMEOUT", end)
            /\ end = NULL => j_events' = {} /\ UNCHANGED <<radio, j_timeout_task, j_route_cb>>
       ELSE /\ j_run_task' = FALSE /\ end = NULL
            /\ UNCHANGED <<j_state, j_events, j_retry, j_timeout_task, j_route_cb, radio>>

joining_state_wait_route_change(end) ==
    /\ j_state = "WAIT_ROUTE_CHANGE"
    /\ UNCHANGED m_beacons
    /\ IF route
       THEN /\ reset_joining(FALSE)
            /\ j_state' = "IDLE" /\ j_run_task' = FALSE
            /\ end = "SUCCESS"
            /\ UNCHANGED j_retry
       ELSE IF "timeout" \in j_events
       THEN /\ retry("ERROR_NO_ROUTE", end)
            /\ end = NULL => /\ j_events' = j_events \ {"route_change"} /\ j_route_cb' = FALSE
                             /\ UNCHANGED <<radio, j_timeout_task>>
       ELSE /\ j_run_task' = FALSE /\ end = NULL
            /\ j_events' = j_events \ {"route_change"}
            /\ UNCHANGED <<j_state, j_retry, j_timeout_task, j_route_cb, radio>>

joining_run_state_machine(ok, room, end) ==
    /\ j_run_task
    /\ \/ joining_state_idle(end)
       \/ joining_state_start(ok, room, end)
       \/ joining_state_wait_scan_end(ok, room, end)
       \/ joining_state_wait_route_change(end)

-----------------------------------------------------------------------------
Provisioning_Joining_start ==
    /\ j_events' = j_events \cup {"start"}
    /\ j_run_task' = TRUE
    /\ UNCHANGED <<j_state, j_retry, j_timeout_task, j_route_cb, m_beacons, radio>>

Provisioning_Joining_stop ==
    /\ reset_joining(TRUE)
    /\ j_state' = "IDLE"
    /\ m_beacons' = << >>
    /\ UNCHANGED <<j_retry, j_run_task>>

JoiningTypeOK ==
    /\ j_state \in {"IDLE", "START", "WAIT_SCAN_END", "WAIT_ROUTE_CHANGE"}
    /\ j_events \subseteq {"scan_end", "route_change", "timeout", "start"}
    /\ j_retry \in 0 .. nb_retry + 1
    /\ j_run_task \in BOOLEAN /\ j_timeout_task \in BOOLEAN /\ j_route_cb \in BOOLEAN
    /\ m_beacons \in Scans \cup {<< >>}
    /\ scanning \in BOOLEAN /\ route \in BOOLEAN
    /\ network \in Proxies \cup Others \cup {NULL}
=============================================================================
