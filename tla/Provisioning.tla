---------------------------- MODULE Provisioning ----------------------------
(***************************************************************************)
(* libraries/provisioning/provisioning.c: the side of the new node.  It    *)
(* joins a network (Joining), asks for its parameters with a START packet, *)
(* waits for the DATA, acknowledges it and hands the data to data.c, which *)
(* tells the application and reboots the node with the new parameters.     *)
(*                                                                         *)
(* Packets are never taken off msgs: each may be received late, several    *)
(* times, or never.  A packet carries, for the properties only, the        *)
(* session it was sent for (`from`), which the code does not know.         *)
(***************************************************************************)
EXTENDS Joining

CONSTANTS
    Confs,              \* [method, id]: a configuration and a random session id
    IdWrap,             \* 2^8: number of session ids
    timeout_s,          \* the timeout given to Provisioning_init
    TimeoutWrap,        \* 2^16: number of values of m_conf.timeout_s
    MaxSessions,        \* bound on the sessions started
    MaxPackets,         \* bound on the packets sent in answer
    MaxStops,           \* bound on the calls of Provisioning_stop() since a start
    AckAccepted,        \* outcomes of sending the acknowledgement
    StartInCallback     \* whether the application starts again from end_cb

Methods == {"UNSECURED", "SECURED", "EXTENDED_UID"}

ASSUME ProvisioningAssumption ==
    /\ IdWrap \in Nat \ {0}
    /\ Confs \subseteq [method : Methods, id : 0 .. IdWrap - 1]
    /\ TimeoutWrap \in Nat \ {0} /\ timeout_s \in 1 .. TimeoutWrap - 1
    /\ MaxSessions \in Nat /\ MaxPackets \in Nat /\ MaxStops \in Nat
    /\ AckAccepted \subseteq BOOLEAN /\ StartInCallback \subseteq BOOLEAN

VARIABLES
    m_state, m_events, m_retry, m_session_id, m_joining_res,
    m_method, m_timeout_s,      \* m_conf.method, m_conf.timeout_s
    m_data,                     \* m_data_buffer
    m_rx_item,                  \* m_ptk_received_item is registered
    run_task, timeout_task,     \* whether the two tasks are scheduled
    acks,                       \* acknowledgements the stack has not reported yet
    msgs,                       \* the packets sent so far
    session,                    \* number of sessions the application has started
    open,                       \* the last one has not ended
    calls, result,              \* calls of end_cb since it was started, and the last result
    stops,                      \* calls of Provisioning_stop() since it was started
    joining_end,                \* how the joining ended in the last one
    verified                    \* the packet the last one found valid

node == <<m_state, m_events, m_retry, m_session_id, m_joining_res, m_method,
          m_timeout_s, m_data, m_rx_item, run_task, timeout_task, acks>>
conf_vars == <<m_session_id, m_method, m_timeout_s>>
app == <<session, open, calls, result, stops, joining_end>>

Results == JoiningResults \cup {"NACK", "INVALID_DATA", "INVALID_PACKET", "ERROR_SENDING_DATA"}

(* A packet.  The key index, 0 or 1, tells encrypted DATA; a START has its *)
(* method there.  A short packet has no data of its own.                   *)
Packet == [type : {"START", "DATA", "NACK"}, id : 0 .. IdWrap - 1, key : {0, 1, 3},
           ok : BOOLEAN, short : BOOLEAN, from : 0 .. MaxSessions]
NoPacket == [type |-> "START", id |-> 0, key |-> 0, ok |-> FALSE, short |-> TRUE, from |-> 0]

ASSUME NullAssumption == NULL \notin Packet \cup Results

(* provisioning_method_e.                                                  *)
MethodId(method) ==
    IF method = "UNSECURED" THEN 0 ELSE IF method = "SECURED" THEN 1 ELSE 3

StartPacket == [NoPacket EXCEPT !.id = m_session_id, !.key = MethodId(m_method),
                                !.from = session]

ProvisioningInit ==
    /\ JoiningInit
    /\ m_state = "IDLE" /\ m_events = {} /\ m_retry = 0
    /\ \E conf \in Confs : m_method = conf.method /\ m_session_id = conf.id
    /\ m_joining_res = "SUCCESS" /\ m_timeout_s = timeout_s
    /\ m_data = NoPacket /\ m_rx_item = FALSE
    /\ run_task = FALSE /\ timeout_task = FALSE
    /\ acks = 0 /\ msgs = {}
    /\ session = 0 /\ open = FALSE /\ calls = 0 /\ result = NULL /\ stops = 0
    /\ joining_end = NULL
    /\ verified = NULL

-----------------------------------------------------------------------------
(* The node is running: neither rebooted with its new parameters nor lost  *)
(* in the reset below.                                                     *)
Alive == m_state \notin {"REBOOTED", "ENDLESS_RESET"}

StartSession ==
    /\ session' = session + 1 /\ open' = TRUE /\ calls' = 0
    /\ result' = NULL /\ stops' = 0 /\ joining_end' = NULL

(* m_conf.end_cb(res).  The application may start again from there, if the *)
(* library is idle by then.                                                *)
end_cb(res, idle) ==
    \E again \in StartInCallback :
        IF again /\ idle /\ session < MaxSessions
        THEN StartSession
        ELSE /\ open' = FALSE /\ calls' = calls + 1 /\ result' = res
             /\ UNCHANGED <<session, stops, joining_end>>

\* Mutant: the state is not reset.
reset_provisioning_in_state(state) ==
    /\ m_rx_item' = FALSE /\ timeout_task' = FALSE
    /\ UNCHANGED m_state
    /\ Provisioning_Joining_stop
    /\ m_joining_res' = "STOPPED"
    /\ run_task' = TRUE

(* reset_provisioning(), but for the events, which the functions of the    *)
(* states clear once more when they return: it stops the joining, whose    *)
(* callback end_joining_cb() schedules the state machine again.            *)
reset_provisioning(state) ==
    /\ m_rx_item' = FALSE /\ timeout_task' = FALSE
    /\ m_state' = state
    /\ Provisioning_Joining_stop
    /\ m_joining_res' = "STOPPED"
    /\ run_task' = TRUE

(* An event is noted and the state machine scheduled.  With no room in the *)
(* scheduler the library is reset; that stops the joining, whose callback  *)
(* tries to schedule the state machine, and so on without end.             *)
note(event, room) ==
    /\ IF run_task \/ room
       THEN m_events' = m_events \cup {event} /\ run_task' = TRUE /\ UNCHANGED m_state
       ELSE m_state' = "ENDLESS_RESET" /\ UNCHANGED <<m_events, run_task>>
    /\ UNCHANGED <<m_retry, conf_vars, m_rx_item, msgs, verified, session, open, calls, result,
                   stops>>

-----------------------------------------------------------------------------
(* The events.                                                             *)

(* A packet without data leaves the data of the last one in the buffer.    *)
pkt_received_cb(m, room) ==
    /\ Alive
    /\ m_rx_item /\ m.type # "START"
    /\ m_data' = IF m.short THEN [m EXCEPT !.ok = m_data.ok, !.from = m_data.from] ELSE m
    /\ note("rxd_packet", room)
    /\ UNCHANGED <<m_joining_res, timeout_task, acks, joining_end, joining, radio>>

timeout(room) ==
    /\ Alive
    /\ timeout_task /\ timeout_task' = FALSE
    /\ note("timeout", room)
    /\ UNCHANGED <<m_joining_res, m_data, acks, joining_end, joining, radio>>

packet_sent_cb(room) ==
    /\ Alive
    /\ acks > 0 /\ acks' = acks - 1
    /\ note("ack_sent", room)
    /\ UNCHANGED <<m_joining_res, m_data, timeout_task, joining_end, joining, radio>>

(* The result the joining ended with is kept for state_wait_joining().     *)
end_joining_cb(res, room) ==
    /\ m_joining_res' = res /\ joining_end' = res
    /\ note("joined", room)
    /\ UNCHANGED <<m_data, timeout_task, acks>>

(* The steps of the joining, each of which may end it.                     *)
MayEnd(end, room) ==
    IF end = NULL THEN UNCHANGED <<node, msgs, verified, app>> ELSE end_joining_cb(end, room)

JoiningEnds == JoiningResults \cup {NULL}

JoiningScanEnd(room) ==
    Alive /\ \E end \in JoiningEnds : joining_beacon_rx_cb(room, end) /\ MayEnd(end, room)
JoiningRouteChange(room) ==
    Alive /\ \E end \in JoiningEnds : route_changed_cb(room, end) /\ MayEnd(end, room)
JoiningTimeout(room) ==
    Alive /\ \E end \in JoiningEnds : joining_timeout_task(room, end) /\ MayEnd(end, room)
JoiningRun(room) ==
    Alive /\ \E end \in JoiningEnds, ok \in BOOLEAN :
        joining_run_state_machine(ok, room, end) /\ MayEnd(end, room)

-----------------------------------------------------------------------------
(* The states.                                                             *)

\* Mutant: an event left from before is not cleared when a session starts.
state_idle_keeping(room) ==
    /\ m_state = "IDLE"
    /\ m_rx_item' = FALSE /\ timeout_task' = FALSE
    /\ IF "start" \notin m_events
       THEN /\ run_task' = FALSE /\ m_events' = {}
            /\ UNCHANGED <<m_state, m_retry, joining, radio>>
       ELSE /\ m_retry' = 0 /\ m_events' = m_events \ {"start"}
            /\ m_state' = "WAIT_JOINING" /\ run_task' = TRUE
            /\ Provisioning_Joining_start
    /\ UNCHANGED <<conf_vars, m_joining_res, m_data, acks, msgs, verified, app>>

state_idle(room) ==
    /\ m_state = "IDLE"
    /\ m_rx_item' = FALSE /\ timeout_task' = FALSE /\ m_events' = {}
    /\ IF "start" \notin m_events
       THEN /\ run_task' = FALSE
            /\ UNCHANGED <<m_state, m_retry, m_joining_res, joining, radio, app>>
       ELSE /\ m_retry' = 0
            /\ IF j_state = "IDLE" /\ (j_run_task \/ room)
               THEN /\ m_state' = "WAIT_JOINING" /\ run_task' = FALSE
                    /\ Provisioning_Joining_start
                    /\ UNCHANGED <<m_joining_res, app>>
               ELSE reset_provisioning("IDLE") /\ end_cb("ERROR_JOINING", TRUE)
    /\ UNCHANGED <<conf_vars, m_data, acks, msgs, verified>>

state_wait_joining ==
    /\ m_state = "WAIT_JOINING"
    /\ m_events' = {}
    /\ IF "joined" \notin m_events
       THEN /\ run_task' = FALSE
            /\ UNCHANGED <<m_state, m_session_id, m_joining_res, m_rx_item, timeout_task,
                           joining, radio, app>>
       ELSE IF m_joining_res = "SUCCESS"
       THEN /\ m_state' = "START" /\ run_task' = TRUE
            /\ m_session_id' = (m_session_id + 1) % IdWrap
            /\ UNCHANGED <<m_joining_res, m_rx_item, timeout_task, joining, radio, app>>
       ELSE /\ reset_provisioning("IDLE")
            /\ end_cb(m_joining_res', TRUE)
            /\ UNCHANGED m_session_id
    /\ UNCHANGED <<m_retry, m_method, m_timeout_s, m_data, acks, msgs, verified>>

\* Mutant: no timer is started with the START packet.
state_start_untimed(sent, room) ==
    /\ m_state = "START" /\ sent
    /\ m_events' = {}
    /\ msgs' = msgs \cup {StartPacket}
    /\ m_state' = "WAIT_DATA" /\ m_rx_item' = TRUE /\ run_task' = FALSE
    /\ UNCHANGED <<timeout_task, m_retry, conf_vars, m_joining_res, m_data, acks, verified,
                   joining, radio, app>>

state_start(sent, room) ==
    /\ m_state = "START"
    /\ m_events' = {}
    /\ IF ~sent
       THEN /\ m_retry' = m_retry + 1
            /\ IF m_retry + 1 > nb_retry
               THEN reset_provisioning("IDLE") /\ end_cb("ERROR_SENDING_DATA", TRUE)
               ELSE /\ run_task' = TRUE
                    /\ UNCHANGED <<m_state, m_joining_res, m_rx_item, timeout_task,
                                   joining, radio, app>>
            /\ UNCHANGED msgs
       ELSE /\ msgs' = msgs \cup {StartPacket}
            /\ IF room
               THEN /\ m_state' = "WAIT_DATA"
                    /\ m_rx_item' = TRUE /\ timeout_task' = TRUE /\ run_task' = FALSE
                    /\ UNCHANGED <<m_joining_res, joining, radio, app>>
               ELSE reset_provisioning("WAIT_DATA") /\ end_cb("ERROR_INTERNAL", TRUE)
            /\ UNCHANGED m_retry
    /\ UNCHANGED <<conf_vars, m_data, acks, verified>>

-----------------------------------------------------------------------------
(* data.c: whether the map holds both keys, the address and the channel of *)
(* the network, and only entries that are well formed.                     *)
parse_map(d) == d.ok

(* What process_data_packet() finds.  The key index says whether the       *)
(* packet is encrypted.  The MIC covers the whole of it, and was computed  *)
(* with the vector drawn for the session it answers.  SECURED and          *)
(* EXTENDED_UID are treated alike; only the decoding later leaves the MIC  *)
(* behind the data of EXTENDED_UID, where parse_map() does not look.       *)
process_data_packet(d) ==
    IF m_method = "UNSECURED"
    THEN IF d.key # 0 THEN "INVALID_PACKET" ELSE IF parse_map(d) THEN "SUCCESS" ELSE "INVALID_DATA"
    ELSE IF d.key = 1 /\ parse_map(d) /\ ~d.short /\ d.from = session THEN "SUCCESS"
    ELSE "INVALID_DATA"

received(d) ==
    IF d.id # m_session_id THEN "INVALID_PACKET"
    ELSE IF d.type = "NACK" THEN "NACK"
    ELSE IF d.type # "DATA" THEN "INVALID_PACKET"
    ELSE process_data_packet(d)

(* With a refusal the retries are used up.                                 *)
FailedAttempt(res) ==
    LET tries == IF res = "NACK" THEN nb_retry ELSE m_retry IN
    /\ m_retry' = tries + 1
    /\ IF tries + 1 > nb_retry
       THEN /\ reset_provisioning("IDLE")
            /\ end_cb(res, TRUE)
            /\ UNCHANGED m_timeout_s
       ELSE /\ m_timeout_s' = (2 * m_timeout_s) % TimeoutWrap
            /\ m_state' = "START" /\ run_task' = TRUE
            /\ m_rx_item' = FALSE /\ timeout_task' = FALSE
            /\ UNCHANGED <<m_joining_res, joining, radio, app>>
    /\ UNCHANGED <<acks, verified>>

\* Mutant: further packets are received while the acknowledgement is sent.
send_ack_packet_receiving(sent, room) ==
    /\ m_rx_item' = m_rx_item
    /\ m_state' = "WAIT_ACK_SENT" /\ timeout_task' = sent
    /\ run_task' = ~sent /\ acks' = IF sent THEN acks + 1 ELSE acks
    /\ UNCHANGED <<m_joining_res, joining, radio, app>>

(* The packet is valid: it is acknowledged and no other is received.       *)
send_ack_packet(sent, room) ==
    IF sent /\ ~room
    THEN /\ reset_provisioning("IDLE") /\ end_cb("ERROR_INTERNAL", TRUE)
         /\ acks' = acks + 1
    ELSE /\ m_rx_item' = FALSE
         /\ m_state' = "WAIT_ACK_SENT" /\ timeout_task' = sent
         /\ run_task' = ~sent /\ acks' = IF sent THEN acks + 1 ELSE acks
         /\ UNCHANGED <<m_joining_res, joining, radio, app>>

state_wait_data(sent, room) ==
    /\ m_state = "WAIT_DATA"
    /\ m_events' = {}
    /\ IF "rxd_packet" \in m_events
       THEN IF received(m_data) = "SUCCESS"
            THEN /\ send_ack_packet(sent, room)
                 /\ verified' = m_data
                 /\ UNCHANGED <<m_retry, m_timeout_s>>
            ELSE FailedAttempt(received(m_data))
       ELSE IF "timeout" \in m_events
       THEN FailedAttempt("TIMEOUT")
       ELSE /\ run_task' = FALSE
            /\ UNCHANGED <<m_state, m_retry, m_timeout_s, m_joining_res, m_rx_item, timeout_task,
                           acks, verified, joining, radio, app>>
    /\ UNCHANGED <<m_session_id, m_method, m_data, msgs>>

(* Provisioning_Data_decode() of valid data: the application is told, and  *)
(* says whether the parameters are to be applied, which reboots the node.  *)
Provisioning_Data_decode(apply) ==
    /\ end_cb("SUCCESS", FALSE)
    /\ apply => m_state' = "REBOOTED"

state_wait_ack_sent(apply) ==
    /\ m_state = "WAIT_ACK_SENT"
    /\ m_events' = {}
    /\ IF m_events \cap {"ack_sent", "timeout"} = {}
       THEN /\ run_task' = FALSE
            /\ UNCHANGED <<m_state, m_joining_res, m_rx_item, timeout_task, joining, radio, app>>
       ELSE IF ~parse_map(m_data)
       THEN reset_provisioning("IDLE") /\ end_cb("INVALID_DATA", TRUE)
       ELSE /\ Provisioning_Data_decode(apply)
            /\ IF apply
               THEN /\ run_task' = FALSE /\ timeout_task' = FALSE
                    /\ UNCHANGED <<m_joining_res, m_rx_item, joining, radio>>
               ELSE reset_provisioning("IDLE")
    /\ UNCHANGED <<m_retry, conf_vars, m_data, acks, msgs, verified>>

run_state_machine(sent, apply, room) ==
    /\ Alive /\ run_task
    /\ \/ state_idle(room)
       \/ state_wait_joining
       \/ state_start(sent, room)
       \/ (sent \in AckAccepted /\ state_wait_data(sent, room))
       \/ state_wait_ack_sent(apply)

-----------------------------------------------------------------------------
(* The calls of the application.                                           *)

(* The session id is drawn at random; that it happens to be one used a     *)
(* short while ago is left out.                                            *)
FreshId(id) == \A k \in 1 .. MaxSessions, m \in msgs : m.id # (id + k) % IdWrap

Provisioning_init(conf) ==
    /\ m_state = "IDLE" /\ j_state = "IDLE" /\ ~open
    /\ FreshId(conf.id)
    /\ m_method' = conf.method /\ m_session_id' = conf.id /\ m_timeout_s' = timeout_s
    /\ UNCHANGED <<m_state, m_events, m_retry, m_joining_res, m_data, m_rx_item, run_task,
                   timeout_task, acks, msgs, verified, app, joining, radio>>

Provisioning_start(room) ==
    /\ m_state = "IDLE" /\ ~open
    /\ session < MaxSessions
    /\ IF run_task \/ room
       THEN /\ run_task' = TRUE /\ m_events' = m_events \cup {"start"}
            /\ StartSession /\ verified' = NULL
            /\ UNCHANGED m_state
       ELSE /\ m_state' = "ENDLESS_RESET"
            /\ UNCHANGED <<run_task, m_events, verified, app>>
    /\ UNCHANGED <<m_retry, conf_vars, m_joining_res, m_data, m_rx_item, timeout_task, acks,
                   msgs, joining, radio>>

(* end_cb(PROV_RES_STOPPED), called whether there is a session or not.     *)
EndStopped ==
    /\ open' = FALSE /\ calls' = calls + 1 /\ result' = "STOPPED" /\ stops' = stops + 1
    /\ UNCHANGED <<session, joining_end>>

\* Mutant: the state machine is stopped, the timer and the filter are kept.
Provisioning_stop_state(room) ==
    /\ Alive /\ stops < MaxStops
    /\ m_state' = "IDLE" /\ Provisioning_Joining_stop
    /\ m_joining_res' = "STOPPED" /\ run_task' = TRUE /\ m_events' = {"joined"}
    /\ EndStopped
    /\ UNCHANGED <<m_rx_item, timeout_task, m_retry, conf_vars, m_data, acks, msgs, verified>>

(* The application stops, in a session or outside of one.  It may start    *)
(* again from end_cb.  With no room for the state machine, which the stop  *)
(* of the joining schedules, the reset never ends, as in note().           *)
Provisioning_stop(room) ==
    /\ Alive /\ stops < MaxStops
    /\ IF run_task \/ room
       THEN /\ reset_provisioning("IDLE")
            /\ \E again \in StartInCallback :
                IF again /\ session < MaxSessions
                THEN m_events' = {"joined", "start"} /\ StartSession /\ verified' = NULL
                ELSE m_events' = {"joined"} /\ EndStopped /\ UNCHANGED verified
       ELSE /\ m_state' = "ENDLESS_RESET"
            /\ UNCHANGED <<m_events, m_joining_res, m_rx_item, run_task, timeout_task, verified,
                           app, joining, radio>>
    /\ UNCHANGED <<m_retry, conf_vars, m_data, acks, msgs>>

ProvisioningTypeOK ==
    /\ JoiningTypeOK
    /\ m_state \in {"IDLE", "WAIT_JOINING", "START", "WAIT_DATA", "WAIT_ACK_SENT",
                    "REBOOTED", "ENDLESS_RESET"}
    /\ m_events \subseteq {"rxd_packet", "timeout", "start", "ack_sent", "joined"}
    /\ m_retry \in 0 .. nb_retry + 1
    /\ m_session_id \in 0 .. IdWrap - 1 /\ m_method \in Methods /\ m_timeout_s \in 0 .. TimeoutWrap - 1
    /\ m_joining_res \in JoiningResults
    /\ m_data \in Packet /\ msgs \subseteq Packet
    /\ m_rx_item \in BOOLEAN /\ run_task \in BOOLEAN /\ timeout_task \in BOOLEAN
    /\ acks \in 0 .. MaxSessions
    /\ session \in 0 .. MaxSessions /\ open \in BOOLEAN /\ calls \in 0 .. MaxStops + 1
    /\ result \in Results \cup {NULL} /\ stops \in 0 .. MaxStops
    /\ joining_end \in JoiningResults \cup {NULL}
    /\ verified \in Packet \cup {NULL}
=============================================================================
