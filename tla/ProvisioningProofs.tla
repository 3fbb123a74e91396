------------------------ MODULE ProvisioningProofs --------------------------
(***************************************************************************)
(* Proofs about ProvisioningSystem, for any networks, configurations,      *)
(* numbers of retries, of sessions and of packets.                         *)
(***************************************************************************)
EXTENDS ProvisioningSystem, WellFoundedInduction, TLAPS

(***************************************************************************)
(* The conditions: the scheduler has room for the tasks of the library,    *)
(* and end_cb does not start the next session.                             *)
(***************************************************************************)
PlainUse == FALSE \notin Rooms /\ TRUE \notin StartInCallback

(* A session id comes back only after more sessions than there are, and an *)
(* unsecured session has not the id 0, which all refusals of a proxy have. *)
IdsTellSessions ==
    /\ MaxSessions < IdWrap
    /\ \A conf \in Confs : conf.method = "UNSECURED" =>
          \A k \in 1 .. MaxSessions : (conf.id + k) % IdWrap # 0

(* A proxy is stopped when asked, and a local one stays local.             *)
ProxyKeepsRole == FALSE \notin StopOutcomes /\ <<TRUE, FALSE>> \notin Reconfigure

(***************************************************************************)
(* The inductive invariants.                                               *)
(***************************************************************************)

\* joining.c has ended, or was not started
JoiningDone ==
    /\ j_state = "IDLE" /\ j_events = {}
    /\ ~j_timeout_task /\ ~j_route_cb /\ ~scanning

\* A session is open from its start event to the end of its state machine
OpenStates ==
    /\ m_state \in {"IDLE", "WAIT_JOINING", "START", "WAIT_DATA", "WAIT_ACK_SENT", "REBOOTED"}
    /\ open <=> \/ m_state \in {"WAIT_JOINING", "START", "WAIT_DATA", "WAIT_ACK_SENT"}
                \/ m_state = "IDLE" /\ "start" \in m_events
    /\ open => calls = 0 /\ stops = 0
    /\ stops \in Nat

\* What the library holds in each of its states
Held ==
    /\ m_rx_item => m_state = "WAIT_DATA"
    /\ timeout_task => m_state \in {"WAIT_DATA", "WAIT_ACK_SENT"}
    /\ m_state = "IDLE" => network = NULL
    /\ \/ m_state = "WAIT_JOINING" /\ "joined" \notin m_events
       \/ m_state = "REBOOTED"
       \/ JoiningDone

\* The joining of the session has told how it ended
EndTold ==
    /\ m_joining_res \in JoiningResults
    /\ m_state = "WAIT_JOINING" /\ "joined" \in m_events => joining_end = m_joining_res

SessionInv == OpenStates /\ Held /\ EndTold

\* A refusal of a proxy, which answers no session in particular
Refusal(m) == m.type = "DATA" /\ m.short

\* Session ids are taken from a configuration in turn, and the next ones
\* are not in any packet
IdsInTurn(conf, n) ==
    /\ m_method = conf.method /\ m_session_id = (conf.id + n) % IdWrap
    /\ open /\ m_state \in {"IDLE", "WAIT_JOINING"} => n < session
    /\ m_state \in {"START", "WAIT_DATA", "WAIT_ACK_SENT"} => n > 0
    /\ \A k \in n + 1 .. MaxSessions, m \in msgs : Refusal(m) \/ m.id # (conf.id + k) % IdWrap

\* Packets with the id of the session under way answer it
PacketsOfSession ==
    /\ \A m \in msgs : Refusal(m) => m.id = 0
    /\ m_state \in {"START", "WAIT_DATA", "WAIT_ACK_SENT"} =>
          \A m \in msgs : m.id = m_session_id => Refusal(m) \/ m.from = session

\* What the buffer holds was received, but for the data of a short packet
BufferReceived ==
    /\ m_data \in Packet
    /\ Refusal(m_data) => m_data.id = 0
    /\ m_data.type = "DATA" /\ ~m_data.short => m_data \in msgs
    /\ m_data.type = "NACK" => \E m \in msgs : m.type = "NACK" /\ m.id = m_data.id

\* The packet that was checked is the one in the buffer
VerifiedKept ==
    m_state \in {"WAIT_ACK_SENT", "REBOOTED"} =>
        m_data = verified /\ verified # NULL /\ verified.from = session

DataInv ==
    /\ session \in 0 .. MaxSessions /\ msgs \subseteq Packet
    /\ \E conf \in Confs, n \in 0 .. session : IdsInTurn(conf, n)
    /\ PacketsOfSession /\ BufferReceived /\ VerifiedKept /\ ResultIsOfThisSession

\* The filter is registered for a local configuration only
ProxyInv == LocalOrForwarded /\ (p_rx_item => p_conf # NULL /\ local(p_conf))

-----------------------------------------------------------------------------
(* The end of a session.                                                   *)
USE NullAssumption

LEMMA RoomInScheduler ==
    ASSUME PlainUse, NEW room \in Rooms
    PROVE  room = TRUE
BY JoiningAssumption DEF PlainUse

\* The library as reset_provisioning() leaves it
Released ==
    /\ m_state = "IDLE" /\ ~m_rx_item /\ ~timeout_task
    /\ JoiningDone /\ network = NULL
    /\ m_joining_res = "STOPPED"

LEMMA ResetReleases ==
    ASSUME reset_provisioning("IDLE")
    PROVE  Released'
BY DEF reset_provisioning, Provisioning_Joining_stop, reset_joining, Released, JoiningDone

\* The one call of end_cb
EndsWith(res) ==
    /\ open' = FALSE /\ calls' = calls + 1 /\ result' = res
    /\ UNCHANGED <<session, stops, joining_end>>

LEMMA CallbackEnds ==
    ASSUME PlainUse, NEW res, NEW idle, end_cb(res, idle)
    PROVE  EndsWith(res)
BY ProvisioningAssumption DEF PlainUse, end_cb, EndsWith

\* What a step of a session does for the application
AppStep == [Service!Next]_<<session, open, calls, result, stops>>

LEMMA EndIsStep ==
    ASSUME SessionInv, open, NEW res \in Results, EndsWith(res)
    PROVE  AppStep
BY DEF SessionInv, OpenStates, EndsWith, AppStep, Service!Next, Service!End

LEMMA EndedSession ==
    ASSUME SessionInv, open, Released', m_events' = {}, NEW res \in Results, EndsWith(res)
    PROVE  SessionInv' /\ AppStep
<1>1. AppStep
  BY EndIsStep
<1>2. "STOPPED" \in JoiningResults
  BY DEF JoiningResults
<1>3. QED
  BY <1>1, <1>2 DEF Released, EndsWith, SessionInv, OpenStates, Held, EndTold, JoiningDone

-----------------------------------------------------------------------------
(* The joining.                                                            *)
JoiningStep(end) ==
    \/ joining_beacon_rx_cb(TRUE, end)
    \/ route_changed_cb(TRUE, end)
    \/ joining_timeout_task(TRUE, end)
    \/ \E ok \in BOOLEAN : joining_run_state_machine(ok, TRUE, end)

\* Once done it does nothing until it is started
LEMMA JoiningRests ==
    ASSUME JoiningDone, NEW end, JoiningStep(end)
    PROVE  end = NULL /\ JoiningDone' /\ (network = NULL => network' = NULL)
<1>1. CASE joining_beacon_rx_cb(TRUE, end)
  BY <1>1 DEF joining_beacon_rx_cb, JoiningDone
<1>2. CASE route_changed_cb(TRUE, end)
  BY <1>2 DEF route_changed_cb, JoiningDone
<1>3. CASE joining_timeout_task(TRUE, end)
  BY <1>3 DEF joining_timeout_task, JoiningDone
<1>4. CASE \E ok \in BOOLEAN : joining_run_state_machine(ok, TRUE, end)
  <2>1. joining_state_idle(end)
    BY <1>4 DEF joining_run_state_machine, JoiningDone, joining_state_start,
                joining_state_wait_scan_end, joining_state_wait_route_change
  <2>2. QED
    BY <2>1 DEF joining_state_idle, JoiningDone, radio
<1>5. QED
  BY <1>1, <1>2, <1>3, <1>4 DEF JoiningStep

LEMMA RetryEnds ==
    ASSUME NEW res, NEW end, end # NULL, retry(res, end)
    PROVE  JoiningDone'
BY DEF retry, reset_joining, JoiningDone

\* It tells its end once it is done
LEMMA JoiningEndsDone ==
    ASSUME NEW end, end # NULL, JoiningStep(end)
    PROVE  JoiningDone'
<1>1. CASE joining_beacon_rx_cb(TRUE, end)
  BY <1>1 DEF joining_beacon_rx_cb, raise
<1>2. CASE route_changed_cb(TRUE, end)
  BY <1>2 DEF route_changed_cb, raise
<1>3. CASE joining_timeout_task(TRUE, end)
  BY <1>3 DEF joining_timeout_task, raise
<1>4. ASSUME NEW ok \in BOOLEAN, joining_run_state_machine(ok, TRUE, end)
      PROVE  JoiningDone'
  <2>1. CASE joining_state_idle(end)
    BY <2>1 DEF joining_state_idle
  <2>2. CASE joining_state_start(ok, TRUE, end)
    BY <2>2, RetryEnds DEF joining_state_start
  <2>3. CASE joining_state_wait_scan_end(ok, TRUE, end)
    <3>1. CASE scan_ended(ok, TRUE, end)
      BY <3>1, RetryEnds DEF scan_ended, wait_route
    <3>2. CASE ~scan_ended(ok, TRUE, end)
      BY <2>3, <3>2, RetryEnds DEF joining_state_wait_scan_end
    <3>3. QED
      BY <3>1, <3>2
  <2>4. CASE joining_state_wait_route_change(end)
    BY <2>4, RetryEnds DEF joining_state_wait_route_change, reset_joining, JoiningDone
  <2>5. QED
    BY <1>4, <2>1, <2>2, <2>3, <2>4 DEF joining_run_state_machine
<1>5. QED
  BY <1>1, <1>2, <1>3, <1>4 DEF JoiningStep

LEMMA JoiningSession ==
    ASSUME SessionInv, Alive, NEW end \in JoiningEnds,
           JoiningStep(end), MayEnd(end, TRUE)
    PROVE  /\ SessionInv'
           /\ UNCHANGED <<session, open, calls, result, stops, m_state, m_data, msgs, verified,
                          conf_vars>>
           /\ open \/ UNCHANGED joining_end
<1>1. CASE end = NULL
  <2>1. UNCHANGED <<node, msgs, verified, app>>
    BY <1>1 DEF MayEnd
  <2>2. JoiningDone => JoiningDone' /\ (network = NULL => network' = NULL)
    BY JoiningRests
  <2>3. QED
    BY <2>1, <2>2 DEF SessionInv, OpenStates, Held, EndTold, node, app, conf_vars
<1>2. CASE end # NULL
  <2>1. JoiningDone' /\ ~JoiningDone
    <3>1. JoiningDone'
      BY <1>2, JoiningEndsDone
    <3>2. ASSUME JoiningDone PROVE FALSE
      <4>1. end = NULL
        BY <3>2, JoiningRests
      <4>2. QED
        BY <1>2, <4>1
    <3>3. QED
      BY <3>1, <3>2
  <2>2. m_state = "WAIT_JOINING" /\ open
    BY <2>1 DEF SessionInv, Held, OpenStates, Alive
  <2>3. end_joining_cb(end, TRUE) /\ end \in JoiningResults
    BY <1>2 DEF MayEnd, JoiningEnds
  <2>4. UNCHANGED <<session, open, calls, result, stops, m_state, m_data, msgs, verified,
                    conf_vars, m_rx_item, timeout_task>>
        /\ m_joining_res' = end /\ joining_end' = end
        /\ m_events' = m_events \cup {"joined"}
    BY <2>3 DEF end_joining_cb, note
  <2>5. QED
    BY <2>1, <2>2, <2>3, <2>4 DEF SessionInv, OpenStates, Held, EndTold
<1>3. QED
  BY <1>1, <1>2

-----------------------------------------------------------------------------
(* The states of provisioning.c.                                           *)

LEMMA IdleSession ==
    ASSUME PlainUse, SessionInv, state_idle(TRUE)
    PROVE  SessionInv' /\ AppStep
<1>1. m_state = "IDLE" /\ m_events' = {} /\ ~m_rx_item' /\ ~timeout_task'
  BY DEF state_idle
<1>2. JoiningDone /\ network = NULL
  BY <1>1 DEF SessionInv, Held
<1>3. CASE "start" \notin m_events
  BY <1>1, <1>2, <1>3 DEF state_idle, SessionInv, OpenStates, Held, EndTold, JoiningDone, joining,
                          radio, app, AppStep
<1>4. CASE "start" \in m_events
  <2>1. m_state' = "WAIT_JOINING" /\ UNCHANGED <<m_joining_res, app>>
    BY <1>2, <1>4 DEF state_idle, JoiningDone
  <2>2. QED
    BY <1>1, <1>4, <2>1 DEF SessionInv, OpenStates, Held, EndTold, app, AppStep
<1>5. QED
  BY <1>3, <1>4

LEMMA WaitJoiningSession ==
    ASSUME PlainUse, SessionInv, state_wait_joining
    PROVE  SessionInv' /\ AppStep
<1>1. m_state = "WAIT_JOINING" /\ m_events' = {} /\ open
  BY DEF state_wait_joining, SessionInv, OpenStates
<1>2. CASE "joined" \notin m_events
  BY <1>1, <1>2 DEF state_wait_joining, SessionInv, OpenStates, Held, EndTold, app, AppStep
<1>3. CASE "joined" \in m_events /\ m_joining_res = "SUCCESS"
  <2>1. JoiningDone
    BY <1>1, <1>3 DEF SessionInv, Held
  <2>2. m_state' = "START" /\ UNCHANGED <<m_joining_res, m_rx_item, timeout_task, joining, radio, app>>
    BY <1>3 DEF state_wait_joining
  <2>3. QED
    BY <1>1, <2>1, <2>2 DEF SessionInv, OpenStates, Held, EndTold, JoiningDone, joining, radio, app,
                            AppStep
<1>4. CASE "joined" \in m_events /\ m_joining_res # "SUCCESS"
  <2>1. reset_provisioning("IDLE") /\ end_cb(m_joining_res', TRUE)
    BY <1>4 DEF state_wait_joining
  <2>2. m_joining_res' = "STOPPED" /\ "STOPPED" \in Results
    BY <2>1 DEF reset_provisioning, Results, JoiningResults
  <2>3. Released' /\ EndsWith("STOPPED")
    BY <2>1, <2>2, ResetReleases, CallbackEnds
  <2>4. QED
    BY <1>1, <2>2, <2>3, EndedSession
<1>5. QED
  BY <1>2, <1>3, <1>4

LEMMA StartSends ==
    ASSUME PlainUse, SessionInv, NEW sent, state_start(sent, TRUE)
    PROVE  SessionInv' /\ AppStep
<1>1. m_state = "START" /\ m_events' = {} /\ open /\ JoiningDone
  BY DEF state_start, SessionInv, OpenStates, Held
<1>2. CASE sent
  <2>1. m_state' = "WAIT_DATA" /\ UNCHANGED <<m_joining_res, joining, radio, app>>
    BY <1>2 DEF state_start
  <2>2. QED
    BY <1>1, <2>1 DEF SessionInv, OpenStates, Held, EndTold, JoiningDone, joining, radio, app, AppStep
<1>3. CASE ~sent /\ m_retry + 1 > nb_retry
  <2>1. reset_provisioning("IDLE") /\ end_cb("ERROR_SENDING_DATA", TRUE)
    BY <1>3 DEF state_start
  <2>2. "ERROR_SENDING_DATA" \in Results
    BY DEF Results
  <2>3. QED
    BY <1>1, <2>1, <2>2, ResetReleases, CallbackEnds, EndedSession
<1>4. CASE ~sent /\ ~(m_retry + 1 > nb_retry)
  <2>1. UNCHANGED <<m_state, m_joining_res, m_rx_item, timeout_task, joining, radio, app>>
    BY <1>4 DEF state_start
  <2>2. QED
    BY <1>1, <2>1 DEF SessionInv, OpenStates, Held, EndTold, JoiningDone, joining, radio, app, AppStep
<1>5. QED
  BY <1>2, <1>3, <1>4

\* A failed attempt ends the session with its result, or goes back to START
LEMMA FailedSession ==
    ASSUME PlainUse, SessionInv, m_state = "WAIT_DATA", m_events' = {}, NEW res \in Results,
           FailedAttempt(res)
    PROVE  /\ SessionInv' /\ AppStep
           /\ \/ m_state' = "IDLE" /\ EndsWith(res)
              \/ m_state' = "START" /\ UNCHANGED app
           /\ UNCHANGED verified
<1>1. open /\ JoiningDone
  BY DEF SessionInv, OpenStates, Held
<1>2. CASE reset_provisioning("IDLE") /\ end_cb(res, TRUE)
  <2>1. Released' /\ EndsWith(res)
    BY <1>2, ResetReleases, CallbackEnds
  <2>2. QED
    BY <1>1, <2>1, EndedSession DEF Released, FailedAttempt
<1>3. CASE /\ m_state' = "START" /\ m_rx_item' = FALSE /\ timeout_task' = FALSE
           /\ UNCHANGED <<m_joining_res, joining, radio, app>>
  BY <1>1, <1>3 DEF FailedAttempt, SessionInv, OpenStates, Held, EndTold, JoiningDone, joining,
                    radio, app, AppStep
<1>4. QED
  BY <1>2, <1>3 DEF FailedAttempt

LEMMA ReceivedResult == received(m_data) \in Results
BY DEF received, process_data_packet, Results, JoiningResults

\* The ways out of WAIT_DATA
LEMMA WaitDataSession ==
    ASSUME PlainUse, SessionInv, NEW sent \in BOOLEAN,
           state_wait_data(sent, TRUE)
    PROVE  /\ SessionInv' /\ AppStep
           /\ \/ /\ m_state' = "WAIT_ACK_SENT" /\ received(m_data) = "SUCCESS"
                 /\ verified' = m_data /\ UNCHANGED app
              \/ \E res \in {received(m_data), "TIMEOUT"} :
                    /\ res # "SUCCESS" /\ m_state' = "IDLE" /\ EndsWith(res)
                    /\ UNCHANGED verified
              \/ m_state' \in {"START", "WAIT_DATA"} /\ UNCHANGED <<verified, app>>
<1>1. m_state = "WAIT_DATA" /\ m_events' = {} /\ open /\ JoiningDone
  BY DEF state_wait_data, SessionInv, OpenStates, Held
<1>2. CASE "rxd_packet" \in m_events /\ received(m_data) = "SUCCESS"
  <2>1. m_state' = "WAIT_ACK_SENT" /\ m_rx_item' = FALSE /\ verified' = m_data
        /\ UNCHANGED <<m_joining_res, joining, radio, app>>
    BY <1>2 DEF state_wait_data, send_ack_packet
  <2>2. QED
    BY <1>1, <1>2, <2>1 DEF SessionInv, OpenStates, Held, EndTold, JoiningDone, joining, radio, app,
                            AppStep
<1>3. CASE "rxd_packet" \in m_events /\ received(m_data) # "SUCCESS"
  BY <1>1, <1>3, FailedSession, ReceivedResult DEF state_wait_data
<1>4. CASE "rxd_packet" \notin m_events /\ "timeout" \in m_events
  <2>1. "TIMEOUT" \in Results /\ FailedAttempt("TIMEOUT")
    BY <1>4 DEF Results, JoiningResults, state_wait_data
  <2>2. QED
    BY <1>1, <2>1, FailedSession
<1>5. CASE "rxd_packet" \notin m_events /\ "timeout" \notin m_events
  <2>1. UNCHANGED <<m_state, m_joining_res, m_rx_item, timeout_task, verified, joining, radio, app>>
    BY <1>5 DEF state_wait_data
  <2>2. QED
    BY <1>1, <2>1 DEF SessionInv, OpenStates, Held, EndTold, JoiningDone, joining, radio, app, AppStep
<1>6. QED
  BY <1>2, <1>3, <1>4, <1>5

\* The ways out of WAIT_ACK_SENT
LEMMA WaitAckSession ==
    ASSUME PlainUse, SessionInv, NEW apply \in BOOLEAN, state_wait_ack_sent(apply)
    PROVE  /\ SessionInv' /\ AppStep
           /\ \/ UNCHANGED <<m_state, app>>
              \/ m_state' = "IDLE" /\ EndsWith("INVALID_DATA")
              \/ m_state' \in {"IDLE", "REBOOTED"} /\ EndsWith("SUCCESS")
<1>1. m_state = "WAIT_ACK_SENT" /\ m_events' = {} /\ open /\ JoiningDone
  BY DEF state_wait_ack_sent, SessionInv, OpenStates, Held
<1>2. "INVALID_DATA" \in Results /\ "SUCCESS" \in Results
  BY DEF Results, JoiningResults
<1>3. CASE m_events \cap {"ack_sent", "timeout"} = {}
  <2>1. UNCHANGED <<m_state, m_joining_res, m_rx_item, timeout_task, joining, radio, app>>
    BY <1>3 DEF state_wait_ack_sent
  <2>2. QED
    BY <1>1, <2>1 DEF SessionInv, OpenStates, Held, EndTold, JoiningDone, joining, radio, app, AppStep
<1>4. CASE reset_provisioning("IDLE") /\ end_cb("INVALID_DATA", TRUE)
  <2>1. Released' /\ EndsWith("INVALID_DATA")
    BY <1>4, ResetReleases, CallbackEnds
  <2>2. QED
    BY <1>1, <1>2, <2>1, EndedSession DEF Released
<1>5. CASE reset_provisioning("IDLE") /\ end_cb("SUCCESS", FALSE)
  <2>1. Released' /\ EndsWith("SUCCESS")
    BY <1>5, ResetReleases, CallbackEnds
  <2>2. QED
    BY <1>1, <1>2, <2>1, EndedSession DEF Released
<1>6. CASE /\ m_state' = "REBOOTED" /\ end_cb("SUCCESS", FALSE)
           /\ timeout_task' = FALSE /\ UNCHANGED <<m_joining_res, m_rx_item>>
  <2>1. EndsWith("SUCCESS")
    BY <1>6, CallbackEnds
  <2>2. AppStep
    BY <1>1, <1>2, <2>1, EndIsStep
  <2>3. SessionInv'
    BY <1>1, <1>6, <2>1 DEF EndsWith, SessionInv, OpenStates, Held, EndTold
  <2>4. QED
    BY <1>6, <2>1, <2>2, <2>3
<1>7. QED
  BY <1>3, <1>4, <1>5, <1>6 DEF state_wait_ack_sent, Provisioning_Data_decode

LEMMA RunSession ==
    ASSUME PlainUse, SessionInv, NEW sent \in BOOLEAN, NEW apply \in BOOLEAN,
           run_state_machine(sent, apply, TRUE)
    PROVE  SessionInv' /\ AppStep
<1>1. CASE state_idle(TRUE)
  BY <1>1, IdleSession
<1>2. CASE state_wait_joining
  BY <1>2, WaitJoiningSession
<1>3. CASE state_start(sent, TRUE)
  BY <1>3, StartSends
<1>4. CASE state_wait_data(sent, TRUE)
  BY <1>4, WaitDataSession
<1>5. CASE state_wait_ack_sent(apply)
  BY <1>5, WaitAckSession
<1>6. QED
  BY <1>1, <1>2, <1>3, <1>4, <1>5 DEF run_state_machine

-----------------------------------------------------------------------------
(* The events and the calls of the application.                            *)

EventStep == (\E m \in msgs : pkt_received_cb(m, TRUE)) \/ timeout(TRUE) \/ packet_sent_cb(TRUE)

LEMMA EventSession ==
    ASSUME SessionInv, EventStep
    PROVE  /\ SessionInv'
           /\ UNCHANGED <<session, open, calls, result, stops, joining_end, m_state, msgs,
                          verified, conf_vars>>
           /\ UNCHANGED m_data \/ \E m \in msgs : pkt_received_cb(m, TRUE)
<1>1. PICK event \in {"rxd_packet", "timeout", "ack_sent"} :
        /\ note(event, TRUE)
        /\ UNCHANGED <<m_joining_res, joining_end, joining, radio>>
        /\ timeout_task' = FALSE \/ UNCHANGED timeout_task
        /\ UNCHANGED m_data \/ \E m \in msgs : pkt_received_cb(m, TRUE)
  BY DEF EventStep, pkt_received_cb, timeout, packet_sent_cb
<1>2. /\ m_events' = m_events \cup {event}
      /\ UNCHANGED <<m_state, m_rx_item, session, open, calls, result, stops, msgs, verified,
                     conf_vars>>
  BY <1>1 DEF note
<1>3. (JoiningDone => JoiningDone') /\ UNCHANGED network
  BY <1>1 DEF JoiningDone, joining, radio
<1>4. ("start" \in m_events' <=> "start" \in m_events) /\ ("joined" \in m_events' <=> "joined" \in m_events)
  BY <1>2
<1>5. SessionInv'
  BY <1>1, <1>2, <1>3, <1>4 DEF SessionInv, OpenStates, Held, EndTold
<1>6. QED
  BY <1>1, <1>2, <1>5

LEMMA InitCallSession ==
    ASSUME SessionInv, NEW conf \in Confs, Provisioning_init(conf)
    PROVE  SessionInv' /\ AppStep
BY DEF Provisioning_init, SessionInv, OpenStates, Held, EndTold, JoiningDone, joining, radio, app,
       AppStep

LEMMA StartCallSession ==
    ASSUME SessionInv, Provisioning_start(TRUE)
    PROVE  SessionInv' /\ AppStep
<1>1. /\ m_state = "IDLE" /\ UNCHANGED <<m_state, m_joining_res, m_rx_item, timeout_task, joining, radio>>
      /\ ~open /\ m_events' = m_events \cup {"start"} /\ StartSession
  BY DEF Provisioning_start
<1>2. AppStep
  BY <1>1 DEF StartSession, AppStep, Service!Next, Service!Start
<1>3. QED
  BY <1>1, <1>2 DEF StartSession, SessionInv, OpenStates, Held, EndTold, JoiningDone, joining, radio

LEMMA StopCallSession ==
    ASSUME PlainUse, SessionInv, Provisioning_stop(TRUE)
    PROVE  /\ SessionInv' /\ AppStep
           /\ m_state' = "IDLE" /\ ~open' /\ result' = "STOPPED" /\ stops' > 0
           /\ UNCHANGED <<session, joining_end, verified>>
<1>1. /\ Released' /\ m_events' = {"joined"} /\ EndStopped
      /\ UNCHANGED verified
  BY ResetReleases, ProvisioningAssumption DEF Provisioning_stop, PlainUse
<1>2. "STOPPED" \in JoiningResults
  BY DEF JoiningResults
<1>3. AppStep
  BY <1>1 DEF EndStopped, AppStep, Service!Next, Service!Stop
<1>4. stops' \in Nat /\ stops' > 0
  BY <1>1 DEF EndStopped, SessionInv, OpenStates
<1>5. QED
  BY <1>1, <1>2, <1>3, <1>4 DEF EndStopped, Released, SessionInv, OpenStates, Held, EndTold

\* A step of the node
JoiningSteps ==
    JoiningScanEnd(TRUE) \/ JoiningRouteChange(TRUE) \/ JoiningTimeout(TRUE) \/ JoiningRun(TRUE)

LEMMA JoiningCases ==
    ASSUME JoiningSteps
    PROVE  Alive /\ \E end \in JoiningEnds : JoiningStep(end) /\ MayEnd(end, TRUE)
BY DEF JoiningSteps, JoiningScanEnd, JoiningRouteChange, JoiningTimeout, JoiningRun, JoiningStep

LEMMA NodeCases ==
    ASSUME PlainUse, NodeNext
    PROVE  \/ EventStep
           \/ JoiningSteps
           \/ \E sent, apply \in BOOLEAN : run_state_machine(sent, apply, TRUE)
           \/ \E conf \in Confs : Provisioning_init(conf)
           \/ Provisioning_start(TRUE)
           \/ Provisioning_stop(TRUE)
BY RoomInScheduler DEF NodeNext, EventStep, JoiningSteps

LEMMA NextSession ==
    ASSUME PlainUse, SessionInv, [Next]_vars
    PROVE  SessionInv' /\ AppStep
<1>1. CASE NodeNext
  <2>1. CASE EventStep
    BY <2>1, EventSession DEF AppStep
  <2>2. CASE JoiningSteps
    <3>1. PICK end \in JoiningEnds : JoiningStep(end) /\ MayEnd(end, TRUE)
      BY <2>2, JoiningCases
    <3>2. Alive
      BY <2>2, JoiningCases
    <3>3. QED
      BY <3>1, <3>2, JoiningSession DEF AppStep
  <2>3. CASE \E sent, apply \in BOOLEAN : run_state_machine(sent, apply, TRUE)
    BY <2>3, RunSession
  <2>4. CASE \E conf \in Confs : Provisioning_init(conf)
    BY <2>4, InitCallSession
  <2>5. CASE Provisioning_start(TRUE)
    BY <2>5, StartCallSession
  <2>6. CASE Provisioning_stop(TRUE)
    BY <2>6, StopCallSession
  <2>7. QED
    BY <1>1, <2>1, <2>2, <2>3, <2>4, <2>5, <2>6, NodeCases
<1>2. CASE UNCHANGED <<joining, radio, node, app, verified>>
  BY <1>2 DEF SessionInv, OpenStates, Held, EndTold, JoiningDone, joining, radio, node, app, AppStep
<1>3. QED
  BY <1>1, <1>2 DEF Next, vars

-----------------------------------------------------------------------------
(* Session ids.                                                            *)

\* Multiples of w that are less than w apart are equal
LEMMA SameMultiple ==
    ASSUME NEW w \in Nat \ {0}, NEW p \in Int, NEW q \in Int, -w < w * (q - p), w * (q - p) < w
    PROVE  p = q
<1>1. CASE q - p >= 1
  <2>1. w * (q - p) >= w
    BY <1>1
  <2>2. QED
    BY <2>1
<1>2. CASE p - q >= 1
  <2>1. w * (p - q) >= w /\ w * (q - p) = -(w * (p - q))
    BY <1>2
  <2>2. QED
    BY <2>1
<1>3. QED
  BY <1>1, <1>2

LEMMA RemainderUnique ==
    ASSUME NEW w \in Nat \ {0}, NEW a \in Nat, NEW q \in Int, NEW r \in 0 .. w - 1,
           a = w * q + r
    PROVE  a % w = r
<1> DEFINE p == a \div w
           t == a % w
<1>1. p \in Int /\ t \in 0 .. w - 1 /\ a = w * p + t
  OBVIOUS
<1> HIDE DEF p, t
<1>2. w * (q - p) = t - r
  BY <1>1
<1>3. -w < t - r /\ t - r < w
  BY <1>1
<1>4. p = q
  BY <1>1, <1>2, <1>3, SameMultiple
<1>5. t = r
  BY <1>1, <1>4
<1>6. QED
  BY <1>5 DEF t

LEMMA NextId ==
    ASSUME NEW w \in Nat \ {0}, NEW a \in Nat
    PROVE  ((a % w) + 1) % w = (a + 1) % w
<1> DEFINE q == a \div w
           r == a % w
<1>1. q \in Int /\ r \in 0 .. w - 1 /\ a = w * q + r
  OBVIOUS
<1> HIDE DEF q, r
<1>2. CASE r + 1 < w
  <2>1. a + 1 = w * q + (r + 1) /\ r + 1 = w * 0 + (r + 1)
    BY <1>1
  <2>2. r + 1 \in 0 .. w - 1 /\ r + 1 \in Nat
    BY <1>1, <1>2
  <2>3. (a + 1) % w = r + 1 /\ (r + 1) % w = r + 1
    BY <2>1, <2>2, <1>1, RemainderUnique
  <2>4. QED
    BY <2>3 DEF r
<1>3. CASE r + 1 = w
  <2>1. a + 1 = w * (q + 1) + 0 /\ r + 1 = w * 1 + 0 /\ 0 \in 0 .. w - 1
    BY <1>1, <1>3
  <2>2. (a + 1) % w = 0 /\ (r + 1) % w = 0
    BY <2>1, <1>1, RemainderUnique
  <2>3. QED
    BY <2>2 DEF r
<1>4. QED
  BY <1>1, <1>2, <1>3

LEMMA IdsDiffer ==
    ASSUME NEW w \in Nat \ {0}, NEW a \in Nat, NEW b \in Nat, a < b, b - a < w
    PROVE  a % w # b % w
<1> SUFFICES ASSUME a % w = b % w PROVE FALSE
  OBVIOUS
<1> DEFINE p == a \div w
           q == b \div w
           r == a % w
<1>1. p \in Int /\ q \in Int /\ r \in Int /\ a = w * p + r /\ b = w * q + r
  OBVIOUS
<1> HIDE DEF p, q, r
<1>2. b - a = w * (q - p)
  BY <1>1
<1>3. p = q
  BY <1>1, <1>2, SameMultiple
<1>4. QED
  BY <1>1, <1>3

-----------------------------------------------------------------------------
(* Packets.                                                                *)

LEMMA AnswerIsPacket ==
    ASSUME NEW m \in Packet, NEW ok \in BOOLEAN
    PROVE  /\ DataPacket(m, ok) \in Packet /\ ~Refusal(DataPacket(m, ok))
           /\ DataPacket(m, ok).id = m.id /\ DataPacket(m, ok).from = m.from
           /\ [m EXCEPT !.type = "NACK"] \in Packet /\ ~Refusal([m EXCEPT !.type = "NACK"])
           /\ [m EXCEPT !.type = "NACK"].id = m.id /\ [m EXCEPT !.type = "NACK"].from = m.from
BY DEF Packet, DataPacket, Refusal

LEMMA NackIsRefusal ==
    ASSUME NEW type \in {0, 1}
    PROVE  send_nack(type) \in Packet /\ Refusal(send_nack(type)) /\ send_nack(type).id = 0
<1>1. 0 \in 0 .. IdWrap - 1 /\ 0 \in 0 .. MaxSessions
  BY ProvisioningAssumption
<1>2. QED
  BY <1>1 DEF Packet, send_nack, NoPacket, Refusal

\* An answer to a packet of a session is a refusal or a packet of this session
LEMMA AnswerOf ==
    ASSUME msgs \subseteq Packet, AnswerNext
    PROVE  \E m \in msgs, answer \in Packet :
              /\ msgs' = msgs \cup {answer}
              /\ IF Refusal(answer) THEN answer.id = 0
                 ELSE m.type = "START" /\ answer.id = m.id /\ answer.from = m.from
<1>1. PICK m \in msgs : proxy_pkt_received_cb(m) \/ ServerAnswers(m)
  BY DEF AnswerNext
<1>2. m \in Packet /\ m.type = "START"
  BY <1>1 DEF proxy_pkt_received_cb, ServerAnswers
<1>3. CASE proxy_pkt_received_cb(m)
  <2>1. PICK answer \in proxy_answers(m) : msgs' = msgs \cup {answer}
    BY <1>3 DEF proxy_pkt_received_cb
  <2>2. \/ \E type \in {0, 1} : answer = send_nack(type)
        \/ \E ok \in BOOLEAN : answer = DataPacket(m, ok)
    BY <2>1 DEF proxy_answers
  <2>3. QED
    BY <1>2, <2>1, <2>2, AnswerIsPacket, NackIsRefusal
<1>4. CASE ServerAnswers(m)
  <2>1. PICK answer \in {[m EXCEPT !.type = "NACK"]} \cup {DataPacket(m, ok) : ok \in BOOLEAN} :
            msgs' = msgs \cup {answer}
    BY <1>4 DEF ServerAnswers
  <2>2. QED
    BY <1>2, <2>1, AnswerIsPacket
<1>5. QED
  BY <1>1, <1>3, <1>4

-----------------------------------------------------------------------------
(* The invariant of the data.                                              *)

\* The session has its id
Numbered == {"START", "WAIT_DATA", "WAIT_ACK_SENT"}

LEMMA SameData ==
    ASSUME DataInv, UNCHANGED <<session, msgs, m_method, m_session_id, m_data>>,
           m_state' \in Numbered => m_state \in Numbered,
           open' /\ m_state' \in {"IDLE", "WAIT_JOINING"} =>
              open /\ m_state \in {"IDLE", "WAIT_JOINING"}
    PROVE  /\ session' \in 0 .. MaxSessions /\ msgs' \subseteq Packet
           /\ \E conf \in Confs, n \in 0 .. session' : IdsInTurn(conf, n)'
           /\ PacketsOfSession' /\ BufferReceived'
<1>1. PICK conf \in Confs, n \in 0 .. session : IdsInTurn(conf, n)
  BY DEF DataInv
<1>2. IdsInTurn(conf, n)'
  BY <1>1 DEF IdsInTurn, Numbered
<1>3. QED
  BY <1>2 DEF DataInv, PacketsOfSession, BufferReceived, Numbered

LEMMA EndedData ==
    ASSUME DataInv, UNCHANGED <<session, msgs, m_method, m_session_id, m_data>>,
           open, NEW res, EndsWith(res), m_state' = "IDLE", UNCHANGED verified,
           res = "SUCCESS" => verified # NULL /\ verified.from = session,
           res = "NACK" => \E m \in msgs : m.type = "NACK" /\ m.from = session,
           res = "STOPPED" => joining_end \notin {NULL, "SUCCESS"}
    PROVE  DataInv'
<1>1. VerifiedKept'
  BY DEF VerifiedKept
<1>2. ResultIsOfThisSession'
  BY DEF ResultIsOfThisSession, EndsWith
<1>3. open' = FALSE /\ m_state' \notin Numbered
  BY DEF EndsWith, Numbered
<1>4. QED
  BY <1>1, <1>2, <1>3, SameData DEF DataInv

\* A packet found valid or a refusal of the server is one of this session
LEMMA ReceivedOfSession ==
    ASSUME IdsTellSessions, DataInv, m_state = "WAIT_DATA"
    PROVE  /\ received(m_data) = "SUCCESS" => m_data.from = session
           /\ received(m_data) = "NACK" => \E m \in msgs : m.type = "NACK" /\ m.from = session
           /\ received(m_data) # "STOPPED"
<1>1. ASSUME received(m_data) = "SUCCESS" PROVE m_data.from = session
  <2>1. /\ m_data.id = m_session_id /\ m_data.type = "DATA"
        /\ process_data_packet(m_data) = "SUCCESS"
    BY <1>1 DEF received
  <2>2. CASE m_method = "UNSECURED"
    <3>1. PICK conf \in Confs, n \in 0 .. session : IdsInTurn(conf, n)
      BY DEF DataInv
    <3>2. conf.method = "UNSECURED" /\ n \in 1 .. MaxSessions /\ m_session_id = (conf.id + n) % IdWrap
      BY <2>2, <3>1, ProvisioningAssumption DEF IdsInTurn, DataInv
    <3>3. m_session_id # 0
      BY <3>2 DEF IdsTellSessions
    <3>4. ~m_data.short /\ m_data \in msgs
      BY <2>1, <3>3 DEF DataInv, BufferReceived, Refusal
    <3>5. QED
      BY <2>1, <3>4 DEF DataInv, PacketsOfSession, Refusal
  <2>3. CASE m_method # "UNSECURED"
    BY <2>1, <2>3 DEF process_data_packet
  <2>4. QED
    BY <2>2, <2>3
<1>2. ASSUME received(m_data) = "NACK"
      PROVE  \E m \in msgs : m.type = "NACK" /\ m.from = session
  <2>1. m_data.id = m_session_id /\ m_data.type = "NACK"
    BY <1>2 DEF received, process_data_packet
  <2>2. QED
    BY <1>2, <2>1 DEF DataInv, BufferReceived, PacketsOfSession, Refusal
<1>3. received(m_data) # "STOPPED"
  BY DEF received, process_data_packet
<1>4. QED
  BY <1>1, <1>2, <1>3

LEMMA WaitDataData ==
    ASSUME PlainUse, IdsTellSessions, SessionInv, DataInv, NEW sent \in BOOLEAN,
           state_wait_data(sent, TRUE)
    PROVE  DataInv'
<1>1. m_state = "WAIT_DATA" /\ open /\ UNCHANGED <<m_session_id, m_method, m_data, msgs>>
  BY DEF state_wait_data, SessionInv, OpenStates
<1>2. m_data \in Packet /\ m_data # NULL
  BY DEF DataInv, BufferReceived
<1>3. CASE /\ m_state' = "WAIT_ACK_SENT" /\ received(m_data) = "SUCCESS"
           /\ verified' = m_data /\ UNCHANGED app
  <2>1. VerifiedKept'
    BY <1>1, <1>2, <1>3, ReceivedOfSession DEF VerifiedKept, app
  <2>2. ResultIsOfThisSession'
    BY <1>1, <1>3 DEF ResultIsOfThisSession, app
  <2>3. m_state \in Numbered /\ m_state' \notin {"IDLE", "WAIT_JOINING"} /\ UNCHANGED session
    BY <1>1, <1>3 DEF Numbered, app
  <2>4. QED
    BY <1>1, <2>1, <2>2, <2>3, SameData DEF DataInv
<1>4. ASSUME NEW res \in {received(m_data), "TIMEOUT"}, res # "SUCCESS", m_state' = "IDLE",
             EndsWith(res), UNCHANGED verified
      PROVE  DataInv'
  <2>1. res # "STOPPED" /\ (res = "NACK" => \E m \in msgs : m.type = "NACK" /\ m.from = session)
    BY <1>1, <1>4, ReceivedOfSession
  <2>2. UNCHANGED session
    BY <1>4 DEF EndsWith
  <2>3. QED
    BY <1>1, <1>4, <2>1, <2>2, EndedData
<1>5. CASE m_state' \in {"START", "WAIT_DATA"} /\ UNCHANGED <<verified, app>>
  <2>1. VerifiedKept' /\ ResultIsOfThisSession'
    BY <1>1, <1>5 DEF VerifiedKept, ResultIsOfThisSession, app
  <2>2. m_state \in Numbered /\ m_state' \notin {"IDLE", "WAIT_JOINING"} /\ UNCHANGED session
    BY <1>1, <1>5 DEF Numbered, app
  <2>3. QED
    BY <1>1, <2>1, <2>2, SameData DEF DataInv
<1>6. QED
  BY <1>3, <1>4, <1>5, WaitDataSession

LEMMA WaitAckData ==
    ASSUME PlainUse, SessionInv, DataInv, NEW apply \in BOOLEAN, state_wait_ack_sent(apply)
    PROVE  DataInv'
<1>1. /\ m_state = "WAIT_ACK_SENT" /\ open
      /\ UNCHANGED <<m_session_id, m_method, m_data, msgs, verified>>
  BY DEF state_wait_ack_sent, SessionInv, OpenStates, conf_vars
<1>2. verified # NULL /\ verified.from = session /\ m_data = verified
  BY <1>1 DEF DataInv, VerifiedKept
<1>3. CASE UNCHANGED <<m_state, app>>
  <2>1. VerifiedKept' /\ ResultIsOfThisSession'
    BY <1>1, <1>2, <1>3 DEF VerifiedKept, ResultIsOfThisSession, app
  <2>2. QED
    BY <1>1, <1>3, <2>1, SameData DEF DataInv, app
<1>4. CASE m_state' = "IDLE" /\ \E res \in {"INVALID_DATA", "SUCCESS"} : EndsWith(res)
  <2>1. UNCHANGED session
    BY <1>4 DEF EndsWith
  <2>2. QED
    BY <1>1, <1>2, <1>4, <2>1, EndedData
<1>5. CASE m_state' = "REBOOTED" /\ EndsWith("SUCCESS")
  <2>1. VerifiedKept' /\ ResultIsOfThisSession'
    BY <1>1, <1>2, <1>5 DEF VerifiedKept, ResultIsOfThisSession, EndsWith
  <2>2. m_state' \notin Numbered /\ UNCHANGED session /\ open' = FALSE
    BY <1>5 DEF Numbered, EndsWith
  <2>3. QED
    BY <1>1, <2>1, <2>2, SameData DEF DataInv
<1>6. QED
  BY <1>3, <1>4, <1>5, WaitAckSession

LEMMA IdleData ==
    ASSUME PlainUse, SessionInv, DataInv, state_idle(TRUE)
    PROVE  DataInv'
<1>1. /\ m_state = "IDLE" /\ UNCHANGED <<m_session_id, m_method, m_data, msgs, verified>>
      /\ j_state = "IDLE"
  BY DEF state_idle, conf_vars, SessionInv, Held, JoiningDone
<1>2. m_state' \in {"IDLE", "WAIT_JOINING"} /\ UNCHANGED app
  BY <1>1 DEF state_idle
<1>3. VerifiedKept' /\ ResultIsOfThisSession'
  BY <1>1, <1>2 DEF DataInv, VerifiedKept, ResultIsOfThisSession, app
<1>4. m_state' \notin Numbered /\ UNCHANGED <<session, open>>
  BY <1>2 DEF Numbered, app
<1>5. QED
  BY <1>1, <1>3, <1>4, SameData DEF DataInv

LEMMA WaitJoiningData ==
    ASSUME PlainUse, IdsTellSessions, SessionInv, DataInv, state_wait_joining
    PROVE  DataInv'
<1>1. m_state = "WAIT_JOINING" /\ open /\ UNCHANGED <<m_method, m_data, msgs, verified>>
  BY DEF state_wait_joining, SessionInv, OpenStates
<1>2. CASE "joined" \notin m_events
  <2>1. UNCHANGED <<m_state, m_session_id, app>>
    BY <1>2 DEF state_wait_joining
  <2>2. VerifiedKept' /\ ResultIsOfThisSession'
    BY <1>1, <2>1 DEF DataInv, VerifiedKept, ResultIsOfThisSession, app
  <2>3. QED
    BY <1>1, <2>1, <2>2, SameData DEF DataInv, app
<1>3. CASE "joined" \in m_events /\ m_joining_res = "SUCCESS"
  <2>1. m_state' = "START" /\ UNCHANGED app /\ m_session_id' = (m_session_id + 1) % IdWrap
    BY <1>3 DEF state_wait_joining
  <2>2. PICK conf \in Confs, n \in 0 .. session : IdsInTurn(conf, n)
    BY DEF DataInv
  <2>3. /\ n + 1 \in 0 .. session /\ n + 1 \in 1 .. MaxSessions /\ n < session
        /\ conf.id \in Nat /\ UNCHANGED <<session, open>>
    BY <1>1, <2>1, <2>2, ProvisioningAssumption DEF IdsInTurn, DataInv, app
  <2>4. m_session_id' = (conf.id + (n + 1)) % IdWrap
    <3>1. m_session_id = (conf.id + n) % IdWrap
      BY <2>2 DEF IdsInTurn
    <3>2. (((conf.id + n) % IdWrap) + 1) % IdWrap = ((conf.id + n) + 1) % IdWrap
      <4>1. conf.id + n \in Nat /\ IdWrap \in Nat \ {0}
        BY <2>3, ProvisioningAssumption
      <4> DEFINE a == conf.id + n
      <4>2. a \in Nat
        BY <4>1
      <4> HIDE DEF a
      <4>3. ((a % IdWrap) + 1) % IdWrap = (a + 1) % IdWrap
        BY <4>1, <4>2, NextId
      <4>4. QED
        BY <4>3 DEF a
    <3>3. (conf.id + n) + 1 = conf.id + (n + 1)
      BY <2>3
    <3>4. QED
      BY <2>1, <3>1, <3>2, <3>3
  <2>5. \A k \in n + 1 .. MaxSessions, m \in msgs : Refusal(m) \/ m.id # (conf.id + k) % IdWrap
    BY <2>2 DEF IdsInTurn
  <2>6. IdsInTurn(conf, n + 1)'
    <3>1. m_method' = conf.method
      BY <1>1, <2>2 DEF IdsInTurn
    <3>2. \A k \in (n + 1) + 1 .. MaxSessions : k \in n + 1 .. MaxSessions
      BY <2>3
    <3>3. n + 1 > 0
      BY <2>3
    <3>4. QED
      BY <1>1, <2>1, <2>4, <2>5, <3>1, <3>2, <3>3 DEF IdsInTurn
  <2>7. PacketsOfSession'
    <3>1. n + 1 \in n + 1 .. MaxSessions
      BY <2>3
    <3>2. \A m \in msgs : m.id = m_session_id' => Refusal(m)
      BY <2>4, <2>5, <3>1
    <3>3. QED
      BY <1>1, <3>2 DEF DataInv, PacketsOfSession
  <2>8. VerifiedKept' /\ ResultIsOfThisSession' /\ BufferReceived'
    BY <1>1, <2>1 DEF DataInv, VerifiedKept, ResultIsOfThisSession, BufferReceived, app
  <2>9. QED
    BY <1>1, <2>3, <2>6, <2>7, <2>8 DEF DataInv
<1>4. CASE "joined" \in m_events /\ m_joining_res # "SUCCESS"
  <2>1. reset_provisioning("IDLE") /\ end_cb(m_joining_res', TRUE) /\ UNCHANGED m_session_id
    BY <1>4 DEF state_wait_joining
  <2>2. m_state' = "IDLE" /\ EndsWith("STOPPED") /\ UNCHANGED session
    BY <2>1, CallbackEnds DEF reset_provisioning, EndsWith
  <2>3. joining_end \notin {NULL, "SUCCESS"}
    BY <1>1, <1>4 DEF SessionInv, EndTold, Results
  <2>4. QED
    BY <1>1, <2>1, <2>2, <2>3, EndedData
<1>5. QED
  BY <1>2, <1>3, <1>4

\* The START packet is one of the session and has none of the ids to come
LEMMA StartPacketIds ==
    ASSUME IdsTellSessions, DataInv, NEW conf \in Confs, NEW n \in 0 .. session, IdsInTurn(conf, n)
    PROVE  /\ StartPacket \in Packet /\ ~Refusal(StartPacket)
           /\ StartPacket.id = m_session_id /\ StartPacket.from = session /\ StartPacket.type = "START"
           /\ \A k \in n + 1 .. MaxSessions : StartPacket.id # (conf.id + k) % IdWrap
<1>1. conf.id \in Nat /\ IdWrap \in Nat \ {0} /\ MaxSessions \in Nat
  BY ProvisioningAssumption
<1>2. m_session_id = (conf.id + n) % IdWrap /\ m_session_id \in 0 .. IdWrap - 1
  BY <1>1 DEF IdsInTurn
<1>3. MethodId(m_method) \in {0, 1, 3} /\ session \in 0 .. MaxSessions
  BY DEF MethodId, DataInv
<1>4. /\ StartPacket \in Packet /\ ~Refusal(StartPacket)
      /\ StartPacket.id = m_session_id /\ StartPacket.from = session /\ StartPacket.type = "START"
  BY <1>2, <1>3 DEF StartPacket, NoPacket, Packet, Refusal
<1>5. ASSUME NEW k \in n + 1 .. MaxSessions PROVE m_session_id # (conf.id + k) % IdWrap
  <2> DEFINE a == conf.id + n
             b == conf.id + k
  <2>1. a \in Nat /\ b \in Nat /\ a < b /\ b - a < IdWrap
    BY <1>1, <1>3 DEF IdsTellSessions
  <2> HIDE DEF a, b
  <2>2. a % IdWrap # b % IdWrap
    BY <1>1, <2>1, IdsDiffer
  <2>3. QED
    BY <1>2, <2>2 DEF a, b
<1>6. QED
  BY <1>4, <1>5

LEMMA StartData ==
    ASSUME PlainUse, IdsTellSessions, SessionInv, DataInv, NEW sent \in BOOLEAN,
           state_start(sent, TRUE)
    PROVE  DataInv'
<1>1. m_state = "START" /\ open /\ UNCHANGED <<m_method, m_session_id, m_data, verified>>
  BY DEF state_start, SessionInv, OpenStates, conf_vars
<1>2. CASE sent
  <2>1. m_state' = "WAIT_DATA" /\ UNCHANGED app /\ msgs' = msgs \cup {StartPacket}
    BY <1>2 DEF state_start
  <2>2. PICK conf \in Confs, n \in 0 .. session : IdsInTurn(conf, n)
    BY DEF DataInv
  <2>3. IdsInTurn(conf, n)'
    BY <1>1, <2>1, <2>2, StartPacketIds DEF IdsInTurn
  <2>4. PacketsOfSession'
    BY <1>1, <2>1, <2>2, StartPacketIds DEF DataInv, PacketsOfSession, app
  <2>5. BufferReceived' /\ VerifiedKept' /\ ResultIsOfThisSession'
    BY <1>1, <2>1 DEF DataInv, BufferReceived, VerifiedKept, ResultIsOfThisSession, app
  <2>6. UNCHANGED session /\ msgs' \subseteq Packet
    BY <2>1, <2>2, StartPacketIds DEF app, DataInv
  <2>7. QED
    BY <2>3, <2>4, <2>5, <2>6 DEF DataInv
<1>3. CASE ~sent /\ m_retry + 1 > nb_retry
  <2>1. m_state' = "IDLE" /\ end_cb("ERROR_SENDING_DATA", TRUE) /\ UNCHANGED msgs
    BY <1>3 DEF state_start, reset_provisioning
  <2>2. EndsWith("ERROR_SENDING_DATA") /\ UNCHANGED session
    BY <2>1, CallbackEnds DEF EndsWith
  <2>3. QED
    BY <1>1, <2>1, <2>2, EndedData
<1>4. CASE ~sent /\ ~(m_retry + 1 > nb_retry)
  <2>1. UNCHANGED <<m_state, app, msgs>>
    BY <1>4 DEF state_start
  <2>2. VerifiedKept' /\ ResultIsOfThisSession'
    BY <1>1, <2>1 DEF DataInv, VerifiedKept, ResultIsOfThisSession, app
  <2>3. QED
    BY <1>1, <2>1, <2>2, SameData DEF DataInv, app
<1>5. QED
  BY <1>2, <1>3, <1>4

LEMMA RunData ==
    ASSUME PlainUse, IdsTellSessions, SessionInv, DataInv, NEW sent \in BOOLEAN,
           NEW apply \in BOOLEAN, run_state_machine(sent, apply, TRUE)
    PROVE  DataInv'
<1>1. CASE state_idle(TRUE)
  BY <1>1, IdleData
<1>2. CASE state_wait_joining
  BY <1>2, WaitJoiningData
<1>3. CASE state_start(sent, TRUE)
  BY <1>3, StartData
<1>4. CASE state_wait_data(sent, TRUE)
  BY <1>4, WaitDataData
<1>5. CASE state_wait_ack_sent(apply)
  BY <1>5, WaitAckData
<1>6. QED
  BY <1>1, <1>2, <1>3, <1>4, <1>5 DEF run_state_machine

LEMMA EventData ==
    ASSUME SessionInv, DataInv, EventStep
    PROVE  DataInv'
<1>1. /\ UNCHANGED <<session, open, calls, result, stops, joining_end, m_state, msgs, verified,
                     m_method, m_session_id>>
      /\ UNCHANGED m_data \/ \E m \in msgs : pkt_received_cb(m, TRUE)
  BY EventSession DEF conf_vars
<1>2. BufferReceived' /\ VerifiedKept'
  <2>1. CASE UNCHANGED m_data
    BY <1>1, <2>1 DEF DataInv, BufferReceived, VerifiedKept
  <2>2. ASSUME NEW m \in msgs, pkt_received_cb(m, TRUE) PROVE BufferReceived' /\ VerifiedKept'
    <3>1. m_state = "WAIT_DATA"
      BY <2>2 DEF pkt_received_cb, SessionInv, Held
    <3>2. /\ m \in Packet /\ m_data \in Packet /\ m.type # "START"
          /\ m_data' = IF m.short THEN [m EXCEPT !.ok = m_data.ok, !.from = m_data.from] ELSE m
      BY <2>2 DEF pkt_received_cb, DataInv, BufferReceived
    <3>3. /\ m_data' \in Packet /\ m_data'.type = m.type /\ m_data'.id = m.id
          /\ m_data'.short = m.short /\ (~m.short => m_data' = m)
      BY <3>2 DEF Packet
    <3>4. Refusal(m) => m.id = 0
      BY DEF DataInv, PacketsOfSession
    <3>5. QED
      BY <1>1, <3>1, <3>3, <3>4 DEF BufferReceived, VerifiedKept, Refusal
  <2>3. QED
    BY <1>1, <2>1, <2>2
<1>3. PICK conf \in Confs, n \in 0 .. session : IdsInTurn(conf, n)
  BY DEF DataInv
<1>4. IdsInTurn(conf, n)' /\ PacketsOfSession' /\ ResultIsOfThisSession'
  BY <1>1, <1>3 DEF DataInv, IdsInTurn, PacketsOfSession, ResultIsOfThisSession
<1>5. QED
  BY <1>1, <1>2, <1>4 DEF DataInv

LEMMA JoiningData ==
    ASSUME SessionInv, DataInv, JoiningSteps
    PROVE  DataInv'
<1>1. PICK end \in JoiningEnds : JoiningStep(end) /\ MayEnd(end, TRUE)
  BY JoiningCases
<1>2. Alive
  BY JoiningCases
<1>3. /\ UNCHANGED <<session, open, result, stops, m_state, m_data, msgs, verified, m_method,
                     m_session_id>>
      /\ open \/ UNCHANGED joining_end
  BY <1>1, <1>2, JoiningSession DEF conf_vars
<1>4. VerifiedKept' /\ ResultIsOfThisSession'
  BY <1>3 DEF DataInv, VerifiedKept, ResultIsOfThisSession
<1>5. QED
  BY <1>3, <1>4, SameData DEF DataInv

LEMMA InitCallData ==
    ASSUME DataInv, NEW conf \in Confs, Provisioning_init(conf)
    PROVE  DataInv'
<1>1. /\ m_state = "IDLE" /\ ~open /\ FreshId(conf.id)
      /\ m_method' = conf.method /\ m_session_id' = conf.id
      /\ UNCHANGED <<m_state, m_data, msgs, verified, app>>
  BY DEF Provisioning_init
<1>2. IdsInTurn(conf, 0)'
  <2>1. conf.id \in Nat /\ conf.id < IdWrap /\ conf.id + 0 = conf.id /\ conf.id % IdWrap = conf.id
    BY ProvisioningAssumption
  <2>2. QED
    BY <1>1, <2>1 DEF IdsInTurn, FreshId, app
<1>3. 0 \in 0 .. session'
  BY <1>1 DEF DataInv, app
<1>4. PacketsOfSession' /\ BufferReceived' /\ VerifiedKept' /\ ResultIsOfThisSession'
  BY <1>1 DEF DataInv, PacketsOfSession, BufferReceived, VerifiedKept, ResultIsOfThisSession, app
<1>5. QED
  BY <1>1, <1>2, <1>3, <1>4 DEF DataInv, app

LEMMA StartCallData ==
    ASSUME DataInv, Provisioning_start(TRUE)
    PROVE  DataInv'
<1>1. /\ m_state = "IDLE" /\ session < MaxSessions /\ StartSession /\ verified' = NULL
      /\ UNCHANGED <<m_state, m_method, m_session_id, m_data, msgs>>
  BY DEF Provisioning_start, conf_vars
<1>2. PICK conf \in Confs, n \in 0 .. session : IdsInTurn(conf, n)
  BY DEF DataInv
<1>3. session' \in 0 .. MaxSessions /\ n \in 0 .. session' /\ n < session'
  BY <1>1, ProvisioningAssumption DEF StartSession, DataInv
<1>4. IdsInTurn(conf, n)'
  BY <1>1, <1>2, <1>3 DEF IdsInTurn
<1>5. PacketsOfSession' /\ BufferReceived' /\ VerifiedKept' /\ ResultIsOfThisSession'
  BY <1>1 DEF DataInv, PacketsOfSession, BufferReceived, VerifiedKept, ResultIsOfThisSession,
              StartSession
<1>6. QED
  BY <1>1, <1>3, <1>4, <1>5 DEF DataInv

LEMMA StopCallData ==
    ASSUME PlainUse, SessionInv, DataInv, Provisioning_stop(TRUE)
    PROVE  DataInv'
<1>1. UNCHANGED <<msgs, m_method, m_session_id, m_data>>
  BY DEF Provisioning_stop, conf_vars
<1>2. /\ m_state' = "IDLE" /\ ~open' /\ result' = "STOPPED" /\ stops' > 0
      /\ UNCHANGED <<session, joining_end, verified>>
  BY StopCallSession
<1>3. VerifiedKept' /\ ResultIsOfThisSession'
  BY <1>1, <1>2 DEF DataInv, VerifiedKept, ResultIsOfThisSession
<1>4. m_state' \notin Numbered
  BY <1>2 DEF Numbered
<1>5. QED
  BY <1>1, <1>2, <1>3, <1>4, SameData DEF DataInv

LEMMA AnswerData ==
    ASSUME DataInv, AnswerNext, UNCHANGED <<node, app, verified>>
    PROVE  DataInv'
<1>1. PICK m \in msgs, answer \in Packet :
              /\ msgs' = msgs \cup {answer}
              /\ IF Refusal(answer) THEN answer.id = 0
                 ELSE m.type = "START" /\ answer.id = m.id /\ answer.from = m.from
  BY AnswerOf DEF DataInv
<1>2. PICK conf \in Confs, n \in 0 .. session : IdsInTurn(conf, n)
  BY DEF DataInv
<1>3. ~Refusal(answer) => ~Refusal(m)
  BY <1>1 DEF Refusal
<1>4. IdsInTurn(conf, n)'
  BY <1>1, <1>2, <1>3 DEF IdsInTurn, node, app
<1>5. PacketsOfSession'
  BY <1>1, <1>3 DEF DataInv, PacketsOfSession, node, app
<1>6. BufferReceived' /\ VerifiedKept' /\ ResultIsOfThisSession'
  BY <1>1 DEF DataInv, BufferReceived, VerifiedKept, ResultIsOfThisSession, node, app
<1>7. QED
  BY <1>1, <1>4, <1>5, <1>6 DEF DataInv, app

LEMMA NextData ==
    ASSUME PlainUse, IdsTellSessions, SessionInv, DataInv, [Next]_vars
    PROVE  DataInv'
<1>1. CASE NodeNext
  <2>1. CASE EventStep
    BY <2>1, EventData
  <2>2. CASE JoiningSteps
    BY <2>2, JoiningData
  <2>3. CASE \E sent, apply \in BOOLEAN : run_state_machine(sent, apply, TRUE)
    BY <2>3, RunData
  <2>4. CASE \E conf \in Confs : Provisioning_init(conf)
    BY <2>4, InitCallData
  <2>5. CASE Provisioning_start(TRUE)
    BY <2>5, StartCallData
  <2>6. CASE Provisioning_stop(TRUE)
    BY <2>6, StopCallData
  <2>7. QED
    BY <1>1, <2>1, <2>2, <2>3, <2>4, <2>5, <2>6, NodeCases
<1>2. CASE AnswerNext /\ UNCHANGED <<joining, radio, node, app, verified, proxy>>
  BY <1>2, AnswerData
<1>3. CASE UNCHANGED <<joining, radio, node, msgs, app, verified>>
  <2>1. VerifiedKept' /\ ResultIsOfThisSession'
    BY <1>3 DEF DataInv, VerifiedKept, ResultIsOfThisSession, node, app
  <2>2. QED
    BY <1>3, <2>1, SameData DEF DataInv, node, app
<1>4. QED
  BY <1>1, <1>2, <1>3 DEF Next, vars

-----------------------------------------------------------------------------
LEMMA InitSession == Init => SessionInv
BY DEF Init, ProvisioningInit, JoiningInit, SessionInv, OpenStates, Held, EndTold, JoiningDone,
       JoiningResults

LEMMA InitData == Init => DataInv
<1> SUFFICES ASSUME Init PROVE DataInv
  OBVIOUS
<1>1. PICK conf \in Confs : m_method = conf.method /\ m_session_id = conf.id
  BY DEF Init, ProvisioningInit
<1>2. /\ m_state = "IDLE" /\ session = 0 /\ open = FALSE /\ msgs = {} /\ m_data = NoPacket
      /\ result = NULL
  BY DEF Init, ProvisioningInit
<1>3. IdsInTurn(conf, 0)
  <2>1. conf.id \in Nat /\ conf.id < IdWrap /\ conf.id + 0 = conf.id /\ conf.id % IdWrap = conf.id
    BY ProvisioningAssumption
  <2>2. QED
    BY <1>1, <1>2, <2>1 DEF IdsInTurn
<1>4. NoPacket \in Packet /\ NoPacket.type = "START"
  <2>1. 0 \in 0 .. IdWrap - 1 /\ 0 \in 0 .. MaxSessions
    BY ProvisioningAssumption
  <2>2. QED
    BY <2>1 DEF Packet, NoPacket
<1>5. 0 \in 0 .. session /\ session \in 0 .. MaxSessions
  BY <1>2, ProvisioningAssumption
<1>6. PacketsOfSession /\ BufferReceived /\ VerifiedKept /\ ResultIsOfThisSession
  BY <1>2, <1>4 DEF PacketsOfSession, BufferReceived, VerifiedKept, ResultIsOfThisSession, Refusal
<1>7. QED
  BY <1>2, <1>3, <1>5, <1>6 DEF DataInv

LEMMA NextProxy ==
    ASSUME ProxyKeepsRole, ProxyInv, [Next]_vars
    PROVE  ProxyInv'
<1>1. CASE UNCHANGED proxy
  BY <1>1 DEF ProxyInv, LocalOrForwarded, proxy
<1>2. ASSUME NEW conf \in ProxyConfs, Provisioning_Proxy_init(conf) PROVE ProxyInv'
  <2>1. /\ ~p_started /\ ~p_started' /\ p_conf' = conf /\ conf # NULL
        /\ p_rx_item /\ ~local(conf) => <<TRUE, FALSE>> \in Reconfigure
    <3>1. ~p_started /\ ~p_started' /\ p_conf' = conf /\ conf # NULL
      BY <1>2, ProxyAssumption DEF Provisioning_Proxy_init
    <3>2. ASSUME p_rx_item, ~local(conf) PROVE <<TRUE, FALSE>> \in Reconfigure
      <4>1. <<local(p_conf), local(conf)>> \in Reconfigure /\ local(p_conf)
        BY <1>2, <3>2 DEF Provisioning_Proxy_init, ProxyInv
      <4>2. local(p_conf) = TRUE /\ local(conf) = FALSE
        BY <3>2, <4>1 DEF local
      <4>3. QED
        BY <4>1, <4>2
    <3>3. QED
      BY <3>1, <3>2
  <2>2. CASE local(conf)
    BY <1>2, <2>1, <2>2 DEF Provisioning_Proxy_init, ProxyInv, LocalOrForwarded
  <2>3. CASE ~local(conf)
    BY <1>2, <2>1, <2>3 DEF Provisioning_Proxy_init, ProxyInv, LocalOrForwarded, ProxyKeepsRole
  <2>4. QED
    BY <2>2, <2>3
<1>3. CASE Provisioning_Proxy_start
  BY <1>3 DEF Provisioning_Proxy_start, ProxyInv, LocalOrForwarded
<1>4. ASSUME NEW ok \in StopOutcomes, Provisioning_Proxy_stop(ok) PROVE ProxyInv'
  <2>1. ok = TRUE
    BY <1>4, ProxyAssumption DEF ProxyKeepsRole
  <2>2. QED
    BY <1>4, <2>1 DEF Provisioning_Proxy_stop, ProxyInv, LocalOrForwarded
<1>5. QED
  BY <1>1, <1>2, <1>3, <1>4 DEF Next, ProxyNext, vars

-----------------------------------------------------------------------------
(* The sort of the beacons that were heard.                                *)

\* Every non-empty set of natural numbers has a least element.
LEMMA LeastElement ==
    ASSUME NEW S \in SUBSET Nat, S # {}
    PROVE  \E m \in S : \A k \in S : m <= k
<1> DEFINE R == OpToRel(<, Nat)
<1>1. IsWellFoundedOn(R, Nat)
  BY NatLessThanWellFounded
<1>2. \A x, y \in Nat : <<x, y>> \in R <=> x < y
  BY DEF OpToRel
<1> HIDE DEF R
<1>3. PICK m \in S : \A k \in S : ~(<<k, m>> \in R)
  BY <1>1, WFMin
<1>4. ASSUME NEW k \in S PROVE m <= k
  <2>1. k \in Nat /\ m \in Nat
    OBVIOUS
  <2>2. ~(k < m)
    BY <2>1, <1>2, <1>3, Zenon
  <2>3. QED
    BY <2>1, <2>2
<1>5. QED
  BY <1>4

\* A set that contains 0 and the successor of each of its members below n
\* contains every number up to n.
LEMMA UpToInduction ==
    ASSUME NEW n \in Nat, NEW P,
           0 \in P,
           \A k \in 0 .. n - 1 : k \in P => k + 1 \in P
    PROVE  0 .. n \subseteq P
<1> DEFINE B == {k \in 0 .. n : k \notin P}
<1>1. SUFFICES ASSUME B # {} PROVE FALSE
  OBVIOUS
<1>2. B \in SUBSET Nat
  OBVIOUS
<1>3. PICK m \in B : \A k \in B : m <= k
  BY <1>1, <1>2, LeastElement
<1>4. m # 0
  OBVIOUS
<1>5. m - 1 \in 0 .. n - 1 /\ m - 1 \in P
  BY <1>3, <1>4
<1>6. QED
  BY <1>5

\* What the walk holds after beacon i, from what it held before
WalkOver(beacons, w, i) ==
    IF beacons[i] \in Proxies THEN w
    ELSE IF i = w.start THEN [w EXCEPT !.start = i + 1]
    ELSE [w EXCEPT !.after = i + 1]

WalkStart == [start |-> 1, after |-> 2]

\* walk is the walk over the first n beacons
IsWalk(beacons, walk, n) ==
    walk = [i \in 0 .. n |-> IF i = 0 THEN WalkStart ELSE WalkOver(beacons, walk[i - 1], i)]

\* The recursion of sort_walk is well-founded: such a walk exists.
LEMMA WalkExists ==
    ASSUME NEW beacons, NEW n \in Nat
    PROVE  \E walk : IsWalk(beacons, walk, n)
<1> DEFINE P == {k \in 0 .. n : \E walk : IsWalk(beacons, walk, k)}
<1>1. 0 \in P
  <2> DEFINE w0 == [i \in 0 .. 0 |-> WalkStart]
  <2>1. IsWalk(beacons, w0, 0)
    BY DEF IsWalk
  <2>2. QED
    BY <2>1
<1>2. ASSUME NEW k \in 0 .. n - 1, k \in P PROVE k + 1 \in P
  <2>1. PICK walk : IsWalk(beacons, walk, k)
    BY <1>2
  <2> DEFINE next == [i \in 0 .. k + 1 |-> IF i = 0 THEN WalkStart ELSE WalkOver(beacons, walk[i - 1], i)]
  <2>2. \A i \in 0 .. k : walk[i] = next[i]
    BY <2>1 DEF IsWalk
  <2>3. IsWalk(beacons, next, k + 1)
    <3>1. \A i \in 0 .. k + 1 : i # 0 => i - 1 \in 0 .. k
      OBVIOUS
    <3>2. \A i \in 0 .. k + 1 : i # 0 => next[i - 1] = walk[i - 1]
      BY <2>2, <3>1
    <3>3. QED
      BY <3>2 DEF IsWalk
  <2>4. QED
    BY <2>3
<1> HIDE DEF P
<1>3. 0 .. n \subseteq P
  BY <1>1, <1>2, UpToInduction
<1>4. QED
  BY <1>3 DEF P

LEMMA SortWalk ==
    ASSUME NEW beacons, Len(beacons) \in Nat
    PROVE  \E walk : IsWalk(beacons, walk, Len(beacons)) /\ sort_walk(beacons) = walk[Len(beacons)]
<1> DEFINE n == Len(beacons)
           D(walk) == [i \in 0 .. n |->
                         IF i = 0 THEN [start |-> 1, after |-> 2]
                         ELSE IF beacons[i] \in Proxies THEN walk[i - 1]
                         ELSE IF i = walk[i - 1].start THEN [walk[i - 1] EXCEPT !.start = i + 1]
                         ELSE [walk[i - 1] EXCEPT !.after = i + 1]]
           chosen == CHOOSE walk : walk = D(walk)
<1>1. \A walk : IsWalk(beacons, walk, n) <=> walk = D(walk)
  BY DEF IsWalk, WalkStart, WalkOver
<1>2. \E walk : walk = D(walk)
  BY <1>1, WalkExists
<1>3. chosen = D(chosen)
  BY <1>2, Zenon
<1>4. sort_walk(beacons) = chosen[n]
  BY DEF sort_walk
<1>5. QED
  BY <1>1, <1>3, <1>4, Zenon

\* The first i beacons: those in front of start are foreign, start is the first
\* of a proxy, and if it is the very first, all from after on are of proxies
Walked(beacons, w, i) ==
    /\ w.start \in 1 .. i + 1 /\ w.after \in Nat /\ w.after >= 2 /\ (w.after = 2 \/ w.after <= i + 1)
    /\ \A j \in 1 .. i : j < w.start => beacons[j] \notin Proxies
    /\ w.start <= i => beacons[w.start] \in Proxies
    /\ w.start = 1 => \A j \in 2 .. i : j >= w.after => beacons[j] \in Proxies

LEMMA WalkedAll ==
    ASSUME NEW beacons \in Seq(Proxies \cup Others), NEW walk, IsWalk(beacons, walk, Len(beacons))
    PROVE  Walked(beacons, walk[Len(beacons)], Len(beacons))
<1> DEFINE n == Len(beacons)
           P == {i \in 0 .. n : /\ walk[i] \in [start : Nat, after : Nat]
                                /\ Walked(beacons, walk[i], i)}
<1>n. n \in Nat
  OBVIOUS
<1>1. 0 \in P
  <2>1. walk[0] = WalkStart
    BY <1>n DEF IsWalk
  <2>2. QED
    BY <2>1, <1>n DEF WalkStart, Walked
<1>2. ASSUME NEW k \in 0 .. n - 1, k \in P PROVE k + 1 \in P
  <2> DEFINE i == k + 1
             w == walk[k]
  <2>1. i \in 1 .. n /\ i - 1 = k /\ k \in Nat
    BY <1>n
  <2>2. walk[i] = WalkOver(beacons, w, i)
    BY <2>1 DEF IsWalk
  <2>3. w \in [start : Nat, after : Nat] /\ Walked(beacons, w, k)
    BY <1>2
  <2>4. \A j \in 1 .. i : j \in 1 .. k \/ j = i
    BY <2>1
  <2> HIDE DEF w, i
  <2>5. CASE beacons[i] \in Proxies
    <3>1. walk[i] = w
      BY <2>2, <2>5 DEF WalkOver
    <3>2. Walked(beacons, w, i)
      BY <2>1, <2>3, <2>4, <2>5, <1>n DEF Walked, i
    <3>3. QED
      BY <2>1, <2>3, <3>1, <3>2 DEF i
  <2>6. CASE beacons[i] \notin Proxies /\ i = w.start
    <3>1. walk[i] = [start |-> i + 1, after |-> w.after]
      BY <2>2, <2>3, <2>6 DEF WalkOver
    <3>2. Walked(beacons, [start |-> i + 1, after |-> w.after], i)
      BY <2>1, <2>3, <2>4, <2>6, <1>n DEF Walked, i
    <3>3. QED
      BY <2>1, <2>3, <3>1, <3>2 DEF i
  <2>7. CASE beacons[i] \notin Proxies /\ i # w.start
    <3>1. walk[i] = [start |-> w.start, after |-> i + 1]
      BY <2>2, <2>3, <2>7 DEF WalkOver
    <3>2. w.start <= k /\ i >= 2
      BY <2>1, <2>3, <2>7 DEF Walked, i
    <3>3. Walked(beacons, [start |-> w.start, after |-> i + 1], i)
      <4>1. w.start \in 1 .. i + 1 /\ beacons[w.start] \in Proxies
        BY <2>1, <2>3, <3>2 DEF Walked, i
      <4>2. \A j \in 1 .. i : j < w.start => beacons[j] \notin Proxies
        BY <2>3, <2>4, <2>7 DEF Walked
      <4>3. \A j \in 2 .. i : ~(j >= i + 1)
        BY <2>1
      <4>4. QED
        BY <2>1, <3>2, <4>1, <4>2, <4>3, <1>n DEF Walked
    <3>4. QED
      BY <2>1, <2>3, <3>1, <3>3 DEF i
  <2>8. QED
    BY <2>5, <2>6, <2>7 DEF i
<1> HIDE DEF P
<1>3. 0 .. n \subseteq P
  BY <1>n, <1>1, <1>2, UpToInduction
<1>4. n \in P
  BY <1>n, <1>3
<1>5. QED
  BY <1>4 DEF P

\* What the sort leaves of a list: the first beacon of a proxy and a tail of the
\* list behind it, which holds foreign beacons only if the list begins with one.
LEMMA Sorted ==
    ASSUME NEW beacons \in Seq(Proxies \cup Others)
    PROVE  LET list == sort_provisioning_beacons(beacons)
               wanted == {i \in DOMAIN beacons : beacons[i] \in Proxies}
           IN  /\ wanted = {} => list = << >>
               /\ \A i \in wanted : (\A j \in wanted : i <= j) =>
                      list # << >> /\ list[1] = beacons[i]
               /\ \A k \in DOMAIN list : \E i \in DOMAIN beacons :
                      /\ list[k] = beacons[i]
                      /\ beacons[i] \notin Proxies =>
                            /\ beacons[1] \notin Proxies
                            /\ \E j \in 1 .. i : beacons[j] \in Proxies
<1> DEFINE n == Len(beacons)
           w == sort_walk(beacons)
           list == sort_provisioning_beacons(beacons)
           wanted == {i \in DOMAIN beacons : beacons[i] \in Proxies}
<1>n. n \in Nat /\ DOMAIN beacons = 1 .. n
  OBVIOUS
<1>1. Walked(beacons, w, n)
  BY <1>n, SortWalk, WalkedAll
<1> HIDE DEF w
<1>2. CASE w.start = 1 /\ n > 0
  <2> DEFINE rest == SubSeq(beacons, w.after, n)
  <2>1. w.after \in Nat /\ w.after >= 2 /\ w.after <= n + 1 /\ beacons[1] \in Proxies
    BY <1>n, <1>1, <1>2 DEF Walked
  <2>2. /\ rest \in Seq(Proxies \cup Others) /\ Len(rest) = (n + 1) - w.after
        /\ \A k \in 1 .. Len(rest) : rest[k] = beacons[(w.after + k) - 1]
    BY <1>n, <2>1
  <2> HIDE DEF rest
  <2>3. list = <<beacons[1]>> \o rest
    BY <1>2 DEF sort_provisioning_beacons, w, rest
  <2>4. /\ DOMAIN list = 1 .. Len(rest) + 1 /\ list # << >>
        /\ list[1] = beacons[1]
        /\ \A k \in 2 .. Len(rest) + 1 : list[k] = rest[k - 1]
    BY <2>2, <2>3
  <2> HIDE DEF list
  <2>5. ASSUME NEW k \in DOMAIN list
        PROVE  \E i \in DOMAIN beacons : list[k] = beacons[i] /\ beacons[i] \in Proxies
    <3>1. CASE k = 1
      BY <3>1, <1>n, <1>2, <2>1, <2>4
    <3>2. CASE k # 1
      <4>0. Len(rest) \in Nat /\ k \in Int
        BY <2>2, <2>4
      <4>1. k - 1 \in 1 .. Len(rest) /\ k \in 2 .. Len(rest) + 1
        BY <4>0, <2>4, <3>2
      <4>2. (w.after + (k - 1)) - 1 \in 2 .. n /\ (w.after + (k - 1)) - 1 >= w.after
        BY <4>0, <4>1, <2>1, <2>2, <1>n
      <4>3. list[k] = beacons[(w.after + (k - 1)) - 1]
        BY <2>2, <2>4, <4>1
      <4>4. beacons[(w.after + (k - 1)) - 1] \in Proxies
        BY <1>1, <1>2, <4>2 DEF Walked
      <4>5. (w.after + (k - 1)) - 1 \in DOMAIN beacons
        BY <1>n, <4>2
      <4>6. QED
        BY <4>3, <4>4, <4>5
    <3>3. QED
      BY <3>1, <3>2
  <2>6. 1 \in wanted
    BY <1>n, <1>2, <2>1
  <2>7. \A i \in wanted : (\A j \in wanted : i <= j) => i = 1
    BY <1>n, <2>6
  <2>8. QED
    BY <2>4, <2>5, <2>6, <2>7 DEF list
<1>3. CASE ~(w.start = 1 /\ n > 0)
  <2>1. w.start \in Nat /\ w.start >= 1 /\ w.start <= n + 1 /\ (w.start = 1 => n = 0)
    BY <1>n, <1>1, <1>3 DEF Walked
  <2>2. list = SubSeq(beacons, w.start, n)
    BY <1>3 DEF sort_provisioning_beacons, w
  <2>3. /\ list \in Seq(Proxies \cup Others)
        /\ DOMAIN list = 1 .. Len(list) /\ Len(list) = (n + 1) - w.start
        /\ \A k \in 1 .. Len(list) : list[k] = beacons[(w.start + k) - 1]
    BY <1>n, <2>1, <2>2
  <2> HIDE DEF list
  <2>4. \A i \in wanted : i >= w.start
    BY <1>n, <1>1, <2>1 DEF Walked
  <2>5. w.start <= n => w.start \in wanted /\ list # << >> /\ list[1] = beacons[w.start]
    BY <1>n, <1>1, <2>1, <2>3 DEF Walked
  <2>6. w.start > n => wanted = {} /\ list = << >>
    <3>1. w.start > n => Len(list) = 0
      BY <1>n, <2>1, <2>3
    <3>2. w.start > n => list = << >>
      BY <2>3, <3>1
    <3>3. QED
      BY <1>n, <2>1, <2>4, <3>2
  <2>7. ASSUME NEW i \in wanted, \A j \in wanted : i <= j
        PROVE  list # << >> /\ list[1] = beacons[i]
    <3>1. w.start <= n /\ i \in Int
      BY <1>n, <2>1, <2>4
    <3>2. i = w.start
      BY <2>1, <2>4, <2>5, <2>7, <3>1
    <3>3. QED
      BY <2>5, <3>1, <3>2
  <2>8. ASSUME NEW k \in DOMAIN list
        PROVE  \E i \in DOMAIN beacons :
                  /\ list[k] = beacons[i]
                  /\ beacons[1] \notin Proxies
                  /\ \E j \in 1 .. i : beacons[j] \in Proxies
    <3> DEFINE i == (w.start + k) - 1
    <3>1. k \in 1 .. Len(list) /\ Len(list) \in Nat
      BY <1>n, <2>1, <2>3
    <3>2. i \in 1 .. n /\ i >= w.start /\ w.start <= n /\ w.start > 1
      BY <1>n, <2>1, <2>3, <3>1
    <3>3. list[k] = beacons[i]
      BY <2>3, <3>1
    <3>4. beacons[1] \notin Proxies
      BY <1>n, <1>1, <3>2 DEF Walked
    <3>5. w.start \in 1 .. i /\ beacons[w.start] \in Proxies
      BY <2>1, <2>5, <3>2
    <3>6. QED
      BY <1>n, <3>2, <3>3, <3>4, <3>5
  <2>9. QED
    BY <2>5, <2>6, <2>7, <2>8, <2>1, <1>n DEF list
<1>4. QED
  BY <1>2, <1>3

\* The list in use is one the stack has heard.
JoinsInv == m_beacons \in Scans \cup {<< >>}

LEMMA HeardIsList ==
    ASSUME JoinsInv
    PROVE  m_beacons \in Seq(Proxies \cup Others)
<1>1. << >> \in Seq(Proxies \cup Others)
  OBVIOUS
<1>2. Scans \subseteq Seq(Proxies \cup Others)
  BY JoiningAssumption
<1>3. QED
  BY <1>1, <1>2, Zenon DEF JoinsInv

\* joining.c keeps or leaves its network, or joins one of the sorted list,
\* whether its tasks find room in the scheduler or not.
LEMMA ScanEndedJoins ==
    ASSUME JoinsInv, NEW ok, NEW room, NEW end, scan_ended(ok, room, end)
    PROVE  JoinedWasHeard
<1> DEFINE beacons == sort_provisioning_beacons(m_beacons)
<1>1. \A k \in DOMAIN beacons : \E i \in DOMAIN m_beacons :
          /\ beacons[k] = m_beacons[i]
          /\ m_beacons[i] \notin Proxies =>
                /\ m_beacons[1] \notin Proxies
                /\ \E j \in 1 .. i : m_beacons[j] \in Proxies
  BY HeardIsList, Sorted
<1> HIDE DEF beacons
<1>2. \/ network' \in {network, NULL}
      \/ \E k \in DOMAIN beacons : network' = beacons[k]
  <2>1. ASSUME NEW res, retry(res, end), end = NULL => UNCHANGED network
        PROVE  network' \in {network, NULL}
    BY <2>1 DEF retry, reset_joining
  <2>2. ASSUME NEW event, NEW cb, wait_route(room, event, cb, end), ~room
        PROVE  network' \in {network, NULL}
    BY <2>2 DEF wait_route, reset_joining
  <2>3. CASE retry("ERROR_SCANNING_BEACONS", end) /\ (end = NULL => UNCHANGED radio)
    BY <2>1, <2>3 DEF radio
  <2>4. ASSUME NEW k \in DOMAIN beacons, wait_route(room, {}, TRUE, end),
               room => network' = beacons[k]
        PROVE  \/ network' \in {network, NULL}
               \/ network' = beacons[k]
    BY <2>2, <2>4
  <2>5. CASE retry("ERROR_JOINING", end) /\ (end = NULL => UNCHANGED radio)
    BY <2>1, <2>5 DEF radio
  <2>6. CASE wait_route(room, {"route_change"}, j_route_cb, end) /\ (room => UNCHANGED radio)
    BY <2>2, <2>6 DEF radio
  <2>7. QED
    BY <2>3, <2>4, <2>5, <2>6 DEF scan_ended, beacons
<1>3. QED
  BY <1>1, <1>2 DEF JoinedWasHeard

LEMMA RunJoins ==
    ASSUME JoinsInv, NEW ok, NEW room, NEW end, joining_run_state_machine(ok, room, end)
    PROVE  JoinsInv' /\ JoinedWasHeard
<1>1. CASE joining_state_idle(end)
  BY <1>1 DEF joining_state_idle, radio, JoinsInv, JoinedWasHeard
<1>2. CASE joining_state_start(ok, room, end)
  BY <1>2 DEF joining_state_start, retry, reset_joining, JoinsInv, JoinedWasHeard
<1>3. CASE joining_state_wait_scan_end(ok, room, end)
  <2>1. JoinsInv'
    BY <1>3 DEF joining_state_wait_scan_end, JoinsInv
  <2>2. CASE scan_ended(ok, room, end)
    BY <2>1, <2>2, ScanEndedJoins
  <2>3. CASE ~scan_ended(ok, room, end)
    BY <1>3, <2>1, <2>3 DEF joining_state_wait_scan_end, retry, reset_joining, radio, JoinedWasHeard
  <2>4. QED
    BY <2>2, <2>3
<1>4. CASE joining_state_wait_route_change(end)
  BY <1>4 DEF joining_state_wait_route_change, retry, reset_joining, radio, JoinsInv, JoinedWasHeard
<1>5. QED
  BY <1>1, <1>2, <1>3, <1>4 DEF joining_run_state_machine

LEMMA StackJoins ==
    ASSUME JoinsInv, NEW room, NEW end,
           \/ joining_beacon_rx_cb(room, end)
           \/ route_changed_cb(room, end)
           \/ joining_timeout_task(room, end)
    PROVE  JoinsInv' /\ JoinedWasHeard
BY DEF joining_beacon_rx_cb, route_changed_cb, joining_timeout_task, raise, reset_joining, radio,
       JoinsInv, JoinedWasHeard

LEMMA StopJoins ==
    ASSUME JoinsInv, NEW state, reset_provisioning(state)
    PROVE  JoinsInv' /\ JoinedWasHeard
BY DEF reset_provisioning, Provisioning_Joining_stop, reset_joining, JoinsInv, JoinedWasHeard

LEMMA SameJoins ==
    ASSUME JoinsInv, UNCHANGED <<joining, radio>>
    PROVE  JoinsInv' /\ JoinedWasHeard
BY DEF joining, radio, JoinsInv, JoinedWasHeard

LEMMA NodeRunJoins ==
    ASSUME JoinsInv, NEW sent, NEW apply, NEW room, run_state_machine(sent, apply, room)
    PROVE  JoinsInv' /\ JoinedWasHeard
<1>1. CASE \E state : reset_provisioning(state)
  BY <1>1, StopJoins
<1>2. CASE Provisioning_Joining_start
  BY <1>2 DEF Provisioning_Joining_start, radio, JoinsInv, JoinedWasHeard
<1>3. \/ UNCHANGED <<joining, radio>>
      \/ \E state : reset_provisioning(state)
      \/ Provisioning_Joining_start
  <2>1. CASE state_idle(room)
    BY <2>1 DEF state_idle
  <2>2. CASE state_wait_joining
    BY <2>2 DEF state_wait_joining
  <2>3. CASE state_start(sent, room)
    BY <2>3 DEF state_start
  <2>4. CASE state_wait_data(sent, room)
    BY <2>4 DEF state_wait_data, send_ack_packet, FailedAttempt
  <2>5. CASE state_wait_ack_sent(apply)
    BY <2>5 DEF state_wait_ack_sent
  <2>6. QED
    BY <2>1, <2>2, <2>3, <2>4, <2>5 DEF run_state_machine
<1>4. QED
  BY <1>1, <1>2, <1>3, SameJoins

LEMMA NextJoins ==
    ASSUME JoinsInv, [Next]_vars
    PROVE  JoinsInv' /\ JoinedWasHeard
<1>1. CASE UNCHANGED <<joining, radio>>
  BY <1>1, SameJoins
<1>2. ASSUME NEW room \in Rooms, JoiningScanEnd(room) \/ JoiningRouteChange(room) \/ JoiningTimeout(room)
      PROVE  JoinsInv' /\ JoinedWasHeard
  BY <1>2, StackJoins DEF JoiningScanEnd, JoiningRouteChange, JoiningTimeout
<1>3. ASSUME NEW room \in Rooms, JoiningRun(room) PROVE JoinsInv' /\ JoinedWasHeard
  BY <1>3, RunJoins DEF JoiningRun
<1>4. ASSUME NEW room \in Rooms, NEW sent, NEW apply, run_state_machine(sent, apply, room)
      PROVE  JoinsInv' /\ JoinedWasHeard
  BY <1>4, NodeRunJoins
<1>5. ASSUME NEW room \in Rooms,
             \/ \E m \in msgs : pkt_received_cb(m, room)
             \/ timeout(room) \/ packet_sent_cb(room) \/ Provisioning_start(room)
             \/ \E conf \in Confs : Provisioning_init(conf)
      PROVE  JoinsInv' /\ JoinedWasHeard
  BY <1>1, <1>5 DEF pkt_received_cb, timeout, packet_sent_cb, Provisioning_start, Provisioning_init
<1>6. ASSUME NEW room \in Rooms, Provisioning_stop(room) PROVE JoinsInv' /\ JoinedWasHeard
  BY <1>1, <1>6, StopJoins DEF Provisioning_stop
<1>7. QED
  BY <1>1, <1>2, <1>3, <1>4, <1>5, <1>6 DEF Next, NodeNext, vars

-----------------------------------------------------------------------------
(***************************************************************************)
(* When a session of provisioning.c is open, what the library holds in     *)
(* each state and how its joining ended, whatever events, packets, timers  *)
(* and stops come together.                                                *)
(***************************************************************************)
THEOREM SessionInvariant == PlainUse => (Spec => []SessionInv)
<1>1. ASSUME PlainUse PROVE SessionInv /\ [Next]_vars => SessionInv'
  BY <1>1, NextSession
<1>2. ASSUME PlainUse PROVE Spec => []SessionInv
  BY <1>1, <1>2, InitSession, PTL DEF Spec
<1>3. QED
  BY <1>2

(***************************************************************************)
(* After end_cb the library holds neither a task, a filter nor a callback, *)
(* joining.c is idle and the node has left the network: whichever state    *)
(* reset_provisioning() was called in, and whatever the joining was doing. *)
(***************************************************************************)
THEOREM NothingHeldAfterEnd == PlainUse => (Spec => []EndedIsReleased)
<1>1. SessionInv => EndedIsReleased
  <2> SUFFICES ASSUME SessionInv, ~open, Alive
               PROVE  /\ m_state = "IDLE" /\ JoiningDone /\ ~m_rx_item /\ ~timeout_task
                      /\ network = NULL
    BY DEF EndedIsReleased, JoiningDone
  <2>1. m_state = "IDLE"
    BY DEF SessionInv, OpenStates, Alive
  <2>2. QED
    BY <2>1 DEF SessionInv, Held
<1>2. ASSUME PlainUse PROVE Spec => []EndedIsReleased
  BY <1>1, <1>2, SessionInvariant, PTL
<1>3. QED
  BY <1>2

(***************************************************************************)
(* The node, with its proxy, its server and the network between them,      *)
(* implements ProvisioningSession: end_cb is called once when a session    *)
(* ends by itself and once at every stop, in a session or not, and never   *)
(* otherwise.                                                              *)
(***************************************************************************)
THEOREM SessionsAreImplemented == PlainUse => (Spec => ImplementsSession)
<1>1. Init => Service!Init
  BY DEF Init, ProvisioningInit, Service!Init
<1>2. ASSUME PlainUse PROVE SessionInv /\ [Next]_vars => [Service!Next]_Service!vars
  BY <1>2, NextSession DEF AppStep, Service!vars
<1>3. ASSUME PlainUse PROVE Spec => ImplementsSession
  BY <1>1, <1>2, <1>3, SessionInvariant, PTL DEF Spec, ImplementsSession, Service!Spec
<1>4. QED
  BY <1>3

(***************************************************************************)
(* Which session each packet, and the packet in the buffer, belongs to.    *)
(***************************************************************************)
THEOREM DataInvariant == PlainUse /\ IdsTellSessions => (Spec => []DataInv)
<1>1. ASSUME PlainUse, IdsTellSessions PROVE SessionInv /\ DataInv /\ [Next]_vars => DataInv'
  BY <1>1, NextData
<1>2. ASSUME PlainUse, IdsTellSessions PROVE Spec => []DataInv
  BY <1>1, <1>2, InitData, SessionInvariant, PTL DEF Spec
<1>3. QED
  BY <1>2

(***************************************************************************)
(* The node reboots with the parameters it checked, and they were sent for *)
(* this session, however many packets of other sessions are received       *)
(* before, between and after, any number of times.                         *)
(***************************************************************************)
THEOREM AppliedIsVerified == PlainUse /\ IdsTellSessions => (Spec => []AppliedWasVerified)
<1>1. DataInv => AppliedWasVerified
  BY DEF DataInv, VerifiedKept, AppliedWasVerified
<1>2. ASSUME PlainUse, IdsTellSessions PROVE Spec => []AppliedWasVerified
  BY <1>1, <1>2, DataInvariant, PTL
<1>3. QED
  BY <1>2

(***************************************************************************)
(* What end_cb is told has its cause in the session it is told of: a       *)
(* packet found valid, a refusal of the server, a stop or a failed         *)
(* joining, never an event or a packet left by an earlier session.         *)
(***************************************************************************)
THEOREM ResultsOfTheirSession == PlainUse /\ IdsTellSessions => (Spec => []ResultIsOfThisSession)
<1>1. DataInv => ResultIsOfThisSession
  BY DEF DataInv
<1>2. ASSUME PlainUse, IdsTellSessions PROVE Spec => []ResultIsOfThisSession
  BY <1>1, <1>2, DataInvariant, PTL
<1>3. QED
  BY <1>2

(***************************************************************************)
(* A packet of a new node is answered by the proxy or forwarded to the     *)
(* server, never both or neither, through any configurations, starts and   *)
(* stops of proxy.c, if the stack stops the beacons when asked and a proxy *)
(* that answered by itself is not configured to forward later.             *)
(***************************************************************************)
THEOREM ProxyAnswersOrForwards == ProxyKeepsRole => (Spec => []LocalOrForwarded)
<1>1. Init => ProxyInv
  BY DEF Init, ProxyInit, ProxyInv, LocalOrForwarded
<1>2. ProxyInv => LocalOrForwarded
  BY DEF ProxyInv
<1>3. ASSUME ProxyKeepsRole PROVE ProxyInv /\ [Next]_vars => ProxyInv'
  BY <1>3, NextProxy
<1>4. ASSUME ProxyKeepsRole PROVE Spec => []LocalOrForwarded
  BY <1>1, <1>2, <1>3, <1>4, PTL DEF Spec
<1>5. QED
  BY <1>4

(***************************************************************************)
(* Whatever a scan hears, any number of beacons of any types in any order, *)
(* sort_provisioning_beacons() leaves the first provisioning beacon at the *)
(* head of the list and nothing if there is none; and whatever retries,    *)
(* timeouts and stops come together, the network that is joined was heard, *)
(* and is foreign only behind a provisioning beacon in a list that began   *)
(* with a foreign one.  Whether the tasks find room does not matter.       *)
(***************************************************************************)
THEOREM NetworkWasHeard == Spec => JoinsWhatWasHeard
<1>1. Init => JoinsInv
  BY DEF Init, ProvisioningInit, JoiningInit, JoinsInv
<1>2. JoinsInv => FirstProxyIsOffered
  BY HeardIsList, Sorted DEF FirstProxyIsOffered
<1>3. JoinsInv /\ [Next]_vars => JoinsInv' /\ [FirstProxyIsOffered /\ JoinedWasHeard]_vars
  BY <1>2, NextJoins
<1>4. QED
  BY <1>1, <1>3, PTL DEF Spec, JoinsWhatWasHeard
=============================================================================
