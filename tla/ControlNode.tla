----------------------------- MODULE ControlNode -----------------------------
(***************************************************************************)
(* libraries/control_node/control_node.c: an advertiser sends each packet  *)
(* to the best router around, sends it again to a second router if the     *)
(* first is slow or fails, and tells the application once what became of   *)
(* it.  A safety timer covers a stack that does not answer.                *)
(*                                                                         *)
(* Time is counted in units of half the time to live of a packet.  The     *)
(* stack answers for a packet within its time to live, unless Late; the    *)
(* two tasks run when they are due.  Shared data is seen through what it   *)
(* does to this module: it lends a slot, whose number replaces the         *)
(* tracking id in m_data, refuses an id of a packet still on its way, and  *)
(* may refuse for other reasons, its other clients included.               *)
(***************************************************************************)
EXTENDS Integers, FiniteSets

CONSTANTS
    Router,         \* addresses of routers
    NborTables,     \* the neighbours the stack may report, best first
    Slots,          \* tracking slots of shared data
    Id,             \* tracking ids of the application
    TTL,            \* packet_ttl_ms
    NULL,           \* a task not scheduled; NO_ROUTE_FOUND_ADDRESS
    Late,           \* the stack may answer after the time to live, or never
    FullScheduler,  \* the scheduler may have no slot for a task
    SendInCallback  \* the application sends from its sent callback

ASSUME ControlAssumption ==
    /\ TTL \in Nat \ {0}
    /\ Slots \subseteq Nat /\ Id \subseteq Nat /\ NULL \notin Nat /\ NULL \notin Router
    /\ Late \in BOOLEAN /\ FullScheduler \in BOOLEAN /\ SendInCallback \in BOOLEAN

(* What is kept of a neighbour; norm_rssi is an int8_t.                    *)
INT8_MIN == -128
Nbor == [address : Router, norm_rssi : INT8_MIN .. 127, recent : BOOLEAN, diradv_support : BOOLEAN]

ASSUME NborAssumption == NborTables \subseteq SUBSET Nbor

VARIABLES
    m_state,
    m_send_handle,  \* the packet to the primary router and the one to the backup
    m_sent_cb,      \* the callback of the application is to be called
    tracking_id,    \* of m_data
    flight,         \* packets the stack has accepted
    backup_task,    \* time left before backup_route_task, or NULL
    reset_timer,    \* time left before reset_task, or NULL
    in_reset,       \* reset_task is calling the application
    owed,           \* a packet was accepted, its result not yet told
    told,           \* what the application was told of the last packet
    delivered,      \* the stack reported a success for the last packet
    late            \* the stack has been late once

vars == <<m_state, m_send_handle, m_sent_cb, tracking_id, flight, backup_task,
          reset_timer, in_reset, owed, told, delivered, late>>
user == <<owed, told, delivered>>

Flights == [slot : Slots, id : Nat, to : Router, left : 0 .. TTL, mine : BOOLEAN]
Handles == [sent : BOOLEAN, ack : BOOLEAN, end : BOOLEAN, address : Router \cup {NULL}]

-----------------------------------------------------------------------------
(* The best router: one heard of recently before any other, the strongest  *)
(* among those.  A neighbour at the lowest level is never chosen.          *)
get_da_router_address(nbors, exclude) ==
    LET usable == {n \in nbors : n.address # exclude /\ n.diradv_support /\ n.norm_rssi > INT8_MIN}
        recent == {n \in usable : n.recent}
        best(S) == (CHOOSE n \in S : \A m \in S : n.norm_rssi >= m.norm_rssi).address
    IN  IF recent # {} THEN best(recent)
        ELSE IF usable # {} THEN best(usable) ELSE NULL

(* Shared_Data_sendData(&m_data, packet_sent_cb) on top of packets F, when *)
(* m_data.tracking_id is id: what it leaves in flight and in m_data.       *)
FreeSlots(F) == Slots \ {p.slot : p \in F}

Accepted(F, id, to) ==
    {[in_flight |-> F \cup {[slot |-> s, id |-> id, to |-> to, left |-> TTL, mine |-> TRUE]},
      id |-> s] : s \in IF to = NULL \/ (\E p \in F : p.id = id) THEN {} ELSE FreeSlots(F)}

Refused(F, id) == {[in_flight |-> F, id |-> i] : i \in {id} \cup FreeSlots(F)}

ResetDelay == 2 * TTL

BackupDelay == TTL \div 2

(* App_Scheduler_addTask_execTime(): with the table full, the task is not  *)
(* scheduled.                                                              *)
Scheduled(delay) == IF FullScheduler THEN {delay, NULL} ELSE {delay}

-----------------------------------------------------------------------------
NoHandle == [sent |-> FALSE, ack |-> FALSE, end |-> FALSE, address |-> NULL]

Init ==
    /\ m_state = "UNINIT"
    /\ m_send_handle = [i \in {0, 1} |-> NoHandle]
    /\ m_sent_cb = FALSE /\ tracking_id = 0
    /\ flight = {} /\ backup_task = NULL /\ reset_timer = NULL /\ in_reset = FALSE
    /\ owed = FALSE /\ told = "none" /\ delivered = FALSE /\ late = FALSE

Control_Node_init ==
    /\ ~in_reset
    /\ m_state = "UNINIT"
    /\ m_state' = "IDLE"
    /\ UNCHANGED <<m_send_handle, m_sent_cb, tracking_id, flight, backup_task,
                   reset_timer, in_reset, user, late>>

MaySend ==
    /\ m_state = "IDLE"
    /\ in_reset => SendInCallback

(* What every Control_Node_send() does first: the handles, the copy of the *)
(* packet and of the callback.                                             *)
NewPacket(cb) ==
    /\ told' = "none" /\ delivered' = FALSE
    /\ m_sent_cb' = cb

Others == {[p EXCEPT !.mine = FALSE] : p \in flight}

Handle(address, sent, end) == [sent |-> sent, ack |-> FALSE, end |-> end, address |-> address]

(* The stack takes the packet for the primary router; the timer of the     *)
(* backup route is started if there is one.                                *)
SendPrimary(nbors, id, cb) ==
    LET primary == get_da_router_address(nbors, NULL)
        backup == get_da_router_address(nbors, primary)
    IN  /\ MaySend
        /\ NewPacket(cb)
        /\ \E r \in Accepted(Others, id, primary) : flight' = r.in_flight /\ tracking_id' = r.id
        /\ reset_timer' \in Scheduled(ResetDelay)
        /\ backup_task' \in IF backup = NULL THEN {backup_task} ELSE Scheduled(BackupDelay)
        /\ m_send_handle' = [i \in {0, 1} |-> IF i = 0 THEN Handle(primary, TRUE, FALSE)
                                              ELSE Handle(backup, FALSE, backup = NULL \/ backup_task' = NULL)]
        /\ m_state' = "BUSY" /\ owed' = cb
        /\ UNCHANGED <<in_reset, late>>

\* Mutant: the safety timer is not started.
SendBackupAtOnce_untimed(nbors, id, cb) ==
    LET primary == get_da_router_address(nbors, NULL)
        backup == get_da_router_address(nbors, primary)
    IN  /\ MaySend
        /\ NewPacket(cb)
        /\ \E r \in Refused(Others, id) : \E s \in Accepted(Others, r.id, backup) :
                flight' = s.in_flight /\ tracking_id' = s.id
        /\ m_send_handle' = [i \in {0, 1} |-> IF i = 0 THEN Handle(primary, TRUE, TRUE)
                                              ELSE Handle(backup, TRUE, TRUE)]
        /\ m_state' = "BUSY" /\ owed' = cb
        /\ UNCHANGED <<reset_timer, backup_task, in_reset, late>>

(* The stack refuses it, and takes it for the backup router.               *)
SendBackupAtOnce(nbors, id, cb) ==
    LET primary == get_da_router_address(nbors, NULL)
        backup == get_da_router_address(nbors, primary)
    IN  /\ MaySend
        /\ NewPacket(cb)
        /\ \E r \in Refused(Others, id) : \E s \in Accepted(Others, r.id, backup) :
                flight' = s.in_flight /\ tracking_id' = s.id
        /\ reset_timer' \in Scheduled(ResetDelay)
        /\ m_send_handle' = [i \in {0, 1} |-> IF i = 0 THEN Handle(primary, TRUE, TRUE)
                                              ELSE Handle(backup, TRUE, TRUE)]
        /\ m_state' = "BUSY" /\ owed' = cb
        /\ UNCHANGED <<backup_task, in_reset, late>>

(* The stack refuses both, or there is no backup router: the application   *)
(* gets an error.                                                          *)
SendNothing(nbors, id, cb) ==
    LET primary == get_da_router_address(nbors, NULL)
        backup == get_da_router_address(nbors, primary)
    IN  /\ MaySend
        /\ NewPacket(cb)
        /\ \E r \in Refused(Others, id) : \E s \in Refused(Others, r.id) :
                flight' = Others /\ tracking_id' = IF backup = NULL THEN r.id ELSE s.id
        /\ m_send_handle' = [i \in {0, 1} |-> IF i = 0 THEN Handle(primary, TRUE, TRUE)
                                              ELSE Handle(backup, backup # NULL, FALSE)]
        /\ m_state' = "IDLE" /\ owed' = FALSE
        /\ UNCHANGED <<backup_task, reset_timer, in_reset, late>>

Control_Node_send(nbors, id, cb) ==
    \/ SendPrimary(nbors, id, cb)
    \/ SendBackupAtOnce(nbors, id, cb)
    \/ SendNothing(nbors, id, cb)

-----------------------------------------------------------------------------
\* Mutant: the callback is not forgotten once it was called.
TellUser_again(success) ==
    /\ m_sent_cb' = m_sent_cb
    /\ owed' = FALSE
    /\ told' = IF ~m_sent_cb THEN told
               ELSE IF told # "none" THEN "twice"
               ELSE IF success THEN "success" ELSE "failure"

(* m_sent_cb(status), if it is set.                                        *)
TellUser(success) ==
    /\ m_sent_cb' = FALSE
    /\ owed' = FALSE
    /\ told' = IF ~m_sent_cb THEN told
               ELSE IF told # "none" THEN "twice"
               ELSE IF success THEN "success" ELSE "failure"

BothEnded(h) == h[0].end /\ h[1].end

(* The timer of the backup route: the packet goes to the backup router.    *)
backup_route_task ==
    /\ ~in_reset
    /\ backup_task = 0 /\ backup_task' = NULL
    /\ \E r \in Accepted(flight, tracking_id, m_send_handle[1].address)
                \cup Refused(flight, tracking_id) :
        LET h == [m_send_handle EXCEPT ![1].sent = TRUE,
                                       ![1].end = @ \/ r.in_flight = flight]
        IN  /\ flight' = r.in_flight /\ tracking_id' = r.id
            /\ m_send_handle' = h
            /\ IF BothEnded(h)
               THEN TellUser(FALSE) /\ m_state' = "IDLE" /\ reset_timer' = NULL
               ELSE UNCHANGED <<m_sent_cb, owed, told, m_state, reset_timer>>
    /\ UNCHANGED <<in_reset, delivered, late>>

(* The handles after the answer for packet p, the second packet not being  *)
(* sent from there.                                                        *)
Answered(p, success) ==
    IF p.to = m_send_handle[0].address
    THEN [m_send_handle EXCEPT ![0].end = TRUE, ![1].end = @ \/ (success /\ ~m_send_handle[1].sent)]
    ELSE IF p.to = m_send_handle[1].address
    THEN [m_send_handle EXCEPT ![1].end = TRUE]
    ELSE [i \in {0, 1} |-> [m_send_handle[i] EXCEPT !.end = TRUE, !.ack = TRUE]]

(* The first packet failed before the second one was sent.                 *)
Retry(p, success) ==
    p.to = m_send_handle[0].address /\ ~m_send_handle[1].sent /\ ~success

\* Mutant: the application is told of any failure.
MustTell_at_once(success) == TRUE

MustTell(success) == success \/ BothEnded(m_send_handle')

packet_sent_cb(p, success) ==
    /\ ~in_reset
    /\ m_state = "BUSY"
    /\ delivered' = (delivered \/ (p.mine /\ success))
    /\ backup_task' = IF p.to = m_send_handle[0].address THEN NULL ELSE backup_task
    /\ LET F == flight \ {p} IN
       IF Retry(p, success)
       THEN \E r \in Accepted(F, tracking_id, m_send_handle[1].address) \cup Refused(F, tracking_id) :
                /\ flight' = r.in_flight /\ tracking_id' = r.id
                /\ m_send_handle' = [m_send_handle EXCEPT ![0].end = TRUE, ![1].sent = TRUE,
                                                          ![1].end = @ \/ r.in_flight = F]
       ELSE /\ flight' = F /\ UNCHANGED tracking_id
            /\ m_send_handle' = Answered(p, success)
    /\ IF MustTell(success) THEN TellUser(success) ELSE UNCHANGED <<m_sent_cb, owed, told>>
    /\ IF BothEnded(m_send_handle')
       THEN m_state' = "IDLE" /\ reset_timer' = NULL
       ELSE UNCHANGED <<m_state, reset_timer>>
    /\ UNCHANGED <<in_reset, late>>

(* An answer that nobody waits for.                                        *)
LateAnswer(p) ==
    /\ ~in_reset
    /\ m_state # "BUSY"
    /\ flight' = flight \ {p}
    /\ UNCHANGED <<m_state, m_send_handle, m_sent_cb, tracking_id, backup_task,
                   reset_timer, in_reset, user, late>>

(* The safety timer: everything is ended and the application is told of a  *)
(* failure, with the state already idle.                                   *)
reset_task ==
    /\ ~in_reset
    /\ reset_timer = 0 /\ reset_timer' = NULL
    /\ backup_task' = NULL
    /\ m_send_handle' = [i \in {0, 1} |-> [m_send_handle[i] EXCEPT
                                !.end = TRUE, !.ack = TRUE, !.address = NULL]]
    /\ m_state' = "IDLE"
    /\ in_reset' = m_sent_cb
    /\ owed' = FALSE
    /\ told' = IF ~m_sent_cb THEN told ELSE IF told # "none" THEN "twice" ELSE "failure"
    /\ UNCHANGED <<m_sent_cb, tracking_id, flight, delivered, late>>

(* The application returns from its callback.                              *)
ResetReturns ==
    /\ in_reset
    /\ in_reset' = FALSE
    /\ m_sent_cb' = FALSE
    /\ UNCHANGED <<m_state, m_send_handle, tracking_id, flight, backup_task,
                   reset_timer, user, late>>

(* The acknowledgement of a router.  Only the first of the ones received   *)
(* while a packet to the router is on its way is given to the application. *)
ack_received(address) ==
    /\ ~in_reset /\ m_state # "UNINIT"
    /\ \E i \in {0, 1} : address = m_send_handle[i].address /\ ~m_send_handle[i].end
    /\ ~m_send_handle[0].ack /\ ~m_send_handle[1].ack
    /\ m_send_handle' = [i \in {0, 1} |-> [m_send_handle[i] EXCEPT !.ack = TRUE]]
    /\ UNCHANGED <<m_state, m_sent_cb, tracking_id, flight, backup_task, reset_timer,
                   in_reset, user, late>>

-----------------------------------------------------------------------------
Running(t) == t # NULL

(* Half a time to live passes.  Tasks that are due run first, and so do    *)
(* the answers of a stack that is not late.                                *)
Tick ==
    /\ ~in_reset
    /\ backup_task # 0 /\ reset_timer # 0
    /\ Running(backup_task) \/ Running(reset_timer) \/ \E p \in flight : p.left > 0
    /\ ~Late => \A p \in flight : p.left > 0
    /\ flight' = {[p EXCEPT !.left = IF @ = 0 THEN 0 ELSE @ - 1] : p \in flight}
    /\ late' = (late \/ \E p \in flight : p.left = 0)
    /\ backup_task' = IF Running(backup_task) THEN backup_task - 1 ELSE NULL
    /\ reset_timer' = IF Running(reset_timer) THEN reset_timer - 1 ELSE NULL
    /\ UNCHANGED <<m_state, m_send_handle, m_sent_cb, tracking_id, in_reset, user>>

Next ==
    \/ Control_Node_init
    \/ \E nbors \in NborTables, id \in Id, cb \in BOOLEAN : Control_Node_send(nbors, id, cb)
    \/ backup_route_task
    \/ \E p \in flight : \/ \E success \in BOOLEAN : packet_sent_cb(p, success)
                         \/ LateAnswer(p)
    \/ reset_task \/ ResetReturns
    \/ \E r \in Router : ack_received(r)
    \/ Tick

(* Time passes and the scheduler runs its tasks; the stack may be silent.  *)
Fairness ==
    /\ WF_vars(Tick) /\ WF_vars(backup_route_task)
    /\ WF_vars(reset_task) /\ WF_vars(ResetReturns)

Spec == Init /\ [][Next]_vars /\ Fairness

-----------------------------------------------------------------------------
(* The types of the state, one slot per packet on its way.                 *)
TypeOK ==
    /\ m_state \in {"UNINIT", "IDLE", "BUSY"}
    /\ m_send_handle \in [{0, 1} -> Handles]
    /\ m_sent_cb \in BOOLEAN /\ tracking_id \in Slots \cup Id \cup {0}
    /\ flight \subseteq Flights
    /\ \A p, q \in flight : p.slot = q.slot => p = q
    /\ backup_task \in Nat \cup {NULL} /\ reset_timer \in Nat \cup {NULL}
    /\ in_reset \in BOOLEAN /\ owed \in BOOLEAN
    /\ told \in {"none", "success", "failure", "twice"}
    /\ delivered \in BOOLEAN /\ late \in BOOLEAN

(* The application is told the result of a packet at most once.            *)
ToldOnce == told # "twice"

(* As long as the application waits for the result of a packet, the node   *)
(* is busy with it and knows whom to call.                                 *)
OwedHasCallback == owed => m_sent_cb /\ m_state = "BUSY"

(* "Both packet have been sent and sent callback called.  Nothing more to  *)
(* do." (control_node.c:359): once idle, no packet is on its way whose     *)
(* answer could be taken for the one of the next packet.                   *)
IdleNothingInFlight == m_state = "IDLE" /\ ~late => flight = {}

(* A failure is told only when both packets have failed.                   *)
FailureIsFinal ==
    told = "failure" /\ ~late => ~delivered /\ \A p \in flight : ~p.mine

(* The safety timer runs out only if the stack kept a packet longer than   *)
(* its time to live.                                                       *)
SafetyTimerOnlyIfLate == reset_timer = 0 => late

(* The application is told in the end, even if the stack stays silent.     *)
UserIsAnswered == owed ~> ~owed
=============================================================================
