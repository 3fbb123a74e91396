---------------------------- MODULE ControlNodeProofs ----------------------------
(***************************************************************************)
(* Proofs about ControlNode, for any routers, neighbours, slots, ids and   *)
(* time to live, whether or not the stack is late and the application      *)
(* sends from its callback.                                                *)
(***************************************************************************)
EXTENDS ControlNode, WellFoundedInduction, TLAPS

\* The callback that is set was not called for this packet yet
CallbackUnused == m_sent_cb /\ ~in_reset => told = "none"

(***************************************************************************)
(* The packets on their way while the stack is not late, and which timers  *)
(* watch them.  Both packets are counted as ended when the first one was   *)
(* refused and the second one went at once.                                *)
(***************************************************************************)
H(i) == m_send_handle[i]
Out(i) == \E p \in flight : p.to = H(i).address

BackupOnly ==
    /\ H(0).end /\ H(1).end /\ H(1).sent /\ backup_task = NULL
    /\ ~Out(0) /\ Out(1)

PrimaryFirst ==
    /\ ~(H(0).end /\ H(1).end)
    /\ ~H(0).end <=> Out(0)
    /\ H(1).sent /\ ~H(1).end <=> Out(1)
    /\ H(0).end => H(1).sent /\ backup_task = NULL
    /\ backup_task # NULL => ~H(1).sent /\ ~H(1).end
    /\ backup_task = NULL /\ ~H(1).sent => H(1).address = NULL

\* The safety timer outlasts every packet, the backup packet to come included
TimersOutlast ==
    /\ reset_timer \in Nat /\ \A p \in flight : p.left < reset_timer
    /\ backup_task # NULL => reset_timer = ResetDelay - BackupDelay + backup_task

OnTime ==
    /\ \A p, q \in flight : p.to = q.to => p = q
    /\ \A p \in flight : p.to \in {H(0).address, H(1).address}
    /\ H(0).address \in Router /\ H(0).address # H(1).address
    /\ BackupOnly \/ PrimaryFirst
    /\ TimersOutlast
    /\ told # "failure" /\ (delivered => ~m_sent_cb)

Quiet ==
    /\ flight = {} /\ backup_task = NULL /\ reset_timer = NULL /\ ~in_reset
    /\ told = "failure" => ~delivered

NotLate == ~late => IF m_state = "BUSY" THEN OnTime /\ ~in_reset ELSE Quiet

-----------------------------------------------------------------------------
(* Routers, slots and handles.                                             *)
USE ControlAssumption

(* Every non-empty set of natural numbers has a least element. *)
LEMMA LeastElement ==
    ASSUME NEW S \in SUBSET Nat, S # {}
    PROVE  \E m \in S : \A k \in S : m <= k
<1> DEFINE R == OpToRel(<, Nat)
<1>1. IsWellFoundedOn(R, Nat)
  BY NatLessThanWellFounded
<1>2. \A x, y \in Nat : <<x, y>> \in R <=> x < y
  BY DEF OpToRel
<1> HIDE DEF R
<1>3. PICK m \in S : \A k \in S : ~(<<k, m>> \in R)
  BY <1>1, WFMin
<1>4. ASSUME NEW k \in S PROVE m <= k
  <2>1. k \in Nat /\ m \in Nat
    OBVIOUS
  <2>2. ~(k < m)
    BY <2>1, <1>2, <1>3, Zenon
  <2> QED BY <2>1, <2>2
<1>5. QED
  BY <1>4

LEMMA StrongestExists ==
    ASSUME NEW S, S \subseteq Nbor, S # {}
    PROVE  \E n \in S : \A m \in S : n.norm_rssi >= m.norm_rssi
<1> DEFINE D == {127 - n.norm_rssi : n \in S}
<1>1. \A n \in S : n.norm_rssi \in -128 .. 127
  BY DEF Nbor, INT8_MIN
<1>2. D \in SUBSET Nat /\ D # {}
  BY <1>1
<1>3. PICK d \in D : \A e \in D : d <= e
  BY <1>2, LeastElement
<1>4. PICK n \in S : d = 127 - n.norm_rssi
  OBVIOUS
<1>5. ASSUME NEW m \in S PROVE n.norm_rssi >= m.norm_rssi
  <2>1. 127 - n.norm_rssi <= 127 - m.norm_rssi
    BY <1>3, <1>4
  <2>2. n.norm_rssi \in Int /\ m.norm_rssi \in Int
    BY <1>1
  <2>3. QED
    BY <2>1, <2>2
<1>6. QED
  BY <1>5

\* A router, not the one excluded, or none
LEMMA RouterFound ==
    ASSUME NEW nbors \in NborTables, NEW exclude
    PROVE  LET r == get_da_router_address(nbors, exclude)
           IN  r = NULL \/ (r \in Router /\ r # exclude)
<1> DEFINE usable == {n \in nbors : n.address # exclude /\ n.diradv_support /\ n.norm_rssi > INT8_MIN}
           recent == {n \in usable : n.recent}
           best(S) == (CHOOSE n \in S : \A m \in S : n.norm_rssi >= m.norm_rssi).address
<1>1. nbors \subseteq Nbor
  BY NborAssumption
<1>2. ASSUME NEW S, S \subseteq usable, S # {} PROVE best(S) \in Router /\ best(S) # exclude
  <2>1. \E n \in S : \A m \in S : n.norm_rssi >= m.norm_rssi
    BY <1>1, <1>2, StrongestExists
  <2>2. PICK n \in S : best(S) = n.address
    BY <2>1
  <2>3. n \in Nbor /\ n.address # exclude
    BY <1>1, <1>2
  <2>4. QED
    BY <2>2, <2>3 DEF Nbor
<1>3. CASE recent # {}
  <2>1. get_da_router_address(nbors, exclude) = best(recent) /\ recent \subseteq usable
    BY <1>3 DEF get_da_router_address
  <2> HIDE DEF best, recent, usable
  <2>2. QED
    BY <1>2, <1>3, <2>1
<1>4. CASE recent = {} /\ usable # {}
  <2>1. get_da_router_address(nbors, exclude) = best(usable)
    BY <1>4 DEF get_da_router_address
  <2> HIDE DEF best, recent, usable
  <2>2. QED
    BY <1>2, <1>4, <2>1
<1>5. CASE recent = {} /\ usable = {}
  BY <1>5 DEF get_da_router_address
<1>6. QED
  BY <1>3, <1>4, <1>5

\* Packets in slots of their own
InSlots(F) == F \subseteq Flights /\ \A p, q \in F : p.slot = q.slot => p = q

New(s, id, to) == [slot |-> s, id |-> id, to |-> to, left |-> TTL, mine |-> TRUE]

LEMMA AcceptedFlight ==
    ASSUME NEW F, InSlots(F), NEW id \in Nat, NEW to \in Router \cup {NULL}, NEW r \in Accepted(F, id, to)
    PROVE  /\ InSlots(r.in_flight) /\ r.id \in Slots /\ to \in Router
           /\ \E n : n.to = to /\ n.left = TTL /\ n \notin F /\ r.in_flight = F \cup {n}
<1>1. to # NULL /\ to \in Router
  BY DEF Accepted
<1>2. PICK s \in FreeSlots(F) : r = [in_flight |-> F \cup {New(s, id, to)}, id |-> s]
  BY <1>1 DEF Accepted, New
<1> DEFINE n == New(s, id, to)
<1>3. n \in Flights /\ n.to = to /\ n.left = TTL /\ n.slot = s
  BY <1>1 DEF New, Flights, FreeSlots
<1> HIDE DEF n
<1>4. s \in Slots /\ \A p \in F : p.slot # s
  BY DEF FreeSlots
<1>5. r.in_flight = F \cup {n} /\ r.id = s
  BY <1>2 DEF n
<1>6. InSlots(F \cup {n}) /\ n \notin F
  BY <1>3, <1>4 DEF InSlots
<1>7. QED
  BY <1>1, <1>3, <1>4, <1>5, <1>6

LEMMA RefusedFlight ==
    ASSUME NEW F, NEW id, NEW r \in Refused(F, id)
    PROVE  r.in_flight = F /\ r.id \in {id} \cup Slots
BY DEF Refused, FreeSlots

LEMMA OthersInSlots == InSlots(flight) => InSlots(Others)
<1> SUFFICES ASSUME InSlots(flight) PROVE InSlots(Others)
  OBVIOUS
<1>1. \A p \in flight : [p EXCEPT !.mine = FALSE] \in Flights /\ [p EXCEPT !.mine = FALSE].slot = p.slot
  BY DEF InSlots, Flights
<1>2. Others \subseteq Flights
  BY <1>1 DEF Others
<1>3. ASSUME NEW p \in Others, NEW q \in Others, p.slot = q.slot PROVE p = q
  <2>1. PICK f \in flight : p = [f EXCEPT !.mine = FALSE]
    BY DEF Others
  <2>2. PICK g \in flight : q = [g EXCEPT !.mine = FALSE]
    BY DEF Others
  <2>3. f = g
    BY <1>1, <1>3, <2>1, <2>2 DEF InSlots
  <2>4. QED
    BY <2>1, <2>2, <2>3
<1>4. QED
  BY <1>2, <1>3 DEF InSlots

Aged(p) == [p EXCEPT !.left = IF @ = 0 THEN 0 ELSE @ - 1]

LEMMA AgedFlight ==
    ASSUME NEW p \in Flights
    PROVE  /\ Aged(p) \in Flights /\ Aged(p).slot = p.slot /\ Aged(p).to = p.to /\ p.left \in Nat
           /\ p.left # 0 => Aged(p).left = p.left - 1
<1>1. p.left \in 0 .. TTL /\ (IF p.left = 0 THEN 0 ELSE p.left - 1) \in 0 .. TTL
  BY DEF Flights
<1>2. QED
  BY <1>1 DEF Aged, Flights

LEMMA HandleType ==
    ASSUME NEW address \in Router \cup {NULL}, NEW sent \in BOOLEAN, NEW end \in BOOLEAN
    PROVE  Handle(address, sent, end) \in Handles
BY DEF Handle, Handles

\* What becomes of the pair of handles
LEMMA PairOfHandles ==
    ASSUME NEW m \in [{0, 1} -> Handles], NEW x \in Handles
    PROVE  /\ LET h == [m EXCEPT ![1] = x] IN h[1] = x /\ h[0] = m[0] /\ h \in [{0, 1} -> Handles]
           /\ LET h == [m EXCEPT ![0] = x] IN h[0] = x /\ h[1] = m[1] /\ h \in [{0, 1} -> Handles]
OBVIOUS

LEMMA HandleSet ==
    ASSUME NEW x \in Handles, NEW b \in BOOLEAN
    PROVE  /\ [x EXCEPT !.sent = b] \in Handles
           /\ [x EXCEPT !.end = b] \in Handles
           /\ [x EXCEPT !.end = TRUE, !.ack = TRUE] \in Handles
           /\ [x EXCEPT !.ack = TRUE] \in Handles
           /\ [x EXCEPT !.end = TRUE, !.ack = TRUE, !.address = NULL] \in Handles
           /\ x.end \in BOOLEAN /\ x.sent \in BOOLEAN
BY DEF Handles

Ended0(m) == [m EXCEPT ![0].end = TRUE]
Ended1(m, b) == [m EXCEPT ![1].end = @ \/ b]
Sent1(m, b) == [m EXCEPT ![1].sent = TRUE, ![1].end = @ \/ b]

LEMMA FirstEnded ==
    ASSUME NEW m \in [{0, 1} -> Handles]
    PROVE  /\ Ended0(m) \in [{0, 1} -> Handles] /\ Ended0(m)[1] = m[1]
           /\ Ended0(m)[0].end /\ Ended0(m)[0].address = m[0].address
<1> DEFINE x == [m[0] EXCEPT !.end = TRUE]
<1>1. m[0] \in Handles
  OBVIOUS
<1>2. x \in Handles /\ x.end /\ x.address = m[0].address
  BY <1>1, HandleSet DEF Handles
<1>3. Ended0(m) = [m EXCEPT ![0] = x]
  BY DEF Ended0
<1> HIDE DEF x
<1>4. QED
  BY <1>2, <1>3, PairOfHandles

LEMMA SecondEnded ==
    ASSUME NEW m \in [{0, 1} -> Handles], NEW b \in BOOLEAN
    PROVE  /\ Ended1(m, b) \in [{0, 1} -> Handles] /\ Ended1(m, b)[0] = m[0]
           /\ (Ended1(m, b)[1].end <=> m[1].end \/ b)
           /\ Ended1(m, b)[1].sent = m[1].sent /\ Ended1(m, b)[1].address = m[1].address
<1> DEFINE x == [m[1] EXCEPT !.end = @ \/ b]
<1>1. m[1] \in Handles
  OBVIOUS
<1>2. x \in Handles /\ (x.end <=> m[1].end \/ b) /\ x.sent = m[1].sent /\ x.address = m[1].address
  BY <1>1, HandleSet DEF Handles
<1>3. Ended1(m, b) = [m EXCEPT ![1] = x]
  BY DEF Ended1
<1> HIDE DEF x
<1>4. Ended1(m, b)[1] = x /\ Ended1(m, b)[0] = m[0] /\ Ended1(m, b) \in [{0, 1} -> Handles]
  BY <1>2, <1>3, PairOfHandles
<1>5. QED
  BY <1>2, <1>4

LEMMA SecondSent ==
    ASSUME NEW m \in [{0, 1} -> Handles], NEW b \in BOOLEAN
    PROVE  /\ Sent1(m, b) \in [{0, 1} -> Handles] /\ Sent1(m, b)[0] = m[0]
           /\ (Sent1(m, b)[1].end <=> m[1].end \/ b)
           /\ Sent1(m, b)[1].sent /\ Sent1(m, b)[1].address = m[1].address
<1> DEFINE x == [m[1] EXCEPT !.sent = TRUE]
           y == [x EXCEPT !.end = @ \/ b]
<1>1. m[1] \in Handles
  OBVIOUS
<1>2. x \in Handles /\ x.sent /\ x.end = m[1].end /\ x.address = m[1].address
  BY <1>1, HandleSet DEF Handles
<1>3. Sent1(m, b) = [m EXCEPT ![1] = y]
  BY DEF Sent1
<1> HIDE DEF x
<1>4. y \in Handles /\ y.sent /\ (y.end <=> x.end \/ b) /\ y.address = x.address
  BY <1>2 DEF Handles
<1> HIDE DEF y
<1>5. Sent1(m, b)[1] = y /\ Sent1(m, b)[0] = m[0] /\ Sent1(m, b) \in [{0, 1} -> Handles]
  BY <1>3, <1>4, PairOfHandles
<1>6. QED
  BY <1>2, <1>4, <1>5

LEMMA EachHandle ==
    ASSUME NEW m \in [{0, 1} -> Handles]
    PROVE  /\ [i \in {0, 1} |-> [m[i] EXCEPT !.end = TRUE, !.ack = TRUE]] \in [{0, 1} -> Handles]
           /\ [i \in {0, 1} |-> [m[i] EXCEPT !.ack = TRUE]] \in [{0, 1} -> Handles]
           /\ [i \in {0, 1} |-> [m[i] EXCEPT !.end = TRUE, !.ack = TRUE, !.address = NULL]] \in [{0, 1} -> Handles]
BY HandleSet

-----------------------------------------------------------------------------
(* The types.                                                              *)
LEMMA InitType == Init => TypeOK
<1> SUFFICES ASSUME Init PROVE TypeOK
  OBVIOUS
<1>1. m_send_handle \in [{0, 1} -> Handles]
  BY DEF Init, NoHandle, Handles
<1>2. flight \subseteq Flights /\ \A p, q \in flight : p.slot = q.slot => p = q
  BY DEF Init
<1>3. QED
  BY <1>1, <1>2 DEF Init, TypeOK

Delay == Nat \cup {NULL}

LEMMA ScheduledType == /\ \A t \in Scheduled(ResetDelay) : t \in Delay
                       /\ \A t \in Scheduled(BackupDelay) : t \in Delay
                       /\ BackupDelay \in Nat /\ 2 * BackupDelay <= TTL
BY DEF Scheduled, ResetDelay, BackupDelay, Delay

LEMMA SendType ==
    ASSUME TypeOK, NEW nbors \in NborTables, NEW id \in Id, NEW cb \in BOOLEAN,
           Control_Node_send(nbors, id, cb)
    PROVE  TypeOK'
<1> DEFINE primary == get_da_router_address(nbors, NULL)
           backup == get_da_router_address(nbors, primary)
<1>1. primary \in Router \cup {NULL} /\ backup \in Router \cup {NULL}
  BY RouterFound
<1>2. InSlots(Others) /\ id \in Nat
  BY OthersInSlots DEF TypeOK, InSlots
<1>3. CASE SendPrimary(nbors, id, cb)
  <2>1. PICK r \in Accepted(Others, id, primary) : flight' = r.in_flight /\ tracking_id' = r.id
    BY <1>3 DEF SendPrimary
  <2>2. /\ reset_timer' \in Scheduled(ResetDelay)
        /\ backup_task' \in IF backup = NULL THEN {backup_task} ELSE Scheduled(BackupDelay)
        /\ m_send_handle' = [i \in {0, 1} |-> IF i = 0 THEN Handle(primary, TRUE, FALSE)
                                              ELSE Handle(backup, FALSE, backup = NULL \/ backup_task' = NULL)]
        /\ m_state' = "BUSY" /\ owed' = cb /\ told' = "none" /\ delivered' = FALSE /\ m_sent_cb' = cb
        /\ UNCHANGED <<in_reset, late>>
    BY <1>3 DEF SendPrimary, NewPacket
  <2> HIDE DEF primary, backup
  <2>3. InSlots(flight') /\ tracking_id' \in Slots
    BY <1>1, <1>2, <2>1, AcceptedFlight
  <2>4. reset_timer' \in Delay /\ backup_task' \in Delay
    BY <2>2, ScheduledType DEF Delay, TypeOK
  <2>5. m_send_handle' \in [{0, 1} -> Handles]
    BY <1>1, <2>2, HandleType
  <2>6. QED
    BY <2>2, <2>3, <2>4, <2>5 DEF TypeOK, InSlots, Delay
<1>4. CASE SendBackupAtOnce(nbors, id, cb)
  <2>1. PICK r \in Refused(Others, id) : \E s \in Accepted(Others, r.id, backup) :
            flight' = s.in_flight /\ tracking_id' = s.id
    BY <1>4 DEF SendBackupAtOnce
  <2>2. PICK s \in Accepted(Others, r.id, backup) : flight' = s.in_flight /\ tracking_id' = s.id
    BY <2>1
  <2>3. /\ reset_timer' \in Scheduled(ResetDelay) /\ backup_task' = backup_task
        /\ m_send_handle' = [i \in {0, 1} |-> IF i = 0 THEN Handle(primary, TRUE, TRUE)
                                              ELSE Handle(backup, TRUE, TRUE)]
        /\ m_state' = "BUSY" /\ owed' = cb /\ told' = "none" /\ delivered' = FALSE /\ m_sent_cb' = cb
        /\ UNCHANGED <<in_reset, late>>
    BY <1>4 DEF SendBackupAtOnce, NewPacket
  <2> HIDE DEF primary, backup
  <2>4. r.id \in Nat
    BY <1>2, RefusedFlight
  <2>5. InSlots(flight') /\ tracking_id' \in Slots
    BY <1>1, <1>2, <2>2, <2>4, AcceptedFlight
  <2>6. reset_timer' \in Delay
    BY <2>3, ScheduledType
  <2>7. m_send_handle' \in [{0, 1} -> Handles]
    BY <1>1, <2>3, HandleType
  <2>8. QED
    BY <2>3, <2>5, <2>6, <2>7 DEF TypeOK, InSlots, Delay
<1>5. CASE SendNothing(nbors, id, cb)
  <2>0. PICK r \in Refused(Others, id) : \E s \in Refused(Others, r.id) :
            flight' = Others /\ tracking_id' = IF backup = NULL THEN r.id ELSE s.id
    BY <1>5 DEF SendNothing
  <2>1. PICK s \in Refused(Others, r.id) :
            flight' = Others /\ tracking_id' = IF backup = NULL THEN r.id ELSE s.id
    BY <2>0
  <2>2. /\ UNCHANGED <<backup_task, reset_timer, in_reset, late>>
        /\ m_send_handle' = [i \in {0, 1} |-> IF i = 0 THEN Handle(primary, TRUE, TRUE)
                                              ELSE Handle(backup, backup # NULL, FALSE)]
        /\ m_state' = "IDLE" /\ owed' = FALSE /\ told' = "none" /\ delivered' = FALSE /\ m_sent_cb' = cb
    BY <1>5 DEF SendNothing, NewPacket
  <2> HIDE DEF primary, backup
  <2>3. tracking_id' \in Slots \cup Id \cup {0}
    BY <2>1, RefusedFlight
  <2>4. m_send_handle' \in [{0, 1} -> Handles]
    BY <1>1, <2>2, HandleType
  <2>5. QED
    BY <1>2, <2>1, <2>2, <2>3, <2>4 DEF TypeOK, InSlots
<1>6. QED
  BY <1>3, <1>4, <1>5 DEF Control_Node_send

\* Sent again, or refused
LEMMA ResentFlight ==
    ASSUME NEW F, InSlots(F), NEW id \in Nat, NEW to \in Router \cup {NULL},
           NEW r \in Accepted(F, id, to) \cup Refused(F, id)
    PROVE  InSlots(r.in_flight) /\ r.id \in {id} \cup Slots
BY AcceptedFlight, RefusedFlight

LEMMA TypeFacts ==
    ASSUME TypeOK
    PROVE  /\ InSlots(flight) /\ tracking_id \in Nat
           /\ H(0) \in Handles /\ H(1) \in Handles
           /\ H(0).address \in Router \cup {NULL} /\ H(1).address \in Router \cup {NULL}
<1>1. H(0) \in Handles /\ H(1) \in Handles
  BY DEF TypeOK, H
<1>2. InSlots(flight) /\ tracking_id \in Nat
  BY DEF TypeOK, InSlots
<1>3. QED
  BY <1>1, <1>2 DEF Handles

LEMMA BackupType == TypeOK /\ backup_route_task => TypeOK'
<1> SUFFICES ASSUME TypeOK, backup_route_task PROVE TypeOK'
  OBVIOUS
<1>1. PICK r \in Accepted(flight, tracking_id, H(1).address) \cup Refused(flight, tracking_id) :
        LET h == [m_send_handle EXCEPT ![1].sent = TRUE, ![1].end = @ \/ r.in_flight = flight]
        IN  /\ flight' = r.in_flight /\ tracking_id' = r.id
            /\ m_send_handle' = h
            /\ IF BothEnded(h)
               THEN TellUser(FALSE) /\ m_state' = "IDLE" /\ reset_timer' = NULL
               ELSE UNCHANGED <<m_sent_cb, owed, told, m_state, reset_timer>>
  BY DEF backup_route_task, H
<1>2. InSlots(flight') /\ tracking_id' \in Slots \cup Id \cup {0}
  BY <1>1, TypeFacts, ResentFlight DEF TypeOK
<1>3. m_send_handle' \in [{0, 1} -> Handles]
  <2> DEFINE b == r.in_flight = flight
  <2>1. b \in BOOLEAN /\ m_send_handle \in [{0, 1} -> Handles]
    BY DEF TypeOK
  <2>2. m_send_handle' = Sent1(m_send_handle, b)
    BY <1>1 DEF Sent1
  <2> HIDE DEF b
  <2>3. QED
    BY <2>1, <2>2, SecondSent
<1>4. /\ m_state' \in {"UNINIT", "IDLE", "BUSY"} /\ m_sent_cb' \in BOOLEAN
      /\ reset_timer' \in Nat \cup {NULL} /\ owed' \in BOOLEAN
      /\ told' \in {"none", "success", "failure", "twice"}
  BY <1>1 DEF TypeOK, TellUser
<1>5. backup_task' = NULL /\ UNCHANGED <<in_reset, delivered, late>>
  BY DEF backup_route_task
<1>6. QED
  BY <1>2, <1>3, <1>4, <1>5 DEF TypeOK, InSlots

LEMMA AnsweredType ==
    ASSUME TypeOK, NEW p, NEW success \in BOOLEAN
    PROVE  Answered(p, success) \in [{0, 1} -> Handles]
<1>1. m_send_handle \in [{0, 1} -> Handles] /\ (success /\ ~H(1).sent) \in BOOLEAN
  BY DEF TypeOK
<1>2. CASE p.to = H(0).address
  <2> DEFINE b == success /\ ~H(1).sent
  <2>1. Answered(p, success) = Ended1(Ended0(m_send_handle), b)
    BY <1>2 DEF Answered, H, Ended0, Ended1
  <2>2. Ended0(m_send_handle) \in [{0, 1} -> Handles]
    BY <1>1, FirstEnded
  <2>3. b \in BOOLEAN
    BY <1>1
  <2> HIDE DEF b
  <2>4. QED
    BY <2>1, <2>2, <2>3, SecondEnded
<1>3. CASE p.to # H(0).address /\ p.to = H(1).address
  <2>1. Answered(p, success) = Ended1(m_send_handle, TRUE)
    BY <1>3 DEF Answered, H, Ended1
  <2>2. QED
    <3>1. TRUE \in BOOLEAN
      OBVIOUS
    <3>2. QED
      BY <1>1, <2>1, <3>1, SecondEnded
<1>4. CASE p.to # H(0).address /\ p.to # H(1).address
  <2>1. Answered(p, success) = [i \in {0, 1} |-> [m_send_handle[i] EXCEPT !.end = TRUE, !.ack = TRUE]]
    BY <1>4 DEF Answered, H
  <2>2. QED
    BY <1>1, <2>1, EachHandle
<1>5. QED
  BY <1>2, <1>3, <1>4

LEMMA AnswerType ==
    ASSUME TypeOK, NEW p \in flight, NEW success \in BOOLEAN, packet_sent_cb(p, success)
    PROVE  TypeOK'
<1> DEFINE F == flight \ {p}
<1>1. InSlots(F)
  BY TypeFacts DEF InSlots
<1>2. /\ InSlots(flight') /\ tracking_id' \in Slots \cup Id \cup {0}
      /\ m_send_handle' \in [{0, 1} -> Handles]
  <2>1. CASE Retry(p, success)
    <3>1. PICK r \in Accepted(F, tracking_id, H(1).address) \cup Refused(F, tracking_id) :
                /\ flight' = r.in_flight /\ tracking_id' = r.id
                /\ m_send_handle' = [m_send_handle EXCEPT ![0].end = TRUE, ![1].sent = TRUE,
                                                          ![1].end = @ \/ r.in_flight = F]
      BY <2>1 DEF packet_sent_cb, H
    <3> HIDE DEF F
    <3>2. InSlots(flight') /\ tracking_id' \in Slots \cup Id \cup {0}
      BY <1>1, <3>1, TypeFacts, ResentFlight DEF TypeOK
    <3> DEFINE b == r.in_flight = F
    <3>3. m_send_handle' = Sent1(Ended0(m_send_handle), b)
      BY <3>1 DEF Sent1, Ended0
    <3>4. Ended0(m_send_handle) \in [{0, 1} -> Handles] /\ b \in BOOLEAN
      BY FirstEnded DEF TypeOK
    <3> HIDE DEF b
    <3>5. QED
      BY <3>2, <3>3, <3>4, SecondSent
  <2>2. CASE ~Retry(p, success)
    <3>1. flight' = F /\ UNCHANGED tracking_id /\ m_send_handle' = Answered(p, success)
      BY <2>2 DEF packet_sent_cb
    <3>2. QED
      BY <1>1, <3>1, AnsweredType DEF TypeOK
  <2>3. QED
    BY <2>1, <2>2
<1>3. /\ m_state' \in {"UNINIT", "IDLE", "BUSY"} /\ reset_timer' \in Nat \cup {NULL}
      /\ m_sent_cb' \in BOOLEAN /\ owed' \in BOOLEAN
      /\ told' \in {"none", "success", "failure", "twice"}
  BY DEF packet_sent_cb, TypeOK, TellUser
<1>4. /\ backup_task' \in Nat \cup {NULL} /\ delivered' \in BOOLEAN
      /\ UNCHANGED <<in_reset, late>>
  BY DEF packet_sent_cb, TypeOK
<1>5. QED
  BY <1>2, <1>3, <1>4 DEF TypeOK, InSlots

LEMMA TickType == TypeOK /\ Tick => TypeOK'
<1> SUFFICES ASSUME TypeOK, Tick PROVE TypeOK'
  OBVIOUS
<1>1. flight' = {Aged(p) : p \in flight}
  BY DEF Tick, Aged
<1>2. flight' \subseteq Flights
  BY <1>1, AgedFlight DEF TypeOK
<1>3. ASSUME NEW p \in flight', NEW q \in flight', p.slot = q.slot PROVE p = q
  <2>1. PICK f \in flight : p = Aged(f)
    BY <1>1
  <2>2. PICK g \in flight : q = Aged(g)
    BY <1>1
  <2>3. f \in Flights /\ g \in Flights
    BY DEF TypeOK
  <2>4. f.slot = g.slot
    BY <1>3, <2>1, <2>2, <2>3, AgedFlight
  <2>5. QED
    BY <2>1, <2>2, <2>4 DEF TypeOK
<1>4. backup_task' \in Nat \cup {NULL} /\ reset_timer' \in Nat \cup {NULL}
  BY DEF Tick, TypeOK, Running
<1>5. late' \in BOOLEAN
  BY DEF Tick
<1>6. UNCHANGED <<m_state, m_send_handle, m_sent_cb, tracking_id, in_reset, owed, told, delivered>>
  BY DEF Tick, user
<1>7. QED
  BY <1>2, <1>3, <1>4, <1>5, <1>6 DEF TypeOK

LEMMA NodeType == TypeOK /\ [Next]_vars => TypeOK'
<1> SUFFICES ASSUME TypeOK, [Next]_vars PROVE TypeOK'
  OBVIOUS
<1>1. CASE Control_Node_init
  BY <1>1 DEF Control_Node_init, TypeOK, user
<1>2. ASSUME NEW nbors \in NborTables, NEW id \in Id, NEW cb \in BOOLEAN, Control_Node_send(nbors, id, cb)
      PROVE  TypeOK'
  BY <1>2, SendType
<1>3. CASE backup_route_task
  BY <1>3, BackupType
<1>4. ASSUME NEW p \in flight, NEW success \in BOOLEAN, packet_sent_cb(p, success) PROVE TypeOK'
  BY <1>4, AnswerType
<1>5. ASSUME NEW p \in flight, LateAnswer(p) PROVE TypeOK'
  BY <1>5 DEF LateAnswer, TypeOK, user
<1>6. CASE reset_task
  <2>1. m_send_handle' \in [{0, 1} -> Handles]
    BY <1>6, EachHandle DEF reset_task, TypeOK
  <2>2. QED
    BY <1>6, <2>1 DEF reset_task, TypeOK
<1>7. CASE ResetReturns
  BY <1>7 DEF ResetReturns, TypeOK, user
<1>8. ASSUME NEW r \in Router, ack_received(r) PROVE TypeOK'
  <2>1. m_send_handle' \in [{0, 1} -> Handles]
    BY <1>8, EachHandle DEF ack_received, TypeOK
  <2>2. QED
    BY <1>8, <2>1 DEF ack_received, TypeOK, user
<1>9. CASE Tick
  BY <1>9, TickType
<1>10. CASE UNCHANGED vars
  BY <1>10 DEF vars, TypeOK
<1>11. QED
  BY <1>1, <1>2, <1>3, <1>4, <1>5, <1>6, <1>7, <1>8, <1>9, <1>10 DEF Next

-----------------------------------------------------------------------------
(* Told once.                                                              *)
ToldInv == TypeOK /\ CallbackUnused /\ ToldOnce

LEMMA ToldNext == ToldInv /\ [Next]_vars => ToldInv'
<1> SUFFICES ASSUME ToldInv, [Next]_vars PROVE ToldInv'
  OBVIOUS
<1>0. TypeOK' /\ TypeOK
  BY NodeType DEF ToldInv
<1>1. SUFFICES CallbackUnused' /\ ToldOnce'
  BY <1>0 DEF ToldInv
<1>2. CASE UNCHANGED <<m_sent_cb, in_reset, told>>
  BY <1>2 DEF ToldInv, CallbackUnused, ToldOnce
<1>3. ASSUME NEW nbors \in NborTables, NEW id \in Id, NEW cb \in BOOLEAN, Control_Node_send(nbors, id, cb)
      PROVE  CallbackUnused' /\ ToldOnce'
  <2>1. told' = "none"
    BY <1>3 DEF Control_Node_send, SendPrimary, SendBackupAtOnce, SendNothing, NewPacket
  <2>2. QED
    BY <2>1 DEF CallbackUnused, ToldOnce
<1>4. ASSUME ~in_reset, NEW success, TellUser(success)
      PROVE  CallbackUnused' /\ ToldOnce'
  BY <1>0, <1>4 DEF ToldInv, CallbackUnused, ToldOnce, TellUser, TypeOK
<1>5. CASE backup_route_task
  <2>1. UNCHANGED <<m_sent_cb, in_reset, told>> \/ (~in_reset /\ TellUser(FALSE))
    BY <1>5 DEF backup_route_task
  <2>2. QED
    BY <1>2, <1>4, <2>1
<1>6. ASSUME NEW p \in flight, NEW success \in BOOLEAN, packet_sent_cb(p, success)
      PROVE  CallbackUnused' /\ ToldOnce'
  <2>1. UNCHANGED <<m_sent_cb, in_reset, told>> \/ (~in_reset /\ TellUser(success))
    BY <1>6 DEF packet_sent_cb
  <2>2. QED
    BY <1>2, <1>4, <2>1
<1>7. CASE reset_task
  BY <1>0, <1>7 DEF reset_task, ToldInv, CallbackUnused, ToldOnce, TypeOK
<1>8. CASE ResetReturns
  BY <1>8 DEF ResetReturns, ToldInv, CallbackUnused, ToldOnce, user
<1>9. CASE Control_Node_init \/ (\E p \in flight : LateAnswer(p)) \/ (\E r \in Router : ack_received(r)) \/ Tick
  BY <1>2, <1>9 DEF Control_Node_init, LateAnswer, ack_received, Tick, user
<1>10. CASE UNCHANGED vars
  BY <1>2, <1>10 DEF vars
<1>11. QED
  BY <1>3, <1>5, <1>6, <1>7, <1>8, <1>9, <1>10 DEF Next

(***************************************************************************)
(* The application is told the result of a packet at most once, even if it *)
(* sends the next packet from the callback that reset_task calls, if the   *)
(* stack answers late and if the timers could not be scheduled.            *)
(***************************************************************************)
THEOREM ResultsToldOnce == Spec => []ToldOnce
<1>1. Init => ToldInv
  BY InitType DEF Init, ToldInv, CallbackUnused, ToldOnce
<1>2. ToldInv => ToldOnce
  BY DEF ToldInv
<1>3. QED
  BY <1>1, <1>2, ToldNext, PTL DEF Spec

-----------------------------------------------------------------------------
(* While the stack is not late.                                            *)
LEMMA AnsweredFirst ==
    ASSUME TypeOK, NEW p, NEW success \in BOOLEAN, p.to = H(0).address
    PROVE  LET h == Answered(p, success)
           IN  /\ h[0].end /\ h[0].address = H(0).address
               /\ h[1].end <=> H(1).end \/ (success /\ ~H(1).sent)
               /\ h[1].sent = H(1).sent /\ h[1].address = H(1).address
<1> DEFINE m == Ended0(m_send_handle)
           b == success /\ ~H(1).sent
<1>1. Answered(p, success) = Ended1(m, b)
  BY DEF Answered, H, Ended0, Ended1
<1>2. m \in [{0, 1} -> Handles] /\ m[0].end /\ m[0].address = H(0).address /\ m[1] = H(1)
  BY FirstEnded DEF TypeOK, H
<1>3. b \in BOOLEAN /\ (b <=> success /\ ~H(1).sent)
  OBVIOUS
<1> HIDE DEF m, b
<1>4. /\ (Ended1(m, b)[1].end <=> m[1].end \/ b) /\ Ended1(m, b)[1].sent = m[1].sent
      /\ Ended1(m, b)[1].address = m[1].address /\ Ended1(m, b)[0] = m[0]
  BY <1>2, <1>3, SecondEnded
<1>5. QED
  BY <1>1, <1>2, <1>3, <1>4

LEMMA AnsweredSecond ==
    ASSUME TypeOK, NEW p, NEW success \in BOOLEAN, p.to # H(0).address, p.to = H(1).address
    PROVE  LET h == Answered(p, success)
           IN  /\ h[0] = H(0) /\ h[1].end
               /\ h[1].sent = H(1).sent /\ h[1].address = H(1).address
<1>1. Answered(p, success) = Ended1(m_send_handle, TRUE)
  BY DEF Answered, H, Ended1
<1>2. m_send_handle \in [{0, 1} -> Handles] /\ TRUE \in BOOLEAN
  BY DEF TypeOK
<1>3. QED
  BY <1>1, <1>2, SecondEnded DEF H

LEMMA Retried ==
    ASSUME TypeOK, NEW b \in BOOLEAN
    PROVE  LET h == Sent1(Ended0(m_send_handle), b)
           IN  /\ h[0].end /\ h[0].address = H(0).address
               /\ h[1].sent /\ (h[1].end <=> H(1).end \/ b) /\ h[1].address = H(1).address
<1> DEFINE m == Ended0(m_send_handle)
<1>1. m \in [{0, 1} -> Handles] /\ m[0].end /\ m[0].address = H(0).address /\ m[1] = H(1)
  BY FirstEnded DEF TypeOK, H
<1> HIDE DEF m
<1>2. /\ Sent1(m, b)[0] = m[0] /\ Sent1(m, b)[1].sent
      /\ (Sent1(m, b)[1].end <=> m[1].end \/ b) /\ Sent1(m, b)[1].address = m[1].address
  BY <1>1, SecondSent
<1>3. QED
  BY <1>1, <1>2 DEF m

LEMMA TimeLeft ==
    /\ TTL \in Nat /\ TTL > 0 /\ ResetDelay \in Nat /\ BackupDelay \in Nat
    /\ TTL < ResetDelay - BackupDelay /\ TTL < ResetDelay
    /\ ResetDelay - BackupDelay \in Nat
BY DEF ResetDelay, BackupDelay

\* The first packet of the node, or the one sent again, is alone
LEMMA AcceptedAlone ==
    ASSUME NEW id \in Nat, NEW to \in Router \cup {NULL}, NEW r \in Accepted({}, id, to)
    PROVE  to \in Router /\ \E n : n.to = to /\ n.left = TTL /\ r.in_flight = {n}
<1>1. InSlots({})
  BY DEF InSlots
<1>2. to \in Router /\ \E n : n.to = to /\ n.left = TTL /\ n \notin {} /\ r.in_flight = {} \cup {n}
  BY <1>1, AcceptedFlight
<1>3. QED
  BY <1>2

LEMMA SendOnTime ==
    ASSUME TypeOK, Quiet, m_state = "IDLE", ~FullScheduler,
           NEW nbors \in NborTables, NEW id \in Id, NEW cb \in BOOLEAN, Control_Node_send(nbors, id, cb)
    PROVE  (m_state' = "BUSY" /\ OnTime' /\ ~in_reset') \/ (m_state' = "IDLE" /\ Quiet')
<1> DEFINE primary == get_da_router_address(nbors, NULL)
           backup == get_da_router_address(nbors, primary)
<1>1. /\ primary \in Router \cup {NULL} /\ backup \in Router \cup {NULL}
      /\ backup # NULL => backup # primary
  BY RouterFound
<1>2. primary = NULL => backup = NULL
  OBVIOUS
<1>3. Others = {} /\ id \in Nat /\ \A i \in Slots : i \in Nat
  BY DEF Quiet, Others
<1>4. ~in_reset /\ backup_task = NULL /\ reset_timer = NULL
  BY DEF Quiet
<1>5. CASE SendPrimary(nbors, id, cb)
  <2>1. PICK r \in Accepted({}, id, primary) : flight' = r.in_flight /\ tracking_id' = r.id
    BY <1>3, <1>5 DEF SendPrimary
  <2>2. /\ reset_timer' = ResetDelay
        /\ backup_task' = IF backup = NULL THEN NULL ELSE BackupDelay
        /\ m_send_handle' = [i \in {0, 1} |-> IF i = 0 THEN Handle(primary, TRUE, FALSE)
                                              ELSE Handle(backup, FALSE, backup = NULL \/ backup_task' = NULL)]
        /\ m_state' = "BUSY" /\ told' = "none" /\ delivered' = FALSE /\ ~in_reset'
    BY <1>4, <1>5 DEF SendPrimary, NewPacket, Scheduled
  <2> HIDE DEF primary, backup
  <2>3. PICK n : n.to = primary /\ n.left = TTL /\ flight' = {n} /\ primary \in Router
    BY <1>1, <1>3, <2>1, AcceptedAlone
  <2>4. /\ m_send_handle'[0].address = primary /\ ~m_send_handle'[0].end
        /\ m_send_handle'[1].address = backup /\ ~m_send_handle'[1].sent
        /\ m_send_handle'[1].end <=> backup_task' = NULL
    <3> DEFINE b == backup = NULL \/ backup_task' = NULL
    <3>1. /\ m_send_handle'[0] = Handle(primary, TRUE, FALSE)
          /\ m_send_handle'[1] = Handle(backup, FALSE, b)
      BY <2>2
    <3>2. b \in BOOLEAN /\ (b <=> backup_task' = NULL)
      BY <2>2
    <3> HIDE DEF b
    <3>3. QED
      BY <3>1, <3>2 DEF Handle
  <2>5. primary # backup
    BY <1>1, <2>3
  <2>6. PrimaryFirst'
    BY <2>2, <2>3, <2>4, <2>5, TimeLeft DEF PrimaryFirst, H, Out
  <2>7. TimersOutlast'
    BY <2>2, <2>3, TimeLeft DEF TimersOutlast
  <2>8. QED
    BY <2>2, <2>3, <2>4, <2>5, <2>6, <2>7 DEF OnTime, H
<1>6. CASE SendBackupAtOnce(nbors, id, cb)
  <2>1. PICK q \in Refused({}, id) : \E r \in Accepted({}, q.id, backup) :
            flight' = r.in_flight /\ tracking_id' = r.id
    BY <1>3, <1>6 DEF SendBackupAtOnce
  <2>2. PICK r \in Accepted({}, q.id, backup) : flight' = r.in_flight /\ tracking_id' = r.id
    BY <2>1
  <2>3. q.id \in Nat
    BY <1>3, RefusedFlight
  <2>4. /\ reset_timer' = ResetDelay /\ backup_task' = NULL
        /\ m_send_handle' = [i \in {0, 1} |-> IF i = 0 THEN Handle(primary, TRUE, TRUE)
                                              ELSE Handle(backup, TRUE, TRUE)]
        /\ m_state' = "BUSY" /\ told' = "none" /\ delivered' = FALSE /\ ~in_reset'
    BY <1>4, <1>6 DEF SendBackupAtOnce, NewPacket, Scheduled
  <2> HIDE DEF primary, backup
  <2>5. PICK n : n.to = backup /\ n.left = TTL /\ flight' = {n} /\ backup \in Router
    BY <1>1, <2>2, <2>3, AcceptedAlone
  <2>6. /\ m_send_handle'[0].address = primary /\ m_send_handle'[0].end
        /\ m_send_handle'[1].address = backup /\ m_send_handle'[1].sent /\ m_send_handle'[1].end
    BY <2>4 DEF Handle
  <2>7. primary # backup /\ primary \in Router
    BY <1>1, <1>2, <2>5
  <2>8. BackupOnly'
    BY <2>4, <2>5, <2>6, <2>7 DEF BackupOnly, H, Out
  <2>9. TimersOutlast'
    BY <2>4, <2>5, TimeLeft DEF TimersOutlast
  <2>10. QED
    BY <2>4, <2>5, <2>6, <2>7, <2>8, <2>9 DEF OnTime, H
<1>7. CASE SendNothing(nbors, id, cb)
  BY <1>3, <1>4, <1>7 DEF SendNothing, NewPacket, Quiet
<1>8. QED
  BY <1>5, <1>6, <1>7 DEF Control_Node_send

\* A busy node has a packet on its way
LEMMA BusyHasPacket == OnTime => flight # {}
BY DEF OnTime, BackupOnly, PrimaryFirst, Out

LEMMA BackupOnTime ==
    ASSUME TypeOK, OnTime, m_state = "BUSY", backup_route_task
    PROVE  m_state' = "BUSY" /\ OnTime' /\ ~in_reset'
<1>1. backup_task = 0 /\ backup_task' = NULL /\ backup_task # NULL /\ ~in_reset'
  BY DEF backup_route_task
<1>2. /\ ~H(0).end /\ ~H(1).sent /\ ~H(1).end /\ Out(0) /\ ~Out(1)
  BY <1>1 DEF OnTime, BackupOnly, PrimaryFirst
<1>3. PICK r \in Accepted(flight, tracking_id, H(1).address) \cup Refused(flight, tracking_id) :
        LET h == [m_send_handle EXCEPT ![1].sent = TRUE, ![1].end = @ \/ r.in_flight = flight]
        IN  /\ flight' = r.in_flight /\ tracking_id' = r.id
            /\ m_send_handle' = h
            /\ IF BothEnded(h)
               THEN TellUser(FALSE) /\ m_state' = "IDLE" /\ reset_timer' = NULL
               ELSE UNCHANGED <<m_sent_cb, owed, told, m_state, reset_timer>>
  BY DEF backup_route_task, H
<1>4. /\ m_send_handle'[0] = H(0)
      /\ m_send_handle'[1].sent /\ m_send_handle'[1].address = H(1).address
      /\ m_send_handle'[1].end <=> r.in_flight = flight
  <2> DEFINE b == r.in_flight = flight
  <2>1. b \in BOOLEAN /\ m_send_handle \in [{0, 1} -> Handles] /\ (b <=> r.in_flight = flight)
    BY DEF TypeOK
  <2>2. m_send_handle' = Sent1(m_send_handle, b)
    BY <1>3 DEF Sent1
  <2> HIDE DEF b
  <2>3. /\ m_send_handle'[0] = H(0) /\ (m_send_handle'[1].end <=> H(1).end \/ b)
        /\ m_send_handle'[1].sent /\ m_send_handle'[1].address = H(1).address
    BY <2>1, <2>2, SecondSent DEF H
  <2>4. QED
    BY <1>2, <2>1, <2>3
<1>5. UNCHANGED <<m_sent_cb, told, m_state, reset_timer, delivered>>
  BY <1>2, <1>3, <1>4 DEF BothEnded, backup_route_task
<1>6. reset_timer = ResetDelay - BackupDelay
  BY <1>1, TimeLeft DEF OnTime, TimersOutlast
<1>7. CASE r \in Accepted(flight, tracking_id, H(1).address)
  <2>1. PICK n : n.to = H(1).address /\ n.left = TTL /\ n \notin flight /\ flight' = flight \cup {n}
    BY <1>3, <1>7, AcceptedFlight, TypeFacts
  <2>2. ~m_send_handle'[1].end
    BY <1>3, <1>4, <2>1
  <2>3. PrimaryFirst'
    BY <1>1, <1>2, <1>4, <2>1, <2>2 DEF PrimaryFirst, H, Out
  <2>4. TimersOutlast'
    BY <1>1, <1>5, <1>6, <2>1, TimeLeft DEF OnTime, TimersOutlast
  <2>5. \A p, q \in flight' : p.to = q.to => p = q
    BY <1>2, <2>1 DEF OnTime, Out
  <2>6. QED
    BY <1>1, <1>4, <1>5, <2>1, <2>3, <2>4, <2>5 DEF OnTime, H
<1>8. CASE r \in Refused(flight, tracking_id)
  <2>1. flight' = flight /\ m_send_handle'[1].end
    BY <1>3, <1>4, <1>8, RefusedFlight
  <2>2. PrimaryFirst'
    BY <1>1, <1>2, <1>4, <2>1 DEF PrimaryFirst, H, Out
  <2>3. TimersOutlast'
    BY <1>1, <1>5, <2>1 DEF OnTime, TimersOutlast
  <2>4. QED
    BY <1>1, <1>4, <1>5, <2>1, <2>2, <2>3 DEF OnTime, H
<1>9. QED
  BY <1>7, <1>8

\* What is left on its way when packet p is answered
LEMMA OthersOnTheirWay ==
    ASSUME OnTime, NEW p \in flight
    PROVE  /\ \A q \in flight \ {p} : q.to # p.to
           /\ p.to = H(0).address => ((\E q \in flight \ {p} : q.to = H(1).address) <=> Out(1))
           /\ p.to = H(1).address => ((\E q \in flight \ {p} : q.to = H(0).address) <=> Out(0))
           /\ p.to = H(0).address /\ ~Out(1) => flight = {p}
           /\ p.to = H(1).address /\ ~Out(0) => flight = {p}
BY DEF OnTime, Out

\* The end of the two packets: the application was told, and a failure only
\* if nothing was delivered
LEMMA EndsQuiet ==
    ASSUME TypeOK, OnTime, NEW p \in flight, NEW success \in BOOLEAN, packet_sent_cb(p, success),
           m_send_handle'[0].end, m_send_handle'[1].end, flight' = {}, backup_task' = NULL
    PROVE  m_state' = "IDLE" /\ Quiet'
<1>1. BothEnded(m_send_handle')
  BY DEF BothEnded
<1>2. m_state' = "IDLE" /\ reset_timer' = NULL /\ ~in_reset' /\ TellUser(success)
  BY <1>1 DEF packet_sent_cb, MustTell
<1>3. delivered' = (delivered \/ (p.mine /\ success))
  BY DEF packet_sent_cb
<1>4. told' = "failure" => m_sent_cb /\ ~success
  BY <1>2 DEF TellUser, OnTime
<1>5. told' = "failure" => ~delivered'
  BY <1>3, <1>4 DEF OnTime
<1>6. QED
  BY <1>2, <1>5 DEF Quiet

\* One packet is still on its way
LEMMA StaysOnTime ==
    ASSUME TypeOK, OnTime, m_state = "BUSY", NEW p \in flight, NEW success \in BOOLEAN,
           packet_sent_cb(p, success), ~(m_send_handle'[0].end /\ m_send_handle'[1].end)
    PROVE  /\ m_state' = "BUSY" /\ ~in_reset' /\ reset_timer' = reset_timer
           /\ told' # "failure" /\ (delivered' => ~m_sent_cb')
<1>1. ~BothEnded(m_send_handle')
  BY DEF BothEnded
<1>2. /\ m_state' = "BUSY" /\ ~in_reset' /\ reset_timer' = reset_timer
      /\ IF success THEN TellUser(success) ELSE UNCHANGED <<m_sent_cb, told>>
  BY <1>1 DEF packet_sent_cb, MustTell
<1>3. delivered' = (delivered \/ (p.mine /\ success))
  BY DEF packet_sent_cb
<1>4. told' # "failure"
  BY <1>2 DEF TellUser, OnTime
<1>5. delivered' => ~m_sent_cb'
  BY <1>2, <1>3 DEF TellUser, OnTime
<1>6. QED
  BY <1>2, <1>4, <1>5

LEMMA AnswerOnTime ==
    ASSUME TypeOK, OnTime, m_state = "BUSY", NEW p \in flight, NEW success \in BOOLEAN,
           packet_sent_cb(p, success)
    PROVE  (m_state' = "BUSY" /\ OnTime' /\ ~in_reset') \/ (m_state' = "IDLE" /\ Quiet')
<1> DEFINE F == flight \ {p}
<1>1. H(0).address \in Router /\ H(0).address # H(1).address /\ p.to \in {H(0).address, H(1).address}
  BY DEF OnTime
<1>2. CASE Retry(p, success)
  <2>1. p.to = H(0).address /\ ~H(1).sent /\ ~success
    BY <1>2 DEF Retry, H
  <2>2. PrimaryFirst /\ ~Out(1)
    BY <2>1 DEF OnTime, BackupOnly, PrimaryFirst
  <2>3. F = {} /\ flight = {p}
    BY <2>1, <2>2, OthersOnTheirWay
  <2>4. PICK r \in Accepted({}, tracking_id, H(1).address) \cup Refused({}, tracking_id) :
                /\ flight' = r.in_flight
                /\ m_send_handle' = [m_send_handle EXCEPT ![0].end = TRUE, ![1].sent = TRUE,
                                                          ![1].end = @ \/ r.in_flight = {}]
    BY <1>2, <2>3 DEF packet_sent_cb, H
  <2>5. backup_task' = NULL
    BY <2>1 DEF packet_sent_cb, H
  <2>6. /\ m_send_handle'[0].end /\ m_send_handle'[0].address = H(0).address
        /\ m_send_handle'[1].sent /\ m_send_handle'[1].address = H(1).address
        /\ m_send_handle'[1].end <=> H(1).end \/ r.in_flight = {}
    <3> DEFINE b == r.in_flight = {}
    <3>1. m_send_handle' = Sent1(Ended0(m_send_handle), b)
      BY <2>4 DEF Sent1, Ended0
    <3>2. b \in BOOLEAN /\ (b <=> r.in_flight = {})
      OBVIOUS
    <3> HIDE DEF b
    <3>3. QED
      BY <3>1, <3>2, Retried
  <2>7. CASE r \in Accepted({}, tracking_id, H(1).address)
    <3>1. PICK n : n.to = H(1).address /\ n.left = TTL /\ flight' = {n} /\ H(1).address \in Router
      BY <2>4, <2>7, AcceptedAlone, TypeFacts
    <3>2. backup_task # NULL /\ ~H(1).end
      BY <2>1, <2>2, <3>1 DEF PrimaryFirst
    <3>3. ~m_send_handle'[1].end
      BY <2>4, <2>6, <3>1, <3>2
    <3>4. /\ m_state' = "BUSY" /\ ~in_reset' /\ reset_timer' = reset_timer
          /\ told' # "failure" /\ (delivered' => ~m_sent_cb')
      BY <3>3, StaysOnTime
    <3>5. PrimaryFirst'
      BY <1>1, <2>5, <2>6, <3>1, <3>3 DEF PrimaryFirst, H, Out
    <3>6. TTL < reset_timer /\ reset_timer \in Nat
      <4>1. backup_task \in Nat /\ reset_timer = ResetDelay - BackupDelay + backup_task
        BY <3>2 DEF TypeOK, OnTime, TimersOutlast
      <4>2. QED
        BY <4>1, TimeLeft
    <3>7. TimersOutlast'
      BY <2>5, <3>1, <3>4, <3>6 DEF TimersOutlast
    <3>8. QED
      BY <1>1, <2>6, <3>1, <3>4, <3>5, <3>7 DEF OnTime, H
  <2>8. CASE r \in Refused({}, tracking_id)
    <3>1. flight' = {} /\ r.in_flight = {}
      BY <2>4, <2>8, RefusedFlight
    <3>2. QED
      BY <2>5, <2>6, <3>1, EndsQuiet
  <2>9. QED
    BY <2>7, <2>8
<1>3. CASE ~Retry(p, success) /\ p.to = H(0).address
  <2>1. PrimaryFirst
    BY <1>3 DEF OnTime, BackupOnly, Out
  <2>2. flight' = F /\ m_send_handle' = Answered(p, success) /\ backup_task' = NULL
    BY <1>3 DEF packet_sent_cb, H
  <2>3. /\ m_send_handle'[0].end /\ m_send_handle'[0].address = H(0).address
        /\ m_send_handle'[1].end <=> H(1).end \/ (success /\ ~H(1).sent)
        /\ m_send_handle'[1].sent = H(1).sent /\ m_send_handle'[1].address = H(1).address
    BY <1>3, <2>2, AnsweredFirst
  <2>4. H(1).sent \/ success
    BY <1>3 DEF Retry, H
  <2>5. CASE H(1).end \/ (success /\ ~H(1).sent)
    <3>1. ~Out(1)
      BY <2>1, <2>5 DEF PrimaryFirst
    <3>2. flight' = {}
      BY <1>3, <2>2, <3>1, OthersOnTheirWay
    <3>3. QED
      BY <2>2, <2>3, <2>5, <3>2, EndsQuiet
  <2>6. CASE ~H(1).end /\ H(1).sent
    <3>1. Out(1) /\ ~m_send_handle'[1].end /\ m_send_handle'[1].sent
      BY <2>1, <2>3, <2>6 DEF PrimaryFirst
    <3>2. (\E q \in flight' : q.to = H(1).address) /\ \A q \in flight' : q.to # H(0).address
      BY <1>3, <2>2, <3>1, OthersOnTheirWay
    <3>3. /\ m_state' = "BUSY" /\ ~in_reset' /\ reset_timer' = reset_timer
          /\ told' # "failure" /\ (delivered' => ~m_sent_cb')
      BY <3>1, StaysOnTime
    <3>4. PrimaryFirst'
      BY <2>2, <2>3, <3>1, <3>2 DEF PrimaryFirst, H, Out
    <3>5. TimersOutlast'
      BY <2>2, <3>3 DEF OnTime, TimersOutlast
    <3>6. QED
      BY <2>2, <2>3, <3>3, <3>4, <3>5 DEF OnTime, H
  <2>7. QED
    BY <2>4, <2>5, <2>6
<1>4. CASE p.to # H(0).address
  <2>1. p.to = H(1).address /\ ~Retry(p, success) /\ Out(1)
    BY <1>1, <1>4 DEF Retry, H, Out
  <2>2. flight' = F /\ m_send_handle' = Answered(p, success) /\ backup_task' = backup_task
    BY <1>4, <2>1 DEF packet_sent_cb, H
  <2>3. /\ m_send_handle'[0] = H(0) /\ m_send_handle'[1].end
        /\ m_send_handle'[1].sent = H(1).sent /\ m_send_handle'[1].address = H(1).address
    BY <1>4, <2>1, <2>2, AnsweredSecond
  <2>4. H(1).sent /\ backup_task = NULL
    BY <2>1 DEF OnTime, BackupOnly, PrimaryFirst
  <2>5. CASE H(0).end
    <3>1. ~Out(0)
      BY <2>5 DEF OnTime, BackupOnly, PrimaryFirst
    <3>2. flight' = {}
      BY <2>1, <2>2, <3>1, OthersOnTheirWay
    <3>3. QED
      BY <2>2, <2>3, <2>4, <2>5, <3>2, EndsQuiet
  <2>6. CASE ~H(0).end
    <3>1. PrimaryFirst /\ Out(0)
      BY <2>6 DEF OnTime, BackupOnly, PrimaryFirst
    <3>2. (\E q \in flight' : q.to = H(0).address) /\ \A q \in flight' : q.to # H(1).address
      BY <2>1, <2>2, <3>1, OthersOnTheirWay
    <3>3. /\ m_state' = "BUSY" /\ ~in_reset' /\ reset_timer' = reset_timer
          /\ told' # "failure" /\ (delivered' => ~m_sent_cb')
      BY <2>3, <2>6, StaysOnTime
    <3>4. PrimaryFirst'
      BY <2>2, <2>3, <2>4, <2>6, <3>2 DEF PrimaryFirst, H, Out
    <3>5. TimersOutlast'
      BY <2>2, <2>4, <3>3 DEF OnTime, TimersOutlast
    <3>6. QED
      BY <2>2, <2>3, <3>3, <3>4, <3>5 DEF OnTime, H
  <2>7. QED
    BY <2>5, <2>6
<1>5. QED
  BY <1>2, <1>3, <1>4

LEMMA TickOnTime ==
    ASSUME TypeOK, Tick, ~late',
           IF m_state = "BUSY" THEN OnTime /\ ~in_reset ELSE Quiet
    PROVE  (IF m_state = "BUSY" THEN OnTime /\ ~in_reset ELSE Quiet)'
<1>1. /\ flight' = {Aged(p) : p \in flight} /\ \A p \in flight : p.left # 0
      /\ reset_timer # 0 /\ backup_task # 0
      /\ backup_task' = IF backup_task # NULL THEN backup_task - 1 ELSE NULL
      /\ reset_timer' = IF reset_timer # NULL THEN reset_timer - 1 ELSE NULL
      /\ UNCHANGED <<m_state, m_send_handle, m_sent_cb, tracking_id, in_reset, owed, told, delivered>>
  BY DEF Tick, Aged, Running, user
<1>2. CASE m_state # "BUSY"
  BY <1>1, <1>2 DEF Quiet
<1>3. CASE m_state = "BUSY"
  <2>1. \A p \in flight : Aged(p).to = p.to /\ Aged(p).left = p.left - 1 /\ p.left \in Nat
    BY <1>1, AgedFlight DEF TypeOK
  <2>2. Out(0)' <=> Out(0)
    BY <1>1, <2>1 DEF Out, H
  <2>3. Out(1)' <=> Out(1)
    BY <1>1, <2>1 DEF Out, H
  <2>4. backup_task' = NULL <=> backup_task = NULL
    BY <1>1 DEF TypeOK
  <2>5. H(0)' = H(0) /\ H(1)' = H(1)
    BY <1>1 DEF H
  <2>6. BackupOnly' \/ PrimaryFirst'
    <3>1. BackupOnly => BackupOnly'
      BY <2>2, <2>3, <2>4, <2>5 DEF BackupOnly
    <3>2. PrimaryFirst => PrimaryFirst'
      BY <2>2, <2>3, <2>4, <2>5 DEF PrimaryFirst
    <3>3. QED
      BY <1>3, <3>1, <3>2 DEF OnTime
  <2>7. TimersOutlast'
    <3>1. /\ reset_timer \in Nat /\ \A p \in flight : p.left < reset_timer
          /\ backup_task # NULL => reset_timer = ResetDelay - BackupDelay + backup_task
      BY <1>3 DEF OnTime, TimersOutlast
    <3>2. reset_timer' = reset_timer - 1 /\ reset_timer' \in Nat
      <4>1. reset_timer # NULL /\ reset_timer \in Nat \ {0}
        BY <1>1, <3>1
      <4>2. reset_timer' = reset_timer - 1
        BY <1>1, <4>1
      <4>3. QED
        BY <4>1, <4>2
    <3>3. ASSUME NEW q \in flight' PROVE q.left < reset_timer'
      <4>1. PICK p \in flight : q = Aged(p)
        BY <1>1
      <4>2. q.left = p.left - 1 /\ p.left \in Nat /\ p.left < reset_timer
        BY <2>1, <3>1, <4>1
      <4>3. QED
        BY <3>1, <3>2, <4>2
    <3>4. backup_task' # NULL => reset_timer' = ResetDelay - BackupDelay + backup_task'
      <4>1. CASE backup_task # NULL
        <5>1. backup_task \in Nat /\ backup_task' = backup_task - 1
          BY <1>1, <4>1 DEF TypeOK
        <5>2. QED
          BY <3>1, <3>2, <4>1, <5>1, TimeLeft
      <4>2. QED
        BY <2>4, <4>1
    <3>5. QED
      BY <3>2, <3>3, <3>4 DEF TimersOutlast
  <2>8. ASSUME NEW p \in flight', NEW q \in flight', p.to = q.to PROVE p = q
    <3>1. PICK f \in flight : p = Aged(f)
      BY <1>1
    <3>2. PICK g \in flight : q = Aged(g)
      BY <1>1
    <3>3. f = g
      BY <1>3, <2>1, <2>8, <3>1, <3>2 DEF OnTime
    <3>4. QED
      BY <3>1, <3>2, <3>3
  <2>9. \A p \in flight' : p.to \in {H(0).address, H(1).address}
    BY <1>1, <1>3, <2>1 DEF OnTime
  <2>10. QED
    BY <1>1, <1>3, <2>5, <2>6, <2>7, <2>8, <2>9 DEF OnTime
<1>4. QED
  BY <1>2, <1>3

LEMMA NotLateNext ==
    ASSUME ~FullScheduler, TypeOK, NotLate, [Next]_vars PROVE NotLate'
<1> DEFINE Good == IF m_state = "BUSY" THEN OnTime /\ ~in_reset ELSE Quiet
<1> SUFFICES ASSUME ~late' PROVE Good'
  BY DEF NotLate
<1>1. ~late
  BY DEF Next, vars, Control_Node_init, Control_Node_send, SendPrimary, SendBackupAtOnce, SendNothing,
         backup_route_task, packet_sent_cb, LateAnswer, reset_task, ResetReturns, ack_received, Tick, TypeOK
<1>2. Good
  BY <1>1 DEF NotLate
<1>3. ~in_reset
  BY <1>2 DEF Quiet
<1>4. CASE Control_Node_init
  BY <1>2, <1>4 DEF Control_Node_init, Quiet, user
<1>5. ASSUME NEW nbors \in NborTables, NEW id \in Id, NEW cb \in BOOLEAN, Control_Node_send(nbors, id, cb)
      PROVE  Good'
  <2>1. m_state = "IDLE" /\ Quiet
    BY <1>2, <1>5 DEF Control_Node_send, SendPrimary, SendBackupAtOnce, SendNothing, MaySend
  <2>2. QED
    BY <1>5, <2>1, SendOnTime
<1>6. CASE backup_route_task
  <2>1. m_state = "BUSY" /\ OnTime
    BY <1>2, <1>6 DEF backup_route_task, Quiet
  <2>2. QED
    BY <1>6, <2>1, BackupOnTime
<1>7. ASSUME NEW p \in flight, NEW success \in BOOLEAN, packet_sent_cb(p, success) PROVE Good'
  <2>1. m_state = "BUSY" /\ OnTime
    BY <1>2, <1>7 DEF packet_sent_cb
  <2>2. QED
    BY <1>7, <2>1, AnswerOnTime
<1>8. ASSUME NEW p \in flight, LateAnswer(p) PROVE Good'
  BY <1>2, <1>8 DEF LateAnswer, Quiet
<1>9. CASE reset_task
  <2>1. reset_timer = 0 /\ OnTime
    BY <1>2, <1>9 DEF reset_task, Quiet
  <2>2. PICK p \in flight : TRUE
    BY <2>1, BusyHasPacket
  <2>3. p.left \in Nat /\ p.left < 0
    BY <2>1 DEF OnTime, TimersOutlast, TypeOK, Flights
  <2>4. QED
    BY <2>3
<1>10. CASE ResetReturns
  BY <1>3, <1>10 DEF ResetReturns
<1>11. ASSUME NEW a \in Router, ack_received(a) PROVE Good'
  <2>1. /\ UNCHANGED <<m_state, m_sent_cb, flight, backup_task, reset_timer, in_reset, told, delivered>>
        /\ m_send_handle' = [i \in {0, 1} |-> [m_send_handle[i] EXCEPT !.ack = TRUE]]
    BY <1>11 DEF ack_received, user
  <2>2. ASSUME NEW i \in {0, 1}
        PROVE  /\ H(i)'.end = H(i).end /\ H(i)'.sent = H(i).sent /\ H(i)'.address = H(i).address
    <3>1. m_send_handle'[i] = [m_send_handle[i] EXCEPT !.ack = TRUE] /\ m_send_handle[i] \in Handles
      BY <2>1 DEF TypeOK
    <3>2. QED
      BY <3>1 DEF H, Handles
  <2>3. CASE m_state # "BUSY"
    BY <1>2, <2>1, <2>3 DEF Quiet
  <2>4. CASE m_state = "BUSY"
    <3>1. (Out(0)' <=> Out(0)) /\ (Out(1)' <=> Out(1))
      BY <2>1, <2>2 DEF Out
    <3>2. BackupOnly => BackupOnly'
      BY <2>1, <2>2, <3>1 DEF BackupOnly
    <3>3. PrimaryFirst => PrimaryFirst'
      BY <2>1, <2>2, <3>1 DEF PrimaryFirst
    <3>4. TimersOutlast => TimersOutlast'
      BY <2>1 DEF TimersOutlast
    <3>5. QED
      BY <1>2, <2>1, <2>2, <2>4, <3>2, <3>3, <3>4 DEF OnTime
  <2>5. QED
    BY <2>3, <2>4
<1>12. CASE Tick
  BY <1>2, <1>12, TickOnTime
<1>13. CASE UNCHANGED vars
  BY <1>2, <1>13 DEF vars, OnTime, Quiet, BackupOnly, PrimaryFirst, TimersOutlast, Out, H
<1>14. QED
  BY <1>4, <1>5, <1>6, <1>7, <1>8, <1>9, <1>10, <1>11, <1>12, <1>13 DEF Next

(***************************************************************************)
(* What the node keeps up while the stack is on time and the scheduler has *)
(* room for its two tasks.  Without the room the packets are not watched:  *)
(* Control_Node_send only logs that reset_task was not added.              *)
(***************************************************************************)
OnTimeInv == TypeOK /\ NotLate

THEOREM OnTimeInvariant == ~FullScheduler => (Spec => []OnTimeInv)
<1>1. ASSUME ~FullScheduler PROVE OnTimeInv /\ [Next]_vars => OnTimeInv'
  BY <1>1, NodeType, NotLateNext DEF OnTimeInv
<1>2. Init => OnTimeInv
  BY InitType DEF Init, NotLate, Quiet, OnTimeInv
<1>3. ASSUME ~FullScheduler PROVE Spec => []OnTimeInv
  BY <1>1, <1>2, <1>3, PTL DEF Spec
<1>4. QED
  BY <1>3

(***************************************************************************)
(* A failure is told only when both packets have failed (the status given  *)
(* by backup_route_task, packet_sent_cb and reset_task), as long as the    *)
(* stack keeps to the time to live.                                        *)
(***************************************************************************)
THEOREM FailureAfterBoth == ~FullScheduler => (Spec => []FailureIsFinal)
<1>1. OnTimeInv => FailureIsFinal
  <2> SUFFICES ASSUME OnTimeInv, told = "failure", ~late PROVE flight = {} /\ ~delivered
    BY DEF FailureIsFinal
  <2>1. QED
    BY DEF OnTimeInv, NotLate, OnTime, Quiet
<1>2. ASSUME ~FullScheduler PROVE Spec => []FailureIsFinal
  BY <1>1, <1>2, OnTimeInvariant, PTL
<1>3. QED
  BY <1>2

(***************************************************************************)
(* The safety timer of reset_task outlasts the packet to the backup        *)
(* router, whenever that one is sent: it expires only if the stack was     *)
(* late, and once the node is idle, nothing is on its way that could be    *)
(* taken for the answer to the next packet.                                *)
(***************************************************************************)
THEOREM TimerOutlastsPackets ==
    ~FullScheduler => (Spec => [](SafetyTimerOnlyIfLate /\ IdleNothingInFlight))
<1>1. OnTimeInv => SafetyTimerOnlyIfLate /\ IdleNothingInFlight
  <2> SUFFICES ASSUME OnTimeInv, ~late
               PROVE  reset_timer # 0 /\ (m_state = "IDLE" => flight = {})
    BY DEF SafetyTimerOnlyIfLate, IdleNothingInFlight, OnTimeInv, TypeOK
  <2>1. CASE m_state # "BUSY"
    BY <2>1 DEF OnTimeInv, NotLate, Quiet
  <2>2. CASE m_state = "BUSY"
    <3>1. OnTime
      BY <2>2 DEF OnTimeInv, NotLate
    <3>2. PICK p \in flight : TRUE
      BY <3>1, BusyHasPacket
    <3>3. p.left \in Nat /\ reset_timer \in Nat /\ p.left < reset_timer
      BY <3>1 DEF OnTime, TimersOutlast, OnTimeInv, TypeOK, Flights
    <3>4. QED
      BY <2>2, <3>3
  <2>3. QED
    BY <2>1, <2>2
<1>2. ASSUME ~FullScheduler PROVE Spec => [](SafetyTimerOnlyIfLate /\ IdleNothingInFlight)
  BY <1>1, <1>2, OnTimeInvariant, PTL
<1>3. QED
  BY <1>2
=============================================================================
