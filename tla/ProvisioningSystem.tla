------------------------- MODULE ProvisioningSystem -------------------------
(***************************************************************************)
(* A new node, a proxy and a provisioning server, over a network that      *)
(* loses, duplicates and reorders packets.                                 *)
(***************************************************************************)
EXTENDS ProvisioningProxy

vars == <<joining, radio, node, msgs, app, verified, proxy>>

Init == ProvisioningInit /\ ProxyInit

NodeNext ==
    \E room \in Rooms :
        \/ \E m \in msgs : pkt_received_cb(m, room)
        \/ timeout(room)
        \/ packet_sent_cb(room)
        \/ JoiningScanEnd(room) \/ JoiningRouteChange(room)
        \/ JoiningTimeout(room) \/ JoiningRun(room)
        \/ \E sent, apply \in BOOLEAN : run_state_machine(sent, apply, room)
        \/ \E conf \in Confs : Provisioning_init(conf)
        \/ Provisioning_start(room)
        \/ Provisioning_stop(room)

AnswerNext == \E m \in msgs : proxy_pkt_received_cb(m) \/ ServerAnswers(m)

ProxyNext ==
    \/ \E conf \in ProxyConfs : Provisioning_Proxy_init(conf)
    \/ Provisioning_Proxy_start
    \/ \E ok \in StopOutcomes : Provisioning_Proxy_stop(ok)

Next ==
    \/ NodeNext /\ UNCHANGED proxy
    \/ AnswerNext /\ UNCHANGED <<joining, radio, node, app, verified, proxy>>
    \/ ProxyNext /\ UNCHANGED <<joining, radio, node, msgs, app, verified>>

(* The scheduler runs the tasks of the node.  Nothing is assumed of the    *)
(* stack, the network, the proxy or the server.                            *)
NodeTask(A) == A /\ UNCHANGED proxy
Fairness ==
    /\ WF_vars(NodeTask(\E room \in Rooms, sent, apply \in BOOLEAN :
                            run_state_machine(sent, apply, room)))
    /\ WF_vars(NodeTask(\E room \in Rooms : timeout(room)))
    /\ WF_vars(NodeTask(\E room \in Rooms : JoiningRun(room)))
    /\ WF_vars(NodeTask(\E room \in Rooms : JoiningTimeout(room)))

Spec == Init /\ [][Next]_vars /\ Fairness

-----------------------------------------------------------------------------
(* The types of the state of the node, the joining and the proxy.          *)
TypeOK == ProvisioningTypeOK /\ ProxyTypeOK

(* end_cb is called once when a session ends by itself and once at every   *)
(* stop, in a session or not, whatever retries, late packets and refusals  *)
(* came together, and at no other time.                                    *)
Service == INSTANCE ProvisioningSession
ImplementsSession == Service!Spec

(* The parameters applied at the reboot are those of the packet that was   *)
(* checked, and it answers a START of this very session: the buffer is     *)
(* shared by the check, the acknowledgement and the decoding, between      *)
(* which packets of any session may arrive.                                *)
AppliedWasVerified ==
    m_state = "REBOOTED" => m_data = verified /\ verified.from = session

(* A session ends with a success only if it found a packet valid, with a   *)
(* refusal only if the server refused it, and as if stopped only if it was *)
(* or its joining failed: what is left of an earlier session, events and   *)
(* late packets, never decides.                                            *)
ResultIsOfThisSession ==
    ~open /\ session > 0 =>
        /\ result = "SUCCESS" => verified # NULL /\ verified.from = session
        /\ result = "NACK" => \E m \in msgs : m.type = "NACK" /\ m.from = session
        /\ result = "STOPPED" => stops > 0 \/ joining_end \notin {NULL, "SUCCESS"}

(* Once a session has ended, the library is idle and holds nothing: "All   *)
(* taken callback, packet received filter and tasks are freed", and the    *)
(* node has left the network it joined.                                    *)
EndedIsReleased ==
    ~open /\ Alive =>
        /\ m_state = "IDLE" /\ j_state = "IDLE"
        /\ ~m_rx_item /\ ~timeout_task /\ ~j_timeout_task /\ ~j_route_cb
        /\ ~scanning /\ network = NULL

(* The list that is left for the application begins with the first         *)
(* provisioning beacon heard, and is empty only if there was none.         *)
FirstProxyIsOffered ==
    LET list == sort_provisioning_beacons(m_beacons)
        wanted == {i \in DOMAIN m_beacons : m_beacons[i] \in Proxies}
    IN  /\ wanted = {} => list = << >>
        /\ \A i \in wanted : (\A j \in wanted : i <= j) => list # << >> /\ list[1] = m_beacons[i]

(* The network a step joins was heard.  It is a foreign one, which the     *)
(* walk over the list should have removed, only if the list began with a   *)
(* foreign beacon and a proxy was heard before it.                         *)
JoinedWasHeard ==
    network' \notin {network, NULL} =>
        \E i \in DOMAIN m_beacons :
            /\ network' = m_beacons[i]
            /\ m_beacons[i] \notin Proxies =>
                /\ m_beacons[1] \notin Proxies
                /\ \E j \in 1 .. i : m_beacons[j] \in Proxies

(* Whatever beacons of whatever types a scan heard, in any order, a proxy  *)
(* that was heard can be joined, and the walk of joining.c that leaves     *)
(* foreign beacons in the list does so in one case only.                   *)
JoinsWhatWasHeard == [][FirstProxyIsOffered /\ JoinedWasHeard]_vars

(* What sort_provisioning_beacons() is for ("Remove non provisioning       *)
(* beacons"): the node joins only networks that send them, and the         *)
(* application chooses among all of them that were heard.                  *)
JoinsProxiesOnly ==
    /\ network \in Proxies \cup {NULL}
    /\ ProvisioningBeacons(sort_provisioning_beacons(m_beacons), m_beacons)

(* A packet of a new node is answered by the proxy or forwarded to the     *)
(* server, never both and never neither; a proxy that sends beacons does   *)
(* what its configuration says.                                            *)
LocalOrForwarded ==
    /\ p_rx_item <=> ~p_forward
    /\ p_started => (local(p_conf) <=> p_rx_item)

(* The timeout of a session, checked by Provisioning_init() and doubled at *)
(* each retry, is never zero.                                              *)
TimeoutIsPositive == m_timeout_s > 0

(* PROV_RES_STOPPED is for "Application called stop function".             *)
StoppedByApplication == ~open /\ result = "STOPPED" => stops > 0

(* A session that is not stopped ends by itself, so that there is no       *)
(* session again and again: no lost packet, silent scan or missing route   *)
(* keeps the application waiting.                                          *)
SessionEnds == []<>~open
=============================================================================
