------------------------- MODULE ProvisioningProxy --------------------------
(***************************************************************************)
(* libraries/provisioning/proxy.c: a node of the network that sends        *)
(* joining beacons.  The START packets of new nodes go to the provisioning *)
(* server, or are answered by the proxy itself if local provisioning is    *)
(* allowed.                                                                *)
(***************************************************************************)
EXTENDS Provisioning, FiniteSets

CONSTANTS
    ProxyConfs,     \* [allowed, key]: methods allowed, and whether the key is the node's
    StopOutcomes,   \* outcomes of lib_joining->stopJoiningBeaconTx()
    Reconfigure     \* the ways the configuration may change: <<old local, new local>>

ASSUME ProxyAssumption ==
    /\ ProxyConfs \subseteq [allowed : SUBSET {"UNSECURED", "SECURED"}, key : BOOLEAN] /\ NULL \notin ProxyConfs
    /\ StopOutcomes \subseteq BOOLEAN /\ Reconfigure \subseteq BOOLEAN \X BOOLEAN

VARIABLES
    p_conf,         \* m_conf of proxy.c, NULL before Provisioning_Proxy_init
    p_started,      \* m_started
    p_rx_item,      \* m_ptk_received_item is registered
    p_forward       \* lib_joining->enableProxy(): the stack forwards to the server

proxy == <<p_conf, p_started, p_rx_item, p_forward>>

ProxyInit == p_conf = NULL /\ p_started = FALSE /\ p_rx_item = FALSE /\ p_forward = TRUE

local(conf) == conf.allowed # {}

-----------------------------------------------------------------------------
Provisioning_Proxy_init(conf) ==
    /\ ~p_started
    /\ p_conf # NULL => <<local(p_conf), local(conf)>> \in Reconfigure
    /\ p_conf' = conf
    /\ IF local(conf) THEN p_forward' = FALSE /\ p_rx_item' = TRUE
       ELSE UNCHANGED <<p_forward, p_rx_item>>
    /\ UNCHANGED p_started

(* The beacons may be refused by the stack: then nothing changes.          *)
Provisioning_Proxy_start ==
    /\ p_conf # NULL /\ ~p_started
    /\ IF local(p_conf) THEN p_forward' = FALSE /\ p_rx_item' = TRUE
       ELSE UNCHANGED <<p_forward, p_rx_item>>
    /\ p_started' = TRUE
    /\ UNCHANGED p_conf

\* Mutant: the packets are given back to the stack, the filter is kept.
Provisioning_Proxy_stop_keeping(ok) ==
    /\ p_started
    /\ p_forward' = (local(p_conf) \/ p_forward)
    /\ p_started' = ~ok
    /\ UNCHANGED <<p_conf, p_rx_item>>

Provisioning_Proxy_stop(ok) ==
    /\ p_started
    /\ IF local(p_conf) THEN p_forward' = TRUE /\ p_rx_item' = FALSE
       ELSE UNCHANGED <<p_forward, p_rx_item>>
    /\ p_started' = ~ok
    /\ UNCHANGED p_conf

-----------------------------------------------------------------------------
(* send_nack(): the header is read from the metadata of the packet, where  *)
(* the byte taken for the session id is the upper byte of its length, and  *)
(* the packet has the type of a DATA packet; its reason lies where a DATA  *)
(* packet has its key index.                                               *)
send_nack(type) ==
    [NoPacket EXCEPT !.type = "DATA", !.id = 0, !.key = type, !.short = TRUE]

MoreAnswers == Cardinality({m \in msgs : m.type # "START"}) < MaxPackets

DataPacket(m, ok) ==
    [m EXCEPT !.type = "DATA", !.key = IF m.key = 0 THEN 0 ELSE 1, !.ok = ok, !.short = FALSE]

(* The answers of pkt_received_cb() to a START packet; the application     *)
(* accepts the node or not.  Data encrypted with another key is of no use  *)
(* to the node, and a method the proxy does not know has no answer.        *)
proxy_answers(m) ==
    IF m.key = MethodId("EXTENDED_UID") THEN {}
    ELSE IF m.key \notin {MethodId(method) : method \in p_conf.allowed} THEN {send_nack(1)}
    ELSE {send_nack(0), DataPacket(m, m.key = 0 \/ p_conf.key)}

proxy_pkt_received_cb(m) ==
    /\ p_rx_item /\ m.type = "START" /\ MoreAnswers
    /\ \E answer \in proxy_answers(m) : msgs' = msgs \cup {answer}

(* The provisioning server, reached through the stack: it accepts the node *)
(* or not, and may send data the node cannot use.                          *)
ServerAnswers(m) ==
    /\ p_forward /\ m.type = "START" /\ MoreAnswers
    /\ \E answer \in {[m EXCEPT !.type = "NACK"]} \cup {DataPacket(m, ok) : ok \in BOOLEAN} :
        msgs' = msgs \cup {answer}

ProxyTypeOK ==
    /\ p_conf \in ProxyConfs \cup {NULL}
    /\ p_started \in BOOLEAN /\ p_rx_item \in BOOLEAN /\ p_forward \in BOOLEAN
=============================================================================
