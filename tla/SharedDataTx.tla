---------------------------- MODULE SharedDataTx ----------------------------
(***************************************************************************)
(* Transmission side of libraries/shared_data/shared_data.c: the table     *)
(* m_tracked_packets that lends the tracking ids of the stack to several   *)
(* modules, each of which numbers its packets as it likes.                 *)
(*                                                                         *)
(* A slot of the table is the id the stack sees.  sendData() stores the id *)
(* of the module in a slot and overwrites it, in the structure of the      *)
(* caller, with the number of the slot; sent_cb() frees the slot and gives *)
(* the id back.                                                            *)
(***************************************************************************)
EXTENDS Naturals

CONSTANTS
    Client,                 \* the sent callbacks, one per module
    Id,                     \* the ids a module gives to its packets
    MAX_TRACKED_PACKET,     \* SHARED_DATA_MAX_TRACKED_PACKET
    NO_TRACKING_ID,         \* APP_LIB_DATA_NO_TRACKING_ID
    NULL_CB,                \* no callback: the slot is free
    Refill                  \* modules fill the tracking id before each call

ASSUME TxAssumption ==
    /\ MAX_TRACKED_PACKET \in Nat \ {0}
    /\ Id \subseteq Nat /\ NO_TRACKING_ID \in Nat \ Id
    /\ NULL_CB \notin Client
    /\ Refill \in BOOLEAN

Slots == 0 .. MAX_TRACKED_PACKET - 1

VARIABLES
    m_tracked_packets,
    tracking_id,    \* field of the structure each module sends with
    wanted,         \* the id the module last wrote there
    stack,          \* the tracked packets the stack has accepted
    outcome         \* the last answer of the library

txVars == <<m_tracked_packets, tracking_id, wanted, stack, outcome>>

Packets == [slot : Slots, cb : Client, wanted : Id \cup {NO_TRACKING_ID}]
Answers == {"none", "success", "refused", "invalid_tracking_id", "out_of_tracking_ids", "sent"}

-----------------------------------------------------------------------------
InUse(s) == m_tracked_packets[s].cb # NULL_CB

SameTracking(cb, id) ==
    \E s \in Slots : m_tracked_packets[s].cb = cb /\ m_tracked_packets[s].id = id

Free == {s \in Slots : ~InUse(s)}

free_slot == CHOOSE s \in Free : \A t \in Free : s <= t

\* Mutant: the search ends at the first free slot.
SearchResult_first_free(cb, id) ==
    IF Free = {} THEN "out_of_tracking_ids" ELSE "success"

SearchResult(cb, id) ==
    IF SameTracking(cb, id) THEN "invalid_tracking_id"
    ELSE IF Free = {} THEN "out_of_tracking_ids" ELSE "success"

\* Mutant: the id is saved after it was overwritten.
Reserved_too_late(cb, id) ==
    [m_tracked_packets EXCEPT ![free_slot] = [cb |-> cb, id |-> free_slot]]

Reserved(cb, id) ==
    [m_tracked_packets EXCEPT ![free_slot] = [cb |-> cb, id |-> id]]

Released(s) ==
    [m_tracked_packets EXCEPT ![s] = [cb |-> NULL_CB, id |-> m_tracked_packets[s].id]]

-----------------------------------------------------------------------------
(* Shared_Data_init().                                                     *)
TxInit ==
    /\ m_tracked_packets = [s \in Slots |-> [cb |-> NULL_CB, id |-> 0]]
    /\ tracking_id = [c \in Client |-> NO_TRACKING_ID]
    /\ wanted = [c \in Client |-> NO_TRACKING_ID]
    /\ stack = {}
    /\ outcome = [cb |-> NULL_CB, answer |-> "none", id |-> 0, wanted |-> 0]

Answer(c, answer, id, w) ==
    outcome' = [cb |-> c, answer |-> answer, id |-> id, wanted |-> w]

(* A module fills the structure of its next packet.                        *)
Prepare(c, id) ==
    /\ tracking_id' = [tracking_id EXCEPT ![c] = id]
    /\ wanted' = [wanted EXCEPT ![c] = id]
    /\ UNCHANGED <<m_tracked_packets, stack, outcome>>

(* With Refill, a structure that still holds the number of a slot is not   *)
(* sent again.                                                             *)
MayUse(c) == Refill => tracking_id[c] = wanted[c]

(* lib_data->sendData() takes the packet: the slot stays reserved.         *)
SendAccepted(c) ==
    /\ MayUse(c)
    /\ SearchResult(c, tracking_id[c]) = "success"
    /\ m_tracked_packets' = Reserved(c, tracking_id[c])
    /\ tracking_id' = [tracking_id EXCEPT ![c] = free_slot]
    /\ stack' = stack \cup {[slot |-> free_slot, cb |-> c, wanted |-> wanted[c]]}
    /\ Answer(c, "success", tracking_id[c], wanted[c])
    /\ UNCHANGED wanted

\* Mutant: the slot of a packet that was refused is not released.
SendRefused_leaking(c) ==
    /\ MayUse(c)
    /\ SearchResult(c, tracking_id[c]) = "success"
    /\ m_tracked_packets' = Reserved(c, tracking_id[c])
    /\ tracking_id' = [tracking_id EXCEPT ![c] = free_slot]
    /\ Answer(c, "refused", tracking_id[c], wanted[c])
    /\ UNCHANGED <<wanted, stack>>

(* lib_data->sendData() refuses it: the slot is released, its id and the   *)
(* structure keep their new values.                                        *)
SendRefused(c) ==
    /\ MayUse(c)
    /\ SearchResult(c, tracking_id[c]) = "success"
    /\ m_tracked_packets' = Reserved(NULL_CB, tracking_id[c])
    /\ tracking_id' = [tracking_id EXCEPT ![c] = free_slot]
    /\ Answer(c, "refused", tracking_id[c], wanted[c])
    /\ UNCHANGED <<wanted, stack>>

SendFails(c) ==
    /\ MayUse(c)
    /\ SearchResult(c, tracking_id[c]) # "success"
    /\ Answer(c, SearchResult(c, tracking_id[c]), tracking_id[c], wanted[c])
    /\ UNCHANGED <<m_tracked_packets, tracking_id, wanted, stack>>

(* No callback: the packet is not tracked.                                 *)
SendUntracked(c) ==
    /\ tracking_id' = [tracking_id EXCEPT ![c] = NO_TRACKING_ID]
    /\ UNCHANGED <<m_tracked_packets, wanted, stack, outcome>>

Shared_Data_sendData(c) ==
    SendAccepted(c) \/ SendRefused(c) \/ SendFails(c) \/ SendUntracked(c)

(* The stack is done with a packet.  The slot is free again before the     *)
(* module is called, so that it may send its next packet from there.       *)
sent_cb(p) ==
    /\ p \in stack
    /\ InUse(p.slot)
    /\ stack' = stack \ {p}
    /\ m_tracked_packets' = Released(p.slot)
    /\ Answer(m_tracked_packets[p.slot].cb, "sent", m_tracked_packets[p.slot].id, p.wanted)
    /\ UNCHANGED <<tracking_id, wanted>>

TxNext ==
    \/ \E c \in Client : \/ \E id \in Id : Prepare(c, id)
                         \/ Shared_Data_sendData(c)
    \/ \E p \in stack : sent_cb(p)

TxSpec == TxInit /\ [][TxNext]_txVars

-----------------------------------------------------------------------------
(* The types of the state; a slot in use belongs to a module.              *)
TxTypeOK ==
    /\ m_tracked_packets \in [Slots -> [cb : Client \cup {NULL_CB}, id : Nat]]
    /\ tracking_id \in [Client -> Nat]
    /\ wanted \in [Client -> Id \cup {NO_TRACKING_ID}]
    /\ stack \subseteq Packets
    /\ outcome \in [cb : Client \cup {NULL_CB}, answer : Answers, id : Nat, wanted : Nat]

(* The slots in use are the ones of the packets the stack has: none leaks  *)
(* when the stack refuses a packet, none is reused while its packet is on  *)
(* its way, and each packet is reported to the module that sent it.        *)
SlotsInFlight ==
    /\ \A s \in Slots : InUse(s) <=> \E p \in stack : p.slot = s
    /\ \A p \in stack : p.cb = m_tracked_packets[p.slot].cb
    /\ \A p, q \in stack : p.slot = q.slot => p = q

(* A module never has two packets on their way with the same id: the       *)
(* answer tells them apart.                                                *)
NoSharedId ==
    \A s, t \in Slots : InUse(s) /\ m_tracked_packets[s] = m_tracked_packets[t] => s = t

(* sent_cb() gives back the id the module had set ("Update back the id     *)
(* with module set one", shared_data.c:289).                               *)
ModuleIdGivenBack == outcome.answer = "sent" => outcome.id = outcome.wanted

(* The inductive invariant: while its packet is on its way, a slot keeps   *)
(* the id the module had set.                                              *)
TxInv ==
    /\ TxTypeOK /\ SlotsInFlight /\ NoSharedId
    /\ Refill => \A p \in stack : m_tracked_packets[p.slot].id = p.wanted
    /\ Refill => ModuleIdGivenBack

(* An id is refused only if a packet of the same module is on its way with *)
(* it ("Same tracking id already used by same cb", shared_data.c:450).     *)
RefusalJustified ==
    [][ outcome' # outcome /\ outcome'.answer = "invalid_tracking_id" =>
            \E p \in stack : p.cb = outcome'.cb /\ p.wanted = outcome'.wanted ]_txVars
=============================================================================
