---------------------------- MODULE SharedDataRx ----------------------------
(***************************************************************************)
(* Reception side of libraries/shared_data/shared_data.c: one reception    *)
(* callback of the stack shared by a list of items, each with a filter.    *)
(*                                                                         *)
(* received_cb() walks the list and calls the matching items.  A callback  *)
(* may itself add, remove or resume items, so the walk is cut at each      *)
(* callback; everything runs in the context of the stack, so nothing else  *)
(* interleaves.  An item that returns NO_SPACE pauses the reception of the *)
(* whole application until Shared_Data_readyToReceive().                   *)
(***************************************************************************)
EXTENDS Naturals, Sequences

CONSTANTS
    Item,       \* the items of the application
    FilterOf,   \* the filter of each item
    Packet,     \* the packets that may arrive
    NULL, ANY,
    Usage       \* ways of using the library allowed to the application, see below

(* "remove_busy": an item is removed and pauses the reception, in whichever *)
(* order.                                                                  *)
(* "add_busy": it is added again.  "add_removed": a callback adds back an  *)
(* item removed since the packet arrived.  "ready_in_callback": an item is *)
(* resumed from a reception callback.  "remove_other": a callback removes  *)
(* an item other than its own.                                             *)
Usages == {"remove_busy", "add_busy", "add_removed", "ready_in_callback", "remove_other"}

ASSUME UsageAssumption == Usage \subseteq Usages /\ NULL \notin Item

VARIABLES
    list,               \* the items in the list, in order
    link,               \* the next pointer left in an item taken off the list
    reserved2,          \* items marked for removal
    reserved3,          \* items that paused the reception
    m_iterating_list,
    pc,                 \* "idle", "walk" (in received_cb) or "callback"
    data,               \* the packet being delivered
    cur,                \* the iterator of received_cb
    res,                \* the result received_cb will return
    paused,             \* the stack keeps the packets to itself
    registered,         \* items added and not removed, as the application sees it
    steady,             \* items registered, untouched, since the packet arrived
    served              \* items called for this packet

rxVars == <<list, link, reserved2, reserved3, m_iterating_list, pc, data, cur, res,
          paused, registered, steady, served>>
walk == <<pc, data, cur, res, served>>

-----------------------------------------------------------------------------
(* Filters.  A packet has an address kind, a multicast group and two       *)
(* endpoints; a filter leaves an endpoint open with ANY, and tells the     *)
(* groups it belongs to, or NULL for all of them.                          *)
filter_received_packet(filter, p) ==
    /\ filter.mode = "unicast" => p.kind = "unicast"
    /\ filter.mode = "broadcast" => p.kind = "broadcast"
    /\ filter.mode = "multicast" => p.kind = "multicast"
    /\ p.kind = "multicast" /\ filter.groups # NULL => p.group \in filter.groups
    /\ filter.src_endpoint # ANY => filter.src_endpoint = p.src_endpoint
    /\ filter.dest_endpoint # ANY => filter.dest_endpoint = p.dest_endpoint

(* Parameter checks of Shared_Data_addDataReceivedCb().                    *)
ValidFilter(filter) ==
    filter.groups # NULL => filter.mode \in {"all", "multicast"}

group_query_cb(group) ==
    \E i \in 1 .. Len(list) :
        LET filter == FilterOf[list[i]]
        IN  /\ filter.mode \in {"multicast", "all"}
            /\ filter.groups # NULL => group \in filter.groups

-----------------------------------------------------------------------------
(* The singly linked list.                                                 *)
Contains(item) == \E i \in 1 .. Len(list) : list[i] = item

NextOf(item) ==
    IF Contains(item)
    THEN LET i == CHOOSE i \in 1 .. Len(list) : list[i] = item
         IN  IF i < Len(list) THEN list[i + 1] ELSE NULL
    ELSE link[item]

(* sl_list_remove() of the items of S, from the front: the others keep     *)
(* their order, and what is taken off keeps its next pointer.              *)
Before(a, b) == \E i, j \in 1 .. Len(list) : i < j /\ list[i] = a /\ list[j] = b

sl_list_remove(S) ==
    LET kept == {list[i] : i \in 1 .. Len(list)} \ S
    IN  /\ \E n \in 0 .. Len(list) :
            /\ list' \in [1 .. n -> kept]
            /\ \A i, j \in 1 .. n : i < j => Before(list'[i], list'[j])
            /\ \A item \in kept : \E i \in 1 .. n : list'[i] = item
        /\ link' = [item \in Item |-> IF item \in S /\ Contains(item)
                                      THEN NextOf(item) ELSE link[item]]

\* Mutant: the items marked during the walk are never taken off.
delete_marked_nothing == m_iterating_list' = FALSE /\ UNCHANGED <<list, link>>

(* Removal of the marked items; the mark itself is left set.               *)
delete_marked_items ==
    /\ m_iterating_list' = FALSE
    /\ sl_list_remove({item \in Item : item \in reserved2})

\* Mutant: the other items are not asked.
enable_reception_at_once(busy) ==
    delete_marked_items /\ paused' = FALSE

\* Mutant: the result of the walk is not told to the stack.
enable_reception_never(busy) ==
    delete_marked_items /\ UNCHANGED paused

enable_reception_if_needed(busy) ==
    /\ delete_marked_items
    /\ paused' = IF \E item \in busy : Contains(item) THEN paused ELSE FALSE

-----------------------------------------------------------------------------
RxInit ==
    /\ list = <<>>
    /\ link = [item \in Item |-> NULL]
    /\ reserved2 = {} /\ reserved3 = {}
    /\ m_iterating_list = FALSE
    /\ pc = "idle" /\ data = NULL /\ cur = NULL /\ res = "not_for_app"
    /\ paused = FALSE
    /\ registered = {} /\ steady = {} /\ served = {}

(* The application calls the library from a reception callback or from     *)
(* any other callback of the stack.                                        *)
AppRuns == pc \in {"idle", "callback"}

push_if_absent(item) ==
    IF Contains(item)
    THEN UNCHANGED <<list, reserved2>>
    ELSE /\ list' = Append(list, item)
         /\ reserved2' = reserved2 \ {item}

Shared_Data_addDataReceivedCb(item) ==
    /\ AppRuns
    /\ ValidFilter(FilterOf[item])
    /\ item \in reserved3 => "add_busy" \in Usage
    /\ pc = "callback" /\ item \in reserved2 => "add_removed" \in Usage
    /\ push_if_absent(item)
    /\ reserved3' = reserved3 \ {item}
    /\ registered' = registered \cup {item}
    /\ UNCHANGED <<link, m_iterating_list, paused, walk, steady>>

Shared_Data_readyToReceive(item) ==
    /\ AppRuns
    /\ pc = "callback" => "ready_in_callback" \in Usage
    /\ item \in reserved3
    /\ reserved3' = reserved3 \ {item}
    /\ enable_reception_if_needed(reserved3')
    /\ UNCHANGED <<reserved2, walk, registered, steady>>

(* sl_list_remove() returns its argument whether it found it or not, so    *)
(* the branch that would clear the item and resume the reception is never  *)
(* taken (line 399).                                                       *)
unlink_or_mark(item) ==
    IF m_iterating_list
    THEN reserved2' = reserved2 \cup {item} /\ UNCHANGED <<list, link>>
    ELSE sl_list_remove({item}) /\ UNCHANGED reserved2

Shared_Data_removeDataReceivedCb(item) ==
    /\ AppRuns
    /\ item \in registered
    /\ item \in reserved3 => "remove_busy" \in Usage
    /\ pc = "callback" /\ item # cur => "remove_other" \in Usage
    /\ unlink_or_mark(item)
    /\ registered' = registered \ {item}
    /\ steady' = steady \ {item}
    /\ UNCHANGED <<reserved3, m_iterating_list, paused, walk>>

-----------------------------------------------------------------------------
(* The stack asks whether the application belongs to a group.  The walk    *)
(* that finds no group ends with delete_marked_items().                    *)
GroupQuery(group) ==
    /\ pc = "idle"
    /\ ~group_query_cb(group)
    /\ delete_marked_items
    /\ UNCHANGED <<reserved2, reserved3, walk, paused, registered, steady>>

ReceivePacket(p) ==
    /\ pc = "idle" /\ ~paused
    /\ pc' = "walk"
    /\ data' = p
    /\ cur' = IF list = <<>> THEN NULL ELSE Head(list)
    /\ res' = "not_for_app"
    /\ m_iterating_list' = TRUE
    /\ steady' = registered
    /\ served' = {}
    /\ UNCHANGED <<list, link, reserved2, reserved3, paused, registered>>

CallItem ==
    /\ pc = "walk" /\ cur # NULL
    /\ filter_received_packet(FilterOf[cur], data)
    /\ pc' = "callback"
    /\ served' = served \cup {cur}
    /\ UNCHANGED <<list, link, reserved2, reserved3, m_iterating_list, data, cur,
                   res, paused, registered, steady>>

SkipItem ==
    /\ pc = "walk" /\ cur # NULL
    /\ ~filter_received_packet(FilterOf[cur], data)
    /\ cur' = NextOf(cur)
    /\ UNCHANGED <<list, link, reserved2, reserved3, m_iterating_list, pc, data,
                   res, paused, registered, steady, served>>

combined(r) ==
    CASE r = "no_space" -> r
      [] r = "handled" /\ res = "not_for_app" -> r
      [] OTHER -> res

\* Mutant: the walk ends with the first item that consumes the packet.
ItemReturns_and_stops(r) ==
    /\ pc = "callback"
    /\ r = "no_space" /\ cur \notin registered => "remove_busy" \in Usage
    /\ pc' = "walk"
    /\ res' = combined(r)
    /\ reserved3' = IF r = "no_space" THEN reserved3 \cup {cur} ELSE reserved3
    /\ cur' = IF r = "handled" THEN NULL ELSE NextOf(cur)
    /\ UNCHANGED <<list, link, reserved2, m_iterating_list, data, paused,
                   registered, steady, served>>

ItemReturns(r) ==
    /\ pc = "callback"
    /\ r = "no_space" /\ cur \notin registered => "remove_busy" \in Usage
    /\ pc' = "walk"
    /\ res' = combined(r)
    /\ reserved3' = IF r = "no_space" THEN reserved3 \cup {cur} ELSE reserved3
    /\ cur' = NextOf(cur)
    /\ UNCHANGED <<list, link, reserved2, m_iterating_list, data, paused,
                   registered, steady, served>>

(* received_cb() returns; NO_SPACE pauses the reception in the stack.      *)
EndWalk ==
    /\ pc = "walk" /\ cur = NULL
    /\ delete_marked_items
    /\ pc' = "idle"
    /\ paused' = (res = "no_space")
    /\ data' = NULL /\ res' = "not_for_app"
    /\ steady' = {} /\ served' = {}
    /\ UNCHANGED <<reserved2, reserved3, cur, registered>>

RxNext ==
    \/ \E item \in Item : \/ Shared_Data_addDataReceivedCb(item)
                          \/ Shared_Data_readyToReceive(item)
                          \/ Shared_Data_removeDataReceivedCb(item)
    \/ \E p \in Packet : \/ ReceivePacket(p)
                         \/ p.kind = "multicast" /\ GroupQuery(p.group)
    \/ CallItem
    \/ SkipItem
    \/ \E r \in {"handled", "not_for_app", "no_space"} : ItemReturns(r)
    \/ EndWalk

RxSpec == RxInit /\ [][RxNext]_rxVars

-----------------------------------------------------------------------------
(* The types of the state; the linked list holds no item twice, which      *)
(* would close a loop of next pointers.                                    *)
RxTypeOK ==
    /\ list \in Seq(Item)
    /\ \A i, j \in 1 .. Len(list) : list[i] = list[j] => i = j
    /\ link \in [Item -> Item \cup {NULL}]
    /\ reserved2 \subseteq Item /\ reserved3 \subseteq Item
    /\ m_iterating_list \in BOOLEAN /\ paused \in BOOLEAN
    /\ pc \in {"idle", "walk", "callback"}
    /\ data \in Packet \cup {NULL} /\ cur \in Item \cup {NULL}
    /\ res \in {"handled", "not_for_app", "no_space"}
    /\ registered \subseteq Item /\ steady \subseteq registered /\ served \subseteq Item

(* Between packets the list holds the items the application has added and  *)
(* not removed, whatever was marked or added during a walk.                *)
ListIsRegistered ==
    pc = "idle" => \A item \in Item : Contains(item) <=> item \in registered

(* A paused reception can be resumed: one of the items in the list is the  *)
(* reason for the pause, and its Shared_Data_readyToReceive() call will be *)
(* taken into account (shared_data.h: "App will start receiving data once  *)
(* this filter has called Shared_Data_readyToReceive").                    *)
PauseHasOwner ==
    pc = "idle" /\ paused => \E item \in registered : item \in reserved3 /\ Contains(item)

(* An item that was removed no longer holds the reception paused           *)
(* (shared_data.h: "Removed item fields are all set to 0").                *)
RemovedHoldsNoPause == pc = "idle" => reserved3 \subseteq registered

(* An item that had no space is not given a packet before it has called    *)
(* Shared_Data_readyToReceive().                                           *)
BusyNotCalled == pc = "callback" => cur \notin reserved3

(* A packet reaches every item that matches it and was registered          *)
(* throughout, whatever the callbacks add, remove or resume.               *)
PacketReachesAll ==
    pc = "walk" /\ cur = NULL =>
        \A item \in steady : filter_received_packet(FilterOf[item], data) => item \in served

(* Once removed, an item is not called any more.                           *)
RemovedNotCalled == [][ (pc = "walk" /\ pc' = "callback") => cur \in registered ]_rxVars
=============================================================================
