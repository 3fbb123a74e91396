-------------------------- MODULE SharedDataProofs --------------------------
(***************************************************************************)
(* Proofs about the two sides of shared_data.c, which share no state:      *)
(* about SharedDataRx for any items, filters and packets, and the widest   *)
(* use of the library under which each property holds; about SharedDataTx  *)
(* for any modules, ids and size of the table.                             *)
(***************************************************************************)
EXTENDS SharedDataRx, SharedDataTx, WellFoundedInduction, TLAPS

(***************************************************************************)
(* Ways of using the library.  Both usages that KeepsList excludes make    *)
(* received_cb() walk over a list that delete_marked_items() has changed,  *)
(* or is about to.  Under AsksBusy an item that had no space is resumed    *)
(* before it is added or removed again.                                    *)
(***************************************************************************)
KeepsList == "add_removed" \notin Usage /\ "ready_in_callback" \notin Usage
AsksBusy == KeepsList /\ "remove_busy" \notin Usage /\ "add_busy" \notin Usage
RemovesOwn == KeepsList /\ "remove_other" \notin Usage

\* The marks tell which items of the list were removed during the walk
MarksRight ==
    /\ m_iterating_list <=> pc # "idle"
    /\ \A item \in registered : Contains(item)
    /\ \A item \in Item : Contains(item) =>
          /\ item \in registered <=> item \notin reserved2
          /\ pc = "idle" => item \in registered

\* The item had its chance to get the packet
Done(item) == item \in steady /\ filter_received_packet(FilterOf[item], data) => item \in served

(***************************************************************************)
(* Where received_cb() is in the list: the items before the iterator are   *)
(* done, the ones from there on have had no reason to pause.               *)
(***************************************************************************)
AtIterator(k) ==
    /\ list[k] = cur
    /\ \A i \in 1 .. Len(list) : i < k => Done(list[i])
    /\ \A i \in 1 .. Len(list) : i >= k => list[i] \notin reserved3
    /\ pc = "callback" => Done(cur)

WalkRight ==
    /\ pc # "idle" /\ cur # NULL => \E k \in 1 .. Len(list) : AtIterator(k)
    /\ pc # "idle" /\ cur = NULL => pc = "walk" /\ \A item \in Item : Contains(item) => Done(item)

PauseRight ==
    \A item \in reserved3 : Contains(item) => IF pc = "idle" THEN paused ELSE res = "no_space"

ListInv == RxTypeOK /\ MarksRight /\ WalkRight /\ PauseRight

\* No pause without an item that can end it
OwnerRight ==
    /\ reserved3 \subseteq registered
    /\ (IF pc = "idle" THEN paused ELSE res = "no_space") => reserved3 # {}

\* The items the walk has yet to reach were not removed
AheadRight ==
    pc # "idle" =>
        \A k \in 1 .. Len(list) : list[k] = cur =>
            /\ \A i \in 1 .. Len(list) : i > k => list[i] \in registered
            /\ pc = "walk" => cur \in registered

-----------------------------------------------------------------------------
(* The list.                                                               *)
USE UsageAssumption

LEMMA ListFacts ==
    ASSUME RxTypeOK
    PROVE  Len(list) \in Nat /\ \A i \in 1 .. Len(list) : list[i] \in Item /\ list[i] # NULL
BY DEF RxTypeOK

LEMMA NextAt ==
    ASSUME RxTypeOK, NEW k \in 1 .. Len(list)
    PROVE  NextOf(list[k]) = IF k < Len(list) THEN list[k + 1] ELSE NULL
<1>1. Contains(list[k])
  BY DEF Contains
<1>2. (CHOOSE i \in 1 .. Len(list) : list[i] = list[k]) = k
  BY DEF RxTypeOK
<1>3. QED
  BY <1>1, <1>2 DEF NextOf

LEMMA NextType == ASSUME RxTypeOK, NEW item \in Item PROVE NextOf(item) \in Item \cup {NULL}
<1>1. CASE Contains(item)
  <2>1. PICK k \in 1 .. Len(list) : list[k] = item
    BY <1>1 DEF Contains
  <2>2. k < Len(list) => k + 1 \in 1 .. Len(list)
    BY ListFacts
  <2>3. QED
    BY <2>1, <2>2, NextAt, ListFacts
<1>2. CASE ~Contains(item)
  BY <1>2 DEF NextOf, RxTypeOK
<1>3. QED
  BY <1>1, <1>2

\* The list without the items of S
LEMMA RemoveFacts ==
    ASSUME RxTypeOK, NEW S, sl_list_remove(S)
    PROVE  /\ list' \in Seq(Item) /\ \A i, j \in 1 .. Len(list') : list'[i] = list'[j] => i = j
           /\ link' \in [Item -> Item \cup {NULL}]
           /\ \A item \in Item : Contains(item)' <=> Contains(item) /\ item \notin S
<1> DEFINE kept == {list[i] : i \in 1 .. Len(list)} \ S
<1>1. PICK n \in 0 .. Len(list) :
            /\ list' \in [1 .. n -> kept]
            /\ \A i, j \in 1 .. n : i < j => Before(list'[i], list'[j])
            /\ \A item \in kept : \E i \in 1 .. n : list'[i] = item
  BY DEF sl_list_remove
<1>2. kept \subseteq Item /\ n \in Nat
  BY ListFacts
<1>3. \A item \in Item : item \in kept <=> Contains(item) /\ item \notin S
  BY DEF Contains
<1> HIDE DEF kept
<1>4. list' \in [1 .. n -> Item]
  BY <1>1, <1>2
<1>5. list' \in Seq(Item) /\ Len(list') = n
  BY <1>2, <1>4
<1>6. ASSUME NEW i \in 1 .. n, NEW j \in 1 .. n, i < j PROVE list'[i] # list'[j]
  <2>1. PICK a \in 1 .. Len(list) : \E b \in 1 .. Len(list) : a < b /\ list[a] = list'[i] /\ list[b] = list'[j]
    BY <1>1, <1>6 DEF Before
  <2>2. QED
    BY <2>1, ListFacts DEF RxTypeOK
<1>7. \A i, j \in 1 .. Len(list') : list'[i] = list'[j] => i = j
  BY <1>2, <1>5, <1>6
<1>8. link' \in [Item -> Item \cup {NULL}]
  <2>1. link' = [item \in Item |-> IF item \in S /\ Contains(item) THEN NextOf(item) ELSE link[item]]
    BY DEF sl_list_remove
  <2>2. QED
    BY <2>1, NextType DEF RxTypeOK
<1>9. ASSUME NEW item \in Item PROVE Contains(item)' <=> item \in kept
  <2>1. Contains(item)' <=> \E i \in 1 .. n : list'[i] = item
    BY <1>5 DEF Contains
  <2>2. QED
    BY <1>1, <2>1
<1>10. QED
  BY <1>3, <1>5, <1>7, <1>8, <1>9

\* The list with one more item
LEMMA AppendFacts ==
    ASSUME RxTypeOK, NEW item \in Item, ~Contains(item), list' = Append(list, item)
    PROVE  /\ list' \in Seq(Item) /\ \A i, j \in 1 .. Len(list') : list'[i] = list'[j] => i = j
           /\ Len(list') = Len(list) + 1 /\ list'[Len(list')] = item
           /\ \A i \in 1 .. Len(list) : list'[i] = list[i] /\ list[i] # item
           /\ \A x \in Item : Contains(x)' <=> Contains(x) \/ x = item
<1>1. list' \in Seq(Item) /\ Len(list') = Len(list) + 1 /\ list'[Len(list')] = item
  BY DEF RxTypeOK
<1>2. \A i \in 1 .. Len(list) : list'[i] = list[i] /\ list[i] # item
  BY DEF RxTypeOK, Contains
<1>3. ASSUME NEW i \in 1 .. Len(list') PROVE i \in 1 .. Len(list) \/ i = Len(list')
  BY <1>1, ListFacts
<1>4. \A i, j \in 1 .. Len(list') : list'[i] = list'[j] => i = j
  BY <1>1, <1>2, <1>3 DEF RxTypeOK
<1>5. ASSUME NEW x \in Item PROVE Contains(x)' <=> Contains(x) \/ x = item
  <2>1. Contains(x)' <=> \E i \in 1 .. Len(list') : list'[i] = x
    BY DEF Contains
  <2>2. \A i \in 1 .. Len(list) : i \in 1 .. Len(list')
    BY <1>1, ListFacts
  <2>3. Len(list') \in 1 .. Len(list')
    BY <1>1, ListFacts
  <2>4. QED
    BY <1>1, <1>2, <1>3, <2>1, <2>2, <2>3 DEF Contains
<1>6. QED
  BY <1>1, <1>2, <1>4, <1>5

-----------------------------------------------------------------------------
(* Every operation keeps the list right.                                   *)
LEMMA InitList == RxInit => ListInv
<1> SUFFICES ASSUME RxInit PROVE ListInv
  OBVIOUS
<1>1. list = <<>> /\ \A item : ~Contains(item)
  BY DEF RxInit, Contains
<1>2. RxTypeOK
  <2>1. list \in Seq(Item) /\ Len(list) = 0
    BY <1>1
  <2>2. link \in [Item -> Item \cup {NULL}]
    BY DEF RxInit
  <2>3. \A i, j \in 1 .. Len(list) : list[i] = list[j] => i = j
    BY <2>1
  <2>4. QED
    BY <2>1, <2>2, <2>3 DEF RxInit, RxTypeOK
<1>3. QED
  BY <1>1, <1>2 DEF RxInit, ListInv, MarksRight, WalkRight, PauseRight

LEMMA AddList ==
    ASSUME KeepsList, ListInv, NEW item \in Item, Shared_Data_addDataReceivedCb(item) PROVE ListInv'
<1>1. /\ RxTypeOK /\ MarksRight /\ WalkRight /\ PauseRight
      /\ pc \in {"idle", "callback"} /\ (pc = "callback" => item \notin reserved2)
      /\ reserved3' = reserved3 \ {item} /\ registered' = registered \cup {item}
      /\ UNCHANGED <<link, m_iterating_list, paused, pc, data, cur, res, served, steady>>
  BY DEF KeepsList, ListInv, Shared_Data_addDataReceivedCb, AppRuns, walk
<1>2. CASE Contains(item)
  <2>1. UNCHANGED <<list, reserved2>>
    BY <1>2 DEF Shared_Data_addDataReceivedCb, push_if_absent
  <2>2. RxTypeOK'
    BY <1>1, <2>1 DEF RxTypeOK
  <2>3. \A x \in Item : Contains(x)' <=> Contains(x)
    BY <2>1 DEF Contains
  <2>4. MarksRight'
    BY <1>1, <1>2, <2>1, <2>3 DEF MarksRight, RxTypeOK
  <2>5. WalkRight'
    <3>1. \A x : Done(x)' <=> Done(x)
      BY <1>1 DEF Done
    <3>2. \A k : AtIterator(k) => AtIterator(k)'
      BY <1>1, <2>1, <3>1 DEF AtIterator
    <3>3. QED
      BY <1>1, <2>1, <2>3, <3>1, <3>2 DEF WalkRight
  <2>6. PauseRight'
    BY <1>1, <2>3 DEF PauseRight, RxTypeOK
  <2>7. QED
    BY <2>2, <2>4, <2>5, <2>6 DEF ListInv
<1>3. CASE ~Contains(item)
  <2>1. list' = Append(list, item) /\ reserved2' = reserved2 \ {item}
    BY <1>3 DEF Shared_Data_addDataReceivedCb, push_if_absent
  <2>2. /\ list' \in Seq(Item) /\ \A i, j \in 1 .. Len(list') : list'[i] = list'[j] => i = j
        /\ Len(list') = Len(list) + 1 /\ list'[Len(list')] = item
        /\ \A i \in 1 .. Len(list) : list'[i] = list[i] /\ list[i] # item
        /\ \A x \in Item : Contains(x)' <=> Contains(x) \/ x = item
    BY <1>1, <1>3, <2>1, AppendFacts
  <2>3. RxTypeOK'
    BY <1>1, <2>1, <2>2 DEF RxTypeOK
  <2>4. MarksRight'
    BY <1>1, <2>1, <2>2 DEF MarksRight, RxTypeOK
  <2>5. item \notin registered /\ item \notin steady
    BY <1>1, <1>3 DEF MarksRight, RxTypeOK
  <2>6. \A x : Done(x)' <=> Done(x)
    BY <1>1 DEF Done
  <2>7. WalkRight'
    <3>1. SUFFICES ASSUME pc # "idle" PROVE cur # NULL /\ \E k \in 1 .. Len(list') : AtIterator(k)'
      BY <1>1 DEF WalkRight
    <3>2. pc = "callback" /\ cur # NULL
      BY <1>1, <3>1 DEF WalkRight
    <3>3. PICK k \in 1 .. Len(list) : AtIterator(k)
      BY <1>1, <3>2 DEF WalkRight
    <3>4. Len(list) \in Nat /\ k \in 1 .. Len(list')
      BY <1>1, <2>2, ListFacts
    <3>5. \A i \in 1 .. Len(list') : i \in 1 .. Len(list) \/ (i = Len(list') /\ ~(i < k))
      BY <2>2, <3>4
    <3>6. list'[k] = cur' /\ (pc' = "callback" => Done(cur)')
      BY <1>1, <2>2, <2>6, <3>3 DEF AtIterator
    <3>7. \A i \in 1 .. Len(list') : i < k => Done(list[i])
      BY <3>3, <3>5 DEF AtIterator
    <3>8. \A i \in 1 .. Len(list') : i < k => Done(list[i])' /\ list'[i] = list[i]
      BY <2>2, <3>5, <3>7, <1>1 DEF Done
    <3>9. \A i \in 1 .. Len(list') : i >= k => list'[i] \notin reserved3'
      BY <1>1, <2>2, <3>3, <3>5 DEF AtIterator
    <3>10. AtIterator(k)'
      BY <1>1, <3>6, <3>8, <3>9 DEF AtIterator, Done
    <3>11. QED
      BY <3>2, <3>4, <3>10
  <2>8. PauseRight'
    BY <1>1, <2>2 DEF PauseRight, RxTypeOK
  <2>9. QED
    BY <2>3, <2>4, <2>7, <2>8 DEF ListInv
<1>4. QED
  BY <1>2, <1>3

\* Between two packets nothing in the list is marked
LEMMA IdleUnmarked ==
    ASSUME ListInv, pc = "idle", sl_list_remove(reserved2)
    PROVE  \A item \in Item : Contains(item)' <=> Contains(item)
<1>1. \A item \in Item : Contains(item)' <=> Contains(item) /\ item \notin reserved2
  BY RemoveFacts DEF ListInv
<1>2. QED
  BY <1>1 DEF ListInv, MarksRight

LEMMA DeleteMarked == ASSUME RxTypeOK, delete_marked_items PROVE m_iterating_list' = FALSE /\ sl_list_remove(reserved2)
<1>1. {item \in Item : item \in reserved2} = reserved2
  BY DEF RxTypeOK
<1>2. QED
  BY <1>1 DEF delete_marked_items

LEMMA ReadyList ==
    ASSUME KeepsList, ListInv, NEW item \in Item, Shared_Data_readyToReceive(item) PROVE ListInv'
<1>1. /\ RxTypeOK /\ MarksRight /\ PauseRight /\ pc = "idle"
      /\ item \in reserved3 /\ reserved3' = reserved3 \ {item}
      /\ delete_marked_items
      /\ paused' = IF \E x \in reserved3' : Contains(x) THEN paused ELSE FALSE
      /\ UNCHANGED <<reserved2, pc, data, cur, res, served, registered, steady>>
  BY DEF KeepsList, ListInv, Shared_Data_readyToReceive, AppRuns, walk, enable_reception_if_needed
<1>2. m_iterating_list' = FALSE /\ sl_list_remove(reserved2)
  BY <1>1, DeleteMarked
<1>3. /\ list' \in Seq(Item) /\ \A i, j \in 1 .. Len(list') : list'[i] = list'[j] => i = j
      /\ link' \in [Item -> Item \cup {NULL}]
      /\ \A x \in Item : Contains(x)' <=> Contains(x)
  BY <1>1, <1>2, RemoveFacts, IdleUnmarked
<1>4. RxTypeOK'
  BY <1>1, <1>2, <1>3 DEF RxTypeOK
<1>5. MarksRight'
  BY <1>1, <1>2, <1>3 DEF MarksRight, RxTypeOK
<1>6. PauseRight'
  BY <1>1, <1>3 DEF PauseRight, RxTypeOK
<1>7. QED
  BY <1>1, <1>4, <1>5, <1>6 DEF ListInv, WalkRight

LEMMA RemoveList ==
    ASSUME ListInv, NEW item \in Item, Shared_Data_removeDataReceivedCb(item) PROVE ListInv'
<1>1. /\ RxTypeOK /\ MarksRight /\ WalkRight /\ PauseRight /\ pc \in {"idle", "callback"}
      /\ item \in registered /\ unlink_or_mark(item)
      /\ registered' = registered \ {item} /\ steady' = steady \ {item}
      /\ UNCHANGED <<reserved3, m_iterating_list, paused, pc, data, cur, res, served>>
  BY DEF ListInv, Shared_Data_removeDataReceivedCb, AppRuns, walk
<1>2. CASE pc = "idle"
  <2>1. sl_list_remove({item}) /\ UNCHANGED reserved2
    BY <1>1, <1>2 DEF unlink_or_mark, MarksRight
  <2>2. /\ list' \in Seq(Item) /\ \A i, j \in 1 .. Len(list') : list'[i] = list'[j] => i = j
        /\ link' \in [Item -> Item \cup {NULL}]
        /\ \A x \in Item : Contains(x)' <=> Contains(x) /\ x # item
    BY <1>1, <2>1, RemoveFacts
  <2>3. RxTypeOK'
    BY <1>1, <2>1, <2>2 DEF RxTypeOK
  <2>4. MarksRight'
    BY <1>1, <2>1, <2>2 DEF MarksRight, RxTypeOK
  <2>5. PauseRight'
    BY <1>1, <2>2 DEF PauseRight, RxTypeOK
  <2>6. QED
    BY <1>1, <1>2, <2>3, <2>4, <2>5 DEF ListInv, WalkRight
<1>3. CASE pc = "callback"
  <2>1. reserved2' = reserved2 \cup {item} /\ UNCHANGED <<list, link>>
    BY <1>1, <1>3 DEF unlink_or_mark, MarksRight
  <2>2. RxTypeOK'
    BY <1>1, <2>1 DEF RxTypeOK
  <2>3. \A x : Contains(x)' <=> Contains(x)
    BY <2>1 DEF Contains
  <2>4. MarksRight'
    BY <1>1, <1>3, <2>1, <2>3 DEF MarksRight, RxTypeOK
  <2>5. \A x : Done(x) => Done(x)'
    BY <1>1 DEF Done
  <2>6. \A k : AtIterator(k) => AtIterator(k)'
    BY <1>1, <2>1, <2>5 DEF AtIterator
  <2>7. WalkRight'
    BY <1>1, <2>1, <2>3, <2>5, <2>6 DEF WalkRight
  <2>8. PauseRight'
    BY <1>1, <2>3 DEF PauseRight
  <2>9. QED
    BY <2>2, <2>4, <2>7, <2>8 DEF ListInv
<1>4. QED
  BY <1>1, <1>2, <1>3

LEMMA QueryList == ASSUME ListInv, NEW group, GroupQuery(group) PROVE ListInv'
<1>1. /\ RxTypeOK /\ MarksRight /\ PauseRight /\ pc = "idle" /\ delete_marked_items
      /\ UNCHANGED <<reserved2, reserved3, paused, pc, data, cur, res, served, registered, steady>>
  BY DEF ListInv, GroupQuery, walk
<1>2. m_iterating_list' = FALSE /\ sl_list_remove(reserved2)
  BY <1>1, DeleteMarked
<1>3. /\ list' \in Seq(Item) /\ \A i, j \in 1 .. Len(list') : list'[i] = list'[j] => i = j
      /\ link' \in [Item -> Item \cup {NULL}]
      /\ \A x \in Item : Contains(x)' <=> Contains(x)
  BY <1>1, <1>2, RemoveFacts, IdleUnmarked
<1>4. RxTypeOK'
  BY <1>1, <1>2, <1>3 DEF RxTypeOK
<1>5. MarksRight'
  BY <1>1, <1>2, <1>3 DEF MarksRight, RxTypeOK
<1>6. PauseRight'
  BY <1>1, <1>3 DEF PauseRight, RxTypeOK
<1>7. QED
  BY <1>1, <1>4, <1>5, <1>6 DEF ListInv, WalkRight

LEMMA ReceiveList == ASSUME ListInv, NEW p \in Packet, ReceivePacket(p) PROVE ListInv'
<1>1. /\ RxTypeOK /\ MarksRight /\ PauseRight /\ pc = "idle" /\ ~paused
      /\ pc' = "walk" /\ data' = p /\ cur' = IF list = <<>> THEN NULL ELSE Head(list)
      /\ res' = "not_for_app" /\ m_iterating_list' = TRUE /\ steady' = registered /\ served' = {}
      /\ UNCHANGED <<list, link, reserved2, reserved3, paused, registered>>
  BY DEF ListInv, ReceivePacket
<1>2. \A x : Contains(x)' <=> Contains(x)
  BY <1>1 DEF Contains
<1>3. list # <<>> => 1 \in 1 .. Len(list) /\ cur' = list[1] /\ list[1] \in Item
  BY <1>1 DEF RxTypeOK
<1>4. RxTypeOK'
  BY <1>1, <1>3 DEF RxTypeOK
<1>5. MarksRight'
  BY <1>1, <1>2 DEF MarksRight
<1>6. \A x \in reserved3 : ~Contains(x)
  BY <1>1 DEF PauseRight
<1>7. WalkRight'
  <2>1. CASE list = <<>>
    <3>1. \A x : ~Contains(x)
      BY <2>1 DEF Contains
    <3>2. QED
      BY <1>1, <1>2, <2>1, <3>1 DEF WalkRight
  <2>2. CASE list # <<>>
    <3>1. \A i \in 1 .. Len(list) : ~(i < 1) /\ list[i] \notin reserved3
      BY <1>1, <1>6, ListFacts DEF Contains
    <3>2. AtIterator(1)'
      BY <1>1, <1>3, <2>2, <3>1 DEF AtIterator
    <3>3. cur' # NULL
      BY <1>3, <2>2
    <3>4. QED
      BY <1>1, <1>3, <2>2, <3>2, <3>3 DEF WalkRight
  <2>3. QED
    BY <2>1, <2>2
<1>8. PauseRight'
  BY <1>1, <1>2, <1>6 DEF PauseRight
<1>9. QED
  BY <1>4, <1>5, <1>7, <1>8 DEF ListInv

LEMMA CallList == ASSUME ListInv, CallItem PROVE ListInv'
<1>1. /\ RxTypeOK /\ MarksRight /\ WalkRight /\ PauseRight /\ pc = "walk" /\ cur # NULL
      /\ pc' = "callback" /\ served' = served \cup {cur}
      /\ UNCHANGED <<list, link, reserved2, reserved3, m_iterating_list, data, cur,
                     res, paused, registered, steady>>
  BY DEF ListInv, CallItem
<1>2. \A x : Contains(x)' <=> Contains(x)
  BY <1>1 DEF Contains
<1>3. RxTypeOK'
  BY <1>1 DEF RxTypeOK
<1>4. MarksRight'
  BY <1>1, <1>2 DEF MarksRight
<1>5. (\A x : Done(x) => Done(x)') /\ Done(cur)'
  BY <1>1 DEF Done
<1>6. \A k : AtIterator(k) => AtIterator(k)'
  BY <1>1, <1>5 DEF AtIterator
<1>7. WalkRight'
  BY <1>1, <1>6 DEF WalkRight
<1>8. PauseRight'
  BY <1>1, <1>2 DEF PauseRight
<1>9. QED
  BY <1>3, <1>4, <1>7, <1>8 DEF ListInv

\* The iterator moves on
LEMMA StepForward ==
    ASSUME RxTypeOK, WalkRight, pc # "idle", cur # NULL, Done(cur),
           cur' = NextOf(cur), pc' = "walk", reserved3' \in {reserved3, reserved3 \cup {cur}},
           UNCHANGED <<list, data, steady, served>>
    PROVE  WalkRight' /\ cur' \in Item \cup {NULL}
<1>1. PICK k \in 1 .. Len(list) : AtIterator(k)
  BY DEF WalkRight
<1>2. cur' = IF k < Len(list) THEN list[k + 1] ELSE NULL
  BY <1>1, NextAt DEF AtIterator
<1>3. \A x : Done(x)' <=> Done(x)
  BY DEF Done
<1>4. \A i \in 1 .. Len(list) : i < k + 1 => Done(list[i])
  <2>1. \A i \in 1 .. Len(list) : i < k + 1 => i < k \/ i = k
    BY ListFacts
  <2>2. QED
    BY <1>1, <2>1 DEF AtIterator
<1>5. \A i \in 1 .. Len(list) : i >= k + 1 => list[i] \notin reserved3'
  <2>1. \A i \in 1 .. Len(list) : i >= k + 1 => i >= k /\ i # k
    BY ListFacts
  <2>2. \A i \in 1 .. Len(list) : i >= k + 1 => list[i] # cur
    BY <1>1, <2>1 DEF AtIterator, RxTypeOK
  <2>3. QED
    BY <1>1, <2>1, <2>2 DEF AtIterator
<1>6. CASE k < Len(list)
  <2>1. k + 1 \in 1 .. Len(list)
    BY <1>6, ListFacts
  <2>2. cur' = list[k + 1] /\ cur' \in Item /\ cur' # NULL
    BY <1>2, <1>6, <2>1, ListFacts
  <2>3. \A i \in 1 .. Len(list) : i < k + 1 => Done(list[i])'
    BY <1>3, <1>4
  <2>4. AtIterator(k + 1)'
    BY <1>5, <2>2, <2>3 DEF AtIterator, Done
  <2>5. QED
    BY <2>1, <2>2, <2>4 DEF WalkRight
<1>7. CASE ~(k < Len(list))
  <2>1. \A i \in 1 .. Len(list) : i < k + 1
    BY <1>7, ListFacts
  <2>2. \A x \in Item : Contains(x)' => Done(x)'
    BY <1>3, <1>4, <2>1 DEF Contains
  <2>3. QED
    BY <1>2, <1>7, <2>2 DEF WalkRight
<1>8. QED
  BY <1>6, <1>7

LEMMA SkipList == ASSUME ListInv, SkipItem PROVE ListInv'
<1>1. /\ RxTypeOK /\ MarksRight /\ WalkRight /\ PauseRight /\ pc = "walk" /\ cur # NULL
      /\ cur' = NextOf(cur) /\ ~filter_received_packet(FilterOf[cur], data)
      /\ UNCHANGED <<list, link, reserved2, reserved3, m_iterating_list, pc, data,
                     res, paused, registered, steady, served>>
  BY DEF ListInv, SkipItem
<1>2. \A x : Contains(x)' <=> Contains(x)
  BY <1>1 DEF Contains
<1>3. Done(cur)
  BY <1>1 DEF Done
<1>4. WalkRight' /\ cur' \in Item \cup {NULL}
  BY <1>1, <1>3, StepForward
<1>5. RxTypeOK'
  BY <1>1, <1>4 DEF RxTypeOK
<1>6. MarksRight' /\ PauseRight'
  BY <1>1, <1>2 DEF MarksRight, PauseRight
<1>7. QED
  BY <1>4, <1>5, <1>6 DEF ListInv

LEMMA ReturnList ==
    ASSUME ListInv, NEW r \in {"handled", "not_for_app", "no_space"}, ItemReturns(r) PROVE ListInv'
<1>1. /\ RxTypeOK /\ MarksRight /\ WalkRight /\ PauseRight /\ pc = "callback"
      /\ pc' = "walk" /\ res' = combined(r) /\ cur' = NextOf(cur)
      /\ reserved3' = IF r = "no_space" THEN reserved3 \cup {cur} ELSE reserved3
      /\ UNCHANGED <<list, link, reserved2, m_iterating_list, data, paused,
                     registered, steady, served>>
  BY DEF ListInv, ItemReturns
<1>2. cur # NULL /\ cur \in Item /\ Done(cur)
  BY <1>1 DEF WalkRight, AtIterator, RxTypeOK
<1>3. \A x : Contains(x)' <=> Contains(x)
  BY <1>1 DEF Contains
<1>4. WalkRight' /\ cur' \in Item \cup {NULL}
  BY <1>1, <1>2, StepForward
<1>5. res' \in {"handled", "not_for_app", "no_space"} /\ (res = "no_space" \/ r = "no_space" => res' = "no_space")
  BY <1>1 DEF combined, RxTypeOK
<1>6. RxTypeOK'
  BY <1>1, <1>2, <1>4, <1>5 DEF RxTypeOK
<1>7. MarksRight'
  BY <1>1, <1>3 DEF MarksRight
<1>8. PauseRight'
  BY <1>1, <1>3, <1>5 DEF PauseRight
<1>9. QED
  BY <1>4, <1>6, <1>7, <1>8 DEF ListInv

LEMMA EndList == ASSUME ListInv, EndWalk PROVE ListInv'
<1>1. /\ RxTypeOK /\ MarksRight /\ PauseRight /\ pc = "walk" /\ cur = NULL /\ delete_marked_items
      /\ pc' = "idle" /\ paused' = (res = "no_space")
      /\ data' = NULL /\ res' = "not_for_app" /\ steady' = {} /\ served' = {}
      /\ UNCHANGED <<reserved2, reserved3, cur, registered>>
  BY DEF ListInv, EndWalk
<1>2. m_iterating_list' = FALSE /\ sl_list_remove(reserved2)
  BY <1>1, DeleteMarked
<1>3. /\ list' \in Seq(Item) /\ \A i, j \in 1 .. Len(list') : list'[i] = list'[j] => i = j
      /\ link' \in [Item -> Item \cup {NULL}]
      /\ \A x \in Item : Contains(x)' <=> Contains(x) /\ x \notin reserved2
  BY <1>1, <1>2, RemoveFacts
<1>4. RxTypeOK'
  BY <1>1, <1>2, <1>3 DEF RxTypeOK
<1>5. MarksRight'
  BY <1>1, <1>2, <1>3 DEF MarksRight, RxTypeOK
<1>6. PauseRight'
  BY <1>1, <1>3 DEF PauseRight, RxTypeOK
<1>7. QED
  BY <1>1, <1>4, <1>5, <1>6 DEF ListInv, WalkRight

LEMMA NextList == ASSUME KeepsList, ListInv, [RxNext]_rxVars PROVE ListInv'
<1>1. CASE UNCHANGED rxVars
  <2>1. (\A x : Contains(x)' <=> Contains(x)) /\ (\A x : Done(x)' <=> Done(x))
    BY <1>1 DEF rxVars, Contains, Done
  <2>2. \A k : AtIterator(k) => AtIterator(k)'
    BY <1>1, <2>1 DEF rxVars, AtIterator
  <2>3. QED
    BY <1>1, <2>1, <2>2 DEF rxVars, ListInv, RxTypeOK, MarksRight, WalkRight, PauseRight
<1>2. CASE RxNext
  BY <1>2, AddList, ReadyList, RemoveList, ReceiveList, QueryList, CallList, SkipList, ReturnList, EndList
     DEF RxNext
<1>3. QED
  BY <1>1, <1>2

(***************************************************************************)
(* The inductive invariant, for any items and packets.                     *)
(***************************************************************************)
THEOREM ListInvariant == KeepsList => (RxSpec => []ListInv)
<1>1. ASSUME KeepsList PROVE ListInv /\ [RxNext]_rxVars => ListInv'
  BY <1>1, NextList
<1>2. ASSUME KeepsList PROVE RxSpec => []ListInv
  BY <1>1, <1>2, InitList, PTL DEF RxSpec
<1>3. QED
  BY <1>2

(***************************************************************************)
(* A packet reaches every item that matches it and stays registered while  *)
(* received_cb() walks, whatever the callbacks add or remove, their own    *)
(* item or another.  It fails for a callback that resumes an item or adds  *)
(* one back that was removed: delete_marked_items() then unlinks the item  *)
(* the iterator stands on.                                                 *)
(***************************************************************************)
THEOREM PacketsReachAll == KeepsList => (RxSpec => []PacketReachesAll)
<1>1. ListInv => PacketReachesAll
  BY DEF ListInv, PacketReachesAll, WalkRight, MarksRight, RxTypeOK, Done
<1>2. ASSUME KeepsList PROVE RxSpec => []PacketReachesAll
  BY <1>1, <1>2, ListInvariant, PTL
<1>3. QED
  BY <1>2

(***************************************************************************)
(* An item that had no space is not called before it has resumed, however  *)
(* many others resume before it, or are added or removed while busy.       *)
(***************************************************************************)
THEOREM BusyItemsSpared == KeepsList => (RxSpec => []BusyNotCalled)
<1>1. ListInv => BusyNotCalled
  <2> SUFFICES ASSUME ListInv, pc = "callback" PROVE cur \notin reserved3
    BY DEF BusyNotCalled
  <2>1. PICK k \in 1 .. Len(list) : AtIterator(k)
    BY DEF ListInv, WalkRight
  <2>2. k >= k
    BY ListFacts DEF ListInv
  <2>3. QED
    BY <2>1, <2>2 DEF AtIterator
<1>2. ASSUME KeepsList PROVE RxSpec => []BusyNotCalled
  BY <1>1, <1>2, ListInvariant, PTL
<1>3. QED
  BY <1>2

(***************************************************************************)
(* Between packets the list holds exactly the items that were added and    *)
(* not removed: no mark set during a walk is forgotten or outlives it.     *)
(***************************************************************************)
THEOREM ListOfRegistered == KeepsList => (RxSpec => []ListIsRegistered)
<1>1. ListInv => ListIsRegistered
  BY DEF ListInv, ListIsRegistered, MarksRight, RxTypeOK
<1>2. ASSUME KeepsList PROVE RxSpec => []ListIsRegistered
  BY <1>1, <1>2, ListInvariant, PTL
<1>3. QED
  BY <1>2

-----------------------------------------------------------------------------
(* The pause.                                                              *)
LEMMA NextOwner == ASSUME AsksBusy, ListInv, OwnerRight, [RxNext]_rxVars PROVE OwnerRight'
<1>1. RxTypeOK /\ MarksRight /\ WalkRight /\ PauseRight
  BY DEF ListInv
<1>2. CASE UNCHANGED <<reserved3, pc, paused, res>> /\ registered \subseteq registered'
  BY <1>2 DEF OwnerRight
<1>3. ASSUME NEW item \in Item, Shared_Data_addDataReceivedCb(item) PROVE OwnerRight'
  <2>1. reserved3' = reserved3 /\ registered' = registered \cup {item} /\ UNCHANGED <<pc, paused, res>>
    BY <1>3 DEF Shared_Data_addDataReceivedCb, AsksBusy, walk
  <2>2. QED
    BY <1>2, <2>1
<1>4. ASSUME NEW item \in Item, Shared_Data_readyToReceive(item) PROVE OwnerRight'
  <2>1. /\ pc = "idle" /\ pc' = "idle" /\ reserved3' \subseteq reserved3 /\ registered' = registered
        /\ paused' = IF \E x \in reserved3' : Contains(x) THEN paused ELSE FALSE
    BY <1>4 DEF Shared_Data_readyToReceive, enable_reception_if_needed, AsksBusy, KeepsList, AppRuns, walk
  <2>2. QED
    BY <2>1 DEF OwnerRight
<1>5. ASSUME NEW item \in Item, Shared_Data_removeDataReceivedCb(item) PROVE OwnerRight'
  <2>1. item \notin reserved3 /\ registered' = registered \ {item} /\ UNCHANGED <<reserved3, pc, paused, res>>
    BY <1>5 DEF Shared_Data_removeDataReceivedCb, AsksBusy, walk
  <2>2. QED
    BY <2>1 DEF OwnerRight
<1>6. ASSUME NEW p \in Packet, ReceivePacket(p) PROVE OwnerRight'
  BY <1>6 DEF ReceivePacket, OwnerRight
<1>7. ASSUME NEW group, GroupQuery(group) PROVE OwnerRight'
  BY <1>2, <1>7 DEF GroupQuery, walk
<1>8. CASE CallItem
  BY <1>8 DEF CallItem, OwnerRight
<1>9. CASE SkipItem
  BY <1>2, <1>9 DEF SkipItem
<1>10. ASSUME NEW r \in {"handled", "not_for_app", "no_space"}, ItemReturns(r) PROVE OwnerRight'
  <2>1. /\ pc = "callback" /\ pc' = "walk" /\ registered' = registered /\ res' = combined(r)
        /\ reserved3' = IF r = "no_space" THEN reserved3 \cup {cur} ELSE reserved3
        /\ r = "no_space" => cur \in registered
    BY <1>10 DEF ItemReturns, AsksBusy
  <2>2. res' = "no_space" => r = "no_space" \/ res = "no_space"
    BY <2>1 DEF combined
  <2>3. QED
    BY <2>1, <2>2 DEF OwnerRight
<1>11. CASE EndWalk
  BY <1>11 DEF EndWalk, OwnerRight
<1>12. CASE UNCHANGED rxVars
  BY <1>2, <1>12 DEF rxVars
<1>13. QED
  BY <1>3, <1>4, <1>5, <1>6, <1>7, <1>8, <1>9, <1>10, <1>11, <1>12 DEF RxNext

(***************************************************************************)
(* A paused reception has an owner in the list whose call of               *)
(* Shared_Data_readyToReceive() will be taken into account, if the         *)
(* application resumes an item before it removes it or adds it again: both *)
(* would leave a pause that nobody ends.                                   *)
(***************************************************************************)
THEOREM PauseCanEnd == AsksBusy => (RxSpec => []PauseHasOwner)
<1> DEFINE I == ListInv /\ OwnerRight
<1>1. ASSUME AsksBusy PROVE I /\ [RxNext]_rxVars => I'
  BY <1>1, NextList, NextOwner DEF AsksBusy
<1>2. RxInit => I
  BY InitList DEF RxInit, OwnerRight
<1>3. I => PauseHasOwner
  BY DEF ListInv, OwnerRight, MarksRight, PauseHasOwner
<1>4. ASSUME AsksBusy PROVE RxSpec => []PauseHasOwner
  <2> HIDE DEF I
  <2>1. QED
    BY <1>1, <1>2, <1>3, <1>4, PTL DEF RxSpec
<1>5. QED
  BY <1>4

-----------------------------------------------------------------------------
(* Removed items.                                                          *)
LEMMA NextAhead == ASSUME RemovesOwn, ListInv, AheadRight, [RxNext]_rxVars PROVE AheadRight'
<1>1. RxTypeOK /\ MarksRight /\ WalkRight /\ PauseRight
  BY DEF ListInv
<1>2. CASE UNCHANGED <<list, cur, pc, registered>>
  BY <1>2 DEF AheadRight
<1>3. ASSUME NEW item \in Item, Shared_Data_addDataReceivedCb(item) PROVE AheadRight'
  <2>1. registered' = registered \cup {item} /\ UNCHANGED <<cur, pc>> /\ pc \in {"idle", "callback"}
    BY <1>3 DEF Shared_Data_addDataReceivedCb, AppRuns, walk
  <2>2. CASE Contains(item)
    <3>1. list' = list
      BY <1>3, <2>2 DEF Shared_Data_addDataReceivedCb, push_if_absent
    <3>2. QED
      BY <2>1, <3>1 DEF AheadRight
  <2>3. CASE ~Contains(item)
    <3>1. list' = Append(list, item)
      BY <1>3, <2>3 DEF Shared_Data_addDataReceivedCb, push_if_absent
    <3>2. /\ Len(list') = Len(list) + 1 /\ list'[Len(list')] = item
          /\ \A i \in 1 .. Len(list) : list'[i] = list[i]
      BY <1>1, <2>3, <3>1, AppendFacts
    <3>3. SUFFICES ASSUME pc # "idle", NEW k \in 1 .. Len(list'), list'[k] = cur,
                          NEW i \in 1 .. Len(list'), i > k
                   PROVE  list'[i] \in registered'
      BY <2>1 DEF AheadRight
    <3>4. k \in 1 .. Len(list) /\ (i \in 1 .. Len(list) \/ i = Len(list'))
      BY <1>1, <3>2, <3>3, ListFacts
    <3>5. QED
      BY <2>1, <3>2, <3>3, <3>4 DEF AheadRight
  <2>4. QED
    BY <2>2, <2>3
<1>4. ASSUME NEW item \in Item, Shared_Data_removeDataReceivedCb(item) PROVE AheadRight'
  <2>1. /\ registered' = registered \ {item} /\ UNCHANGED <<cur, pc>> /\ pc \in {"idle", "callback"}
        /\ pc = "callback" => item = cur
        /\ unlink_or_mark(item)
    BY <1>4 DEF Shared_Data_removeDataReceivedCb, AppRuns, walk, RemovesOwn
  <2>2. SUFFICES ASSUME pc = "callback", NEW k \in 1 .. Len(list'), list'[k] = cur,
                        NEW i \in 1 .. Len(list'), i > k
                 PROVE  list'[i] \in registered'
    BY <2>1 DEF AheadRight
  <2>3. list' = list
    BY <1>1, <2>1, <2>2 DEF unlink_or_mark, MarksRight
  <2>4. list[i] # list[k]
    BY <1>1, <2>2, <2>3, ListFacts DEF RxTypeOK
  <2>5. QED
    BY <2>1, <2>2, <2>3, <2>4 DEF AheadRight
<1>5. CASE \E item \in Item : Shared_Data_readyToReceive(item)
  <2>1. pc' = "idle"
    BY <1>5 DEF Shared_Data_readyToReceive, RemovesOwn, KeepsList, AppRuns, walk
  <2>2. QED
    BY <2>1 DEF AheadRight
<1>6. CASE (\E p \in Packet : GroupQuery(p.group)) \/ EndWalk
  BY <1>6 DEF GroupQuery, EndWalk, walk, AheadRight
<1>7. ASSUME NEW p \in Packet, ReceivePacket(p) PROVE AheadRight'
  <2>1. pc = "idle" /\ UNCHANGED <<list, registered>>
    BY <1>7 DEF ReceivePacket
  <2>2. \A i \in 1 .. Len(list) : list[i] \in registered
    BY <1>1, <2>1, ListFacts DEF MarksRight, Contains
  <2>3. QED
    BY <2>1, <2>2 DEF AheadRight
<1>8. CASE CallItem
  BY <1>8 DEF CallItem, AheadRight
<1>9. CASE SkipItem \/ \E r \in {"handled", "not_for_app", "no_space"} : ItemReturns(r)
  <2>1. pc # "idle" /\ cur # NULL /\ cur' = NextOf(cur) /\ UNCHANGED <<list, registered>>
    BY <1>1, <1>9 DEF SkipItem, ItemReturns, WalkRight
  <2>2. PICK k \in 1 .. Len(list) : list[k] = cur
    BY <1>1, <2>1 DEF WalkRight, AtIterator
  <2>3. \A i \in 1 .. Len(list) : i > k => list[i] \in registered
    BY <2>1, <2>2 DEF AheadRight
  <2>4. cur' = IF k < Len(list) THEN list[k + 1] ELSE NULL
    BY <1>1, <2>1, <2>2, NextAt
  <2>5. ASSUME NEW j \in 1 .. Len(list), list[j] = cur'
        PROVE  list[j] \in registered /\ \A i \in 1 .. Len(list) : i > j => list[i] \in registered
    <3>1. k < Len(list)
      BY <1>1, <2>4, <2>5, ListFacts
    <3>2. k + 1 \in 1 .. Len(list)
      BY <1>1, <3>1, ListFacts
    <3>3. j = k + 1
      BY <1>1, <2>4, <2>5, <3>1, <3>2 DEF RxTypeOK
    <3>4. j > k /\ \A i \in 1 .. Len(list) : i > j => i > k
      BY <1>1, <3>3, ListFacts
    <3>5. QED
      BY <2>3, <3>4
  <2>6. QED
    BY <2>1, <2>5 DEF AheadRight
<1>10. CASE UNCHANGED rxVars
  BY <1>2, <1>10 DEF rxVars
<1>11. QED
  BY <1>3, <1>4, <1>5, <1>6, <1>7, <1>8, <1>9, <1>10 DEF RxNext

(***************************************************************************)
(* Once removed, an item is not called any more, if a callback removes no  *)
(* item but its own.  An item removed by the callback of an earlier one is *)
(* only marked, and is still called for the packet being delivered.        *)
(***************************************************************************)
THEOREM RemovedItemsSilent == RemovesOwn => (RxSpec => RemovedNotCalled)
<1> DEFINE I == ListInv /\ AheadRight
           A == pc = "walk" /\ pc' = "callback" => cur \in registered
<1>1. ASSUME RemovesOwn PROVE I /\ [RxNext]_rxVars => I'
  BY <1>1, NextList, NextAhead DEF RemovesOwn
<1>2. RxInit => I
  BY InitList DEF RxInit, AheadRight
<1>3. I /\ [RxNext]_rxVars => [A]_rxVars
  <2> SUFFICES ASSUME I, [RxNext]_rxVars, pc = "walk", pc' = "callback" PROVE cur \in registered
    OBVIOUS
  <2>1. cur # NULL
    BY DEF RxNext, rxVars, Shared_Data_addDataReceivedCb, Shared_Data_readyToReceive, AppRuns,
           Shared_Data_removeDataReceivedCb, ReceivePacket, GroupQuery, CallItem, SkipItem,
           ItemReturns, EndWalk
  <2>2. PICK k \in 1 .. Len(list) : AtIterator(k)
    BY <2>1 DEF ListInv, WalkRight
  <2>3. QED
    BY <2>2 DEF AtIterator, AheadRight
<1>4. ASSUME RemovesOwn PROVE RxSpec => [][A]_rxVars
  <2> HIDE DEF I, A
  <2>1. QED
    BY <1>1, <1>2, <1>3, <1>4, PTL DEF RxSpec
<1>5. QED
  BY <1>4 DEF RemovedNotCalled

-----------------------------------------------------------------------------
(***************************************************************************)
(* The transmission side.                                                  *)
(***************************************************************************)
USE TxAssumption

(* Every non-empty set of natural numbers has a least element. *)
LEMMA LeastElement ==
    ASSUME NEW S \in SUBSET Nat, S # {}
    PROVE  \E m \in S : \A k \in S : m <= k
<1> DEFINE R == OpToRel(<, Nat)
<1>1. IsWellFoundedOn(R, Nat)
  BY NatLessThanWellFounded
<1>2. \A x, y \in Nat : <<x, y>> \in R <=> x < y
  BY DEF OpToRel
<1> HIDE DEF R
<1>3. PICK m \in S : \A k \in S : ~(<<k, m>> \in R)
  BY <1>1, WFMin
<1>4. ASSUME NEW k \in S PROVE m <= k
  <2>1. k \in Nat /\ m \in Nat
    OBVIOUS
  <2>2. ~(k < m)
    BY <2>1, <1>2, <1>3, Zenon
  <2> QED BY <2>1, <2>2
<1>5. QED
  BY <1>4

(* The search returns a slot that is free.                                 *)
LEMMA FreeSlotIsFree ==
    ASSUME Free # {}
    PROVE  free_slot \in Slots /\ ~InUse(free_slot)
<1>1. Free \in SUBSET Nat
  BY DEF Free, Slots
<1>2. \E s \in Free : \A t \in Free : s <= t
  BY <1>1, LeastElement
<1>3. free_slot \in Free
  BY <1>2 DEF free_slot
<1>4. QED
  BY <1>3 DEF Free

(* The search succeeds only if there is a free slot and no packet of the   *)
(* module has the id.                                                      *)
LEMMA SearchSucceeds ==
    ASSUME NEW c, NEW id, SearchResult(c, id) = "success"
    PROVE  ~SameTracking(c, id) /\ Free # {}
BY DEF SearchResult

-----------------------------------------------------------------------------
LEMMA InitTx == TxInit => TxInv
<1> SUFFICES ASSUME TxInit PROVE TxInv
  OBVIOUS
<1>1. TxTypeOK
  BY DEF TxInit, TxTypeOK, Slots, Packets, Answers
<1>2. SlotsInFlight
  BY DEF TxInit, SlotsInFlight, InUse
<1>3. NoSharedId
  BY DEF TxInit, NoSharedId, InUse
<1>4. QED
  BY <1>1, <1>2, <1>3 DEF TxInit, TxInv, ModuleIdGivenBack

(* A packet accepted by the stack takes a slot nobody uses, and an id none *)
(* of the packets of its module has.                                       *)
LEMMA AcceptedTx ==
    ASSUME TxInv, NEW c \in Client, SendAccepted(c)
    PROVE  TxInv'
<1> DEFINE id == tracking_id[c]
           q == [slot |-> free_slot, cb |-> c, wanted |-> wanted[c]]
<1>1. TxTypeOK /\ SlotsInFlight /\ NoSharedId
  BY DEF TxInv
<1>2. id \in Nat /\ wanted[c] \in Id \cup {NO_TRACKING_ID} /\ c # NULL_CB
  BY <1>1 DEF TxTypeOK
<1>3. ~SameTracking(c, id) /\ free_slot \in Slots /\ ~InUse(free_slot)
  BY SearchSucceeds, FreeSlotIsFree DEF SendAccepted
<1> HIDE DEF id
<1>4. m_tracked_packets' = [m_tracked_packets EXCEPT ![free_slot] = [cb |-> c, id |-> id]]
  BY DEF SendAccepted, Reserved, id
<1>5. stack' = stack \cup {q}
  BY DEF SendAccepted
<1>6. q \in Packets
  BY <1>2, <1>3 DEF Packets
<1>7. /\ m_tracked_packets'[free_slot] = [cb |-> c, id |-> id]
      /\ \A s \in Slots : s # free_slot => m_tracked_packets'[s] = m_tracked_packets[s]
  BY <1>1, <1>3, <1>4 DEF TxTypeOK
<1>8. TxTypeOK'
  <2>1. free_slot \in Nat
    BY <1>3 DEF Slots
  <2>2. m_tracked_packets' \in [Slots -> [cb : Client \cup {NULL_CB}, id : Nat]]
    BY <1>1, <1>2, <1>3, <1>4 DEF TxTypeOK
  <2>3. tracking_id' \in [Client -> Nat]
    BY <1>1, <2>1 DEF TxTypeOK, SendAccepted
  <2>4. outcome' \in [cb : Client \cup {NULL_CB}, answer : Answers, id : Nat, wanted : Nat]
    BY <1>2 DEF SendAccepted, Answer, Answers, id
  <2>5. QED
    BY <1>1, <1>5, <1>6, <2>2, <2>3, <2>4 DEF TxTypeOK, SendAccepted
<1>9. SlotsInFlight'
  <2>1. \A p \in stack : p.slot \in Slots /\ p.slot # free_slot
    BY <1>1, <1>3 DEF TxTypeOK, Packets, SlotsInFlight
  <2>2. \A s \in Slots : InUse(s)' <=> \E p \in stack' : p.slot = s
    <3> SUFFICES ASSUME NEW s \in Slots
                 PROVE  InUse(s)' <=> \E p \in stack' : p.slot = s
      OBVIOUS
    <3>1. CASE s = free_slot
      <4>1. InUse(s)'
        BY <1>2, <1>7, <3>1 DEF InUse
      <4>2. q \in stack' /\ q.slot = s
        BY <1>5, <3>1
      <4>3. QED
        BY <4>1, <4>2
    <3>2. CASE s # free_slot
      <4>1. InUse(s)' <=> InUse(s)
        BY <1>7, <3>2 DEF InUse
      <4>2. (\E p \in stack' : p.slot = s) <=> \E p \in stack : p.slot = s
        BY <1>5, <3>2
      <4>3. QED
        BY <1>1, <4>1, <4>2 DEF SlotsInFlight
    <3>3. QED
      BY <3>1, <3>2
  <2>3. \A p \in stack' : p.cb = m_tracked_packets'[p.slot].cb
    BY <1>1, <1>5, <1>7, <2>1 DEF SlotsInFlight
  <2>4. \A p, r \in stack' : p.slot = r.slot => p = r
    BY <1>1, <1>5, <2>1 DEF SlotsInFlight
  <2>5. QED
    BY <2>2, <2>3, <2>4 DEF SlotsInFlight
<1>10. NoSharedId'
  <2> SUFFICES ASSUME NEW s \in Slots, NEW t \in Slots, InUse(s)',
                      m_tracked_packets'[s] = m_tracked_packets'[t], s # t
               PROVE  FALSE
    BY DEF NoSharedId
  <2>1. CASE s # free_slot /\ t # free_slot
    BY <1>1, <1>7, <2>1 DEF NoSharedId, InUse
  <2>2. CASE s = free_slot \/ t = free_slot
    BY <1>3, <1>7, <2>2 DEF SameTracking
  <2>3. QED
    BY <2>1, <2>2
<1>11. Refill => \A p \in stack' : m_tracked_packets'[p.slot].id = p.wanted
  <2>1. \A p \in stack : p.slot \in Slots /\ p.slot # free_slot
    BY <1>1, <1>3 DEF TxTypeOK, Packets, SlotsInFlight
  <2>2. Refill => id = wanted[c]
    BY DEF SendAccepted, MayUse, id
  <2>3. QED
    BY <1>5, <1>7, <2>1, <2>2 DEF TxInv
<1>12. ModuleIdGivenBack'
  BY DEF ModuleIdGivenBack, SendAccepted, Answer
<1>13. QED
  BY <1>8, <1>9, <1>10, <1>11, <1>12 DEF TxInv

(* A packet refused by the stack leaves the slots in use as they were.     *)
LEMMA RefusedTx ==
    ASSUME TxInv, NEW c \in Client, SendRefused(c)
    PROVE  TxInv'
<1> DEFINE id == tracking_id[c]
<1>1. TxTypeOK /\ SlotsInFlight /\ NoSharedId
  BY DEF TxInv
<1>2. id \in Nat /\ wanted[c] \in Nat
  BY <1>1 DEF TxTypeOK
<1>3. free_slot \in Slots /\ ~InUse(free_slot)
  BY SearchSucceeds, FreeSlotIsFree DEF SendRefused
<1> HIDE DEF id
<1>4. m_tracked_packets' = [m_tracked_packets EXCEPT ![free_slot] = [cb |-> NULL_CB, id |-> id]]
  BY <1>1, <1>3 DEF SendRefused, Reserved, id, TxTypeOK
<1>5. /\ m_tracked_packets'[free_slot] = [cb |-> NULL_CB, id |-> id]
      /\ \A s \in Slots : s # free_slot => m_tracked_packets'[s] = m_tracked_packets[s]
  BY <1>1, <1>3, <1>4 DEF TxTypeOK
<1>6. stack' = stack /\ wanted' = wanted
  BY DEF SendRefused
<1>7. TxTypeOK'
  <2>1. free_slot \in Nat
    BY <1>3 DEF Slots
  <2>2. m_tracked_packets' \in [Slots -> [cb : Client \cup {NULL_CB}, id : Nat]]
    BY <1>1, <1>2, <1>3, <1>4 DEF TxTypeOK
  <2>3. tracking_id' \in [Client -> Nat]
    BY <1>1, <2>1 DEF TxTypeOK, SendRefused
  <2>4. outcome' \in [cb : Client \cup {NULL_CB}, answer : Answers, id : Nat, wanted : Nat]
    BY <1>2 DEF SendRefused, Answer, Answers, id
  <2>5. QED
    BY <1>1, <1>6, <2>2, <2>3, <2>4 DEF TxTypeOK
<1>8. \A p \in stack : p.slot \in Slots /\ p.slot # free_slot
  BY <1>1, <1>3 DEF TxTypeOK, Packets, SlotsInFlight
<1>9. \A s \in Slots : InUse(s)' <=> InUse(s)
  BY <1>3, <1>5 DEF InUse
<1>10. SlotsInFlight'
  BY <1>1, <1>5, <1>6, <1>8, <1>9 DEF SlotsInFlight
<1>11. NoSharedId'
  <2> SUFFICES ASSUME NEW s \in Slots, NEW t \in Slots, InUse(s)',
                      m_tracked_packets'[s] = m_tracked_packets'[t]
               PROVE  s = t
    BY DEF NoSharedId
  <2>1. InUse(s) /\ s # free_slot /\ m_tracked_packets'[s].cb # NULL_CB
    BY <1>3, <1>9 DEF InUse
  <2>2. t # free_slot
    BY <1>5, <2>1
  <2>3. QED
    BY <1>1, <1>5, <2>1, <2>2 DEF NoSharedId
<1>12. Refill => \A p \in stack' : m_tracked_packets'[p.slot].id = p.wanted
  BY <1>5, <1>6, <1>8 DEF TxInv
<1>13. ModuleIdGivenBack'
  BY DEF ModuleIdGivenBack, SendRefused, Answer
<1>14. QED
  BY <1>7, <1>10, <1>11, <1>12, <1>13 DEF TxInv

(* A call that does not reach the stack changes neither the table nor the  *)
(* packets on their way.                                                   *)
LEMMA UntrackedTx ==
    ASSUME TxInv, NEW c \in Client,
           SendFails(c) \/ SendUntracked(c) \/ \E id \in Id : Prepare(c, id)
    PROVE  TxInv'
<1>1. TxTypeOK
  BY DEF TxInv
<1>2. m_tracked_packets' = m_tracked_packets /\ stack' = stack
  BY DEF SendFails, SendUntracked, Prepare
<1>3. TxTypeOK'
  <2>1. CASE SendFails(c)
    <3>1. SearchResult(c, tracking_id[c]) \in Answers
      BY DEF SearchResult, Answers
    <3>2. QED
      BY <1>1, <2>1, <3>1 DEF TxTypeOK, SendFails, Answer
  <2>2. CASE SendUntracked(c)
    BY <1>1, <2>2 DEF TxTypeOK, SendUntracked
  <2>3. CASE \E id \in Id : Prepare(c, id)
    BY <1>1, <2>3 DEF TxTypeOK, Prepare
  <2>4. QED
    BY <2>1, <2>2, <2>3
<1>4. SlotsInFlight' /\ NoSharedId'
  BY <1>2 DEF TxInv, SlotsInFlight, NoSharedId, InUse
<1>5. (Refill => ModuleIdGivenBack)'
  <2>1. CASE SendFails(c)
    BY <2>1 DEF SendFails, Answer, SearchResult, ModuleIdGivenBack
  <2>2. CASE outcome' = outcome
    BY <2>2 DEF TxInv, ModuleIdGivenBack
  <2>3. QED
    BY <2>1, <2>2 DEF SendUntracked, Prepare
<1>6. QED
  BY <1>2, <1>3, <1>4, <1>5 DEF TxInv

(* The slot of a packet the stack is done with is released, with the id    *)
(* that was stored there.                                                  *)
LEMMA SentTx ==
    ASSUME TxInv, NEW p \in stack, sent_cb(p)
    PROVE  TxInv'
<1>1. TxTypeOK /\ SlotsInFlight /\ NoSharedId
  BY DEF TxInv
<1>2. p.slot \in Slots /\ p.wanted \in Nat
  BY <1>1 DEF TxTypeOK, Packets
<1>3. /\ m_tracked_packets' = [m_tracked_packets EXCEPT ![p.slot] =
                                [cb |-> NULL_CB, id |-> m_tracked_packets[p.slot].id]]
      /\ stack' = stack \ {p}
  BY DEF sent_cb, Released
<1>4. /\ m_tracked_packets'[p.slot].cb = NULL_CB
      /\ \A s \in Slots : s # p.slot => m_tracked_packets'[s] = m_tracked_packets[s]
  BY <1>1, <1>2, <1>3 DEF TxTypeOK
<1>5. TxTypeOK'
  <2>1. m_tracked_packets' \in [Slots -> [cb : Client \cup {NULL_CB}, id : Nat]]
    BY <1>1, <1>2, <1>3 DEF TxTypeOK
  <2>2. outcome' \in [cb : Client \cup {NULL_CB}, answer : Answers, id : Nat, wanted : Nat]
    <3>1. m_tracked_packets[p.slot] \in [cb : Client \cup {NULL_CB}, id : Nat]
      BY <1>1, <1>2 DEF TxTypeOK
    <3>2. QED
      BY <1>2, <3>1 DEF sent_cb, Answer, Answers
  <2>3. QED
    BY <1>1, <1>3, <2>1, <2>2 DEF TxTypeOK, sent_cb
<1>6. \A r \in stack' : r \in stack /\ r.slot \in Slots /\ r.slot # p.slot
  BY <1>1, <1>3 DEF TxTypeOK, Packets, SlotsInFlight
<1>7. SlotsInFlight'
  <2>1. \A s \in Slots : InUse(s)' <=> \E r \in stack' : r.slot = s
    BY <1>1, <1>3, <1>4, <1>6 DEF SlotsInFlight, InUse
  <2>2. \A r \in stack' : r.cb = m_tracked_packets'[r.slot].cb
    BY <1>1, <1>4, <1>6 DEF SlotsInFlight
  <2>3. QED
    BY <1>1, <1>6, <2>1, <2>2 DEF SlotsInFlight
<1>8. NoSharedId'
  <2> SUFFICES ASSUME NEW s \in Slots, NEW t \in Slots, InUse(s)',
                      m_tracked_packets'[s] = m_tracked_packets'[t]
               PROVE  s = t
    BY DEF NoSharedId
  <2>1. s # p.slot /\ t # p.slot
    BY <1>4 DEF InUse
  <2>2. QED
    BY <1>1, <1>4, <2>1 DEF NoSharedId, InUse
<1>9. Refill => \A r \in stack' : m_tracked_packets'[r.slot].id = r.wanted
  BY <1>4, <1>6 DEF TxInv
<1>10. (Refill => ModuleIdGivenBack)'
  BY DEF TxInv, ModuleIdGivenBack, sent_cb, Answer
<1>11. QED
  BY <1>5, <1>7, <1>8, <1>9, <1>10 DEF TxInv

LEMMA NextTx == TxInv /\ [TxNext]_txVars => TxInv'
<1> SUFFICES ASSUME TxInv, [TxNext]_txVars PROVE TxInv'
  OBVIOUS
<1>1. CASE \E c \in Client : Shared_Data_sendData(c) \/ \E id \in Id : Prepare(c, id)
  BY <1>1, AcceptedTx, RefusedTx, UntrackedTx DEF Shared_Data_sendData
<1>2. CASE \E p \in stack : sent_cb(p)
  BY <1>2, SentTx
<1>3. CASE UNCHANGED txVars
  BY <1>3 DEF TxInv, TxTypeOK, SlotsInFlight, NoSharedId, InUse, ModuleIdGivenBack, txVars
<1>4. QED
  BY <1>1, <1>2, <1>3 DEF TxNext

-----------------------------------------------------------------------------
(* The invariant of the tracking table holds whatever the modules send and *)
(* the stack answers.                                                      *)
THEOREM TrackingInvariant == TxSpec => []TxInv
BY InitTx, NextTx, PTL DEF TxSpec

(* No slot of m_tracked_packets leaks or is reused too early, and each     *)
(* packet is reported to its own module.                                   *)
THEOREM SlotsAreInFlight == TxSpec => []SlotsInFlight
<1>1. TxInv => SlotsInFlight
  BY DEF TxInv
<1>2. QED
  BY <1>1, TrackingInvariant, PTL

(* Packets the stack has at the same time never carry the same id, however *)
(* often the ids have come round.                                          *)
THEOREM IdsAreNotShared == TxSpec => []NoSharedId
<1>1. TxInv => NoSharedId
  BY DEF TxInv
<1>2. QED
  BY <1>1, TrackingInvariant, PTL

(* A module that fills the tracking id before each call gets it back from  *)
(* sent_cb().                                                              *)
THEOREM IdComesBack == Refill => (TxSpec => []ModuleIdGivenBack)
<1>1. ASSUME Refill PROVE TxInv => ModuleIdGivenBack
  BY <1>1 DEF TxInv
<1>2. ASSUME Refill PROVE TxSpec => []ModuleIdGivenBack
  BY <1>1, <1>2, TrackingInvariant, PTL
<1>3. QED
  BY <1>2
=============================================================================
