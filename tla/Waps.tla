-------------------------------- MODULE Waps --------------------------------
(***************************************************************************)
(* The core of the dual MCU API: libraries/dualmcu/waps (waps.c,           *)
(* waps_item.c, protocol/waps_protocol.c, protocol/uart/                   *)
(* waps_uart_protocol.c).  A host talks to the node over a UART.  Its      *)
(* requests and its responses to indications are taken by an interrupt     *)
(* into items of a pool and handled, one at a time, by the task Waps_exec; *)
(* what the stack has to say to the host waits in items as well, until the *)
(* host polls for it and acknowledges it.  When the pool runs low the      *)
(* reception of data is paused, and the Waps_itemFree that finds half of   *)
(* the pool free resumes it.                                               *)
(*                                                                         *)
(* The interrupt may come between any two steps of Waps_exec; the          *)
(* callbacks of the stack run in the same context as the task and never    *)
(* in the middle of it, but for the one that a request of the host to      *)
(* write the app config runs itself.  Waps_exec is therefore cut where it  *)
(* touches what the interrupt shares with it: the signal, the queue of     *)
(* requests and the pool.                                                  *)
(***************************************************************************)
EXTENDS Integers, Sequences

CONSTANTS
    Items,          \* items of the pool (WAPS_MIN_ITEMS and what the RAM left allows)
    Reserved,       \* WAPS_RESERVED_ITEMS: items an indication may not take
    ThresholdPercent, \* thresold_percent of Waps_itemInit
    FrameIds,         \* prot_seq counts modulo FrameIds (256)
    TxRoom,         \* frames the transmit buffer of the UART holds
    Requests,       \* requests the host sends, subset of {"poll", "config", "other", "role", "bad"}
    LatestKinds,    \* events only the latest of which is told, subset of {"config", "scan"}
    AddTaskOutcomes, \* what App_Scheduler_addTask_execTime may return
    HostAhead,      \* bound: frames the host has waiting in the node
    MaxPackets,     \* bound: packets received from the network
    Nil

\* m_free_waps_items
Threshold == (Items * ThresholdPercent) \div 100

(***************************************************************************)
(* Reception pauses with at most Reserved items free, and a pool that      *)
(* small must be below the threshold or nothing would ever resume it.      *)
(***************************************************************************)
ASSUME PoolAssumption ==
    /\ Items \in Nat /\ Reserved \in Nat /\ ThresholdPercent \in 0..100
    /\ Reserved < Threshold
ASSUME SizeAssumption ==
    /\ FrameIds \in Nat \ {0, 1} /\ TxRoom \in Nat /\ HostAhead \in Nat
    /\ MaxPackets \in Nat
ASSUME UsageAssumption ==
    /\ Requests \subseteq {"poll", "config", "other", "role", "bad"}
    /\ LatestKinds \subseteq {"config", "scan"}
    /\ AddTaskOutcomes \subseteq BOOLEAN

VARIABLES
    free,             \* Len(free_items)
    requests,         \* waps_request_queue
    replies,          \* waps_reply_queue
    inds,             \* waps_ind_queue
    prot_reply,       \* reply being sent, or Nil
    prot_indication,  \* indication sent and not acknowledged, or Nil
    prot_seq,         \* frame id of the next indication
    m_signal,         \* the task has been woken up and has not started
    task,             \* Waps_exec is in the table of the scheduler
    pc,               \* where Waps_exec is, "idle" when it is not running
    item,             \* the request Waps_exec has in hand, or Nil
    ret,              \* where Waps_exec goes on after Waps_itemFree
    irq,              \* the IRQ pin is asserted
    paused,           \* data_cb said NO_SPACE and reception was not resumed
    toHost,           \* frames written to the UART and not yet read by the host
    accepted,         \* packets data_cb has taken, numbered from 1
    received          \* packets the host has read

pool == <<free, item, prot_reply, prot_indication, requests, replies, inds>>
vars == <<pool, prot_seq, m_signal, task, pc, ret, irq, paused, toHost,
          accepted, received>>

Kinds == {"data", "config", "scan", "sent", "state"}

\* Only packets are told apart, by their number
Indication == [kind : {"data"}, n : 1..MaxPackets] \cup [kind : Kinds \ {"data"}, n : {0}]
Request == [f : Requests]
Response == [f : {"rsp"}, kind : Kinds, seq : 0..(FrameIds - 1), ok : BOOLEAN]
Reply == [f : {"poll_cnf", "cnf"}]
Frame == [f : {"ind"}, kind : {"data"}, n : 1..MaxPackets, seq : 0..(FrameIds - 1)]
         \cup [f : {"ind"}, kind : Kinds \ {"data"}, n : {0}, seq : 0..(FrameIds - 1)]

ASSUME NilAssumption == Nil \notin Request \cup Response \cup Reply \cup Indication

TypeOK ==
    /\ free \in 0..Items
    /\ requests \in Seq(Request \cup Response)
    /\ replies \in Seq(Reply)
    /\ inds \in Seq(Indication)
    /\ prot_reply \in Reply \cup {Nil}
    /\ prot_indication \in Indication \cup {Nil}
    /\ prot_seq \in 0..(FrameIds - 1)
    /\ m_signal \in BOOLEAN /\ task \in BOOLEAN /\ irq \in BOOLEAN
    /\ paused \in BOOLEAN
    /\ pc \in {"idle", "start", "read", "process", "resend", "test", "reply",
               "end", "again", "stop"}
    /\ ret \in {"idle", "resend", "reply", "end"}
    /\ toHost \in Seq(Reply \cup Frame)
    /\ item \in Request \cup Response \cup {Nil}
    /\ accepted \in 0..MaxPackets
    /\ received \subseteq 1..MaxPackets

-----------------------------------------------------------------------------
(* The pool: waps_item.c.                                                  *)

\* Waps_itemReserve finds an item
CanReserve(type) == free > IF type = "request" THEN 0 ELSE Reserved

(***************************************************************************)
(* Waps_itemFree: the item is pushed in a critical section, and the size   *)
(* of the list is read after it; the interrupt may take an item between    *)
(* the two.  Waps_exec goes on at next.                                    *)
(***************************************************************************)
Waps_itemFree(next) ==
    /\ free' = free + 1
    /\ pc' = "test"
    /\ ret' = next

\* Mutant: one item more than the threshold is asked for.
ItemFreeThreshold_above ==
    /\ pc = "test"
    /\ paused' = (paused /\ free <= Threshold)
    /\ pc' = ret
    /\ ret' = "idle"
    /\ UNCHANGED <<pool, prot_seq, m_signal, task, irq, toHost, accepted,
                   received>>

\* The second half, with item_free_threshold_cb: Shared_Data_readyToReceive
ItemFreeThreshold ==
    /\ pc = "test"
    /\ paused' = (paused /\ free < Threshold)
    /\ pc' = ret
    /\ ret' = "idle"
    /\ UNCHANGED <<pool, prot_seq, m_signal, task, irq, toHost, accepted, received>>

-----------------------------------------------------------------------------
(* Wake-up of the task and reception of frames, in the interrupt.          *)

(***************************************************************************)
(* wakeup_task: only the caller that finds the signal down adds the task,  *)
(* and does not look at the result.                                        *)
(***************************************************************************)
wakeup_task ==
    /\ m_signal' = TRUE
    /\ IF m_signal THEN task' = task
       ELSE \E added \in AddTaskOutcomes : task' = (task \/ added)

(***************************************************************************)
(* frame_receive and receive_request: a frame that finds no item is        *)
(* dropped.                                                                *)
(***************************************************************************)
frame_receive(frame) ==
    IF CanReserve("request")
    THEN /\ free' = free - 1
         /\ requests' = Append(requests, frame)
         /\ wakeup_task
    ELSE UNCHANGED <<free, requests, m_signal, task>>

\* uart_gpio_isr wakes the task up when the line goes down, with no frame yet
uart_gpio_isr ==
    /\ wakeup_task
    /\ UNCHANGED <<pool, prot_seq, pc, ret, irq, paused, toHost, accepted, received>>

-----------------------------------------------------------------------------
(* Indications of the stack.  These callbacks run while Waps_exec does     *)
(* not; writeInterest below is the exception.                              *)

\* add_indication, with the pin that tells the host
add_indication(ind) ==
    /\ free' = free - 1
    /\ inds' = Append(inds, ind)
    /\ irq' = TRUE

(***************************************************************************)
(* data_cb: with no item left for an indication the packet stays in the    *)
(* stack, and shared data pauses the reception.                            *)
(***************************************************************************)
data_cb ==
    /\ pc = "idle"
    /\ ~paused
    /\ accepted < MaxPackets
    /\ IF CanReserve("indication")
       THEN /\ add_indication([kind |-> "data", n |-> accepted + 1])
            /\ accepted' = accepted + 1
            /\ UNCHANGED paused
       ELSE /\ paused' = TRUE
            /\ UNCHANGED <<free, inds, irq, accepted>>
    /\ UNCHANGED <<requests, replies, prot_reply, prot_indication, item,
                   prot_seq, m_signal, task, pc, ret, toHost, received>>

\* Places of find_indication: the first queued indication of the kind
find_indication(kind) ==
    LET places == {i \in DOMAIN inds : inds[i].kind = kind}
    IN  IF places = {} THEN 0 ELSE CHOOSE i \in places : \A j \in places : i <= j

(***************************************************************************)
(* app_config_received_cb and on_scanned_nbors_cb: an indication of the    *)
(* same kind that still waits is written over, which this model does not   *)
(* tell from doing nothing; otherwise a new one is queued, unless no item  *)
(* is left: then the event is lost.                                        *)
(***************************************************************************)
IndicateLatest(kind) ==
    /\ pc = "idle"
    /\ find_indication(kind) = 0
    /\ CanReserve("indication")
    /\ add_indication([kind |-> kind, n |-> 0])
    /\ UNCHANGED <<requests, replies, prot_reply, prot_indication, item,
                   prot_seq, m_signal, task, pc, ret, paused, toHost, accepted,
                   received>>

\* Waps_packetSent: lost when no item is left
Waps_packetSent ==
    /\ pc = "idle"
    /\ CanReserve("indication")
    /\ add_indication([kind |-> "sent", n |-> 0])
    /\ UNCHANGED <<requests, replies, prot_reply, prot_indication, item,
                   prot_seq, m_signal, task, pc, ret, paused, toHost, accepted, received>>

-----------------------------------------------------------------------------
(* Sending: waps_protocol.c and waps_uart_protocol.c.                      *)

\* Waps_uart_send: refused when the transmit buffer has no room for the frame
Written(frames) == Len(frames) < TxRoom

\* Mutant: the pin follows the queue and not the indication that is out.
send_indication_pin(rx, out, queue, seq, sent) ==
    LET allowed == rx.f = "poll_cnf" \/ (rx.f = "rsp" /\ rx.ok)
        ind == IF out # Nil \/ queue = <<>> THEN out ELSE Head(queue)
        rest == IF out = Nil /\ queue # <<>> THEN Tail(queue) ELSE queue
        go == allowed /\ ind # Nil /\ Written(sent)
    IN  /\ prot_indication' = IF go THEN ind ELSE IF allowed THEN Nil ELSE out
        /\ inds' = IF go THEN rest
                   ELSE IF allowed /\ ind # Nil THEN <<ind>> \o rest ELSE queue
        /\ irq' = (inds' # <<>>)
        /\ toHost' = IF go THEN Append(sent, [f |-> "ind", kind |-> ind.kind,
                                              n |-> ind.n, seq |-> seq])
                     ELSE sent

(***************************************************************************)
(* send_indication after the frame rx, to a line that already holds sent:  *)
(* a poll that was confirmed or a response that asks for more lets the     *)
(* indication go that is out already, or else the oldest one.  When it     *)
(* cannot be written it goes back to the front of the queue.  The pin      *)
(* follows in every case.                                                  *)
(***************************************************************************)
send_indication(rx, out, queue, seq, sent) ==
    LET allowed == rx.f = "poll_cnf" \/ (rx.f = "rsp" /\ rx.ok)
        ind == IF out # Nil \/ queue = <<>> THEN out ELSE Head(queue)
        rest == IF out = Nil /\ queue # <<>> THEN Tail(queue) ELSE queue
        frame == [f |-> "ind", kind |-> ind.kind, n |-> ind.n, seq |-> seq]
    IN  IF allowed /\ ind # Nil
        THEN /\ irq' = TRUE
             /\ IF Written(sent)
                THEN /\ prot_indication' = ind
                     /\ inds' = rest
                     /\ toHost' = Append(sent, frame)
                ELSE /\ prot_indication' = Nil
                     /\ inds' = <<ind>> \o rest
                     /\ toHost' = sent
        ELSE /\ irq' = (queue # <<>> \/ out # Nil)
             /\ prot_indication' = out
             /\ inds' = queue
             /\ toHost' = sent

-----------------------------------------------------------------------------
(* The task.                                                               *)

\* The scheduler calls Waps_exec
RunTask ==
    /\ pc = "idle"
    /\ task
    /\ task' = FALSE
    /\ pc' = "start"
    /\ UNCHANGED <<pool, prot_seq, m_signal, ret, irq, paused, toHost, accepted, received>>

\* Task is scheduled, clear signal
ClearSignal ==
    /\ pc = "start"
    /\ m_signal' = FALSE
    /\ pc' = "read"
    /\ UNCHANGED <<pool, prot_seq, task, ret, irq, paused, toHost, accepted, received>>

read_request ==
    /\ pc = "read"
    /\ IF requests = <<>>
       THEN /\ pc' = "reply"
            /\ UNCHANGED <<requests, item>>
       ELSE /\ pc' = "process"
            /\ item' = Head(requests)
            /\ requests' = Tail(requests)
    /\ UNCHANGED <<free, replies, inds, prot_reply, prot_indication, prot_seq,
                   m_signal, task, ret, irq, paused, toHost, accepted, received>>

\* Mutant: any response to an indication of this kind frees it.
Acknowledges_kind(rsp, ind) == rsp.kind = ind.kind

(***************************************************************************)
(* Waps_protUart_processResponse: the response that carries the sequence   *)
(* number and the function of the indication that is out frees it; then    *)
(* the next one, or the same one again, may go.                            *)
(***************************************************************************)
Acknowledges(rsp, ind) == rsp.seq = prot_seq /\ rsp.kind = ind.kind

processResponse ==
    /\ pc = "process"
    /\ item.f = "rsp"
    /\ prot_indication # Nil
    /\ IF Acknowledges(item, prot_indication)
       THEN /\ prot_indication' = Nil
            /\ prot_seq' = (prot_seq + 1) % FrameIds
            /\ Waps_itemFree("resend")
       ELSE /\ pc' = "resend"
            /\ UNCHANGED <<prot_indication, prot_seq, free, ret>>
    /\ UNCHANGED <<requests, replies, inds, prot_reply, item, m_signal, task,
                   irq, paused, toHost, accepted, received>>

\* send_indication of a response, and the end of the response's item
ResendIndication ==
    /\ pc = "resend"
    /\ send_indication(item, prot_indication, inds, prot_seq, toHost)
    /\ item' = Nil
    /\ Waps_itemFree("reply")
    /\ UNCHANGED <<requests, replies, prot_reply, prot_seq, m_signal, task,
                   paused, accepted, received>>

\* Mutant: a request that waited too long keeps its item.
DropItem_leak ==
    /\ pc = "process"
    /\ item.f = "rsp" => prot_indication = Nil
    /\ item' = Nil
    /\ pc' = "reply"
    /\ UNCHANGED <<free, ret, requests, replies, inds, prot_reply,
                   prot_indication, prot_seq, m_signal, task, irq, paused,
                   toHost, accepted, received>>

(***************************************************************************)
(* Nothing to answer: a response while no indication is out, a request     *)
(* that waited too long, or one that no service takes.                     *)
(***************************************************************************)
DropItem ==
    /\ pc = "process"
    /\ item.f = "rsp" => prot_indication = Nil
    /\ item' = Nil
    /\ Waps_itemFree("reply")
    /\ UNCHANGED <<requests, replies, inds, prot_reply, prot_indication,
                   prot_seq, m_signal, task, irq, paused, toHost, accepted, received>>

(***************************************************************************)
(* process_request answers in the item of the request.  A new role resets  *)
(* the power of the UART and with it the pin (Waps_uart_powerReset).       *)
(* Here a write of the app config tells nobody: it is refused or changes   *)
(* nothing, or the callback has an indication to write over or no item.    *)
(***************************************************************************)
process_request ==
    /\ pc = "process"
    /\ item.f \in {"poll", "config", "other", "role"}
    /\ replies' = Append(replies,
           [f |-> IF item.f = "poll" THEN "poll_cnf" ELSE "cnf"])
    /\ item' = Nil
    /\ irq' = (irq /\ item.f # "role")
    /\ pc' = "reply"
    /\ UNCHANGED <<free, requests, inds, prot_reply, prot_indication, prot_seq,
                   m_signal, task, ret, paused, toHost, accepted, received>>

(***************************************************************************)
(* writeInterest, from process_request, with a new app config:             *)
(* Shared_Appconfig_setAppConfig calls app_config_received_cb before it    *)
(* returns, which queues an indication ahead of the answer.                *)
(***************************************************************************)
writeInterest ==
    /\ pc = "process"
    /\ item.f = "config"
    /\ find_indication("config") = 0
    /\ CanReserve("indication")
    /\ add_indication([kind |-> "config", n |-> 0])
    /\ replies' = Append(replies, [f |-> "cnf"])
    /\ item' = Nil
    /\ pc' = "reply"
    /\ UNCHANGED <<requests, prot_reply, prot_indication, prot_seq, m_signal,
                   task, ret, paused, toHost, accepted, received>>

(***************************************************************************)
(* Waps_protUart_sendReply: a reply that cannot be written stays in        *)
(* prot_reply for the next time.                                           *)
(***************************************************************************)
sendReply ==
    /\ pc = "reply"
    /\ LET pop == prot_reply = Nil /\ replies # <<>>
           reply == IF pop THEN Head(replies) ELSE prot_reply
           left == IF pop THEN Tail(replies) ELSE replies
       IN  /\ replies' = left
           /\ IF reply # Nil /\ Written(toHost)
              THEN /\ send_indication(reply, prot_indication, inds, prot_seq,
                                      Append(toHost, reply))
                   /\ prot_reply' = Nil
                   /\ Waps_itemFree("end")
              ELSE /\ prot_reply' = reply
                   /\ pc' = "end"
                   /\ UNCHANGED <<prot_indication, inds, toHost, irq, free, ret>>
    /\ UNCHANGED <<requests, item, prot_seq, m_signal, task, paused, accepted, received>>

\* Mutant: requests that wait are left to the signal.
frames_pending_replies ==
    /\ pc = "end"
    /\ pc' = IF replies # <<>> THEN "again" ELSE "stop"
    /\ UNCHANGED <<pool, prot_seq, m_signal, task, ret, irq, paused, toHost,
                   accepted, received>>

\* frames_pending decides what Waps_exec returns
frames_pending ==
    /\ pc = "end"
    /\ pc' = IF requests # <<>> \/ replies # <<>> THEN "again" ELSE "stop"
    /\ UNCHANGED <<pool, prot_seq, m_signal, task, ret, irq, paused, toHost,
                   accepted, received>>

(***************************************************************************)
(* The scheduler takes the result: a task added again while it ran stays   *)
(* in the table whatever it returns.                                       *)
(***************************************************************************)
ExecReturns ==
    /\ pc \in {"again", "stop"}
    /\ task' = (task \/ pc = "again")
    /\ pc' = "idle"
    /\ UNCHANGED <<pool, prot_seq, m_signal, ret, irq, paused, toHost, accepted, received>>

-----------------------------------------------------------------------------
(* The host, which is not part of the repository: it sends any request at  *)
(* any time, reads what the node writes and acknowledges indications.      *)
(* Frames are lost in both directions.                                     *)

HostUnchanged == UNCHANGED <<replies, inds, prot_reply, prot_indication, item,
                             prot_seq, pc, ret, irq, paused, accepted>>

HostRequests ==
    /\ Len(requests) < HostAhead
    /\ \E f \in Requests : frame_receive([f |-> f])
    /\ UNCHANGED <<toHost, received>>
    /\ HostUnchanged

\* An indication is read and, unless the response is lost, acknowledged
HostReads ==
    /\ toHost # <<>>
    /\ toHost' = Tail(toHost)
    /\ LET frame == Head(toHost)
       IN  IF frame.f = "ind"
           THEN /\ received' = IF frame.kind = "data" THEN received \cup {frame.n}
                                                      ELSE received
                /\ \/ /\ Len(requests) < HostAhead
                      /\ \E ok \in BOOLEAN :
                            frame_receive([f |-> "rsp", kind |-> frame.kind,
                                           seq |-> frame.seq, ok |-> ok])
                   \/ UNCHANGED <<free, requests, m_signal, task>>
           ELSE UNCHANGED <<received, free, requests, m_signal, task>>
    /\ HostUnchanged

FrameLost ==
    /\ toHost # <<>>
    /\ toHost' = Tail(toHost)
    /\ UNCHANGED <<received, free, requests, m_signal, task>>
    /\ HostUnchanged

-----------------------------------------------------------------------------
\* Waps_init queues the indication of the state of the stack
Init ==
    /\ free = Items - 1
    /\ inds = <<[kind |-> "state", n |-> 0]>>
    /\ irq = TRUE
    /\ requests = <<>> /\ replies = <<>>
    /\ prot_reply = Nil /\ prot_indication = Nil /\ prot_seq = 0
    /\ m_signal = FALSE /\ task = FALSE
    /\ pc = "idle" /\ ret = "idle" /\ item = Nil
    /\ paused = FALSE
    /\ toHost = <<>>
    /\ accepted = 0 /\ received = {}

Exec ==
    \/ RunTask
    \/ ClearSignal
    \/ read_request
    \/ processResponse
    \/ ResendIndication
    \/ DropItem
    \/ process_request
    \/ writeInterest
    \/ sendReply
    \/ ItemFreeThreshold
    \/ frames_pending
    \/ ExecReturns

Stack ==
    \/ data_cb
    \/ \E kind \in LatestKinds : IndicateLatest(kind)
    \/ Waps_packetSent

Host ==
    \/ HostRequests
    \/ HostReads
    \/ FrameLost

Next == Exec \/ Stack \/ Host \/ uart_gpio_isr

Spec == Init /\ [][Next]_vars

-----------------------------------------------------------------------------
(* Properties.                                                             *)

Held(x) == IF x = Nil THEN 0 ELSE 1

\* The items in use, in a queue and taken from it
RequestItems == Len(requests) + Held(item)
ReplyItems == Len(replies) + Held(prot_reply)
IndicationItems == Len(inds) + Held(prot_indication)

\* The indications the node holds, in the order they are sent
Waiting == IF prot_indication = Nil THEN inds ELSE <<prot_indication>> \o inds

(***************************************************************************)
(* No item is lost and none is given back twice: the free items and those  *)
(* in the queues and in hand are all the items of the pool, between any    *)
(* two steps.  A leak would in the end leave the host without an answer    *)
(* (waps.c, waps_item.c, waps_uart_protocol.c: every path through          *)
(* Waps_exec frees the request or turns it into the reply).                *)
(***************************************************************************)
ItemsConserved == free + RequestItems + ReplyItems + IndicationItems = Items

(***************************************************************************)
(* A frame the interrupt has queued is not forgotten: while one waits, the *)
(* task is in the scheduler's table, or it is running and has not yet      *)
(* looked at the queue for the last time (wakeup_task and the signal that  *)
(* Waps_exec clears first).                                                *)
(***************************************************************************)
RequestNotStranded ==
    requests # <<>> =>
        task \/ pc \in {"start", "read", "process", "resend", "test", "reply",
                        "end", "again"}

(***************************************************************************)
(* Reception is not left paused with room in the pool: when it is paused,  *)
(* fewer items than the threshold are free, or a Waps_itemFree is about to *)
(* look, even when the interrupt took an item between the push and the     *)
(* test (waps_item.c, Waps_itemFree).                                      *)
(***************************************************************************)
PauseHasReason == paused => free < Threshold \/ pc = "test"

(***************************************************************************)
(* What data_cb took reaches the host, in order and at least once: a       *)
(* packet that is no longer held was read by the host, packets are held in *)
(* the order they came, and none was read before an older one that is      *)
(* still held, though responses are lost, late or repeated, the frame id   *)
(* wraps and a write may fail (waps_uart_protocol.c).                      *)
(***************************************************************************)
DeliveredInOrder ==
    LET held == Waiting
        packets == {i \in DOMAIN held : held[i].kind = "data"}
    IN  /\ \A n \in 1..accepted : n \in received \/ \E i \in packets : held[i].n = n
        /\ \A i, j \in packets : i < j => held[i].n < held[j].n
        /\ \A n \in received, i \in packets : n <= held[i].n

(***************************************************************************)
(* The host can trust the pin: while the task is not running, the IRQ is   *)
(* asserted exactly when an indication waits to be polled or acknowledged  *)
(* (Waps_prot_updateIrqPin; DualMcuAPI.md: "When the stack has pending     *)
(* indications, the IRQ is asserted").                                     *)
(***************************************************************************)
IrqTellsPending ==
    pc = "idle" => irq = (inds # <<>> \/ prot_indication # Nil)

(***************************************************************************)
(* A reply that could not be written is tried again: the task comes back   *)
(* for it (waps.c: "As sending reply might fail, must re-enter WAPS to     *)
(* attempt again").                                                        *)
(***************************************************************************)
ReplyTriedAgain == prot_reply # Nil /\ pc = "idle" => task

=============================================================================
