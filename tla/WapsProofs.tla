------------------------------ MODULE WapsProofs ------------------------------
(***************************************************************************)
(* Proofs about Waps, for any pool, size of the buffers, number of frame   *)
(* ids and requests of the host.                                           *)
(***************************************************************************)
EXTENDS Waps, SequenceTheorems, TLAPS

(***************************************************************************)
(* The inductive invariant, in four parts that are proved one after the    *)
(* other.                                                                  *)
(***************************************************************************)

\* Where Waps_exec is tells whether it has an item in hand, and which
InHand ==
    /\ item # Nil <=> pc \in {"process", "resend"} \/ (pc = "test" /\ ret = "resend")
    /\ pc = "resend" \/ (pc = "test" /\ ret = "resend") => item \in Response
    /\ pc = "test" <=> ret # "idle"

PoolInv == TypeOK /\ InHand /\ ItemsConserved /\ PauseHasReason

\* A signal that is up has its task; a request that waits has its task or is
\* still to be looked at
SignalHasTask == m_signal => task \/ pc = "start"
WakeInv == SignalHasTask /\ RequestNotStranded

\* The pin is right but between an acknowledgement and the sending that follows
PinInv ==
    pc = "resend" \/ (pc = "test" /\ ret = "resend") \/ irq = (Waiting # <<>>)

(***************************************************************************)
(* Delivery is a stop-and-wait protocol over two lines that lose frames    *)
(* but keep their order.  w holds the indications that wait, h the frames  *)
(* to the host, a the frames from it, the one being processed first, and s *)
(* is the frame id.  Whatever carries s is about the first that waits, and *)
(* comes after all that does not.                                          *)
(***************************************************************************)
Packet(x) == x.kind = "data"
Current(x, s) == x.f \in {"ind", "rsp"} /\ x.seq = s
Old(x, s) == x.f \in {"ind", "rsp"} /\ x.seq # s

InOrder(w, rcv, acc) ==
    /\ rcv \subseteq 1..acc
    /\ \A i \in DOMAIN w : Packet(w[i]) => w[i].n \in 1..acc
    /\ \A n \in 1..acc : n \in rcv \/ \E i \in DOMAIN w : Packet(w[i]) /\ w[i].n = n
    /\ \A i, j \in DOMAIN w : i < j /\ Packet(w[i]) /\ Packet(w[j]) => w[i].n < w[j].n
    /\ \A n \in rcv, i \in DOMAIN w : Packet(w[i]) => n <= w[i].n

FramesToHost(w, h, s, rcv) ==
    \A i \in DOMAIN h :
        /\ Current(h[i], s) => w # <<>> /\ h[i].kind = w[1].kind /\ h[i].n = w[1].n
        /\ Old(h[i], s) /\ Packet(h[i]) => h[i].n \in rcv

FramesFromHost(w, a, s, rcv) ==
    \A i \in DOMAIN a :
        Current(a[i], s) => /\ w # <<>> /\ a[i].kind = w[1].kind
                            /\ Packet(w[1]) => w[1].n \in rcv

OldFirst(a, h, s) ==
    /\ \A i, j \in DOMAIN a : i < j /\ Current(a[i], s) => ~Old(a[j], s)
    /\ \A i, j \in DOMAIN h : i < j /\ Current(h[i], s) => ~Old(h[j], s)
    /\ \A i \in DOMAIN a, j \in DOMAIN h : Current(a[i], s) => ~Old(h[j], s)

Delivery(w, a, h, s, rcv, acc) ==
    /\ InOrder(w, rcv, acc)
    /\ FramesToHost(w, h, s, rcv)
    /\ FramesFromHost(w, a, s, rcv)
    /\ OldFirst(a, h, s)

\* The frames the host sent that Waps_exec has not yet dealt with
Arrived == IF pc = "process" THEN <<item>> \o requests ELSE requests

DeliveryInv == Delivery(Waiting, Arrived, toHost, prot_seq, received, accepted)

-----------------------------------------------------------------------------
(* The pool.                                                               *)
USE PoolAssumption

LEMMA ThresholdInPool == Threshold \in Nat /\ Items > 0
<1>1. Items * ThresholdPercent \in Nat
  OBVIOUS
<1>2. Items = 0 => Items * ThresholdPercent = 0
  OBVIOUS
<1>3. QED
  BY <1>1, <1>2 DEF Threshold

LEMMA InitPool == Init => PoolInv
<1> SUFFICES ASSUME Init PROVE PoolInv
  OBVIOUS
<1>1. [kind |-> "state", n |-> 0] \in Indication
  BY DEF Indication, Kinds
<1>2. TypeOK
  <2>1. inds \in Seq(Indication)
    BY <1>1 DEF Init
  <2>2. free \in 0..Items
    BY ThresholdInPool DEF Init
  <2>3. /\ requests \in Seq(Request \cup Response) /\ replies \in Seq(Reply)
        /\ toHost \in Seq(Reply \cup Frame)
    BY DEF Init
  <2>4. prot_seq \in 0..(FrameIds - 1) /\ accepted \in 0..MaxPackets
    BY SizeAssumption DEF Init
  <2>5. QED
    BY <2>1, <2>2, <2>3, <2>4 DEF Init, TypeOK
<1>3. ItemsConserved
  BY ThresholdInPool DEF Init, ItemsConserved, RequestItems, ReplyItems, IndicationItems, Held
<1>4. QED
  BY <1>2, <1>3 DEF Init, PoolInv, InHand, PauseHasReason

LEMMA Counts ==
    ASSUME PoolInv
    PROVE  /\ free \in Nat /\ RequestItems \in Nat /\ ReplyItems \in Nat /\ IndicationItems \in Nat
           /\ free + RequestItems + ReplyItems + IndicationItems = Items
<1>1. /\ free \in Nat /\ Len(requests) \in Nat /\ Len(replies) \in Nat /\ Len(inds) \in Nat
  BY DEF PoolInv, TypeOK
<1>2. RequestItems \in Nat /\ ReplyItems \in Nat /\ IndicationItems \in Nat
  BY <1>1 DEF RequestItems, ReplyItems, IndicationItems, Held
<1>3. QED
  BY <1>1, <1>2 DEF PoolInv, ItemsConserved

LEMMA PoolUnchanged ==
    ASSUME PoolInv, UNCHANGED pool
    PROVE  ItemsConserved'
BY DEF PoolInv, ItemsConserved, RequestItems, ReplyItems, IndicationItems, Held, pool

(* What the interrupt does.                                                *)
LEMMA WakeupPool ==
    ASSUME PoolInv, wakeup_task
    PROVE  m_signal' \in BOOLEAN /\ task' \in BOOLEAN
BY DEF PoolInv, TypeOK, wakeup_task

LEMMA ReceivePool ==
    ASSUME PoolInv, NEW frame \in Request \cup Response, frame_receive(frame)
    PROVE  /\ free' \in 0..Items /\ requests' \in Seq(Request \cup Response)
           /\ m_signal' \in BOOLEAN /\ task' \in BOOLEAN
           /\ free' + Len(requests') = free + Len(requests)
           /\ Len(requests') \in Nat /\ free' <= free
<1>1. CASE CanReserve("request")
  <2>1. free > 0 /\ free' = free - 1 /\ requests' = Append(requests, frame)
    BY <1>1 DEF CanReserve, frame_receive
  <2>2. m_signal' \in BOOLEAN /\ task' \in BOOLEAN
    BY <1>1, WakeupPool DEF frame_receive
  <2>3. free \in 0..Items /\ requests \in Seq(Request \cup Response)
    BY DEF PoolInv, TypeOK
  <2>4. requests' \in Seq(Request \cup Response) /\ Len(requests') = Len(requests) + 1
    BY <2>1, <2>3
  <2>5. QED
    BY <2>1, <2>2, <2>3, <2>4
<1>2. CASE ~CanReserve("request")
  BY <1>2 DEF frame_receive, PoolInv, TypeOK
<1>3. QED
  BY <1>1, <1>2

LEMMA GpioPool == PoolInv /\ uart_gpio_isr => PoolInv'
<1> SUFFICES ASSUME PoolInv, uart_gpio_isr PROVE PoolInv'
  OBVIOUS
<1>1. TypeOK'
  BY WakeupPool DEF uart_gpio_isr, PoolInv, TypeOK, pool
<1>2. InHand' /\ PauseHasReason'
  BY DEF uart_gpio_isr, PoolInv, InHand, PauseHasReason, pool
<1>3. QED
  BY <1>1, <1>2, PoolUnchanged DEF uart_gpio_isr, PoolInv

LEMMA HostRequestsPool == PoolInv /\ HostRequests => PoolInv'
<1> SUFFICES ASSUME PoolInv, HostRequests PROVE PoolInv'
  OBVIOUS
<1>1. PICK f \in Requests : frame_receive([f |-> f])
  BY DEF HostRequests
<1>2. [f |-> f] \in Request
  BY DEF Request
<1>3. /\ free' \in 0..Items /\ requests' \in Seq(Request \cup Response)
      /\ m_signal' \in BOOLEAN /\ task' \in BOOLEAN
      /\ free' + Len(requests') = free + Len(requests)
      /\ Len(requests') \in Nat /\ free' <= free
  BY <1>1, <1>2, ReceivePool
<1>4. UNCHANGED <<replies, inds, prot_reply, prot_indication, item, prot_seq, pc, ret, irq,
                  paused, accepted, toHost, received>>
  BY DEF HostRequests, HostUnchanged
<1>5. TypeOK'
  BY <1>3, <1>4 DEF PoolInv, TypeOK
<1>6. ItemsConserved'
  <2>1. free' + RequestItems' = free + RequestItems /\ RequestItems' \in Nat
    <3>1. Held(item') = Held(item) /\ Held(item) \in Nat /\ RequestItems' = Len(requests') + Held(item')
      BY <1>4 DEF RequestItems, Held
    <3>2. free \in Nat /\ Len(requests) \in Nat
      BY DEF PoolInv, TypeOK
    <3>3. QED
      BY <1>3, <3>1, <3>2 DEF RequestItems
  <2>2. ReplyItems' = ReplyItems /\ IndicationItems' = IndicationItems
    BY <1>4 DEF ReplyItems, IndicationItems, Held
  <2>3. QED
    BY <1>3, <2>1, <2>2, Counts DEF ItemsConserved
<1>7. PauseHasReason' /\ InHand'
  BY <1>3, <1>4, ThresholdInPool DEF PoolInv, TypeOK, PauseHasReason, InHand
<1>8. QED
  BY <1>5, <1>6, <1>7 DEF PoolInv

LEMMA HostReadsPool == PoolInv /\ HostReads => PoolInv'
<1> SUFFICES ASSUME PoolInv, HostReads PROVE PoolInv'
  OBVIOUS
<1> DEFINE frame == Head(toHost)
<1>1. frame \in Reply \cup Frame /\ toHost' \in Seq(Reply \cup Frame)
  BY DEF HostReads, PoolInv, TypeOK
<1>2. received' \subseteq 1..MaxPackets
  <2>1. frame.f = "ind" /\ frame.kind = "data" => frame.n \in 1..MaxPackets
    BY <1>1 DEF Reply, Frame, Kinds
  <2>2. QED
    BY <2>1 DEF HostReads, PoolInv, TypeOK
<1>3. /\ free' \in 0..Items /\ requests' \in Seq(Request \cup Response)
      /\ m_signal' \in BOOLEAN /\ task' \in BOOLEAN
      /\ free' + Len(requests') = free + Len(requests)
      /\ Len(requests') \in Nat /\ free' <= free
  <2>1. CASE UNCHANGED <<free, requests, m_signal, task>>
    BY <2>1 DEF PoolInv, TypeOK
  <2>2. ASSUME NEW ok \in BOOLEAN, frame.f = "ind",
               frame_receive([f |-> "rsp", kind |-> frame.kind, seq |-> frame.seq, ok |-> ok])
        PROVE  <1>3
    <3>1. [f |-> "rsp", kind |-> frame.kind, seq |-> frame.seq, ok |-> ok] \in Response
      BY <1>1, <2>2 DEF Frame, Response, Reply, Kinds
    <3>2. QED
      BY <2>2, <3>1, ReceivePool
  <2>3. QED
    BY <2>1, <2>2 DEF HostReads
<1>4. UNCHANGED <<replies, inds, prot_reply, prot_indication, item, prot_seq, pc, ret, irq,
                  paused, accepted>>
  BY DEF HostReads, HostUnchanged
<1>5. TypeOK'
  BY <1>1, <1>2, <1>3, <1>4 DEF PoolInv, TypeOK
<1>6. ItemsConserved'
  <2>1. free' + RequestItems' = free + RequestItems /\ RequestItems' \in Nat
    <3>1. Held(item') = Held(item) /\ Held(item) \in Nat /\ RequestItems' = Len(requests') + Held(item')
      BY <1>4 DEF RequestItems, Held
    <3>2. free \in Nat /\ Len(requests) \in Nat
      BY DEF PoolInv, TypeOK
    <3>3. QED
      BY <1>3, <3>1, <3>2 DEF RequestItems
  <2>2. ReplyItems' = ReplyItems /\ IndicationItems' = IndicationItems
    BY <1>4 DEF ReplyItems, IndicationItems, Held
  <2>3. QED
    BY <1>3, <2>1, <2>2, Counts DEF ItemsConserved
<1>7. PauseHasReason' /\ InHand'
  BY <1>3, <1>4, ThresholdInPool DEF PoolInv, TypeOK, PauseHasReason, InHand
<1>8. QED
  BY <1>5, <1>6, <1>7 DEF PoolInv

LEMMA FrameLostPool == PoolInv /\ FrameLost => PoolInv'
<1> SUFFICES ASSUME PoolInv, FrameLost PROVE PoolInv'
  OBVIOUS
<1>1. toHost' \in Seq(Reply \cup Frame)
  BY DEF FrameLost, PoolInv, TypeOK
<1>2. TypeOK'
  BY <1>1 DEF FrameLost, HostUnchanged, PoolInv, TypeOK
<1>3. InHand' /\ PauseHasReason'
  BY DEF FrameLost, HostUnchanged, PoolInv, InHand, PauseHasReason
<1>4. QED
  BY <1>2, <1>3, PoolUnchanged DEF FrameLost, HostUnchanged, pool, PoolInv

(* What the callbacks of the stack do.                                     *)
LEMMA AddPool ==
    ASSUME PoolInv, NEW ind \in Indication, CanReserve("indication"), add_indication(ind),
           accepted' \in 0..MaxPackets,
           UNCHANGED <<requests, replies, prot_reply, prot_indication, item, prot_seq,
                       m_signal, task, pc, ret, paused, toHost, received>>
    PROVE  PoolInv'
<1>1. free \in 0..Items /\ inds \in Seq(Indication) /\ free > 0
  BY DEF PoolInv, TypeOK, CanReserve
<1>2. free' = free - 1 /\ inds' = Append(inds, ind) /\ irq' = TRUE
  BY DEF add_indication
<1>3. inds' \in Seq(Indication) /\ Len(inds') = Len(inds) + 1
  BY <1>1, <1>2
<1>4. TypeOK'
  BY <1>1, <1>2, <1>3 DEF PoolInv, TypeOK
<1>5. ItemsConserved'
  <2>1. IndicationItems' = IndicationItems + 1
    BY <1>1, <1>2, <1>3 DEF IndicationItems, Held
  <2>2. RequestItems' = RequestItems /\ ReplyItems' = ReplyItems
    BY DEF RequestItems, ReplyItems, Held
  <2>3. QED
    BY <1>1, <1>2, <2>1, <2>2, Counts DEF ItemsConserved
<1>6. PauseHasReason' /\ InHand'
  BY <1>1, <1>2, ThresholdInPool DEF PoolInv, PauseHasReason, InHand
<1>7. QED
  BY <1>4, <1>5, <1>6 DEF PoolInv

LEMMA DataPool == PoolInv /\ data_cb => PoolInv'
<1> SUFFICES ASSUME PoolInv, data_cb PROVE PoolInv'
  OBVIOUS
<1>1. CASE CanReserve("indication")
  <2>1. accepted' = accepted + 1 /\ accepted + 1 \in 1..MaxPackets
    BY <1>1, SizeAssumption DEF data_cb, PoolInv, TypeOK
  <2>2. [kind |-> "data", n |-> accepted + 1] \in Indication
    BY <2>1 DEF Indication
  <2>3. QED
    BY <1>1, <2>1, <2>2, AddPool DEF data_cb
<1>2. CASE ~CanReserve("indication")
  <2>1. free < Threshold
    BY <1>2, ThresholdInPool DEF CanReserve, PoolInv, TypeOK
  <2>2. UNCHANGED <<free, inds, irq, accepted>> /\ paused' = TRUE
    BY <1>2 DEF data_cb
  <2>3. QED
    BY <2>1, <2>2 DEF data_cb, PoolInv, TypeOK, InHand, ItemsConserved, PauseHasReason,
       RequestItems, ReplyItems, IndicationItems, Held
<1>3. QED
  BY <1>1, <1>2

LEMMA LatestPool ==
    ASSUME PoolInv, NEW kind \in LatestKinds, IndicateLatest(kind)
    PROVE  PoolInv'
<1>1. [kind |-> kind, n |-> 0] \in Indication
  BY UsageAssumption DEF Indication, Kinds
<1>2. accepted' \in 0..MaxPackets
  BY DEF IndicateLatest, PoolInv, TypeOK
<1>3. QED
  BY <1>1, <1>2, AddPool DEF IndicateLatest

LEMMA SentPool == PoolInv /\ Waps_packetSent => PoolInv'
<1> SUFFICES ASSUME PoolInv, Waps_packetSent PROVE PoolInv'
  OBVIOUS
<1>1. [kind |-> "sent", n |-> 0] \in Indication
  BY DEF Indication, Kinds
<1>2. accepted' \in 0..MaxPackets
  BY DEF Waps_packetSent, PoolInv, TypeOK
<1>3. QED
  BY <1>1, <1>2, AddPool DEF Waps_packetSent

(* What the task does.                                                     *)
LEMMA QuietPool ==
    ASSUME PoolInv, RunTask \/ ClearSignal \/ ItemFreeThreshold \/ frames_pending \/ ExecReturns
    PROVE  PoolInv'
<1>1. CASE RunTask
  BY <1>1, PoolUnchanged DEF RunTask, PoolInv, TypeOK, InHand, PauseHasReason, pool
<1>2. CASE ClearSignal
  BY <1>2, PoolUnchanged DEF ClearSignal, PoolInv, TypeOK, InHand, PauseHasReason, pool
<1>3. CASE ItemFreeThreshold
  BY <1>3, ThresholdInPool, PoolUnchanged DEF ItemFreeThreshold, PoolInv, TypeOK, InHand, PauseHasReason, pool
<1>4. CASE frames_pending
  BY <1>4, PoolUnchanged DEF frames_pending, PoolInv, TypeOK, InHand, PauseHasReason, pool
<1>5. CASE ExecReturns
  BY <1>5, PoolUnchanged DEF ExecReturns, PoolInv, TypeOK, InHand, PauseHasReason, pool
<1>6. QED
  BY <1>1, <1>2, <1>3, <1>4, <1>5

LEMMA ReadPool == PoolInv /\ read_request => PoolInv'
<1> SUFFICES ASSUME PoolInv, read_request PROVE PoolInv'
  OBVIOUS
<1>1. CASE requests = <<>>
  BY <1>1 DEF read_request, PoolInv, TypeOK, InHand, ItemsConserved, PauseHasReason,
     RequestItems, ReplyItems, IndicationItems, Held
<1>2. CASE requests # <<>>
  <2>1. /\ item' = Head(requests) /\ requests' = Tail(requests) /\ pc' = "process"
        /\ item' \in Request \cup Response /\ requests' \in Seq(Request \cup Response)
        /\ Len(requests') = Len(requests) - 1
    <3>1. requests \in Seq(Request \cup Response)
      BY DEF PoolInv, TypeOK
    <3>2. item' = Head(requests) /\ requests' = Tail(requests) /\ pc' = "process"
      BY <1>2 DEF read_request
    <3>3. QED
      BY <1>2, <3>1, <3>2, HeadTailProperties
  <2>2. item = Nil /\ item' # Nil /\ ret = "idle"
    BY <2>1, NilAssumption DEF read_request, PoolInv, InHand
  <2>3. TypeOK'
    BY <2>1 DEF read_request, PoolInv, TypeOK
  <2>4. ItemsConserved'
    <3>1. RequestItems' = RequestItems
      BY <2>1, <2>2 DEF RequestItems, Held, PoolInv, TypeOK
    <3>2. QED
      BY <3>1 DEF read_request, PoolInv, ItemsConserved, ReplyItems, IndicationItems, Held
  <2>5. QED
    BY <2>1, <2>2, <2>3, <2>4 DEF read_request, PoolInv, InHand, PauseHasReason
<1>3. QED
  BY <1>1, <1>2

(***************************************************************************)
(* send_indication moves an indication between the queue and the one that  *)
(* is out, changes nothing of what waits, tells the host of the first of   *)
(* them or of nothing, and sets the pin.                                   *)
(***************************************************************************)
IndFrame(ind, s) == [f |-> "ind", kind |-> ind.kind, n |-> ind.n, seq |-> s]

LEMMA SendIndication ==
    ASSUME PoolInv, NEW rx, NEW sent \in Seq(Reply \cup Frame),
           send_indication(rx, prot_indication, inds, prot_seq, sent)
    PROVE  /\ prot_indication' \in Indication \cup {Nil} /\ inds' \in Seq(Indication)
           /\ irq' \in BOOLEAN /\ toHost' \in Seq(Reply \cup Frame)
           /\ Len(inds') + Held(prot_indication') = Len(inds) + Held(prot_indication)
           /\ Waiting' = Waiting
           /\ irq' = (Waiting # <<>>)
           /\ \/ toHost' = sent
              \/ Waiting # <<>> /\ toHost' = Append(sent, IndFrame(Waiting[1], prot_seq))
<1> DEFINE out == prot_indication
           allowed == rx.f = "poll_cnf" \/ (rx.f = "rsp" /\ rx.ok)
           ind == IF out # Nil \/ inds = <<>> THEN out ELSE Head(inds)
           rest == IF out = Nil /\ inds # <<>> THEN Tail(inds) ELSE inds
           frame == [f |-> "ind", kind |-> ind.kind, n |-> ind.n, seq |-> prot_seq]
<1>1. out \in Indication \cup {Nil} /\ inds \in Seq(Indication) /\ prot_seq \in 0..(FrameIds - 1)
  BY DEF PoolInv, TypeOK
<1>2. Waiting # <<>> <=> (inds # <<>> \/ out # Nil)
  <2>1. CASE out = Nil
    BY <2>1 DEF Waiting
  <2>2. CASE out # Nil
    <3>1. Waiting = <<out>> \o inds
      BY <2>2 DEF Waiting
    <3>2. Len(Waiting) = 1 + Len(inds)
      BY <1>1, <2>2, <3>1
    <3>3. QED
      BY <1>1, <2>2, <3>2
  <2>3. QED
    BY <2>1, <2>2
<1>3. CASE ~(allowed /\ ind # Nil)
  <2>1. /\ irq' = (inds # <<>> \/ out # Nil) /\ prot_indication' = out /\ inds' = inds
        /\ toHost' = sent
    BY <1>3 DEF send_indication
  <2>2. QED
    BY <1>1, <1>2, <2>1 DEF Waiting
<1>4. CASE allowed /\ ind # Nil
  <2>1. irq' = TRUE /\ (inds # <<>> \/ out # Nil)
    BY <1>4 DEF send_indication
  <2>2. /\ ind \in Indication /\ rest \in Seq(Indication)
        /\ Len(rest) + 1 = Len(inds) + Held(out)
        /\ Waiting = <<ind>> \o rest
    <3>1. CASE out # Nil
      BY <1>1, <3>1 DEF Held, Waiting
    <3>2. CASE out = Nil
      <4>1. inds # <<>> /\ ind = Head(inds) /\ rest = Tail(inds)
        BY <2>1, <3>2
      <4>2. /\ Head(inds) \in Indication /\ Tail(inds) \in Seq(Indication)
            /\ Len(Tail(inds)) = Len(inds) - 1 /\ inds = <<Head(inds)>> \o Tail(inds)
        BY <1>1, <4>1, HeadTailProperties, ConcatSimplifications
      <4>3. QED
        BY <1>1, <3>2, <4>1, <4>2 DEF Held, Waiting
    <3>3. QED
      BY <3>1, <3>2
  <2> HIDE DEF ind, rest
  <2>3. Waiting[1] = ind
    BY <2>2
  <2>4. irq' \in BOOLEAN /\ irq' = (Waiting # <<>>)
    BY <1>2, <2>1
  <2>5. CASE Written(sent)
    <3>1. prot_indication' = ind /\ inds' = rest /\ toHost' = Append(sent, IndFrame(ind, prot_seq))
      BY <1>4, <2>5 DEF send_indication, IndFrame, ind, rest
    <3>2. IndFrame(ind, prot_seq) \in Frame
      BY <1>1, <2>2 DEF IndFrame, Frame, Indication, Kinds
    <3>3. ind # Nil
      BY <1>4
    <3>4. Waiting' = Waiting
      BY <2>2, <3>1, <3>3 DEF Waiting
    <3>5. Held(prot_indication') = 1
      BY <3>1, <3>3 DEF Held
    <3>6. /\ prot_indication' \in Indication \cup {Nil} /\ inds' \in Seq(Indication)
          /\ toHost' \in Seq(Reply \cup Frame)
      BY <2>2, <3>1, <3>2
    <3>7. Len(inds') + Held(prot_indication') = Len(inds) + Held(prot_indication)
      BY <2>2, <3>1, <3>5
    <3>8. Waiting # <<>> /\ toHost' = Append(sent, IndFrame(Waiting[1], prot_seq))
      BY <1>2, <2>1, <2>3, <3>1
    <3>9. QED
      BY <2>4, <3>4, <3>6, <3>7, <3>8
  <2>6. CASE ~Written(sent)
    <3>1. prot_indication' = Nil /\ inds' = <<ind>> \o rest /\ toHost' = sent
      BY <1>4, <2>6 DEF send_indication, ind, rest
    <3>2. Waiting' = Waiting
      BY <2>2, <3>1 DEF Waiting
    <3>3. inds' \in Seq(Indication) /\ Len(inds') = 1 + Len(rest)
      BY <2>2, <3>1
    <3>4. Held(prot_indication') = 0 /\ Held(out) \in Nat
      BY <3>1 DEF Held
    <3>5. Len(inds') + Held(prot_indication') = Len(inds) + Held(prot_indication)
      BY <1>1, <2>2, <3>1, <3>3, <3>4
    <3>6. QED
      BY <2>4, <3>1, <3>2, <3>3, <3>5
  <2>7. QED
    BY <2>5, <2>6
<1>5. QED
  BY <1>3, <1>4

LEMMA ResponsePool == PoolInv /\ processResponse => PoolInv'
<1> SUFFICES ASSUME PoolInv, processResponse PROVE PoolInv'
  OBVIOUS
<1>1. item # Nil /\ item \in Request \cup Response /\ item.f = "rsp" /\ ret = "idle"
  BY DEF processResponse, PoolInv, TypeOK, InHand
<1>2. item \in Response
  BY <1>1, UsageAssumption DEF Request
<1>3. CASE Acknowledges(item, prot_indication)
  <2>1. /\ prot_indication # Nil /\ prot_indication' = Nil /\ free' = free + 1
        /\ prot_seq' = (prot_seq + 1) % FrameIds /\ pc' = "test" /\ ret' = "resend"
    BY <1>3 DEF processResponse, Waps_itemFree
  <2>2. prot_seq' \in 0..(FrameIds - 1)
    BY <2>1, SizeAssumption DEF PoolInv, TypeOK
  <2>3. ItemsConserved' /\ free' \in 0..Items
    <3>1. IndicationItems' = IndicationItems - 1 /\ IndicationItems - 1 >= 0
      BY <2>1 DEF processResponse, PoolInv, TypeOK, IndicationItems, Held
    <3>2. RequestItems' = RequestItems /\ ReplyItems' = ReplyItems
      BY DEF processResponse, RequestItems, ReplyItems, Held
    <3>3. QED
      BY <2>1, <3>1, <3>2, Counts DEF ItemsConserved
  <2>4. TypeOK'
    BY <2>1, <2>2, <2>3 DEF processResponse, PoolInv, TypeOK
  <2>5. QED
    BY <1>1, <1>2, <2>1, <2>3, <2>4 DEF processResponse, PoolInv, InHand, PauseHasReason
<1>4. CASE ~Acknowledges(item, prot_indication)
  BY <1>1, <1>2, <1>4 DEF processResponse, PoolInv, TypeOK, InHand, ItemsConserved, PauseHasReason,
     RequestItems, ReplyItems, IndicationItems, Held
<1>5. QED
  BY <1>3, <1>4

LEMMA ResendPool == PoolInv /\ ResendIndication => PoolInv'
<1> SUFFICES ASSUME PoolInv, ResendIndication PROVE PoolInv'
  OBVIOUS
<1>1. toHost \in Seq(Reply \cup Frame)
  BY DEF PoolInv, TypeOK
<1>2. /\ prot_indication' \in Indication \cup {Nil} /\ inds' \in Seq(Indication)
      /\ irq' \in BOOLEAN /\ toHost' \in Seq(Reply \cup Frame)
      /\ Len(inds') + Held(prot_indication') = Len(inds) + Held(prot_indication)
  BY <1>1, SendIndication DEF ResendIndication
<1>3. /\ item # Nil /\ item' = Nil /\ free' = free + 1 /\ pc' = "test" /\ ret' = "reply"
      /\ UNCHANGED <<requests, replies, prot_reply, prot_seq, m_signal, task, paused,
                     accepted, received>>
  BY DEF ResendIndication, Waps_itemFree, PoolInv, InHand
<1>4. RequestItems' = RequestItems - 1 /\ RequestItems - 1 >= 0
  BY <1>3 DEF RequestItems, Held, PoolInv, TypeOK
<1>5. ItemsConserved' /\ free' \in 0..Items
  <2>1. IndicationItems' = IndicationItems /\ ReplyItems' = ReplyItems
    BY <1>2, <1>3 DEF IndicationItems, ReplyItems, Held
  <2>2. QED
    BY <1>3, <1>4, <2>1, Counts DEF ItemsConserved
<1>6. TypeOK'
  BY <1>2, <1>3, <1>5 DEF PoolInv, TypeOK
<1>7. QED
  BY <1>3, <1>5, <1>6 DEF PoolInv, InHand, PauseHasReason

LEMMA DropPool == PoolInv /\ DropItem => PoolInv'
<1> SUFFICES ASSUME PoolInv, DropItem PROVE PoolInv'
  OBVIOUS
<1>1. item # Nil /\ item' = Nil /\ free' = free + 1 /\ pc' = "test" /\ ret' = "reply"
  BY DEF DropItem, Waps_itemFree, PoolInv, InHand
<1>2. ItemsConserved' /\ free' \in 0..Items
  <2>1. RequestItems' = RequestItems - 1 /\ RequestItems - 1 >= 0
    BY <1>1 DEF DropItem, RequestItems, Held, PoolInv, TypeOK
  <2>2. IndicationItems' = IndicationItems /\ ReplyItems' = ReplyItems
    BY DEF DropItem, IndicationItems, ReplyItems, Held
  <2>3. QED
    BY <1>1, <2>1, <2>2, Counts DEF ItemsConserved
<1>3. TypeOK'
  BY <1>1, <1>2 DEF DropItem, PoolInv, TypeOK
<1>4. QED
  BY <1>1, <1>2, <1>3 DEF PoolInv, InHand, PauseHasReason

LEMMA RequestPool == PoolInv /\ process_request => PoolInv'
<1> SUFFICES ASSUME PoolInv, process_request PROVE PoolInv'
  OBVIOUS
<1> DEFINE reply == [f |-> IF item.f = "poll" THEN "poll_cnf" ELSE "cnf"]
<1>1. item # Nil /\ item' = Nil /\ pc' = "reply" /\ ret' = ret /\ ret = "idle"
  BY DEF process_request, PoolInv, InHand
<1>2. replies' = Append(replies, reply) /\ reply \in Reply /\ replies \in Seq(Reply)
  BY DEF process_request, Reply, PoolInv, TypeOK
<1> HIDE DEF reply
<1>3. replies' \in Seq(Reply) /\ Len(replies') = Len(replies) + 1
  BY <1>2
<1>4. ItemsConserved'
  <2>1. RequestItems' = RequestItems - 1
    BY <1>1 DEF process_request, RequestItems, Held, PoolInv, TypeOK
  <2>2. ReplyItems' = ReplyItems + 1
    BY <1>2, <1>3 DEF process_request, ReplyItems, Held
  <2>3. IndicationItems' = IndicationItems /\ free' = free
    BY DEF process_request, IndicationItems, Held
  <2>4. QED
    BY <2>1, <2>2, <2>3, Counts DEF ItemsConserved
<1>5. TypeOK'
  BY <1>1, <1>3 DEF process_request, PoolInv, TypeOK
<1>6. QED
  BY <1>1, <1>4, <1>5 DEF process_request, PoolInv, InHand, PauseHasReason

LEMMA WritePool == PoolInv /\ writeInterest => PoolInv'
<1> SUFFICES ASSUME PoolInv, writeInterest PROVE PoolInv'
  OBVIOUS
<1> DEFINE reply == [f |-> "cnf"]
           ind == [kind |-> "config", n |-> 0]
<1>1. /\ item # Nil /\ item' = Nil /\ pc' = "reply" /\ pc = "process" /\ ret' = ret /\ ret = "idle"
      /\ free \in 0..Items /\ free > 0
  BY DEF writeInterest, CanReserve, PoolInv, InHand, TypeOK
<1>2. /\ replies' = Append(replies, reply) /\ reply \in Reply /\ replies \in Seq(Reply)
      /\ inds' = Append(inds, ind) /\ ind \in Indication /\ inds \in Seq(Indication)
      /\ free' = free - 1 /\ irq' = TRUE
  BY DEF writeInterest, add_indication, Reply, Indication, Kinds, PoolInv, TypeOK
<1> HIDE DEF reply, ind
<1>3. /\ replies' \in Seq(Reply) /\ Len(replies') = Len(replies) + 1
      /\ inds' \in Seq(Indication) /\ Len(inds') = Len(inds) + 1
  BY <1>2
<1>4. ItemsConserved'
  <2>1. RequestItems' = RequestItems - 1
    BY <1>1 DEF writeInterest, RequestItems, Held, PoolInv, TypeOK
  <2>2. ReplyItems' = ReplyItems + 1
    BY <1>2, <1>3 DEF writeInterest, ReplyItems, Held
  <2>3. IndicationItems' = IndicationItems + 1
    BY <1>2, <1>3 DEF writeInterest, IndicationItems, Held
  <2>4. QED
    <3>1. free + RequestItems + ReplyItems + IndicationItems = Items
      BY DEF PoolInv, ItemsConserved
    <3>2. free' = free - 1
      BY <1>2
    <3>3. QED
      BY <2>1, <2>2, <2>3, <3>1, <3>2, Counts DEF ItemsConserved
<1>5. TypeOK'
  BY <1>1, <1>2, <1>3 DEF writeInterest, PoolInv, TypeOK
<1>6. PauseHasReason'
  BY <1>1, <1>2, ThresholdInPool DEF writeInterest, PoolInv, PauseHasReason
<1>7. QED
  BY <1>1, <1>4, <1>5, <1>6 DEF PoolInv, InHand

LEMMA ReplyPool == PoolInv /\ sendReply => PoolInv'
<1> SUFFICES ASSUME PoolInv, sendReply PROVE PoolInv'
  OBVIOUS
<1> DEFINE pop == prot_reply = Nil /\ replies # <<>>
           reply == IF pop THEN Head(replies) ELSE prot_reply
           left == IF pop THEN Tail(replies) ELSE replies
<1>1. replies \in Seq(Reply) /\ prot_reply \in Reply \cup {Nil} /\ toHost \in Seq(Reply \cup Frame)
  BY DEF PoolInv, TypeOK
<1>2. /\ reply \in Reply \cup {Nil} /\ left \in Seq(Reply)
      /\ Len(left) + Held(reply) = Len(replies) + Held(prot_reply)
  <2>1. CASE pop
    <3>1. Head(replies) \in Reply /\ Tail(replies) \in Seq(Reply) /\ Len(Tail(replies)) = Len(replies) - 1
      BY <1>1, <2>1, HeadTailProperties
    <3>2. reply = Head(replies) /\ left = Tail(replies)
      BY <2>1
    <3>3. Held(reply) = 1 /\ Held(prot_reply) = 0
      BY <2>1, <3>1, <3>2, NilAssumption DEF Held
    <3> HIDE DEF reply, left, pop
    <3>4. QED
      BY <1>1, <3>1, <3>2, <3>3
  <2>2. CASE ~pop
    BY <1>1, <2>2
  <2>3. QED
    BY <2>1, <2>2
<1>3. item = Nil /\ ret = "idle"
  BY DEF sendReply, PoolInv, InHand
<1>4. /\ replies' = left
      /\ UNCHANGED <<requests, item, prot_seq, m_signal, task, paused, accepted, received>>
  BY DEF sendReply
<1>5. CASE reply # Nil /\ Written(toHost)
  <2>1. /\ send_indication(reply, prot_indication, inds, prot_seq, Append(toHost, reply))
        /\ prot_reply' = Nil /\ free' = free + 1 /\ pc' = "test" /\ ret' = "end"
    BY <1>5 DEF sendReply, Waps_itemFree
  <2> HIDE DEF reply, left, pop
  <2>2. Append(toHost, reply) \in Seq(Reply \cup Frame)
    BY <1>1, <1>2, <1>5
  <2>3. /\ prot_indication' \in Indication \cup {Nil} /\ inds' \in Seq(Indication)
        /\ irq' \in BOOLEAN /\ toHost' \in Seq(Reply \cup Frame)
        /\ Len(inds') + Held(prot_indication') = Len(inds) + Held(prot_indication)
    BY <2>1, <2>2, SendIndication
  <2>4. ReplyItems' = ReplyItems - 1 /\ ReplyItems - 1 >= 0
    BY <1>1, <1>2, <1>4, <1>5, <2>1 DEF ReplyItems, Held
  <2>5. ItemsConserved' /\ free' \in 0..Items
    <3>1. IndicationItems' = IndicationItems /\ RequestItems' = RequestItems
      BY <1>4, <2>3 DEF IndicationItems, RequestItems, Held
    <3>2. QED
      BY <2>1, <2>4, <3>1, Counts DEF ItemsConserved
  <2>6. TypeOK'
    BY <1>2, <1>4, <2>1, <2>3, <2>5 DEF PoolInv, TypeOK
  <2>7. QED
    BY <1>3, <1>4, <2>1, <2>5, <2>6 DEF PoolInv, InHand, PauseHasReason
<1>6. CASE ~(reply # Nil /\ Written(toHost))
  <2>1. prot_reply' = reply /\ pc' = "end" /\ UNCHANGED <<prot_indication, inds, toHost, irq, free, ret>>
    BY <1>6 DEF sendReply
  <2> HIDE DEF reply, left, pop
  <2>2. TypeOK'
    BY <1>2, <1>4, <2>1 DEF PoolInv, TypeOK
  <2>3. ItemsConserved'
    <3>1. ReplyItems' = ReplyItems
      BY <1>2, <1>4, <2>1 DEF ReplyItems, Held
    <3>2. QED
      BY <1>4, <2>1, <3>1 DEF PoolInv, ItemsConserved, IndicationItems, RequestItems, Held
  <2>4. QED
    BY <1>3, <1>4, <2>1, <2>2, <2>3 DEF sendReply, PoolInv, InHand, PauseHasReason
<1>7. QED
  BY <1>5, <1>6

LEMMA NextPool == PoolInv /\ [Next]_vars => PoolInv'
<1> SUFFICES ASSUME PoolInv, [Next]_vars PROVE PoolInv'
  OBVIOUS
<1>1. CASE Exec
  BY <1>1, QuietPool, ReadPool, ResponsePool, ResendPool, DropPool, RequestPool, WritePool, ReplyPool DEF Exec
<1>2. CASE Stack
  BY <1>2, DataPool, LatestPool, SentPool DEF Stack
<1>3. CASE Host
  BY <1>3, HostRequestsPool, HostReadsPool, FrameLostPool DEF Host
<1>4. CASE uart_gpio_isr
  BY <1>4, GpioPool
<1>5. CASE UNCHANGED vars
  BY <1>5, PoolUnchanged DEF vars, pool, PoolInv, TypeOK, InHand, PauseHasReason
<1>6. QED
  BY <1>1, <1>2, <1>3, <1>4, <1>5 DEF Next

(***************************************************************************)
(* The pool, its type and what Waps_exec has in hand.                      *)
(***************************************************************************)
THEOREM PoolInvariant == Spec => []PoolInv
BY InitPool, NextPool, PTL DEF Spec

(***************************************************************************)
(* No item of the pool leaks and none is freed twice, whatever paths       *)
(* Waps_exec takes and wherever the interrupt comes in.                    *)
(***************************************************************************)
THEOREM NoItemLeaks == Spec => []ItemsConserved
<1>1. PoolInv => ItemsConserved
  BY DEF PoolInv
<1>2. QED
  BY <1>1, PoolInvariant, PTL

(***************************************************************************)
(* Reception is never left paused with half of the pool free and nobody    *)
(* about to look.                                                          *)
(***************************************************************************)
THEOREM ReceptionResumes == Spec => []PauseHasReason
<1>1. PoolInv => PauseHasReason
  BY DEF PoolInv
<1>2. QED
  BY <1>1, PoolInvariant, PTL

-----------------------------------------------------------------------------
(* The wake-up of the task, when the scheduler has room for it.            *)
HasRoom == FALSE \notin AddTaskOutcomes

LEMMA WakeupSchedules ==
    ASSUME HasRoom, PoolInv, WakeInv, wakeup_task, pc' = pc
    PROVE  SignalHasTask' /\ (task => task') /\ (task' \/ pc = "start")
<1>1. CASE m_signal
  BY <1>1 DEF wakeup_task, WakeInv, SignalHasTask
<1>2. CASE ~m_signal
  <2>1. PICK added \in AddTaskOutcomes : task' = (task \/ added)
    BY <1>2 DEF wakeup_task
  <2>2. added = TRUE
    BY UsageAssumption DEF HasRoom
  <2>3. QED
    BY <2>1, <2>2 DEF SignalHasTask
<1>3. QED
  BY <1>1, <1>2 DEF PoolInv, TypeOK

LEMMA ReceiveWake ==
    ASSUME HasRoom, PoolInv, WakeInv, NEW frame, frame_receive(frame), pc' = pc
    PROVE  WakeInv'
<1>1. CASE CanReserve("request")
  BY <1>1, WakeupSchedules DEF frame_receive, WakeInv, RequestNotStranded
<1>2. CASE ~CanReserve("request")
  BY <1>2 DEF frame_receive, WakeInv, SignalHasTask, RequestNotStranded
<1>3. QED
  BY <1>1, <1>2

LEMMA NextWake ==
    ASSUME HasRoom, PoolInv, WakeInv, [Next]_vars
    PROVE  WakeInv'
<1> USE DEF WakeInv, SignalHasTask, RequestNotStranded
<1>1. CASE Exec
  <2>1. CASE RunTask
    BY <2>1 DEF RunTask, pool
  <2>2. CASE ClearSignal
    BY <2>2 DEF ClearSignal, pool
  <2>3. CASE read_request
    BY <2>3 DEF read_request
  <2>4. CASE processResponse
    BY <2>4 DEF processResponse, Waps_itemFree
  <2>5. CASE ResendIndication
    BY <2>5 DEF ResendIndication, Waps_itemFree
  <2>6. CASE DropItem
    BY <2>6 DEF DropItem, Waps_itemFree
  <2>7. CASE process_request
    BY <2>7 DEF process_request
  <2>8. CASE sendReply
    BY <2>8 DEF sendReply, Waps_itemFree
  <2>9. CASE ItemFreeThreshold
    <3>1. ret \in {"resend", "reply", "end"}
      BY <2>9 DEF ItemFreeThreshold, PoolInv, TypeOK, InHand
    <3>2. QED
      BY <2>9, <3>1 DEF ItemFreeThreshold, pool
  <2>10. CASE frames_pending
    BY <2>10 DEF frames_pending, pool
  <2>11. CASE ExecReturns
    BY <2>11 DEF ExecReturns, pool
  <2>12. CASE writeInterest
    BY <2>12 DEF writeInterest
  <2>13. QED
    BY <1>1, <2>1, <2>2, <2>3, <2>4, <2>5, <2>6, <2>7, <2>8, <2>9, <2>10, <2>11, <2>12 DEF Exec
<1>2. CASE Stack
  <2>1. UNCHANGED <<requests, m_signal, task, pc>>
    BY <1>2 DEF Stack, data_cb, IndicateLatest, Waps_packetSent
  <2>2. QED
    BY <2>1
<1>3. CASE Host
  <2>1. CASE HostRequests
    BY <2>1, ReceiveWake DEF HostRequests, HostUnchanged
  <2>2. CASE HostReads
    <3>1. CASE UNCHANGED <<free, requests, m_signal, task>>
      BY <2>2, <3>1 DEF HostReads, HostUnchanged
    <3>2. CASE \E frame : frame_receive(frame)
      BY <2>2, <3>2, ReceiveWake DEF HostReads, HostUnchanged
    <3>3. QED
      BY <2>2, <3>1, <3>2 DEF HostReads
  <2>3. CASE FrameLost
    BY <2>3 DEF FrameLost, HostUnchanged
  <2>4. QED
    BY <1>3, <2>1, <2>2, <2>3 DEF Host
<1>4. CASE uart_gpio_isr
  BY <1>4, WakeupSchedules DEF uart_gpio_isr, pool
<1>5. CASE UNCHANGED vars
  BY <1>5 DEF vars, pool
<1>6. QED
  BY <1>1, <1>2, <1>3, <1>4, <1>5 DEF Next

(***************************************************************************)
(* A request the interrupt has queued is never left behind, wherever the   *)
(* interrupt comes in Waps_exec, as long as App_Scheduler has room for the *)
(* task (wakeup_task does not look at what it answers).                    *)
(***************************************************************************)
THEOREM NoRequestStranded == HasRoom => (Spec => []RequestNotStranded)
<1>1. Init => WakeInv
  BY DEF Init, WakeInv, SignalHasTask, RequestNotStranded
<1>2. WakeInv => RequestNotStranded
  BY DEF WakeInv
<1>3. ASSUME HasRoom PROVE PoolInv /\ WakeInv /\ [Next]_vars => WakeInv'
  BY <1>3, NextWake
<1>4. ASSUME HasRoom PROVE Spec => []RequestNotStranded
  BY <1>1, <1>2, <1>3, <1>4, PoolInvariant, PTL DEF Spec
<1>5. QED
  BY <1>4

-----------------------------------------------------------------------------
(* The pin.                                                                *)

\* No request resets the power of the UART
NoPowerReset == "role" \notin Requests

\* What waits, with out sent and queue still to be sent
Pending(out, queue) == IF out = Nil THEN queue ELSE <<out>> \o queue

LEMMA PendingEmpty ==
    ASSUME NEW out \in Indication \cup {Nil}, NEW queue \in Seq(Indication)
    PROVE  /\ Pending(out, queue) \in Seq(Indication)
           /\ Pending(out, queue) # <<>> <=> (queue # <<>> \/ out # Nil)
<1>1. CASE out = Nil
  BY <1>1 DEF Pending
<1>2. CASE out # Nil
  <2>1. Pending(out, queue) = <<out>> \o queue
    BY <1>2 DEF Pending
  <2>2. Pending(out, queue) \in Seq(Indication) /\ Len(Pending(out, queue)) = 1 + Len(queue)
    BY <1>2, <2>1
  <2>3. QED
    BY <1>2, <2>2
<1>3. QED
  BY <1>1, <1>2

LEMMA WaitingIsPending ==
    /\ Waiting = Pending(prot_indication, inds)
    /\ Waiting' = Pending(prot_indication', inds')
BY DEF Waiting, Pending

LEMMA AddPin ==
    ASSUME PoolInv, NEW ind \in Indication, add_indication(ind), PoolInv'
    PROVE  PinInv'
<1>1. inds' = Append(inds, ind) /\ irq' = TRUE /\ inds \in Seq(Indication)
  BY DEF add_indication, PoolInv, TypeOK
<1>2. inds' # <<>>
  <2>1. Len(inds') = Len(inds) + 1
    BY <1>1
  <2>2. QED
    BY <1>1, <2>1
<1>3. Waiting' # <<>>
  BY <1>2, PendingEmpty, WaitingIsPending DEF PoolInv, TypeOK
<1>4. QED
  BY <1>1, <1>3 DEF PinInv

(* The two outcomes of sendReply.                                          *)
LEMMA SendReplyCases ==
    ASSUME PoolInv, sendReply
    PROVE  \/ UNCHANGED <<inds, prot_indication, irq, toHost>> /\ pc' = "end"
           \/ \E reply \in Reply :
                 /\ send_indication(reply, prot_indication, inds, prot_seq, Append(toHost, reply))
                 /\ pc' = "test" /\ ret' = "end"
<1> DEFINE pop == prot_reply = Nil /\ replies # <<>>
           reply == IF pop THEN Head(replies) ELSE prot_reply
<1>1. reply \in Reply \cup {Nil}
  <2>1. replies \in Seq(Reply) /\ prot_reply \in Reply \cup {Nil}
    BY DEF PoolInv, TypeOK
  <2>2. replies # <<>> => Head(replies) \in Reply
    BY <2>1
  <2>3. QED
    BY <2>1, <2>2
<1>2. CASE reply # Nil /\ Written(toHost)
  <2>1. /\ send_indication(reply, prot_indication, inds, prot_seq, Append(toHost, reply))
        /\ pc' = "test" /\ ret' = "end"
    BY <1>2 DEF sendReply, Waps_itemFree
  <2> HIDE DEF reply
  <2>2. QED
    BY <1>1, <1>2, <2>1
<1>3. CASE ~(reply # Nil /\ Written(toHost))
  BY <1>3 DEF sendReply
<1>4. QED
  BY <1>2, <1>3

LEMMA DataIsIndication ==
    ASSUME PoolInv, data_cb
    PROVE  [kind |-> "data", n |-> accepted + 1] \in Indication
BY SizeAssumption DEF data_cb, PoolInv, TypeOK, Indication

LEMMA NextPin ==
    ASSUME NoPowerReset, PoolInv, PinInv, [Next]_vars, PoolInv'
    PROVE  PinInv'
<1>1. CASE UNCHANGED <<inds, prot_indication, irq, pc, ret>>
  BY <1>1 DEF PinInv, Waiting
<1>2. CASE Exec
  <2>1. CASE RunTask \/ ClearSignal \/ read_request \/ frames_pending \/ ExecReturns
    <3>1. UNCHANGED <<inds, prot_indication, irq, ret>> /\ pc \notin {"resend", "test"}
      BY <2>1 DEF RunTask, ClearSignal, read_request, frames_pending, ExecReturns, pool
    <3>2. QED
      BY <3>1 DEF PinInv, Waiting
  <2>2. CASE processResponse
    BY <2>2 DEF processResponse, Waps_itemFree, PinInv
  <2>3. CASE ResendIndication
    <3>1. irq' = (Waiting # <<>>) /\ Waiting' = Waiting
      BY <2>3, SendIndication DEF ResendIndication, PoolInv, TypeOK
    <3>2. QED
      BY <3>1 DEF PinInv
  <2>4. CASE DropItem
    <3>1. UNCHANGED <<inds, prot_indication, irq>> /\ pc = "process"
      BY <2>4 DEF DropItem
    <3>2. QED
      BY <3>1 DEF PinInv, Waiting
  <2>5. CASE process_request
    <3>1. item # Nil /\ item.f # "role"
      BY <2>5, UsageAssumption DEF process_request, PoolInv, TypeOK, InHand, NoPowerReset, Request, Response
    <3>2. irq' = irq /\ UNCHANGED <<inds, prot_indication>> /\ pc = "process"
      BY <2>5, <3>1 DEF process_request, PoolInv, TypeOK
    <3>3. QED
      BY <3>2 DEF PinInv, Waiting
  <2>6. CASE sendReply
    <3>1. CASE UNCHANGED <<inds, prot_indication, irq>>
      BY <2>6, <3>1 DEF sendReply, PinInv, Waiting
    <3>2. ASSUME NEW reply \in Reply, send_indication(reply, prot_indication, inds, prot_seq, Append(toHost, reply))
          PROVE  PinInv'
      <4>1. Append(toHost, reply) \in Seq(Reply \cup Frame)
        BY DEF PoolInv, TypeOK
      <4>2. irq' = (Waiting # <<>>) /\ Waiting' = Waiting
        BY <3>2, <4>1, SendIndication
      <4>3. QED
        BY <4>2 DEF PinInv
    <3>3. QED
      BY <2>6, <3>1, <3>2, SendReplyCases
  <2>7. CASE ItemFreeThreshold
    <3>1. UNCHANGED <<inds, prot_indication, irq>> /\ pc' = ret /\ pc = "test"
      BY <2>7 DEF ItemFreeThreshold, pool
    <3>2. QED
      BY <3>1 DEF PinInv, Waiting
  <2>8. CASE writeInterest
    BY <2>8, AddPin DEF writeInterest, Indication, Kinds
  <2>9. QED
    BY <1>2, <2>1, <2>2, <2>3, <2>4, <2>5, <2>6, <2>7, <2>8 DEF Exec
<1>3. CASE Stack
  <2>1. ASSUME NEW ind \in Indication, add_indication(ind)
        PROVE  PinInv'
    BY <2>1, AddPin
  <2>2. CASE data_cb
    BY <1>1, <2>1, <2>2, DataIsIndication DEF data_cb
  <2>3. CASE Waps_packetSent
    BY <2>1, <2>3 DEF Waps_packetSent, Indication, Kinds
  <2>4. CASE \E kind \in LatestKinds : IndicateLatest(kind)
    BY <2>1, <2>4, UsageAssumption DEF IndicateLatest, Indication, Kinds
  <2>5. QED
    BY <1>3, <2>2, <2>3, <2>4 DEF Stack
<1>4. CASE Host \/ uart_gpio_isr \/ UNCHANGED vars
  <2>1. UNCHANGED <<inds, prot_indication, irq, pc, ret>>
    BY <1>4 DEF Host, HostRequests, HostReads, FrameLost, HostUnchanged, uart_gpio_isr, vars, pool
  <2>2. QED
    BY <1>1, <2>1
<1>5. QED
  BY <1>2, <1>3, <1>4 DEF Next

(***************************************************************************)
(* The host may trust the pin: whenever the task is not running, it is     *)
(* asserted exactly if an indication waits, provided no request resets     *)
(* the UART (CSAP role).                                                   *)
(***************************************************************************)
THEOREM PinTellsPending == NoPowerReset => (Spec => []IrqTellsPending)
<1>1. Init => PinInv
  <2> SUFFICES ASSUME Init PROVE PinInv
    OBVIOUS
  <2>1. Waiting = <<[kind |-> "state", n |-> 0]>> /\ irq = TRUE
    BY DEF Init, Waiting
  <2>2. Len(Waiting) = 1
    BY <2>1
  <2>3. QED
    BY <2>1, <2>2 DEF PinInv
<1>2. PoolInv /\ PinInv => IrqTellsPending
  BY PendingEmpty, WaitingIsPending DEF PoolInv, TypeOK, PinInv, IrqTellsPending
<1>3. ASSUME NoPowerReset PROVE PoolInv /\ PoolInv' /\ PinInv /\ [Next]_vars => PinInv'
  BY <1>3, NextPin
<1>4. ASSUME NoPowerReset PROVE Spec => []IrqTellsPending
  BY <1>1, <1>2, <1>3, <1>4, PoolInvariant, PTL DEF Spec
<1>5. QED
  BY <1>4

-----------------------------------------------------------------------------
(* Delivery.  The steps of the protocol, as facts about its sequences.     *)

LEMMA TailIndex ==
    ASSUME NEW S, NEW q \in Seq(S), q # <<>>
    PROVE  /\ Tail(q) \in Seq(S) /\ 1 \in DOMAIN q /\ Head(q) = q[1]
           /\ \A i \in DOMAIN Tail(q) : /\ i \in Nat /\ i + 1 \in DOMAIN q /\ 1 < i + 1
                                        /\ Tail(q)[i] = q[i + 1]
           /\ \A i \in DOMAIN q : i \in Nat /\ (i = 1 \/ i - 1 \in DOMAIN Tail(q))
<1>1. DOMAIN q = 1..Len(q) /\ Len(q) \in Nat /\ Len(q) # 0
  OBVIOUS
<1>2. /\ Tail(q) \in Seq(S) /\ Len(Tail(q)) = Len(q) - 1
      /\ \A i \in 1..Len(Tail(q)) : Tail(q)[i] = q[i + 1]
  BY HeadTailProperties
<1>3. DOMAIN Tail(q) = 1..(Len(q) - 1)
  BY <1>2
<1>4. QED
  BY <1>1, <1>2, <1>3

LEMMA AppendIndex ==
    ASSUME NEW S, NEW q \in Seq(S), NEW x \in S
    PROVE  /\ Append(q, x) \in Seq(S) /\ Append(q, x) # <<>>
           /\ \A i \in DOMAIN q : /\ i \in Nat /\ i < Len(q) + 1 /\ i \in DOMAIN Append(q, x)
                                  /\ Append(q, x)[i] = q[i]
           /\ Len(q) + 1 \in DOMAIN Append(q, x) /\ Append(q, x)[Len(q) + 1] = x
           /\ \A i \in DOMAIN Append(q, x) : i \in DOMAIN q \/ i = Len(q) + 1
           /\ Len(q) \in Nat
<1>1. /\ Append(q, x) \in Seq(S) /\ Len(Append(q, x)) = Len(q) + 1
      /\ \A i \in 1..Len(q) : Append(q, x)[i] = q[i]
      /\ Append(q, x)[Len(q) + 1] = x
  BY AppendProperties
<1>2. DOMAIN q = 1..Len(q) /\ Len(q) \in Nat /\ DOMAIN Append(q, x) = 1..(Len(q) + 1)
  BY <1>1
<1>3. Append(q, x) # <<>>
  BY <1>1, <1>2
<1> DEFINE t == Append(q, x)
<1> HIDE DEF t
<1>4. /\ t[Len(q) + 1] = x /\ DOMAIN t = 1..(Len(q) + 1) /\ \A i \in 1..Len(q) : t[i] = q[i]
  BY <1>1, <1>2 DEF t
<1>5. /\ \A i \in DOMAIN q : i \in Nat /\ i < Len(q) + 1 /\ i \in DOMAIN t /\ t[i] = q[i]
      /\ Len(q) + 1 \in DOMAIN t /\ t[Len(q) + 1] = x
      /\ \A i \in DOMAIN t : i \in DOMAIN q \/ i = Len(q) + 1
  BY <1>2, <1>4
<1>6. QED
  BY <1>1, <1>2, <1>3, <1>5 DEF t

(* Indications are added behind the first one.                             *)
LEMMA AppendDelivery ==
    ASSUME NEW w \in Seq(Indication), NEW a, NEW h, NEW s, NEW rcv, NEW acc \in Nat,
           NEW acc2 \in Nat, NEW ind \in Indication,
           Packet(ind) => ind.n = acc + 1 /\ acc2 = acc + 1,
           ~Packet(ind) => acc2 = acc,
           Delivery(w, a, h, s, rcv, acc)
    PROVE  Delivery(Append(w, ind), a, h, s, rcv, acc2)
<1> DEFINE w2 == Append(w, ind)
           last == Len(w) + 1
<1>1. /\ w2 # <<>> /\ last \in DOMAIN w2 /\ w2[last] = ind /\ last \in Nat
      /\ \A i \in DOMAIN w : i \in Nat /\ i < last /\ i \in DOMAIN w2 /\ w2[i] = w[i]
      /\ \A i \in DOMAIN w2 : i \in DOMAIN w \/ i = last
  BY AppendIndex
<1>2. w # <<>> => w2[1] = w[1]
  <2>1. w # <<>> => 1 \in DOMAIN w
    OBVIOUS
  <2>2. QED
    BY <1>1, <2>1
<1> HIDE DEF w2, last
<1>3. FramesToHost(w2, h, s, rcv)
  BY <1>1, <1>2 DEF Delivery, FramesToHost
<1>4. FramesFromHost(w2, a, s, rcv)
  BY <1>1, <1>2 DEF Delivery, FramesFromHost
<1>5. InOrder(w2, rcv, acc2)
  <2>1. rcv \subseteq 1..acc /\ \A i \in DOMAIN w : Packet(w[i]) => w[i].n \in 1..acc
    BY DEF Delivery, InOrder
  <2>2. rcv \subseteq 1..acc2 /\ \A i \in DOMAIN w2 : Packet(w2[i]) => w2[i].n \in 1..acc2
    BY <1>1, <2>1
  <2>3. \A n \in 1..acc2 : n \in rcv \/ \E i \in DOMAIN w2 : Packet(w2[i]) /\ w2[i].n = n
    <3> SUFFICES ASSUME NEW n \in 1..acc2, n \notin rcv
                 PROVE  \E i \in DOMAIN w2 : Packet(w2[i]) /\ w2[i].n = n
      OBVIOUS
    <3>1. CASE n \in 1..acc
      BY <1>1, <3>1 DEF Delivery, InOrder
    <3>2. CASE n \notin 1..acc
      BY <1>1, <3>2
    <3>3. QED
      BY <3>1, <3>2
  <2>4. \A i, j \in DOMAIN w2 : i < j /\ Packet(w2[i]) /\ Packet(w2[j]) => w2[i].n < w2[j].n
    <3> SUFFICES ASSUME NEW i \in DOMAIN w2, NEW j \in DOMAIN w2, i < j, Packet(w2[i]), Packet(w2[j])
                 PROVE  w2[i].n < w2[j].n
      OBVIOUS
    <3>1. CASE j \in DOMAIN w
      <4>1. i \in DOMAIN w
        BY <1>1, <3>1
      <4>2. QED
        BY <1>1, <3>1, <4>1 DEF Delivery, InOrder
    <3>2. CASE j = last
      <4>1. i \in DOMAIN w /\ w2[i].n \in 1..acc
        BY <1>1, <2>1, <3>2
      <4>2. QED
        BY <1>1, <3>2, <4>1
    <3>3. QED
      BY <1>1, <3>1, <3>2
  <2>5. \A n \in rcv, i \in DOMAIN w2 : Packet(w2[i]) => n <= w2[i].n
    <3> SUFFICES ASSUME NEW n \in rcv, NEW i \in DOMAIN w2, Packet(w2[i])
                 PROVE  n <= w2[i].n
      OBVIOUS
    <3>1. CASE i \in DOMAIN w
      BY <1>1, <3>1 DEF Delivery, InOrder
    <3>2. CASE i = last
      BY <1>1, <2>1, <3>2
    <3>3. QED
      BY <1>1, <3>1, <3>2
  <2>6. QED
    BY <2>2, <2>3, <2>4, <2>5 DEF InOrder
<1>6. QED
  BY <1>3, <1>4, <1>5 DEF Delivery, w2

(***************************************************************************)
(* The response to the first indication frees it.  Nothing older is on     *)
(* either line any more, so with the next frame id everything on them is   *)
(* old, and about a packet the host has read.                              *)
(***************************************************************************)
LEMMA AckDelivery ==
    ASSUME NEW w \in Seq(Indication), NEW S, NEW a \in Seq(S), NEW h, NEW s, NEW rcv, NEW acc \in Nat,
           NEW s2, s2 # s, a # <<>>, w # <<>>, Current(a[1], s),
           Delivery(w, a, h, s, rcv, acc)
    PROVE  Delivery(Tail(w), Tail(a), h, s2, rcv, acc)
<1> DEFINE w2 == Tail(w)
           a2 == Tail(a)
<1>1. /\ 1 \in DOMAIN w /\ w2 \in Seq(Indication)
      /\ \A i \in DOMAIN w2 : i \in Nat /\ i + 1 \in DOMAIN w /\ 1 < i + 1 /\ w2[i] = w[i + 1]
      /\ \A i \in DOMAIN w : i \in Nat /\ (i = 1 \/ i - 1 \in DOMAIN w2)
  BY TailIndex
<1>2. /\ 1 \in DOMAIN a
      /\ \A i \in DOMAIN a2 : i \in Nat /\ i + 1 \in DOMAIN a /\ 1 < i + 1 /\ a2[i] = a[i + 1]
  BY TailIndex
<1> HIDE DEF w2, a2
<1>3. /\ \A i \in DOMAIN a2 : ~Old(a2[i], s)
      /\ \A i \in DOMAIN h : ~Old(h[i], s)
  BY <1>2 DEF Delivery, OldFirst
<1>4. /\ \A i \in DOMAIN a2 : ~Current(a2[i], s2)
      /\ \A i \in DOMAIN h : ~Current(h[i], s2)
  BY <1>3 DEF Old, Current
<1>5. Packet(w[1]) => w[1].n \in rcv
  BY <1>2 DEF Delivery, FramesFromHost
<1>6. FramesToHost(w2, h, s2, rcv)
  <2> SUFFICES ASSUME NEW i \in DOMAIN h, Old(h[i], s2), Packet(h[i])
               PROVE  h[i].n \in rcv
    BY <1>4 DEF FramesToHost
  <2>1. Current(h[i], s)
    BY <1>3 DEF Old, Current
  <2>2. h[i].kind = w[1].kind /\ h[i].n = w[1].n
    BY <2>1 DEF Delivery, FramesToHost
  <2>3. QED
    BY <1>5, <2>2 DEF Packet
<1>7. FramesFromHost(w2, a2, s2, rcv) /\ OldFirst(a2, h, s2)
  BY <1>4 DEF FramesFromHost, OldFirst
<1>8. InOrder(w2, rcv, acc)
  <2>1. InOrder(w, rcv, acc)
    BY DEF Delivery
  <2>2. \A n \in 1..acc : n \in rcv \/ \E i \in DOMAIN w2 : Packet(w2[i]) /\ w2[i].n = n
    <3> SUFFICES ASSUME NEW n \in 1..acc, n \notin rcv
                 PROVE  \E i \in DOMAIN w2 : Packet(w2[i]) /\ w2[i].n = n
      OBVIOUS
    <3>1. PICK j \in DOMAIN w : Packet(w[j]) /\ w[j].n = n
      BY <2>1 DEF InOrder
    <3>2. j # 1
      BY <1>5, <3>1
    <3>3. j - 1 \in DOMAIN w2 /\ (j - 1) + 1 = j
      BY <1>1, <3>2
    <3>4. w2[j - 1] = w[j]
      BY <1>1, <3>3
    <3>5. QED
      BY <3>1, <3>3, <3>4
  <2>3. \A i, j \in DOMAIN w2 : i < j /\ Packet(w2[i]) /\ Packet(w2[j]) => w2[i].n < w2[j].n
    <3> SUFFICES ASSUME NEW i \in DOMAIN w2, NEW j \in DOMAIN w2, i < j, Packet(w2[i]), Packet(w2[j])
                 PROVE  w2[i].n < w2[j].n
      OBVIOUS
    <3>1. i + 1 \in DOMAIN w /\ j + 1 \in DOMAIN w /\ i + 1 < j + 1 /\ w2[i] = w[i + 1] /\ w2[j] = w[j + 1]
      BY <1>1
    <3>2. QED
      BY <2>1, <3>1 DEF InOrder
  <2>4. QED
    BY <1>1, <2>1, <2>2, <2>3 DEF InOrder
<1>9. QED
  BY <1>6, <1>7, <1>8 DEF Delivery, w2, a2

(* A reply, or the first indication, is sent.                              *)
LEMMA SendDelivery ==
    ASSUME NEW w, NEW a, NEW S, NEW h \in Seq(S), NEW s, NEW rcv, NEW acc, NEW x \in S,
           Delivery(w, a, h, s, rcv, acc),
           \/ x.f \notin {"ind", "rsp"}
           \/ w # <<>> /\ Current(x, s) /\ x.kind = w[1].kind /\ x.n = w[1].n
    PROVE  Delivery(w, a, Append(h, x), s, rcv, acc)
<1> DEFINE h2 == Append(h, x)
           last == Len(h) + 1
<1>1. /\ last \in DOMAIN h2 /\ h2[last] = x /\ last \in Nat
      /\ \A i \in DOMAIN h : i \in Nat /\ i < last /\ i \in DOMAIN h2 /\ h2[i] = h[i]
      /\ \A i \in DOMAIN h2 : i \in DOMAIN h \/ i = last
  BY AppendIndex
<1> HIDE DEF h2, last
<1>2. ~Old(x, s)
  BY DEF Old, Current
<1>3. FramesToHost(w, h2, s, rcv)
  BY <1>1, <1>2 DEF Delivery, FramesToHost, Current
<1>4. OldFirst(a, h2, s)
  <2>1. \A i, j \in DOMAIN h2 : i < j /\ Current(h2[i], s) => ~Old(h2[j], s)
    <3> SUFFICES ASSUME NEW i \in DOMAIN h2, NEW j \in DOMAIN h2, i < j, Current(h2[i], s), Old(h2[j], s)
                 PROVE  FALSE
      OBVIOUS
    <3>1. j \in DOMAIN h
      BY <1>1, <1>2
    <3>2. i \in DOMAIN h
      BY <1>1, <3>1
    <3>3. QED
      BY <1>1, <3>1, <3>2 DEF Delivery, OldFirst
  <2>2. QED
    BY <1>1, <1>2, <2>1 DEF Delivery, OldFirst
<1>5. QED
  BY <1>3, <1>4 DEF Delivery, h2

(* A frame from the host is dealt with.                                    *)
LEMMA TakeDelivery ==
    ASSUME NEW w, NEW S, NEW a \in Seq(S), NEW h, NEW s, NEW rcv, NEW acc, a # <<>>,
           Delivery(w, a, h, s, rcv, acc)
    PROVE  Delivery(w, Tail(a), h, s, rcv, acc)
<1> DEFINE a2 == Tail(a)
<1>1. \A i \in DOMAIN a2 : i \in Nat /\ i + 1 \in DOMAIN a /\ a2[i] = a[i + 1]
  BY TailIndex
<1> HIDE DEF a2
<1>2. FramesFromHost(w, a2, s, rcv)
  BY <1>1 DEF Delivery, FramesFromHost
<1>3. OldFirst(a2, h, s)
  <2>1. \A i, j \in DOMAIN a2 : i < j /\ Current(a2[i], s) => ~Old(a2[j], s)
    <3> SUFFICES ASSUME NEW i \in DOMAIN a2, NEW j \in DOMAIN a2, i < j, Current(a2[i], s)
                 PROVE  ~Old(a2[j], s)
      OBVIOUS
    <3>1. i + 1 \in DOMAIN a /\ j + 1 \in DOMAIN a /\ i + 1 < j + 1 /\ a2[i] = a[i + 1] /\ a2[j] = a[j + 1]
      BY <1>1
    <3>2. QED
      BY <3>1 DEF Delivery, OldFirst
  <2>2. QED
    BY <1>1, <2>1 DEF Delivery, OldFirst
<1>4. QED
  BY <1>2, <1>3 DEF Delivery, a2

(* A frame to the host leaves the line: read, in which case a packet is    *)
(* one more received, or lost.                                             *)
LEMMA LeaveDelivery ==
    ASSUME NEW w, NEW a, NEW S, NEW h \in Seq(S), NEW s, NEW rcv, NEW acc, h # <<>>,
           Delivery(w, a, h, s, rcv, acc)
    PROVE  Delivery(w, a, Tail(h), s, rcv, acc)
<1> DEFINE h2 == Tail(h)
<1>1. \A i \in DOMAIN h2 : i \in Nat /\ i + 1 \in DOMAIN h /\ h2[i] = h[i + 1]
  BY TailIndex
<1> HIDE DEF h2
<1>2. FramesToHost(w, h2, s, rcv)
  BY <1>1 DEF Delivery, FramesToHost
<1>3. OldFirst(a, h2, s)
  <2>1. \A i, j \in DOMAIN h2 : i < j /\ Current(h2[i], s) => ~Old(h2[j], s)
    <3> SUFFICES ASSUME NEW i \in DOMAIN h2, NEW j \in DOMAIN h2, i < j, Current(h2[i], s)
                 PROVE  ~Old(h2[j], s)
      OBVIOUS
    <3>1. i + 1 \in DOMAIN h /\ j + 1 \in DOMAIN h /\ i + 1 < j + 1 /\ h2[i] = h[i + 1] /\ h2[j] = h[j + 1]
      BY <1>1
    <3>2. QED
      BY <3>1 DEF Delivery, OldFirst
  <2>2. QED
    BY <1>1, <2>1 DEF Delivery, OldFirst
<1>4. QED
  BY <1>2, <1>3 DEF Delivery, h2

(* The host reads the first frame, an indication.                          *)
LEMMA ReceivedDelivery ==
    ASSUME NEW w \in Seq(Indication), NEW a, NEW h, NEW s, NEW rcv, NEW acc \in Nat, 1 \in DOMAIN h,
           h[1].f = "ind", Packet(h[1]),
           Delivery(w, a, h, s, rcv, acc)
    PROVE  Delivery(w, a, h, s, rcv \cup {h[1].n}, acc)
<1>1. CASE Old(h[1], s)
  <2>1. h[1].n \in rcv
    BY <1>1 DEF Delivery, FramesToHost
  <2>2. rcv \cup {h[1].n} = rcv
    BY <2>1
  <2>3. QED
    BY <2>2
<1>2. CASE Current(h[1], s)
  <2> DEFINE r2 == rcv \cup {h[1].n}
  <2>1. w # <<>> /\ h[1].kind = w[1].kind /\ h[1].n = w[1].n
    BY <1>2 DEF Delivery, FramesToHost
  <2>2. 1 \in DOMAIN w /\ Packet(w[1]) /\ \A i \in DOMAIN w : i = 1 \/ 1 < i
    BY <2>1 DEF Packet
  <2>3. w[1].n \in 1..acc /\ r2 \subseteq 1..acc
    <3>1. rcv \subseteq 1..acc /\ w[1].n \in 1..acc
      BY <2>2 DEF Delivery, InOrder
    <3>2. QED
      BY <2>1, <3>1
  <2>4. \A n \in r2, i \in DOMAIN w : Packet(w[i]) => n <= w[i].n
    <3> SUFFICES ASSUME NEW i \in DOMAIN w, Packet(w[i])
                 PROVE  w[1].n <= w[i].n
      BY <2>1 DEF Delivery, InOrder
    <3>1. CASE i = 1
      BY <2>3, <3>1
    <3>2. CASE 1 < i
      <4>1. w[1].n < w[i].n /\ w[i].n \in 1..acc
        BY <2>2, <3>2 DEF Delivery, InOrder
      <4>2. QED
        BY <2>3, <4>1
    <3>3. QED
      BY <2>2, <3>1, <3>2
  <2> HIDE DEF r2
  <2>5. rcv \subseteq r2
    BY DEF r2
  <2>6. InOrder(w, r2, acc)
    BY <2>3, <2>4, <2>5 DEF Delivery, InOrder
  <2>7. FramesToHost(w, h, s, r2) /\ FramesFromHost(w, a, s, r2)
    BY <2>5 DEF Delivery, FramesToHost, FramesFromHost
  <2>8. QED
    BY <2>6, <2>7 DEF Delivery, r2
<1>3. QED
  BY <1>1, <1>2 DEF Old, Current

(* A frame of the host arrives: a request, or the response to the frame x  *)
(* it has just read, which was ahead of all that are left.                 *)
LEMMA ArriveDelivery ==
    ASSUME NEW w, NEW S, NEW a \in Seq(S), NEW h, NEW s, NEW rcv, NEW acc, NEW x \in S,
           Delivery(w, a, h, s, rcv, acc),
           \/ x.f \notin {"ind", "rsp"}
           \/ /\ Current(x, s) => /\ w # <<>> /\ x.kind = w[1].kind
                                  /\ Packet(w[1]) => w[1].n \in rcv
                                  /\ \A j \in DOMAIN h : ~Old(h[j], s)
              /\ Old(x, s) => \A i \in DOMAIN a : ~Current(a[i], s)
    PROVE  Delivery(w, Append(a, x), h, s, rcv, acc)
<1> DEFINE a2 == Append(a, x)
           last == Len(a) + 1
<1>1. /\ last \in DOMAIN a2 /\ a2[last] = x /\ last \in Nat
      /\ \A i \in DOMAIN a : i \in Nat /\ i < last /\ i \in DOMAIN a2 /\ a2[i] = a[i]
      /\ \A i \in DOMAIN a2 : i \in DOMAIN a \/ i = last
  BY AppendIndex
<1> HIDE DEF a2, last
<1>2. /\ Current(x, s) => /\ w # <<>> /\ x.kind = w[1].kind
                          /\ Packet(w[1]) => w[1].n \in rcv
                          /\ \A j \in DOMAIN h : ~Old(h[j], s)
      /\ Old(x, s) => \A i \in DOMAIN a : ~Current(a[i], s)
  BY DEF Current, Old
<1>3. FramesFromHost(w, a2, s, rcv)
  BY <1>1, <1>2 DEF Delivery, FramesFromHost
<1>4. OldFirst(a2, h, s)
  <2>1. \A i, j \in DOMAIN a2 : i < j /\ Current(a2[i], s) => ~Old(a2[j], s)
    <3> SUFFICES ASSUME NEW i \in DOMAIN a2, NEW j \in DOMAIN a2, i < j, Current(a2[i], s), Old(a2[j], s)
                 PROVE  FALSE
      OBVIOUS
    <3>1. i \in DOMAIN a
      BY <1>1
    <3>2. CASE j \in DOMAIN a
      BY <1>1, <3>1, <3>2 DEF Delivery, OldFirst
    <3>3. CASE j = last
      BY <1>1, <1>2, <3>1, <3>3
    <3>4. QED
      BY <1>1, <3>2, <3>3
  <2>2. QED
    BY <1>1, <1>2, <2>1 DEF Delivery, OldFirst
<1>5. QED
  BY <1>3, <1>4 DEF Delivery, a2

(* The steps of the node and of the host.                                  *)

\* The frames from the host, with x in hand when there is one
Queued(x, q) == <<x>> \o q

LEMMA QueuedTail ==
    ASSUME NEW S, NEW x \in S, NEW q \in Seq(S)
    PROVE  /\ Queued(x, q) \in Seq(S) /\ Queued(x, q) # <<>>
           /\ Queued(x, q)[1] = x /\ Tail(Queued(x, q)) = q
<1>1. <<x>> \o q \in Seq(S) /\ Len(<<x>> \o q) = 1 + Len(q) /\ (<<x>> \o q)[1] = x
  OBVIOUS
<1>2. Tail(<<x>> \o q) = q
  BY ConcatSimplifications, HeadTailProperties
<1>3. <<x>> \o q # <<>>
  BY <1>1
<1>4. QED
  BY <1>1, <1>2, <1>3 DEF Queued

\* The types the steps need
LEMMA PipeTypes ==
    ASSUME PoolInv
    PROVE  /\ Waiting \in Seq(Indication) /\ Arrived \in Seq(Request \cup Response)
           /\ toHost \in Seq(Reply \cup Frame) /\ accepted \in Nat
           /\ inds \in Seq(Indication) /\ requests \in Seq(Request \cup Response)
<1>1. /\ toHost \in Seq(Reply \cup Frame) /\ accepted \in Nat /\ inds \in Seq(Indication)
      /\ prot_indication \in Indication \cup {Nil} /\ requests \in Seq(Request \cup Response)
  BY SizeAssumption DEF PoolInv, TypeOK
<1>2. Waiting \in Seq(Indication)
  BY <1>1, PendingEmpty, WaitingIsPending
<1>3. pc = "process" => item \in Request \cup Response
  BY DEF PoolInv, TypeOK, InHand
<1>4. Arrived \in Seq(Request \cup Response)
  BY <1>1, <1>3, QueuedTail DEF Arrived, Queued
<1>5. QED
  BY <1>1, <1>2, <1>4

LEMMA SameDelivery ==
    ASSUME DeliveryInv, Waiting' = Waiting, Arrived' = Arrived,
           UNCHANGED <<toHost, prot_seq, received, accepted>>
    PROVE  DeliveryInv'
BY DEF DeliveryInv

\* Waps_exec is done with the frame in hand
LEMMA DoneDelivery ==
    ASSUME PoolInv, DeliveryInv, pc = "process", pc' # "process", Waiting' = Waiting,
           UNCHANGED <<requests, toHost, prot_seq, received, accepted>>
    PROVE  DeliveryInv'
<1>1. item \in Request \cup Response /\ requests \in Seq(Request \cup Response)
  BY DEF PoolInv, TypeOK, InHand
<1>2. Arrived = Queued(item, requests) /\ Arrived' = requests
  BY DEF Arrived, Queued
<1>3. Arrived \in Seq(Request \cup Response) /\ Arrived # <<>> /\ Arrived' = Tail(Arrived)
  BY <1>1, <1>2, QueuedTail
<1>4. Delivery(Waiting, Tail(Arrived), toHost, prot_seq, received, accepted)
  BY <1>3, TakeDelivery DEF DeliveryInv
<1>5. QED
  BY <1>3, <1>4 DEF DeliveryInv

LEMMA ReadDelivery == PoolInv /\ DeliveryInv /\ read_request => DeliveryInv'
<1> SUFFICES ASSUME PoolInv, DeliveryInv, read_request PROVE DeliveryInv'
  OBVIOUS
<1>1. Waiting' = Waiting /\ UNCHANGED <<toHost, prot_seq, received, accepted>>
  BY DEF read_request, Waiting
<1>2. Arrived' = Arrived
  <2>1. CASE requests = <<>>
    BY <2>1 DEF read_request, Arrived
  <2>2. CASE requests # <<>>
    <3>1. Arrived = requests /\ Arrived' = <<Head(requests)>> \o Tail(requests)
      BY <2>2 DEF read_request, Arrived
    <3>2. requests \in Seq(Request \cup Response)
      BY DEF PoolInv, TypeOK
    <3>3. requests = <<Head(requests)>> \o Tail(requests)
      BY <2>2, <3>2, HeadTailProperties, ConcatSimplifications
    <3>4. QED
      BY <3>1, <3>3
  <2>3. QED
    BY <2>1, <2>2
<1>3. QED
  BY <1>1, <1>2, SameDelivery

LEMMA NextSeq == ASSUME NEW s \in 0..(FrameIds - 1) PROVE (s + 1) % FrameIds # s
<1>1. FrameIds \in Nat /\ FrameIds > 1
  BY SizeAssumption
<1>2. CASE s + 1 < FrameIds
  BY <1>1, <1>2
<1>3. CASE s + 1 = FrameIds
  BY <1>1, <1>3
<1>4. QED
  BY <1>1, <1>2, <1>3

LEMMA ResponseDelivery == PoolInv /\ DeliveryInv /\ processResponse => DeliveryInv'
<1> SUFFICES ASSUME PoolInv, DeliveryInv, processResponse PROVE DeliveryInv'
  OBVIOUS
<1>1. /\ pc = "process" /\ pc' # "process" /\ prot_indication # Nil /\ item.f = "rsp"
      /\ UNCHANGED <<requests, inds, toHost, received, accepted>>
  BY DEF processResponse, Waps_itemFree
<1>2. CASE ~Acknowledges(item, prot_indication)
  <2>1. prot_seq' = prot_seq /\ Waiting' = Waiting
    BY <1>1, <1>2 DEF processResponse, Waiting
  <2>2. QED
    BY <1>1, <2>1, DoneDelivery
<1>3. CASE Acknowledges(item, prot_indication)
  <2>1. /\ prot_indication' = Nil /\ prot_seq' = (prot_seq + 1) % FrameIds
        /\ item.seq = prot_seq
    BY <1>3 DEF processResponse, Acknowledges
  <2>2. /\ item \in Request \cup Response /\ requests \in Seq(Request \cup Response)
        /\ prot_indication \in Indication /\ inds \in Seq(Indication) /\ accepted \in Nat
        /\ prot_seq \in 0..(FrameIds - 1)
    BY <1>1, SizeAssumption DEF PoolInv, TypeOK, InHand
  <2>3. /\ Waiting = Queued(prot_indication, inds) /\ Waiting' = inds
        /\ Arrived = Queued(item, requests) /\ Arrived' = requests
    BY <1>1, <2>1 DEF Waiting, Arrived, Queued
  <2>4. /\ Waiting \in Seq(Indication) /\ Waiting # <<>> /\ Waiting' = Tail(Waiting)
        /\ Arrived \in Seq(Request \cup Response) /\ Arrived # <<>> /\ Arrived[1] = item
        /\ Arrived' = Tail(Arrived)
    BY <2>2, <2>3, QueuedTail
  <2>5. prot_seq' # prot_seq
    BY <2>1, <2>2, NextSeq
  <2>6. Current(Arrived[1], prot_seq)
    BY <1>1, <2>1, <2>4 DEF Current
  <2>7. Delivery(Tail(Waiting), Tail(Arrived), toHost, prot_seq', received, accepted)
    BY <2>2, <2>4, <2>5, <2>6, AckDelivery DEF DeliveryInv
  <2>8. QED
    BY <1>1, <2>4, <2>7 DEF DeliveryInv
<1>4. QED
  BY <1>2, <1>3

\* What send_indication writes, after the frames of sent
LEMMA SendingDelivery ==
    ASSUME PoolInv, NEW rx, NEW sent \in Seq(Reply \cup Frame),
           send_indication(rx, prot_indication, inds, prot_seq, sent),
           Delivery(Waiting, Arrived, sent, prot_seq, received, accepted),
           Arrived' = Arrived, UNCHANGED <<prot_seq, received, accepted>>
    PROVE  DeliveryInv'
<1>1. /\ Waiting' = Waiting
      /\ \/ toHost' = sent
         \/ Waiting # <<>> /\ toHost' = Append(sent, IndFrame(Waiting[1], prot_seq))
      /\ toHost' \in Seq(Reply \cup Frame)
  BY SendIndication
<1>2. CASE toHost' = sent
  BY <1>1, <1>2 DEF DeliveryInv
<1>3. CASE Waiting # <<>> /\ toHost' = Append(sent, IndFrame(Waiting[1], prot_seq))
  <2> DEFINE x == IndFrame(Waiting[1], prot_seq)
  <2>1. Waiting[1] \in Indication /\ prot_seq \in 0..(FrameIds - 1)
    BY <1>3, PipeTypes DEF PoolInv, TypeOK
  <2>2. x \in Reply \cup Frame
    BY <2>1 DEF IndFrame, Frame, Indication, Kinds
  <2>3. Current(x, prot_seq) /\ x.kind = Waiting[1].kind /\ x.n = Waiting[1].n
    BY DEF Current, IndFrame
  <2> HIDE DEF x
  <2>4. Delivery(Waiting, Arrived, Append(sent, x), prot_seq, received, accepted)
    BY <1>3, <2>2, <2>3, SendDelivery
  <2>5. QED
    BY <1>1, <1>3, <2>4 DEF DeliveryInv, x
<1>4. QED
  BY <1>1, <1>2, <1>3

LEMMA ResendDelivery == PoolInv /\ DeliveryInv /\ ResendIndication => DeliveryInv'
<1> SUFFICES ASSUME PoolInv, DeliveryInv, ResendIndication PROVE DeliveryInv'
  OBVIOUS
<1>1. /\ send_indication(item, prot_indication, inds, prot_seq, toHost)
      /\ UNCHANGED <<prot_seq, received, accepted>>
  BY DEF ResendIndication
<1>2. Arrived' = Arrived
  BY DEF ResendIndication, Waps_itemFree, Arrived
<1>3. QED
  BY <1>1, <1>2, PipeTypes, SendingDelivery DEF DeliveryInv

LEMMA ReplyDelivery == PoolInv /\ DeliveryInv /\ sendReply => DeliveryInv'
<1> SUFFICES ASSUME PoolInv, DeliveryInv, sendReply PROVE DeliveryInv'
  OBVIOUS
<1>1. UNCHANGED <<prot_seq, received, accepted>> /\ Arrived' = Arrived
  BY DEF sendReply, Waps_itemFree, Arrived
<1>2. CASE UNCHANGED <<inds, prot_indication, irq, toHost>>
  BY <1>1, <1>2, SameDelivery DEF Waiting
<1>3. ASSUME NEW reply \in Reply,
             send_indication(reply, prot_indication, inds, prot_seq, Append(toHost, reply))
      PROVE  DeliveryInv'
  <2>1. toHost \in Seq(Reply \cup Frame) /\ Append(toHost, reply) \in Seq(Reply \cup Frame)
    BY PipeTypes
  <2>2. reply.f \notin {"ind", "rsp"}
    BY DEF Reply
  <2>3. Delivery(Waiting, Arrived, Append(toHost, reply), prot_seq, received, accepted)
    BY <2>1, <2>2, SendDelivery DEF DeliveryInv
  <2>4. QED
    BY <1>1, <1>3, <2>1, <2>3, SendingDelivery
<1>4. QED
  BY <1>2, <1>3, SendReplyCases

\* What add_indication does to the indications that wait
LEMMA AddWaiting ==
    ASSUME PoolInv, NEW ind \in Indication, add_indication(ind), UNCHANGED prot_indication
    PROVE  Waiting' = Append(Waiting, ind)
<1>0. inds \in Seq(Indication)
  BY DEF PoolInv, TypeOK
<1>1. inds' = Append(inds, ind)
  BY DEF add_indication
<1>2. CASE prot_indication = Nil
  BY <1>1, <1>2 DEF Waiting
<1>3. CASE prot_indication # Nil
  <2>1. prot_indication \in Indication
    BY <1>3 DEF PoolInv, TypeOK
  <2>2. Waiting = Queued(prot_indication, inds) /\ Waiting' = Queued(prot_indication, Append(inds, ind))
    BY <1>1, <1>3 DEF Waiting, Queued
  <2>3. Queued(prot_indication, Append(inds, ind)) = Append(Queued(prot_indication, inds), ind)
    BY <1>0, <2>1 DEF Queued
  <2>4. QED
    BY <2>2, <2>3, Zenon
<1>4. QED
  BY <1>2, <1>3

LEMMA AddDelivery ==
    ASSUME PoolInv, PoolInv', DeliveryInv, NEW ind \in Indication, add_indication(ind),
           Packet(ind) => ind.n = accepted + 1 /\ accepted' = accepted + 1,
           ~Packet(ind) => accepted' = accepted,
           UNCHANGED <<requests, item, pc, prot_indication, prot_seq, toHost, received>>
    PROVE  DeliveryInv'
<1>1. accepted \in Nat /\ accepted' \in Nat /\ Waiting \in Seq(Indication) /\ inds \in Seq(Indication)
  BY PipeTypes, SizeAssumption DEF PoolInv, TypeOK
<1>2. Waiting' = Append(Waiting, ind)
  BY AddWaiting
<1>3. Delivery(Append(Waiting, ind), Arrived, toHost, prot_seq, received, accepted')
  BY <1>1, AppendDelivery DEF DeliveryInv
<1>4. Arrived' = Arrived
  BY DEF Arrived
<1>5. QED
  BY <1>2, <1>3, <1>4 DEF DeliveryInv

LEMMA StackDelivery == PoolInv /\ PoolInv' /\ DeliveryInv /\ Stack => DeliveryInv'
<1> SUFFICES ASSUME PoolInv, PoolInv', DeliveryInv, Stack PROVE DeliveryInv'
  OBVIOUS
<1>1. CASE data_cb
  <2>1. CASE CanReserve("indication")
    <3>1. /\ add_indication([kind |-> "data", n |-> accepted + 1]) /\ accepted' = accepted + 1
          /\ UNCHANGED <<requests, item, pc, prot_indication, prot_seq, toHost, received>>
      BY <1>1, <2>1 DEF data_cb
    <3>2. QED
      BY <1>1, <3>1, DataIsIndication, AddDelivery DEF Packet
  <2>2. CASE ~CanReserve("indication")
    BY <1>1, <2>2, SameDelivery DEF data_cb, Waiting, Arrived
  <2>3. QED
    BY <2>1, <2>2
<1>2. CASE Waps_packetSent
  <2>1. [kind |-> "sent", n |-> 0] \in Indication
    BY DEF Indication, Kinds
  <2>2. QED
    BY <1>2, <2>1, AddDelivery DEF Waps_packetSent, Packet
<1>3. ASSUME NEW kind \in LatestKinds, IndicateLatest(kind) PROVE DeliveryInv'
  <2>1. [kind |-> kind, n |-> 0] \in Indication /\ kind # "data"
    BY UsageAssumption DEF Indication, Kinds
  <2>2. QED
    BY <1>3, <2>1, AddDelivery DEF IndicateLatest, Packet
<1>4. QED
  BY <1>1, <1>2, <1>3 DEF Stack

LEMMA WriteDelivery == PoolInv /\ DeliveryInv /\ writeInterest => DeliveryInv'
<1> SUFFICES ASSUME PoolInv, DeliveryInv, writeInterest PROVE DeliveryInv'
  OBVIOUS
<1> DEFINE ind == [kind |-> "config", n |-> 0]
<1>1. /\ ind \in Indication /\ ~Packet(ind) /\ add_indication(ind)
      /\ pc = "process" /\ pc' # "process"
      /\ UNCHANGED <<requests, prot_indication, toHost, prot_seq, received, accepted>>
  BY DEF writeInterest, Indication, Kinds, Packet
<1> HIDE DEF ind
<1>2. Waiting' = Append(Waiting, ind)
  BY <1>1, AddWaiting
<1>3. item \in Request \cup Response /\ requests \in Seq(Request \cup Response)
  BY <1>1 DEF PoolInv, TypeOK, InHand
<1>4. Arrived = Queued(item, requests) /\ Arrived' = requests
  BY <1>1 DEF Arrived, Queued
<1>5. Arrived \in Seq(Request \cup Response) /\ Arrived # <<>> /\ Arrived' = Tail(Arrived)
  BY <1>3, <1>4, QueuedTail
<1>6. Delivery(Waiting, Tail(Arrived), toHost, prot_seq, received, accepted)
  BY <1>5, TakeDelivery DEF DeliveryInv
<1>7. accepted \in Nat /\ Waiting \in Seq(Indication)
  BY PipeTypes
<1>8. Delivery(Append(Waiting, ind), Tail(Arrived), toHost, prot_seq, received, accepted)
  BY <1>1, <1>6, <1>7, AppendDelivery
<1>9. QED
  BY <1>1, <1>2, <1>5, <1>8 DEF DeliveryInv

\* A frame from the host joins those that have arrived, or is dropped
LEMMA ReceiveArrived ==
    ASSUME PoolInv, NEW frame \in Request \cup Response, frame_receive(frame), UNCHANGED <<pc, item>>
    PROVE  Arrived' = Arrived \/ Arrived' = Append(Arrived, frame)
<1>1. requests' = requests \/ requests' = Append(requests, frame)
  BY DEF frame_receive
<1>2. requests \in Seq(Request \cup Response) /\ (pc = "process" => item \in Request \cup Response)
  BY DEF PoolInv, TypeOK, InHand
<1>3. CASE pc = "process"
  <2>1. Arrived = Queued(item, requests) /\ Arrived' = Queued(item, requests')
    BY <1>3 DEF Arrived, Queued
  <2>2. Queued(item, Append(requests, frame)) = Append(Queued(item, requests), frame)
    BY <1>2, <1>3 DEF Queued
  <2>3. QED
    BY <1>1, <2>1, <2>2, Zenon
<1>4. CASE pc # "process"
  BY <1>1, <1>4 DEF Arrived
<1>5. QED
  BY <1>3, <1>4

LEMMA HostRequestsDelivery == PoolInv /\ DeliveryInv /\ HostRequests => DeliveryInv'
<1> SUFFICES ASSUME PoolInv, DeliveryInv, HostRequests PROVE DeliveryInv'
  OBVIOUS
<1>1. PICK f \in Requests : frame_receive([f |-> f])
  BY DEF HostRequests
<1> DEFINE x == [f |-> f]
<1>2. x \in Request \cup Response /\ x.f \notin {"ind", "rsp"}
  BY UsageAssumption DEF Request
<1>3. UNCHANGED <<pc, item, toHost, prot_seq, received, accepted>> /\ Waiting' = Waiting
  BY DEF HostRequests, HostUnchanged, Waiting
<1> HIDE DEF x
<1>4. Arrived' = Arrived \/ Arrived' = Append(Arrived, x)
  BY <1>1, <1>2, <1>3, ReceiveArrived DEF x
<1>5. Delivery(Waiting, Append(Arrived, x), toHost, prot_seq, received, accepted)
  BY <1>2, PipeTypes, ArriveDelivery DEF DeliveryInv
<1>6. QED
  BY <1>3, <1>4, <1>5, SameDelivery DEF DeliveryInv

LEMMA HostReadsDelivery == PoolInv /\ DeliveryInv /\ HostReads => DeliveryInv'
<1> SUFFICES ASSUME PoolInv, DeliveryInv, HostReads PROVE DeliveryInv'
  OBVIOUS
<1> DEFINE frame == Head(toHost)
           rsp(ok) == [f |-> "rsp", kind |-> frame.kind, seq |-> frame.seq, ok |-> ok]
<1>1. /\ toHost # <<>> /\ toHost' = Tail(toHost) /\ Waiting' = Waiting
      /\ UNCHANGED <<pc, item, prot_seq, accepted>>
  BY DEF HostReads, HostUnchanged, Waiting
<1>2. /\ toHost \in Seq(Reply \cup Frame) /\ Waiting \in Seq(Indication)
      /\ Arrived \in Seq(Request \cup Response) /\ accepted \in Nat
  BY PipeTypes
<1>3. /\ 1 \in DOMAIN toHost /\ frame = toHost[1] /\ frame \in Reply \cup Frame
      /\ \A i \in DOMAIN Tail(toHost) : /\ i + 1 \in DOMAIN toHost /\ 1 < i + 1
                                        /\ Tail(toHost)[i] = toHost[i + 1]
  BY <1>1, <1>2, TailIndex
<1> HIDE DEF frame
<1>4. Delivery(Waiting, Arrived, toHost, prot_seq, received', accepted)
  <2>1. CASE frame.f = "ind" /\ frame.kind = "data"
    <3>1. received' = received \cup {toHost[1].n} /\ Packet(toHost[1]) /\ toHost[1].f = "ind"
      BY <1>3, <2>1 DEF HostReads, frame, Packet
    <3>2. QED
      BY <1>2, <1>3, <3>1, ReceivedDelivery DEF DeliveryInv
  <2>2. CASE ~(frame.f = "ind" /\ frame.kind = "data")
    <3>1. received' = received
      BY <2>2 DEF HostReads, frame
    <3>2. QED
      BY <3>1 DEF DeliveryInv
  <2>3. QED
    BY <2>1, <2>2
<1>5. Delivery(Waiting, Arrived, Tail(toHost), prot_seq, received', accepted)
  BY <1>1, <1>2, <1>4, LeaveDelivery
<1>6. CASE UNCHANGED requests
  BY <1>1, <1>5, <1>6 DEF DeliveryInv, Arrived
<1>7. ASSUME NEW ok \in BOOLEAN, frame.f = "ind", frame_receive(rsp(ok))
      PROVE  DeliveryInv'
  <2> DEFINE x == rsp(ok)
  <2>1. x \in Request \cup Response
    BY <1>3, <1>7 DEF Frame, Response, Reply, Kinds
  <2>2. /\ x.f = "rsp" /\ x.kind = frame.kind /\ x.seq = frame.seq
    OBVIOUS
  <2> HIDE DEF x
  <2>3. Current(x, prot_seq) =>
            /\ Waiting # <<>> /\ x.kind = Waiting[1].kind
            /\ Packet(Waiting[1]) => Waiting[1].n \in received'
            /\ \A j \in DOMAIN Tail(toHost) : ~Old(Tail(toHost)[j], prot_seq)
    <3> SUFFICES ASSUME x.seq = prot_seq
                 PROVE  /\ Waiting # <<>> /\ x.kind = Waiting[1].kind
                        /\ Packet(Waiting[1]) => Waiting[1].n \in received'
                        /\ \A j \in DOMAIN Tail(toHost) : ~Old(Tail(toHost)[j], prot_seq)
      BY DEF Current
    <3>1. Current(toHost[1], prot_seq)
      BY <1>3, <1>7, <2>2 DEF Current
    <3>2. Waiting # <<>> /\ frame.kind = Waiting[1].kind /\ frame.n = Waiting[1].n
      BY <1>3, <3>1 DEF DeliveryInv, Delivery, FramesToHost
    <3>3. Packet(Waiting[1]) => frame.n \in received'
      BY <1>7, <3>2 DEF Packet, HostReads, frame
    <3>4. \A j \in DOMAIN Tail(toHost) : ~Old(Tail(toHost)[j], prot_seq)
      BY <1>3, <3>1 DEF DeliveryInv, Delivery, OldFirst
    <3>5. QED
      BY <2>2, <3>2, <3>3, <3>4
  <2>4. Old(x, prot_seq) => \A i \in DOMAIN Arrived : ~Current(Arrived[i], prot_seq)
    <3> SUFFICES ASSUME x.seq # prot_seq
                 PROVE  \A i \in DOMAIN Arrived : ~Current(Arrived[i], prot_seq)
      BY DEF Old
    <3>1. Old(toHost[1], prot_seq)
      BY <1>3, <1>7, <2>2 DEF Old
    <3>2. QED
      BY <1>3, <3>1 DEF DeliveryInv, Delivery, OldFirst
  <2>5. Delivery(Waiting, Append(Arrived, x), Tail(toHost), prot_seq, received', accepted)
    BY <1>2, <1>5, <2>1, <2>3, <2>4, ArriveDelivery
  <2>6. Arrived' = Arrived \/ Arrived' = Append(Arrived, x)
    BY <1>1, <1>7, <2>1, ReceiveArrived DEF x
  <2>7. QED
    BY <1>1, <1>5, <2>5, <2>6 DEF DeliveryInv
<1>8. QED
  BY <1>6, <1>7 DEF HostReads, frame

LEMMA NextDelivery ==
    ASSUME PoolInv, PoolInv', DeliveryInv, [Next]_vars
    PROVE  DeliveryInv'
<1>1. CASE Exec
  <2>1. CASE RunTask \/ ClearSignal \/ ItemFreeThreshold \/ frames_pending \/ ExecReturns
    <3>1. UNCHANGED <<pool, toHost, prot_seq, received, accepted>>
      BY <2>1 DEF RunTask, ClearSignal, ItemFreeThreshold, frames_pending, ExecReturns
    <3>2. pc # "process" /\ pc' # "process"
      BY <2>1 DEF RunTask, ClearSignal, ItemFreeThreshold, frames_pending, ExecReturns, PoolInv, TypeOK
    <3>3. QED
      BY <3>1, <3>2, SameDelivery DEF Waiting, Arrived, pool
  <2>2. CASE DropItem
    BY <2>2, DoneDelivery DEF DropItem, Waps_itemFree, Waiting
  <2>3. CASE process_request
    BY <2>3, DoneDelivery DEF process_request, Waiting
  <2>4. QED
    BY <1>1, <2>1, <2>2, <2>3, ReadDelivery, ResponseDelivery, ResendDelivery, ReplyDelivery,
       WriteDelivery DEF Exec
<1>2. CASE Stack
  BY <1>2, StackDelivery
<1>3. CASE FrameLost
  <2>1. /\ toHost # <<>> /\ toHost' = Tail(toHost) /\ Waiting' = Waiting /\ Arrived' = Arrived
        /\ UNCHANGED <<prot_seq, received, accepted>>
    BY <1>3 DEF FrameLost, HostUnchanged, Waiting, Arrived
  <2>2. Delivery(Waiting, Arrived, Tail(toHost), prot_seq, received, accepted)
    BY <2>1, PipeTypes, LeaveDelivery DEF DeliveryInv
  <2>3. QED
    BY <2>1, <2>2 DEF DeliveryInv
<1>4. CASE uart_gpio_isr \/ UNCHANGED vars
  BY <1>4, SameDelivery DEF uart_gpio_isr, vars, pool, Waiting, Arrived
<1>5. QED
  BY <1>1, <1>2, <1>3, <1>4, HostRequestsDelivery, HostReadsDelivery DEF Next, Host

(***************************************************************************)
(* Every packet data_cb has taken reaches the host, in order and at least  *)
(* once, whatever frames and responses are lost or late, with any number   *)
(* of frame ids from two up and any size of the transmit buffer            *)
(* (waps_uart_protocol.c).                                                 *)
(***************************************************************************)
THEOREM PacketsDelivered == Spec => []DeliveredInOrder
<1>1. Init => DeliveryInv
  <2> SUFFICES ASSUME Init PROVE DeliveryInv
    OBVIOUS
  <2>1. Waiting = <<[kind |-> "state", n |-> 0]>> /\ Arrived = <<>> /\ toHost = <<>>
    BY DEF Init, Waiting, Arrived
  <2>2. DOMAIN Waiting = {1} /\ ~Packet(Waiting[1]) /\ DOMAIN Arrived = {} /\ DOMAIN toHost = {}
    BY <2>1 DEF Packet
  <2>3. InOrder(Waiting, received, accepted)
    BY <2>2 DEF Init, InOrder
  <2>4. QED
    BY <2>2, <2>3 DEF DeliveryInv, Delivery, FramesToHost, FramesFromHost, OldFirst
<1>2. DeliveryInv => DeliveredInOrder
  BY DEF DeliveryInv, Delivery, InOrder, Packet, DeliveredInOrder
<1>3. PoolInv /\ PoolInv' /\ DeliveryInv /\ [Next]_vars => DeliveryInv'
  BY NextDelivery
<1>4. QED
  BY <1>1, <1>2, <1>3, PoolInvariant, PTL DEF Spec
===============================================================================
