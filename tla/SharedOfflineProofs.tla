--------------------------- MODULE SharedOfflineProofs ---------------------------
(***************************************************************************)
(* Proofs about SharedOffline, for any number of modules and any delays,   *)
(* a stack that may refuse to leave the network and a scheduler that may   *)
(* have no room, for modules that use the library in none of the ways of   *)
(* Usages that are theirs.                                                 *)
(***************************************************************************)
EXTENDS SharedOffline, TLAPS

PlainUse == Usage \subseteq {"sleep_refused", "no_room"}

(***************************************************************************)
(* The inductive invariant.                                                *)
(***************************************************************************)

\* What the library thinks of the stack is what the stack does, or is late
SleepAgrees ==
    /\ sleep = "STOPPED" <=> m_offline_state = "ONLINE"
    /\ sleep = "PENDING" => m_offline_state = "ENTERING_OFFLINE"
    /\ m_offline_state = "OFFLINE" => ~m_delayed_wakeup
    /\ next # NULL => sleep = "STOPPED"
    /\ asked => sleep # "STOPPED"

(***************************************************************************)
(* The wakeup task comes before the deadline of every module that waits    *)
(* for it, or a wakeup is under way.  A deadline that was missed before    *)
(* the stack was told to leave is due at once, and the task that is due    *)
(* runs before the next poll can find the stack gone.                      *)
(***************************************************************************)
WakeupBefore(m) ==
    \/ online_deadline[m] = INF
    \/ wakeup_task # NULL /\ online_deadline[m] # -1 /\ wakeup_task <= online_deadline[m]
    \/ /\ online_deadline[m] = -1 /\ wakeup_task = 0
       /\ m_offline_state = "ENTERING_OFFLINE" /\ poll_task # 0

WakeupInTime ==
    m_offline_state # "ONLINE" /\ ~m_delayed_wakeup /\ ~waking =>
        \A m \in in_use \cap ready_to_enter_offline : WakeupBefore(m)

(***************************************************************************)
(* While the stack is away a wakeup has its task, was put off or was       *)
(* asked, whatever the deadlines: a wakeup that finds no slot in the       *)
(* scheduler is one that is not needed.                                    *)
(***************************************************************************)
WakeupHeld == sleep # "STOPPED" => wakeup_task # NULL \/ m_delayed_wakeup \/ waking

OfflineInv ==
    /\ TypeOK /\ SleepAgrees /\ OfflineOnlyIfAllReady /\ OnlineRequestKept /\ WakeupInTime
    /\ WakeupHeld

-----------------------------------------------------------------------------
USE OfflineAssumption
Deadline == Nat \cup {-1, INF}

LEMMA InitOffline == Init => OfflineInv
<1> SUFFICES ASSUME Init PROVE OfflineInv
  OBVIOUS
<1>1. TypeOK
  BY DEF Init, TypeOK, Timer
<1>2. QED
  BY <1>1 DEF Init, OfflineInv, SleepAgrees, OfflineOnlyIfAllReady, OnlineRequestKept, WakeupInTime, WakeupHeld

\* A delay is not made longer by its conversion
LEMMA DelayConverted ==
    ASSUME NEW d \in Nat \cup {INF}, NEW w \in Milliseconds(d)
    PROVE  w \in Nat /\ (d # INF => w <= d)
<1>1. CASE d = INF
  BY <1>1 DEF Milliseconds
<1>2. CASE d # INF
  <2>1. d \in Nat /\ w = d % DelayWrap
    BY <1>2 DEF Milliseconds
  <2>2. DelayWrap \in Nat \ {0}
    OBVIOUS
  <2>3. d % DelayWrap \in Nat /\ d % DelayWrap <= d
    BY <2>1, <2>2
  <2>4. QED
    BY <2>1, <2>3
<1>3. QED
  BY <1>1, <1>2

\* The delay of the wakeup task is within the deadline of every module
LEMMA DelayInTime ==
    ASSUME NEW used, used \subseteq Modules, NEW deadline \in [Modules -> Deadline],
           NEW w \in WakeupDelays(used, deadline)
    PROVE  /\ w \in Nat
           /\ \A m \in used : \/ deadline[m] = INF
                              \/ deadline[m] # -1 /\ w <= deadline[m]
                              \/ deadline[m] = -1 /\ w = 0
<1>1. CASE Finite(used, deadline) = {}
  <2>1. w \in Nat
    BY <1>1, DelayConverted DEF WakeupDelays
  <2>2. \A m \in used : deadline[m] = INF
    BY <1>1 DEF Finite
  <2>3. QED
    BY <2>1, <2>2
<1>2. CASE Finite(used, deadline) # {}
  <2>1. PICK f \in Finite(used, deadline) :
           /\ \A n \in Finite(used, deadline) : deadline[f] <= deadline[n]
           /\ w \in Milliseconds(IF deadline[f] < 0 THEN 0 ELSE deadline[f])
    BY <1>2 DEF WakeupDelays
  <2>2. deadline[f] \in Nat \cup {-1}
    BY DEF Finite, Deadline
  <2>3. w \in Nat /\ w <= IF deadline[f] < 0 THEN 0 ELSE deadline[f]
    <3>1. (IF deadline[f] < 0 THEN 0 ELSE deadline[f]) \in Nat
      BY <2>2
    <3>2. QED
      BY <2>1, <3>1, DelayConverted
  <2>4. ASSUME NEW m \in used, deadline[m] # INF
        PROVE  (deadline[m] # -1 /\ w <= deadline[m]) \/ (deadline[m] = -1 /\ w = 0)
    <3>1. deadline[m] \in Nat \cup {-1} /\ deadline[f] <= deadline[m]
      BY <2>1, <2>4 DEF Finite, Deadline
    <3>2. QED
      BY <2>2, <2>3, <3>1
  <2>5. QED
    BY <2>3, <2>4
<1>3. QED
  BY <1>1, <1>2

(***************************************************************************)
(* evaluate_sleep, after modules have left or become ready.  Those that    *)
(* are ready now either were already, with the same deadline, or have one  *)
(* that is not past.                                                       *)
(***************************************************************************)
LEMMA EvaluateOffline ==
    ASSUME OfflineInv, AppRuns, ~asked, evaluate_sleep,
           in_use' \subseteq in_use, ready_to_enter_offline' \subseteq Modules,
           ready_to_enter_offline \subseteq ready_to_enter_offline',
           online_deadline' \in [Modules -> Deadline],
           \A m \in in_use' \cap ready_to_enter_offline' :
              \/ m \in ready_to_enter_offline /\ online_deadline'[m] = online_deadline[m]
              \/ online_deadline'[m] \in Nat \cup {INF},
           UNCHANGED <<m_delayed_wakeup, next, asked>>
    PROVE  OfflineInv'
<1>1. next = NULL /\ in_use' \subseteq Modules
  BY DEF AppRuns, OfflineInv, TypeOK
<1>2. CASE is_ready_to_sleep_locked(in_use', ready_to_enter_offline')
  <2>1. enter_offline_mode_locked /\ in_use' \subseteq ready_to_enter_offline'
    BY <1>2 DEF evaluate_sleep, is_ready_to_sleep_locked
  <2>2. PICK delay \in WakeupDelays(in_use', online_deadline') : wakeup_task' \in Scheduled(wakeup_task, delay)
    BY <2>1 DEF enter_offline_mode_locked
  <2>3. wakeup_task' = delay \/ (wakeup_task' = NULL /\ wakeup_task = NULL)
    BY <2>2 DEF Scheduled
  <2>4. /\ delay \in Nat
        /\ \A m \in in_use' : \/ online_deadline'[m] = INF
                              \/ online_deadline'[m] # -1 /\ delay <= online_deadline'[m]
                              \/ online_deadline'[m] = -1 /\ delay = 0
    BY <1>1, DelayInTime
  <2>5. sleep_left' = sleep_left /\ waking' = waking
    BY <2>1 DEF enter_offline_mode_locked, stack
  <2>6. \/ UNCHANGED <<m_offline_state, poll_task, sleep>>
        \/ /\ wakeup_task' # NULL /\ sleep # "STARTED" /\ sleep' = "PENDING"
           /\ m_offline_state' = "ENTERING_OFFLINE" /\ poll_task' \in {1, NULL}
    BY <2>1 DEF enter_offline_mode_locked, stack, Scheduled
  <2>7. TypeOK'
    BY <1>1, <2>3, <2>4, <2>5, <2>6 DEF OfflineInv, TypeOK, Timer, Deadline
  <2>8. SleepAgrees' /\ WakeupHeld'
    BY <1>1, <2>3, <2>4, <2>5, <2>6 DEF OfflineInv, TypeOK, SleepAgrees, WakeupHeld
  <2>9. OfflineOnlyIfAllReady' /\ OnlineRequestKept'
    BY <2>1 DEF OfflineOnlyIfAllReady, OnlineRequestKept
  <2>10. WakeupInTime'
    <3> SUFFICES ASSUME m_offline_state' # "ONLINE", ~m_delayed_wakeup, ~waking,
                        NEW m \in in_use' \cap ready_to_enter_offline'
                 PROVE  WakeupBefore(m)'
      BY <2>5 DEF WakeupInTime
    <3>1. wakeup_task' = delay /\ wakeup_task' # NULL
      BY <2>3, <2>4, <2>6 DEF OfflineInv, SleepAgrees, WakeupHeld
    <3>2. CASE online_deadline'[m] # -1
      BY <2>4, <3>1, <3>2 DEF WakeupBefore
    <3>3. CASE online_deadline'[m] = -1
      <4>1. wakeup_task' = 0
        BY <2>4, <3>1, <3>3
      <4>2. m \in in_use \cap ready_to_enter_offline /\ online_deadline[m] = -1
        BY <3>3
      <4>3. CASE UNCHANGED <<m_offline_state, poll_task, sleep>>
        <5>1. WakeupBefore(m)
          BY <4>2, <4>3 DEF OfflineInv, WakeupInTime
        <5>2. m_offline_state = "ENTERING_OFFLINE" /\ poll_task # 0
          BY <4>2, <5>1 DEF WakeupBefore
        <5>3. QED
          BY <3>3, <4>1, <4>3, <5>2 DEF WakeupBefore
      <4>4. CASE m_offline_state' = "ENTERING_OFFLINE" /\ poll_task' \in {1, NULL}
        BY <3>3, <4>1, <4>4 DEF WakeupBefore
      <4>5. QED
        BY <2>6, <4>3, <4>4
    <3>4. QED
      BY <3>2, <3>3
  <2>11. QED
    BY <2>7, <2>8, <2>9, <2>10 DEF OfflineInv
<1>3. CASE ~is_ready_to_sleep_locked(in_use', ready_to_enter_offline')
  <2>1. UNCHANGED <<wakeup_task, poll_task, m_offline_state, sleep, sleep_left, waking>>
    BY <1>3 DEF evaluate_sleep, tasks, stack
  <2>2. ~(in_use \subseteq ready_to_enter_offline)
    BY <1>3 DEF is_ready_to_sleep_locked
  <2>3. sleep # "STOPPED" => wakeup_task = 0 \/ m_delayed_wakeup \/ waking
    BY <1>1, <2>2 DEF OfflineInv, OfflineOnlyIfAllReady, WakeupUnderWay
  <2>4. TypeOK'
    BY <1>1, <2>1 DEF OfflineInv, TypeOK, Deadline
  <2>5. SleepAgrees' /\ OfflineOnlyIfAllReady' /\ OnlineRequestKept'
    BY <2>1, <2>3 DEF OfflineInv, SleepAgrees, OfflineOnlyIfAllReady, OnlineRequestKept, WakeupUnderWay
  <2>6. WakeupHeld'
    BY <2>1 DEF OfflineInv, WakeupHeld
  <2>7. WakeupInTime'
    <3> SUFFICES ASSUME m_offline_state # "ONLINE", ~m_delayed_wakeup, ~waking,
                        NEW m \in in_use' \cap ready_to_enter_offline'
                 PROVE  WakeupBefore(m)'
      BY <2>1 DEF WakeupInTime
    <3>1. wakeup_task = 0 /\ wakeup_task' = 0 /\ wakeup_task' # NULL
      BY <2>1, <2>3 DEF OfflineInv, SleepAgrees
    <3>2. CASE m \in ready_to_enter_offline /\ online_deadline'[m] = online_deadline[m]
      BY <2>1, <3>2 DEF OfflineInv, WakeupInTime, WakeupBefore
    <3>3. CASE online_deadline'[m] \in Nat \cup {INF}
      BY <3>1, <3>3 DEF WakeupBefore
    <3>4. QED
      BY <3>2, <3>3
  <2>8. QED
    BY <2>4, <2>5, <2>6, <2>7 DEF OfflineInv
<1>4. QED
  BY <1>2, <1>3

(* What the modules ask.                                                   *)
LEMMA RegisterOffline ==
    ASSUME PlainUse, OfflineInv, NEW id \in Modules, Shared_Offline_register(id)
    PROVE  OfflineInv'
<1>1. /\ m_offline_state # "ENTERING_OFFLINE"
      /\ in_use' = in_use \cup {id} /\ ready_to_enter_offline' = ready_to_enter_offline \ {id}
      /\ \/ wakeup_task' = wakeup_task /\ (sleep = "STARTED" => wakeup_task = NULL)
         \/ wakeup_task' = 0 /\ sleep = "STARTED"
      /\ UNCHANGED <<online_deadline, m_offline_state, m_delayed_wakeup, poll_task, sleep, sleep_left,
                     waking, next, asked>>
  BY DEF Shared_Offline_register, PlainUse, Scheduled, stack
<1>2. TypeOK' /\ SleepAgrees' /\ WakeupHeld'
  BY <1>1 DEF OfflineInv, TypeOK, Timer, SleepAgrees, WakeupHeld
<1>3. OfflineOnlyIfAllReady' /\ OnlineRequestKept'
  BY <1>1 DEF OfflineInv, TypeOK, SleepAgrees, OfflineOnlyIfAllReady, OnlineRequestKept, WakeupUnderWay,
     WakeupHeld
<1>4. WakeupInTime'
  <2> SUFFICES ASSUME m_offline_state # "ONLINE", ~m_delayed_wakeup, ~waking,
                      NEW m \in in_use' \cap ready_to_enter_offline'
               PROVE  WakeupBefore(m)'
    BY <1>1 DEF WakeupInTime
  <2>1. sleep = "STARTED" /\ wakeup_task' = 0
    BY <1>1 DEF OfflineInv, TypeOK, SleepAgrees, WakeupHeld
  <2>2. m \in in_use \cap ready_to_enter_offline /\ WakeupBefore(m)
    BY <1>1 DEF OfflineInv, WakeupInTime
  <2>3. online_deadline[m] \in Nat \cup {INF}
    BY <1>1, <2>2 DEF OfflineInv, TypeOK, WakeupBefore
  <2>4. QED
    BY <1>1, <2>1, <2>3 DEF WakeupBefore
<1>5. QED
  BY <1>2, <1>3, <1>4 DEF OfflineInv

LEMMA UnregisterOffline ==
    ASSUME PlainUse, OfflineInv, NEW id \in Modules, Shared_Offline_unregister(id)
    PROVE  OfflineInv'
<1>1. /\ AppRuns /\ ~asked /\ in_use' = in_use \ {id} /\ evaluate_sleep
      /\ UNCHANGED <<ready_to_enter_offline, online_deadline, m_delayed_wakeup, next, asked>>
  BY DEF Shared_Offline_unregister, MayPostpone, PlainUse
<1>2. online_deadline' \in [Modules -> Deadline] /\ ready_to_enter_offline' \subseteq Modules
  BY <1>1 DEF OfflineInv, TypeOK, Deadline
<1>3. QED
  BY <1>1, <1>2, EvaluateOffline

LEMMA EnterOffline ==
    ASSUME PlainUse, OfflineInv, NEW id \in Modules, NEW delay_s \in Delays \cup {INF},
           Shared_Offline_enter_offline_state(id, delay_s)
    PROVE  OfflineInv'
<1>1. /\ AppRuns /\ ~asked /\ evaluate_sleep
      /\ online_deadline' = [online_deadline EXCEPT ![id] = delay_s]
      /\ ready_to_enter_offline' = ready_to_enter_offline \cup {id}
      /\ UNCHANGED <<in_use, m_delayed_wakeup, next, asked>>
  BY DEF Shared_Offline_enter_offline_state, MayPostpone, PlainUse
<1>2. /\ online_deadline' \in [Modules -> Deadline] /\ ready_to_enter_offline' \subseteq Modules
      /\ online_deadline'[id] \in Nat \cup {INF}
      /\ \A m \in Modules \ {id} : online_deadline'[m] = online_deadline[m]
  BY <1>1 DEF OfflineInv, TypeOK, Deadline
<1>3. \A m \in in_use' \cap ready_to_enter_offline' :
         \/ m \in ready_to_enter_offline /\ online_deadline'[m] = online_deadline[m]
         \/ online_deadline'[m] \in Nat \cup {INF}
  BY <1>1, <1>2 DEF OfflineInv, TypeOK
<1>4. QED
  BY <1>1, <1>2, <1>3, EvaluateOffline

LEMMA OnlineOffline ==
    ASSUME PlainUse, OfflineInv, NEW id \in Modules, Shared_Offline_enter_online_state(id)
    PROVE  OfflineInv'
<1>1. /\ wakeup_task' = 0 \/ (wakeup_task' = NULL /\ wakeup_task = NULL)
      /\ asked' = (asked \/ sleep # "STOPPED")
      /\ UNCHANGED <<in_use, ready_to_enter_offline, online_deadline, m_offline_state,
                     m_delayed_wakeup, poll_task, sleep, sleep_left, waking, next>>
  BY DEF Shared_Offline_enter_online_state, Scheduled, modules, stack
<1>2. TypeOK' /\ SleepAgrees' /\ WakeupHeld'
  BY <1>1 DEF OfflineInv, TypeOK, Timer, SleepAgrees, WakeupHeld
<1>3. OfflineOnlyIfAllReady' /\ OnlineRequestKept'
  BY <1>1 DEF OfflineInv, OfflineOnlyIfAllReady, OnlineRequestKept, WakeupUnderWay, WakeupHeld
<1>4. WakeupInTime'
  <2> SUFFICES ASSUME m_offline_state # "ONLINE", ~m_delayed_wakeup, ~waking,
                      NEW m \in in_use \cap ready_to_enter_offline
               PROVE  WakeupBefore(m)'
    BY <1>1 DEF WakeupInTime
  <2>1. WakeupBefore(m) /\ online_deadline[m] \in Deadline
    BY DEF OfflineInv, WakeupInTime, TypeOK, Deadline
  <2>2. QED
    BY <1>1, <2>1 DEF WakeupBefore, Deadline
<1>5. QED
  BY <1>2, <1>3, <1>4 DEF OfflineInv

(* The tasks.                                                              *)
LEMMA WakeupOffline == OfflineInv /\ wakeup_stack_task => OfflineInv'
<1> SUFFICES ASSUME OfflineInv, wakeup_stack_task PROVE OfflineInv'
  OBVIOUS
<1>1. /\ next = NULL /\ wakeup_task' = NULL
      /\ UNCHANGED <<in_use, ready_to_enter_offline, online_deadline, m_offline_state, poll_task,
                     sleep, sleep_left, next, asked>>
  BY DEF wakeup_stack_task, modules, AppRuns
<1>2. \/ m_offline_state = "ENTERING_OFFLINE" /\ m_delayed_wakeup' = TRUE /\ waking' = waking
      \/ /\ m_offline_state # "ENTERING_OFFLINE" /\ m_delayed_wakeup' = m_delayed_wakeup
         /\ waking' = (waking \/ sleep # "STOPPED")
  BY DEF wakeup_stack_task, wakeupStack
<1>3. TypeOK' /\ SleepAgrees' /\ WakeupHeld'
  BY <1>1, <1>2 DEF OfflineInv, TypeOK, Timer, SleepAgrees, WakeupHeld
<1>4. sleep # "STOPPED" => m_delayed_wakeup' \/ waking'
  BY <1>2 DEF OfflineInv, SleepAgrees
<1>5. OfflineOnlyIfAllReady' /\ OnlineRequestKept' /\ WakeupInTime'
  BY <1>1, <1>4 DEF OfflineInv, SleepAgrees, OfflineOnlyIfAllReady, OnlineRequestKept, WakeupUnderWay,
     WakeupInTime
<1>6. QED
  BY <1>3, <1>5 DEF OfflineInv

LEMMA PollOffline == OfflineInv /\ poll_for_offline => OfflineInv'
<1> SUFFICES ASSUME OfflineInv, poll_for_offline PROVE OfflineInv'
  OBVIOUS
<1>1. /\ poll_task = 0
      /\ UNCHANGED <<in_use, ready_to_enter_offline, online_deadline, wakeup_task, sleep, sleep_left,
                     next, asked>>
  BY DEF poll_for_offline, modules
<1>2. CASE sleep = "STARTED" /\ m_offline_state = "ENTERING_OFFLINE"
  <2>1. /\ m_offline_state' = "OFFLINE" /\ poll_task' = NULL
        /\ waking' = (waking \/ m_delayed_wakeup) /\ m_delayed_wakeup' = FALSE
    BY <1>2 DEF poll_for_offline
  <2>2. TypeOK' /\ SleepAgrees' /\ WakeupHeld'
    BY <1>1, <1>2, <2>1 DEF OfflineInv, TypeOK, Timer, SleepAgrees, WakeupHeld
  <2>3. OfflineOnlyIfAllReady' /\ OnlineRequestKept'
    BY <1>1, <2>1 DEF OfflineInv, OfflineOnlyIfAllReady, OnlineRequestKept, WakeupUnderWay
  <2>4. WakeupInTime'
    BY <1>1, <1>2, <2>1 DEF OfflineInv, WakeupInTime, WakeupBefore
  <2>5. QED
    BY <2>2, <2>3, <2>4 DEF OfflineInv
<1>3. CASE ~(sleep = "STARTED" /\ m_offline_state = "ENTERING_OFFLINE")
  <2>1. poll_task' = 1 /\ UNCHANGED <<m_offline_state, m_delayed_wakeup, waking>>
    BY <1>3 DEF poll_for_offline
  <2>2. TypeOK' /\ SleepAgrees' /\ WakeupHeld'
    BY <1>1, <2>1 DEF OfflineInv, TypeOK, Timer, SleepAgrees, WakeupHeld
  <2>3. OfflineOnlyIfAllReady' /\ OnlineRequestKept'
    BY <1>1, <2>1 DEF OfflineInv, OfflineOnlyIfAllReady, OnlineRequestKept, WakeupUnderWay
  <2>4. WakeupInTime'
    BY <1>1, <2>1 DEF OfflineInv, WakeupInTime, WakeupBefore
  <2>5. QED
    BY <2>2, <2>3, <2>4 DEF OfflineInv
<1>4. QED
  BY <1>2, <1>3

(* The stack, and time.                                                    *)
LEMMA StackOffline ==
    ASSUME OfflineInv, SleepStarts \/ StackOnline \/ on_stack_online_cb
    PROVE  OfflineInv'
<1>1. CASE SleepStarts
  <2>1. /\ sleep = "PENDING" /\ sleep' = "STARTED" /\ sleep_left' = TIME_TO_SLEEP
        /\ UNCHANGED <<in_use, ready_to_enter_offline, online_deadline, m_offline_state,
                       m_delayed_wakeup, wakeup_task, poll_task, waking, next, asked>>
    BY <1>1 DEF SleepStarts, modules, tasks
  <2>2. TypeOK' /\ SleepAgrees' /\ WakeupHeld'
    BY <2>1 DEF OfflineInv, TypeOK, Timer, SleepAgrees, WakeupHeld
  <2>3. OfflineOnlyIfAllReady' /\ OnlineRequestKept' /\ WakeupInTime'
    BY <2>1 DEF OfflineInv, OfflineOnlyIfAllReady, OnlineRequestKept, WakeupUnderWay, WakeupInTime,
       WakeupBefore
  <2>4. QED
    BY <2>2, <2>3 DEF OfflineInv
<1>2. CASE StackOnline
  <2>1. /\ sleep' = "STOPPED" /\ sleep_left' = NULL /\ waking' = FALSE /\ m_offline_state' = "ONLINE"
        /\ next' = 0 /\ asked' = FALSE
        /\ UNCHANGED <<in_use, ready_to_enter_offline, online_deadline, m_delayed_wakeup,
                       wakeup_task, poll_task>>
    BY <1>2 DEF StackOnline, modules, tasks
  <2>2. TypeOK'
    <3>1. next' \in 0 .. N \cup {NULL}
      BY <2>1
    <3>2. QED
      BY <2>1, <3>1 DEF OfflineInv, TypeOK, Timer
  <2>3. QED
    BY <2>1, <2>2 DEF OfflineInv, SleepAgrees, OfflineOnlyIfAllReady, OnlineRequestKept, WakeupInTime,
       WakeupHeld
<1>3. CASE on_stack_online_cb
  <2>1. /\ next # NULL /\ next' = IF next = N THEN NULL ELSE next + 1
        /\ ready_to_enter_offline' \subseteq ready_to_enter_offline
        /\ UNCHANGED <<in_use, online_deadline, m_offline_state, m_delayed_wakeup,
                       wakeup_task, poll_task, sleep, sleep_left, waking, asked>>
    BY <1>3 DEF on_stack_online_cb, tasks, stack
  <2>2. sleep = "STOPPED" /\ ~asked /\ m_offline_state = "ONLINE"
    BY <2>1 DEF OfflineInv, SleepAgrees
  <2>3. next' \in 0 .. N \cup {NULL}
    BY <2>1 DEF OfflineInv, TypeOK
  <2>4. TypeOK'
    BY <2>1, <2>3 DEF OfflineInv, TypeOK, Timer
  <2>5. QED
    BY <2>1, <2>2, <2>4 DEF OfflineInv, SleepAgrees, OfflineOnlyIfAllReady, OnlineRequestKept, WakeupInTime,
       WakeupHeld
<1>4. QED
  BY <1>1, <1>2, <1>3

LEMMA TickOffline == OfflineInv /\ Tick => OfflineInv'
<1> SUFFICES ASSUME OfflineInv, Tick PROVE OfflineInv'
  OBVIOUS
<1>1. /\ next = NULL /\ wakeup_task # 0 /\ poll_task # 0 /\ sleep_left # 0 /\ ~waking
      /\ wakeup_task' = Down(wakeup_task) /\ poll_task' = Down(poll_task) /\ sleep_left' = Down(sleep_left)
      /\ UNCHANGED <<in_use, ready_to_enter_offline, m_offline_state, m_delayed_wakeup, sleep, waking,
                     next, asked>>
  BY DEF Tick, AppRuns
<1>2. /\ wakeup_task \in Nat \cup {NULL} /\ poll_task \in Nat \cup {NULL} /\ sleep_left \in Nat \cup {NULL}
      /\ in_use \subseteq Modules
      /\ online_deadline \in [Modules -> Nat \cup {-1, INF}]
  BY DEF OfflineInv, TypeOK, Timer
<1>3. /\ wakeup_task' \in Timer /\ poll_task' \in Timer /\ sleep_left' \in Timer
      /\ sleep_left' = NULL <=> sleep_left = NULL
  BY <1>1, <1>2 DEF Down, Timer
<1>4. online_deadline' \in [Modules -> Nat \cup {-1, INF}]
  <2>1. \A m \in Modules : online_deadline[m] \in Nat \cup {-1, INF}
    BY <1>2
  <2>2. QED
    BY <2>1 DEF Tick
<1>5. TypeOK'
  BY <1>1, <1>3, <1>4 DEF OfflineInv, TypeOK
<1>6. SleepAgrees' /\ OfflineOnlyIfAllReady' /\ OnlineRequestKept'
  BY <1>1 DEF OfflineInv, SleepAgrees, OfflineOnlyIfAllReady, OnlineRequestKept, WakeupUnderWay
<1>7. WakeupHeld'
  <2>1. wakeup_task' = NULL => wakeup_task = NULL
    BY <1>1, <1>2 DEF Down
  <2>2. QED
    BY <1>1, <2>1 DEF OfflineInv, WakeupHeld
<1>8. WakeupInTime'
  <2> SUFFICES ASSUME m_offline_state # "ONLINE", ~m_delayed_wakeup, ~waking,
                      NEW m \in in_use \cap ready_to_enter_offline
               PROVE  WakeupBefore(m)'
    BY <1>1 DEF WakeupInTime
  <2>1. WakeupBefore(m) /\ m \in Modules /\ online_deadline[m] \in Nat \cup {-1, INF}
    BY <1>2 DEF OfflineInv, WakeupInTime
  <2>2. CASE online_deadline[m] = INF
    BY <2>1, <2>2 DEF Tick, WakeupBefore
  <2>3. CASE online_deadline[m] # INF
    <3>1. /\ wakeup_task \in Nat \ {0} /\ online_deadline[m] \in Nat \ {0}
          /\ wakeup_task <= online_deadline[m]
      BY <1>1, <1>2, <2>1, <2>3 DEF WakeupBefore
    <3>2. online_deadline'[m] = online_deadline[m] - 1 /\ wakeup_task' = wakeup_task - 1
      BY <1>1, <2>1, <2>3, <3>1 DEF Tick, Down
    <3>3. wakeup_task' \in Nat /\ wakeup_task' # NULL
      BY <3>1, <3>2
    <3>4. QED
      BY <3>1, <3>2, <3>3 DEF WakeupBefore
  <2>4. QED
    BY <2>2, <2>3
<1>9. QED
  BY <1>5, <1>6, <1>7, <1>8 DEF OfflineInv

LEMMA NextOffline ==
    ASSUME PlainUse, OfflineInv, [Next]_vars
    PROVE  OfflineInv'
<1>1. CASE UNCHANGED vars
  BY <1>1 DEF vars, OfflineInv, TypeOK, SleepAgrees, OfflineOnlyIfAllReady, OnlineRequestKept,
     WakeupUnderWay, WakeupInTime, WakeupBefore, WakeupHeld
<1>2. QED
  BY <1>1, RegisterOffline, UnregisterOffline, EnterOffline, OnlineOffline, WakeupOffline, PollOffline,
     StackOffline, TickOffline DEF Next

THEOREM OfflineInvariant == PlainUse => (Spec => []OfflineInv)
<1>1. ASSUME PlainUse PROVE OfflineInv /\ [Next]_vars => OfflineInv'
  BY <1>1, NextOffline
<1>2. ASSUME PlainUse PROVE Spec => []OfflineInv
  BY <1>1, <1>2, InitOffline, PTL DEF Spec
<1>3. QED
  BY <1>2

(***************************************************************************)
(* The stack is off the network only while all the modules are ready, or   *)
(* is on its way back.                                                     *)
(***************************************************************************)
THEOREM NobodyLeftOffline == PlainUse => (Spec => []OfflineOnlyIfAllReady)
<1>1. OfflineInv => OfflineOnlyIfAllReady
  BY DEF OfflineInv
<1>2. ASSUME PlainUse PROVE Spec => []OfflineOnlyIfAllReady
  BY <1>1, <1>2, OfflineInvariant, PTL
<1>3. QED
  BY <1>2

(***************************************************************************)
(* A wakeup a module asked for stays due, put off or under way until the   *)
(* stack is back, even when it is asked while the stack is leaving.        *)
(***************************************************************************)
THEOREM RequestsAreKept == PlainUse => (Spec => []OnlineRequestKept)
<1>1. OfflineInv => OnlineRequestKept
  BY DEF OfflineInv
<1>2. ASSUME PlainUse PROVE Spec => []OnlineRequestKept
  BY <1>1, <1>2, OfflineInvariant, PTL
<1>3. QED
  BY <1>2

(***************************************************************************)
(* While the stack sleeps and was not told to wake up, no module that      *)
(* waits has missed its deadline, for any number of modules.               *)
(***************************************************************************)
THEOREM DeadlinesAreKept == PlainUse => (Spec => []DeadlineKept)
<1>1. OfflineInv => DeadlineKept
  <2> SUFFICES ASSUME OfflineInv, m_offline_state = "OFFLINE", ~waking,
                      NEW m \in in_use \cap ready_to_enter_offline
               PROVE  online_deadline[m] = INF \/ online_deadline[m] >= 0
    BY DEF DeadlineKept
  <2>1. WakeupBefore(m) /\ online_deadline[m] \in Nat \cup {-1, INF}
    BY DEF OfflineInv, SleepAgrees, WakeupInTime, TypeOK
  <2>2. QED
    BY <2>1 DEF WakeupBefore
<1>2. ASSUME PlainUse PROVE Spec => []DeadlineKept
  BY <1>1, <1>2, OfflineInvariant, PTL
<1>3. QED
  BY <1>2
====================================================================================
