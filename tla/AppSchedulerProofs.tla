------------------------- MODULE AppSchedulerProofs -------------------------
(***************************************************************************)
(* Proofs about AppScheduler, for any set of tasks, any size of the table, *)
(* any clock and any delays.                                               *)
(***************************************************************************)
EXTENDS AppScheduler, WellFoundedInduction, TLAPS

USE NullAssumption, SizeAssumption, ClockAssumption, DelayAssumption, ExecAssumption

-----------------------------------------------------------------------------
(* Facts about the operators of the model.                                 *)

(* A timestamp computed from a delay is a timestamp.                       *)
LEMMA TimestampType ==
    ASSUME now \in Nat, NEW ms \in Nat
    PROVE  get_timestamp(ms) \in Timestamps
<1>1. \A a \in Int : a % HpWrap \in Nat /\ a % CoarseWrap \in Nat
  OBVIOUS
<1>2. getTimestampHp \in Nat /\ getTimestampCoarse \in Nat
  BY <1>1 DEF getTimestampHp, getTimestampCoarse
<1>3. addUsToHpTimestamp(getTimestampHp, ms) \in Nat
  BY <1>1, <1>2 DEF addUsToHpTimestamp
<1>4. (ms + CoarseTick - 1) \div CoarseTick \in Int
  OBVIOUS
<1>5. (getTimestampCoarse + (ms + CoarseTick - 1) \div CoarseTick) % CoarseWrap \in Nat
  BY <1>1, <1>2, <1>4
<1>6. QED
  BY <1>3, <1>5 DEF get_timestamp, Timestamps

(* The delay to a timestamp is a natural number.                           *)
LEMMA DelayType ==
    ASSUME now \in Nat, NEW ts \in Timestamps
    PROVE  get_delay_from_now_us(ts) \in Nat
<1>1. \A a \in Int : a % HpWrap \in Nat /\ a % CoarseWrap \in Nat
  OBVIOUS
<1>2. getTimestampHp \in Nat /\ getTimestampCoarse \in Nat
  BY <1>1 DEF getTimestampHp, getTimestampCoarse
<1>3. ts.t \in Nat
  BY DEF Timestamps
<1>4. getTimeDiffUs(getTimestampHp, ts.t) \in Nat
  BY <1>1, <1>2, <1>3 DEF getTimeDiffUs
<1>5. CoarseTick * ((ts.t - getTimestampCoarse) % CoarseWrap) \in Nat
  BY <1>1, <1>2, <1>3
<1>6. QED
  BY <1>4, <1>5 DEF get_delay_from_now_us

(* Every non-empty set of natural numbers has a least element. *)
LEMMA LeastElement ==
    ASSUME NEW S \in SUBSET Nat, S # {}
    PROVE  \E m \in S : \A k \in S : m <= k
<1> DEFINE R == OpToRel(<, Nat)
<1>1. IsWellFoundedOn(R, Nat)
  BY NatLessThanWellFounded
<1>2. \A x, y \in Nat : <<x, y>> \in R <=> x < y
  BY DEF OpToRel
<1> HIDE DEF R
<1>3. PICK m \in S : \A k \in S : ~(<<k, m>> \in R)
  BY <1>1, WFMin
<1>4. ASSUME NEW k \in S PROVE m <= k
  <2>1. k \in Nat /\ m \in Nat
    OBVIOUS
  <2>2. ~(k < m)
    BY <2>1, <1>2, <1>3, Zenon
  <2> QED BY <2>1, <2>2
<1>5. QED
  BY <1>4

(* A set that contains 0 and the successor of each of its members below n  *)
(* contains every number up to n.                                          *)
LEMMA UpToInduction ==
    ASSUME NEW n \in Nat, NEW P,
           0 \in P,
           \A k \in 0 .. n - 1 : k \in P => k + 1 \in P
    PROVE  0 .. n \subseteq P
<1> DEFINE B == {k \in 0 .. n : k \notin P}
<1>1. SUFFICES ASSUME B # {} PROVE FALSE
  OBVIOUS
<1>2. B \in SUBSET Nat
  OBVIOUS
<1>3. PICK m \in B : \A k \in B : m <= k
  BY <1>1, <1>2, LeastElement
<1>4. m # 0
  OBVIOUS
<1>5. m - 1 \in 0 .. n - 1 /\ m - 1 \in P
  BY <1>3, <1>4
<1>6. QED
  BY <1>5

(* The first slot of a non-empty set of slots is one of them.              *)
LEMMA FirstIn ==
    ASSUME NEW S \in SUBSET Slots, S # {}
    PROVE  First(S) \in S
<1>1. \E m \in S : \A k \in S : m <= k
  BY LeastElement DEF Slots
<1>2. QED
  BY <1>1 DEF First

(* The scan of get_next_task_locked() returns a pending task, or NULL when *)
(* there is none.                                                          *)
LEMMA ScanResult ==
    ASSUME NEW next, get_next_task_locked(next)
    PROVE  /\ next # NULL => next \in Slots /\ Pending(next)
           /\ next = NULL => \A i \in Slots : ~Pending(i)
<1>1. PICK best \in [0 .. NTasks -> Slots \cup {NULL}] :
          IsScan(best) /\ next = best[NTasks]
  BY DEF get_next_task_locked
<1> DEFINE P == {k \in 0 .. NTasks :
                   /\ best[k] # NULL => best[k] \in Slots /\ Pending(best[k])
                   /\ best[k] = NULL => \A i \in 1 .. k : ~Pending(i)}
<1>2. 0 \in P
  BY <1>1 DEF IsScan
<1>3. ASSUME NEW k \in 0 .. NTasks - 1, k \in P
      PROVE  k + 1 \in P
  <2>1. k + 1 \in Slots /\ k + 1 \in 0 .. NTasks /\ (k + 1) - 1 = k
    BY DEF Slots
  <2>2. \/ Pending(k + 1) /\ best[k + 1] = k + 1
        \/ best[k + 1] = best[k] /\ (best[k] = NULL => ~Pending(k + 1))
    BY <1>1, <2>1 DEF IsScan
  <2>3. \A i \in 1 .. k + 1 : i \in 1 .. k \/ i = k + 1
    OBVIOUS
  <2>4. k + 1 # NULL
    BY <2>1
  <2> QED BY <1>3, <2>1, <2>2, <2>3, <2>4
<1> HIDE DEF P
<1>4. 0 .. NTasks \subseteq P
  BY <1>2, <1>3, UpToInduction
<1>5. NTasks \in P
  BY <1>4
<1>6. QED
  BY <1>1, <1>5 DEF P, Slots

(* An addition writes one slot: the one the task already had, which keeps  *)
(* its callback, or a free one, which receives the new task.               *)
LEMMA AddEffect ==
    ASSUME TypeOK, NEW new \in Tasks, new.func \in Func, ~new.removed,
           SlotsOf(new.func) \cup SlotsOf(NULL) # {},
           add_task_to_table_locked(new)
    PROVE  \E s \in Slots :
              /\ m_tasks' \in [Slots -> Tasks]
              /\ \A i \in Slots \ {s} : m_tasks'[i] = m_tasks[i]
              /\ m_tasks'[s].func = new.func
              /\ m_tasks'[s].next_ts = new.next_ts
              /\ ~m_tasks'[s].removed
              /\ \/ /\ m_tasks[s].func = new.func /\ m_tasks'[s].updated
                    /\ m_tasks'[s].exec_time_us = m_tasks[s].exec_time_us
                 \/ /\ m_tasks[s].func = NULL /\ m_tasks'[s] = new
                    /\ \A i \in Slots : m_tasks[i].func # new.func
<1>1. CASE SlotsOf(new.func) # {}
  <2> DEFINE s == First(SlotsOf(new.func))
  <2>1. s \in Slots /\ m_tasks[s].func = new.func
    BY <1>1, FirstIn DEF SlotsOf
  <2>2. m_tasks' = [m_tasks EXCEPT ![s] = [@ EXCEPT !.next_ts = new.next_ts,
                                                   !.updated = TRUE,
                                                   !.removed = FALSE]]
    BY <1>1 DEF add_task_to_table_locked
  <2> HIDE DEF s
  <2>3. m_tasks' \in [Slots -> Tasks]
    BY <2>1, <2>2 DEF TypeOK, Tasks
  <2>4. /\ \A i \in Slots \ {s} : m_tasks'[i] = m_tasks[i]
        /\ m_tasks'[s].func = new.func
        /\ m_tasks'[s].next_ts = new.next_ts
        /\ ~m_tasks'[s].removed
        /\ m_tasks'[s].updated
        /\ m_tasks'[s].exec_time_us = m_tasks[s].exec_time_us
    BY <2>1, <2>2 DEF TypeOK, Tasks
  <2> QED BY <2>1, <2>3, <2>4
<1>2. CASE SlotsOf(new.func) = {}
  <2> DEFINE s == First(SlotsOf(NULL))
  <2>1. s \in Slots /\ m_tasks[s].func = NULL
    BY <1>2, FirstIn DEF SlotsOf
  <2>2. m_tasks' = [m_tasks EXCEPT ![s] = new]
    BY <1>2 DEF add_task_to_table_locked
  <2>3. \A i \in Slots : m_tasks[i].func # new.func
    BY <1>2 DEF SlotsOf
  <2> HIDE DEF s
  <2>4. m_tasks' \in [Slots -> Tasks] /\ m_tasks'[s] = new
    BY <2>1, <2>2 DEF TypeOK
  <2>5. \A i \in Slots \ {s} : m_tasks'[i] = m_tasks[i]
    BY <2>1, <2>2 DEF TypeOK
  <2> QED BY <2>1, <2>3, <2>4, <2>5
<1>3. QED
  BY <1>1, <1>2

(* A cancellation only marks one slot of the task.                         *)
LEMMA CancelEffect ==
    ASSUME TypeOK, NEW cb \in Func, SlotsOf(cb) # {},
           remove_task_from_table_locked(cb)
    PROVE  \E s \in Slots :
              /\ m_tasks' \in [Slots -> Tasks]
              /\ \A i \in Slots \ {s} : m_tasks'[i] = m_tasks[i]
              /\ m_tasks[s].func = cb
              /\ m_tasks'[s] = [m_tasks[s] EXCEPT !.updated = TRUE, !.removed = TRUE]
<1> DEFINE s == First(SlotsOf(cb))
<1>1. s \in Slots /\ m_tasks[s].func = cb
  BY FirstIn DEF SlotsOf
<1>2. m_tasks' = [m_tasks EXCEPT ![s] = [@ EXCEPT !.updated = TRUE, !.removed = TRUE]]
  BY DEF remove_task_from_table_locked
<1> HIDE DEF s
<1>3. m_tasks' \in [Slots -> Tasks]
  BY <1>1, <1>2 DEF TypeOK, Tasks
<1>4. QED
  BY <1>1, <1>2, <1>3 DEF TypeOK

(* Arming the periodic callback, and a request for a reselection.          *)
LEMMA ArmEffect ==
    ASSUME NEW delay \in Int, NEW exec \in Nat, setPeriodicCb(delay, exec)
    PROVE  /\ armed' \in [left : Int, exec : Nat]
           /\ armed' # NULL
           /\ armed'.left = delay
<1>1. armed' = [left |-> delay, exec |-> exec]
  BY DEF setPeriodicCb
<1>2. armed' \in [left : Int, exec : Nat]
  BY <1>1
<1>3. QED
  BY <1>1, <1>2

LEMMA RequestEffect ==
    ASSUME RequestReschedule
    PROVE  /\ m_force_reschedule' = TRUE
           /\ armed' \in [left : Int, exec : Nat]
           /\ armed' # NULL
           /\ armed'.left = 0
  BY ArmEffect DEF RequestReschedule

-----------------------------------------------------------------------------
(* The inductive invariant.                                                *)

(* The invariant holds in the initial state.                               *)
LEMMA InitIndInv == Init => IndInv
<1> SUFFICES ASSUME Init PROVE IndInv
  OBVIOUS
<1>1. FreeSlot \in Tasks
  BY DEF FreeSlot, Tasks, Timestamps
<1>2. TypeOK
  BY <1>1 DEF Init, TypeOK, PCs
<1>3. \A i \in Slots : ~Active(i)
  BY DEF Init, Active, FreeSlot
<1>4. QED
  BY <1>2, <1>3 DEF Init, IndInv, OneSlotPerTask, PointerLive, NoLostWakeup

(* App_Scheduler_init() empties the table.                                 *)
LEMMA InitStep == IndInv /\ App_Scheduler_init => IndInv'
<1> SUFFICES ASSUME IndInv, App_Scheduler_init PROVE IndInv'
  OBVIOUS
<1> USE DEF App_Scheduler_init
<1>1. TypeOK'
  BY DEF IndInv, TypeOK, Tasks
<1>2. \A i \in Slots : ~Active(i)'
  BY DEF IndInv, TypeOK, Tasks, Active
<1>3. QED
  BY <1>1, <1>2 DEF IndInv, OneSlotPerTask, PointerLive, NoLostWakeup

(* Adding a task preserves the invariant: the addition asks for a          *)
(* reselection whenever it could make the selected task a wrong one.       *)
LEMMA AddStep ==
    ASSUME IndInv, NEW cb \in Func, NEW d \in Delays, NEW e \in ExecTimes,
           App_Scheduler_addTask_execTime(cb, d, e)
    PROVE  IndInv'
<1> DEFINE new == [func |-> cb, next_ts |-> get_timestamp(d), exec_time_us |-> e,
                   updated |-> FALSE, removed |-> FALSE]
<1>1. /\ m_initialized
      /\ SlotsOf(cb) \cup SlotsOf(NULL) # {}
      /\ add_task_to_table_locked(new)
      /\ IF RescheduleNeeded(new) THEN RequestReschedule
                                  ELSE UNCHANGED <<m_force_reschedule, armed>>
      /\ UNCHANGED <<m_next_task_p, m_initialized, pc, is_hp, granted, now>>
  BY DEF App_Scheduler_addTask_execTime
<1>2. TypeOK /\ OneSlotPerTask /\ PointerLive /\ NoLostWakeup
  BY DEF IndInv
<1>3. new \in Tasks /\ new.func = cb /\ ~new.removed
  BY <1>2, TimestampType DEF TypeOK, Tasks
<1> HIDE DEF new
<1>4. PICK s \in Slots :
         /\ m_tasks' \in [Slots -> Tasks]
         /\ \A i \in Slots \ {s} : m_tasks'[i] = m_tasks[i]
         /\ m_tasks'[s].func = cb
         /\ ~m_tasks'[s].removed
         /\ \/ m_tasks[s].func = cb
            \/ m_tasks[s].func = NULL /\ \A i \in Slots : m_tasks[i].func # cb
  BY <1>1, <1>2, <1>3, AddEffect
<1>5. TypeOK'
  BY <1>1, <1>2, <1>4, RequestEffect DEF TypeOK
<1>6. OneSlotPerTask'
  BY <1>2, <1>4 DEF OneSlotPerTask, Active
<1>7. \A i \in Slots : Active(i) => Active(i)'
  BY <1>4 DEF Active
<1>8. PointerLive'
  BY <1>1, <1>2, <1>7 DEF PointerLive, TypeOK
<1>9. NoLostWakeup'
  <2>1. CASE RescheduleNeeded(new)
    BY <1>1, <2>1, RequestEffect DEF NoLostWakeup
  <2>2. CASE ~RescheduleNeeded(new)
    <3>1. m_next_task_p # NULL /\ m_next_task_p # s
      BY <1>3, <1>4, <2>2 DEF RescheduleNeeded
    <3>2. m_next_task_p \in Slots /\ m_tasks'[m_next_task_p] = m_tasks[m_next_task_p]
      BY <1>2, <1>4, <3>1 DEF TypeOK
    <3>3. Pending(m_next_task_p)' = Pending(m_next_task_p)
      BY <1>1, <3>2 DEF Pending, Active
    <3>4. m_force_reschedule' = m_force_reschedule /\ armed' = armed
      BY <1>1, <2>2
    <3>5. pc # "select" => Active(m_next_task_p)
      BY <1>2, <3>1 DEF PointerLive
    <3> QED BY <1>1, <1>2, <3>1, <3>2, <3>3, <3>4, <3>5 DEF NoLostWakeup
  <2> QED BY <2>1, <2>2
<1>10. QED
  BY <1>5, <1>6, <1>8, <1>9 DEF IndInv

(* Cancelling a task preserves the invariant: the slot stays taken until   *)
(* the reselection it asks for.                                            *)
LEMMA CancelStep ==
    ASSUME IndInv, NEW cb \in Func, App_Scheduler_cancelTask(cb)
    PROVE  IndInv'
<1>1. /\ m_initialized
      /\ SlotsOf(cb) # {}
      /\ remove_task_from_table_locked(cb)
      /\ RequestReschedule
      /\ UNCHANGED <<m_next_task_p, m_initialized, pc, is_hp, granted, now>>
  BY DEF App_Scheduler_cancelTask
<1>2. TypeOK /\ OneSlotPerTask /\ PointerLive
  BY DEF IndInv
<1>3. PICK s \in Slots :
         /\ m_tasks' \in [Slots -> Tasks]
         /\ \A i \in Slots \ {s} : m_tasks'[i] = m_tasks[i]
         /\ m_tasks[s].func = cb
         /\ m_tasks'[s] = [m_tasks[s] EXCEPT !.updated = TRUE, !.removed = TRUE]
  BY <1>1, <1>2, CancelEffect
<1>4. \A i \in Slots : m_tasks'[i].func = m_tasks[i].func
  <2>1. m_tasks[s] \in Tasks
    BY <1>2 DEF TypeOK
  <2>2. m_tasks'[s].func = m_tasks[s].func
    BY <1>3, <2>1 DEF Tasks
  <2> QED BY <1>3, <2>2
<1>5. TypeOK'
  BY <1>1, <1>2, <1>3, RequestEffect DEF TypeOK
<1>6. OneSlotPerTask' /\ PointerLive'
  <2>1. OneSlotPerTask'
    BY <1>2, <1>4 DEF OneSlotPerTask, Active
  <2>2. PointerLive'
    BY <1>1, <1>2, <1>4 DEF PointerLive, Active, TypeOK
  <2> QED BY <2>1, <2>2
<1>7. NoLostWakeup'
  BY <1>1, RequestEffect DEF NoLostWakeup
<1>8. QED
  BY <1>5, <1>6, <1>7 DEF IndInv

(* The steps of periodic_work() up to the execution of the task leave the  *)
(* table alone.                                                            *)
LEMMA EntrySteps ==
    ASSUME IndInv, Fire \/ CheckForce \/ ReadKind \/ TestReady \/ StartTask
    PROVE  IndInv'
<1>1. TypeOK /\ OneSlotPerTask /\ PointerLive
  BY DEF IndInv
<1>2. /\ UNCHANGED <<m_tasks, m_next_task_p, m_force_reschedule, m_initialized, now>>
      /\ pc # "exit" /\ pc # "select" /\ pc' \notin {"idle", "exit"} /\ pc' \in PCs
      /\ m_initialized
      /\ is_hp' \in BOOLEAN
      /\ armed' \in [left : Int, exec : Nat] \cup {NULL}
      /\ granted' \in Nat
  <2>1. CASE Fire
    BY <1>1, <2>1 DEF Fire, table, PCs, TypeOK, PointerLive
  <2>2. CASE CheckForce
    BY <1>1, <2>2 DEF CheckForce, table, PCs, TypeOK, PointerLive
  <2>3. CASE ReadKind
    <3>1. m_next_task_p \in Slots
      BY <1>1, <2>3 DEF ReadKind, TypeOK, PointerLive
    <3>2. m_tasks[m_next_task_p].next_ts.is_hp \in BOOLEAN
      BY <1>1, <3>1 DEF TypeOK, Tasks, Timestamps
    <3> QED BY <1>1, <2>3, <3>2 DEF ReadKind, table, PCs, TypeOK, PointerLive
  <2>4. CASE TestReady
    BY <1>1, <2>4 DEF TestReady, table, PCs, TypeOK, PointerLive
  <2>5. CASE StartTask
    BY <1>1, <2>5 DEF StartTask, table, PCs, TypeOK, PointerLive
  <2> QED BY <2>1, <2>2, <2>3, <2>4, <2>5
<1>3. pc' \in {"read", "test", "perform", "running"} => m_next_task_p # NULL
  BY <1>1 DEF Fire, CheckForce, ReadKind, TestReady, StartTask, PointerLive
<1>4. TypeOK'
  BY <1>1, <1>2 DEF TypeOK
<1>5. OneSlotPerTask' /\ PointerLive'
  BY <1>1, <1>2, <1>3 DEF OneSlotPerTask, PointerLive, Active
<1>6. QED
  BY <1>2, <1>4, <1>5 DEF IndInv, NoLostWakeup

(* When a task returns, at most its own slot changes: it is freed, or its  *)
(* time moves.                                                             *)
LEMMA FinishStep ==
    ASSUME IndInv, NEW task \in Tasks, FinishTask(task),
           task.func \in {m_tasks[m_next_task_p].func, NULL}
    PROVE  IndInv'
<1>1. TypeOK /\ OneSlotPerTask /\ PointerLive
  BY DEF IndInv
<1>2. /\ pc = "running" /\ pc' = "select"
      /\ UNCHANGED <<m_next_task_p, m_force_reschedule, m_initialized, is_hp,
                     armed, granted, now>>
  BY DEF FinishTask
<1>3. m_next_task_p \in Slots
  BY <1>1, <1>2 DEF TypeOK, PointerLive
<1>4. m_tasks' = m_tasks \/ m_tasks' = [m_tasks EXCEPT ![m_next_task_p] = task]
  BY DEF FinishTask
<1>5. TypeOK'
  BY <1>1, <1>2, <1>3, <1>4 DEF TypeOK, PCs
<1>6. \A i \in Slots : m_tasks'[i].func \in {m_tasks[i].func, NULL}
  BY <1>1, <1>3, <1>4 DEF TypeOK
<1>7. OneSlotPerTask'
  BY <1>1, <1>6 DEF OneSlotPerTask, Active
<1>8. PointerLive' /\ NoLostWakeup'
  BY <1>1, <1>2 DEF PointerLive, NoLostWakeup
<1>9. QED
  BY <1>5, <1>7, <1>8 DEF IndInv

LEMMA PerformStep ==
    ASSUME IndInv, perform_task_stop \/ \E next \in Delays : perform_task_again(next)
    PROVE  IndInv'
<1>1. m_next_task_p \in Slots /\ now \in Nat /\ m_tasks[m_next_task_p] \in Tasks
  BY DEF IndInv, TypeOK, PointerLive, perform_task_stop, perform_task_again, FinishTask
<1>2. CASE perform_task_stop
  <2>1. [m_tasks[m_next_task_p] EXCEPT !.func = NULL] \in Tasks
    BY <1>1 DEF Tasks
  <2>2. [m_tasks[m_next_task_p] EXCEPT !.func = NULL].func = NULL
    BY <1>1 DEF Tasks
  <2> QED BY <1>2, <2>1, <2>2, FinishStep DEF perform_task_stop
<1>3. ASSUME NEW next \in Delays, perform_task_again(next) PROVE IndInv'
  <2> DEFINE task == [m_tasks[m_next_task_p] EXCEPT !.next_ts = get_timestamp(next)]
  <2>1. get_timestamp(next) \in Timestamps
    BY <1>1, TimestampType
  <2>2. task \in Tasks /\ task.func = m_tasks[m_next_task_p].func
    BY <1>1, <2>1 DEF Tasks
  <2>3. FinishTask(task)
    BY <1>3 DEF perform_task_again
  <2> QED BY <2>2, <2>3, FinishStep
<1>4. QED
  BY <1>2, <1>3

(* The critical section that reselects cleans the table, and leaves a live *)
(* selected task with the callback armed, or an empty table.               *)
LEMMA SelectStep == IndInv /\ SelectNext => IndInv'
<1> SUFFICES ASSUME IndInv, SelectNext PROVE IndInv'
  OBVIOUS
<1>1. TypeOK /\ OneSlotPerTask /\ PointerLive
  BY DEF IndInv
<1>2. PICK next \in Slots \cup {NULL} :
         /\ get_next_task_locked(next)
         /\ m_next_task_p' = next
         /\ \/ next = NULL /\ m_tasks' = cleaned /\ UNCHANGED armed
            \/ /\ next # NULL
               /\ m_tasks' = [cleaned EXCEPT ![next].updated = FALSE]
               /\ schedule_task(m_tasks[next])
  BY DEF SelectNext, Reselect
<1>3. /\ pc = "select" /\ pc' = "exit"
      /\ m_force_reschedule' = FALSE
      /\ UNCHANGED <<m_initialized, is_hp, granted, now>>
  BY DEF SelectNext, Reselect
<1>4. /\ next # NULL => Pending(next)
      /\ next = NULL => \A i \in Slots : ~Pending(i)
  BY <1>2, ScanResult
<1>5. cleaned \in [Slots -> Tasks]
  <2>1. FreeSlot \in Tasks
    BY DEF FreeSlot, Tasks, Timestamps
  <2> QED BY <1>1, <2>1 DEF cleaned, TypeOK
<1>6. \A i \in Slots : cleaned[i] = IF Pending(i) THEN m_tasks[i] ELSE FreeSlot
  BY DEF cleaned
<1> HIDE DEF cleaned
<1>7. m_tasks' \in [Slots -> Tasks]
  <2>1. CASE next = NULL
    BY <1>2, <1>5, <2>1
  <2>2. CASE next # NULL
    <3>1. [cleaned[next] EXCEPT !.updated = FALSE] \in Tasks
      BY <1>5, <2>2 DEF Tasks
    <3> QED BY <1>2, <1>5, <2>2, <3>1
  <2> QED BY <2>1, <2>2
<1>8. \A i \in Slots : /\ m_tasks'[i].func = cleaned[i].func
                       /\ m_tasks'[i].removed = cleaned[i].removed
  <2>1. \A i \in Slots : cleaned[i] \in Tasks
    BY <1>5
  <2>2. CASE next = NULL
    BY <1>2, <2>2
  <2>3. CASE next # NULL
    <3>1. m_tasks' = [cleaned EXCEPT ![next] = [cleaned[next] EXCEPT !.updated = FALSE]]
      BY <1>2, <2>3
    <3>2. next \in Slots
      BY <2>3
    <3>3. m_tasks'[next] = [cleaned[next] EXCEPT !.updated = FALSE]
      BY <1>5, <3>1, <3>2
    <3>4. m_tasks'[next].func = cleaned[next].func /\ m_tasks'[next].removed = cleaned[next].removed
      BY <2>1, <3>2, <3>3 DEF Tasks
    <3>5. \A i \in Slots \ {next} : m_tasks'[i] = cleaned[i]
      BY <1>5, <3>1
    <3> QED BY <3>4, <3>5
  <2> QED BY <2>2, <2>3
<1>9. \A i \in Slots : /\ Active(i)' <=> Pending(i)
                       /\ Pending(i)' <=> Pending(i)
                       /\ Pending(i) => m_tasks'[i].func = m_tasks[i].func
  BY <1>6, <1>8 DEF Active, Pending, FreeSlot
<1>10. next # NULL => armed' \in [left : Int, exec : Nat] /\ armed' # NULL
  <2> SUFFICES ASSUME next # NULL
               PROVE  armed' \in [left : Int, exec : Nat] /\ armed' # NULL
    OBVIOUS
  <2>1. m_tasks[next] \in Tasks /\ now \in Nat
    BY <1>1 DEF TypeOK
  <2>2. m_tasks[next].next_ts \in Timestamps /\ m_tasks[next].exec_time_us + SchedExec \in Nat
    BY <2>1 DEF Tasks
  <2>3. get_timestamp(MaxTime) \in Timestamps
    BY <2>1, TimestampType
  <2>4. \/ setPeriodicCb(get_delay_from_now_us(m_tasks[next].next_ts),
                         m_tasks[next].exec_time_us + SchedExec)
        \/ setPeriodicCb(get_delay_from_now_us(get_timestamp(MaxTime)), SchedExec)
    BY <1>2 DEF schedule_task
  <2>5. /\ get_delay_from_now_us(m_tasks[next].next_ts) \in Int
        /\ get_delay_from_now_us(get_timestamp(MaxTime)) \in Int
    BY <2>1, <2>2, <2>3, DelayType
  <2> QED BY <2>2, <2>4, <2>5, ArmEffect
<1>11. TypeOK'
  BY <1>1, <1>2, <1>3, <1>7, <1>10 DEF TypeOK, PCs
<1>12. OneSlotPerTask'
  BY <1>1, <1>9 DEF OneSlotPerTask, Pending, Active
<1>13. PointerLive'
  <2>1. m_initialized
    BY <1>1, <1>3 DEF PointerLive
  <2> QED BY <1>2, <1>3, <1>4, <1>9, <2>1 DEF PointerLive
<1>14. NoLostWakeup'
  BY <1>2, <1>3, <1>4, <1>9, <1>10 DEF NoLostWakeup
<1>15. QED
  BY <1>11, <1>12, <1>13, <1>14 DEF IndInv

LEMMA ReturnStep == IndInv /\ Return => IndInv'
<1> SUFFICES ASSUME IndInv, Return PROVE IndInv'
  OBVIOUS
<1>1. /\ UNCHANGED <<m_tasks, m_next_task_p, m_force_reschedule, m_initialized,
                     is_hp, armed, now>>
      /\ pc = "exit" /\ pc' = "idle" /\ granted' = 0
  BY DEF Return, table
<1>2. TypeOK'
  BY <1>1 DEF IndInv, TypeOK, PCs
<1>3. OneSlotPerTask' /\ PointerLive'
  BY <1>1 DEF IndInv, OneSlotPerTask, PointerLive, Active
<1>4. NoLostWakeup'
  BY <1>1 DEF IndInv, NoLostWakeup, Pending, Active
<1>5. QED
  BY <1>2, <1>3, <1>4 DEF IndInv

LEMMA TickStep == IndInv /\ Tick => IndInv'
<1> SUFFICES ASSUME IndInv, Tick PROVE IndInv'
  OBVIOUS
<1>1. /\ UNCHANGED <<m_tasks, m_next_task_p, m_force_reschedule, m_initialized,
                     pc, is_hp, granted>>
      /\ now' = (now + 1) % ClockWrap
      /\ armed' = IF armed = NULL THEN NULL ELSE [armed EXCEPT !.left = @ - 1]
  BY DEF Tick, table
<1>2. now' \in Nat
  <2>1. ClockWrap \in Nat \ {0}
    BY DEF ClockWrap
  <2> QED BY <1>1, <2>1 DEF IndInv, TypeOK
<1>3. CASE armed = NULL
  BY <1>1, <1>2, <1>3 DEF IndInv, TypeOK, OneSlotPerTask, PointerLive, NoLostWakeup,
                          Pending, Active
<1>4. CASE armed # NULL
  <2>1. armed \in [left : Int, exec : Nat]
    BY <1>4 DEF IndInv, TypeOK
  <2>2. armed' \in [left : Int, exec : Nat] /\ armed'.left = armed.left - 1
    BY <1>1, <1>4, <2>1
  <2>3. armed' # NULL
    BY <2>2
  <2>4. TypeOK'
    BY <1>1, <1>2, <2>2 DEF IndInv, TypeOK
  <2>5. OneSlotPerTask' /\ PointerLive'
    BY <1>1, <1>4 DEF IndInv, OneSlotPerTask, PointerLive, Active
  <2>6. NoLostWakeup'
    BY <1>1, <1>4, <2>1, <2>2, <2>3 DEF IndInv, NoLostWakeup, Pending, Active
  <2> QED BY <2>4, <2>5, <2>6 DEF IndInv
<1>5. QED
  BY <1>3, <1>4

(* Every step preserves the invariant.                                     *)
LEMMA NextIndInv == IndInv /\ [Next]_vars => IndInv'
<1> SUFFICES ASSUME IndInv, [Next]_vars PROVE IndInv'
  OBVIOUS
<1>1. CASE App_Scheduler_init
  BY <1>1, InitStep
<1>2. CASE Request
  BY <1>2, AddStep, CancelStep DEF Request
<1>3. CASE periodic_work
  BY <1>3, EntrySteps, PerformStep, SelectStep, ReturnStep DEF periodic_work
<1>4. CASE Tick
  BY <1>4, TickStep
<1>5. CASE UNCHANGED vars
  BY <1>5 DEF vars, IndInv, TypeOK, OneSlotPerTask, PointerLive, NoLostWakeup,
              Pending, Active
<1>6. QED
  BY <1>1, <1>2, <1>3, <1>4, <1>5 DEF Next

(* The scheduler keeps its types, one slot per task, a live pointer to the *)
(* selected task and its wakeup, in every reachable state.                 *)
THEOREM SchedulerInvariant == Spec => []IndInv
<1>1. QED
  BY InitIndInv, NextIndInv, PTL DEF Spec

(* No wakeup is lost, whatever the number of tasks and the interleaving.   *)
THEOREM WakeupNeverLost == Spec => []NoLostWakeup
<1>1. IndInv => NoLostWakeup
  BY DEF IndInv
<1>2. QED
  BY <1>1, SchedulerInvariant, PTL

(* A callback never has two slots.                                         *)
THEOREM TaskHasOneSlot == Spec => []OneSlotPerTask
<1>1. IndInv => OneSlotPerTask
  BY DEF IndInv
<1>2. QED
  BY <1>1, SchedulerInvariant, PTL

-----------------------------------------------------------------------------
(* The scheduler implements TaskService.                                   *)

(* The time a task is scheduled at is the one its slot holds.              *)
LEMMA ScheduledAt ==
    ASSUME OneSlotPerTask, NEW f \in Func, NEW i \in Slots, m_tasks[i].func = f
    PROVE  Scheduled[f] = IF m_tasks[i].removed THEN NULL ELSE m_tasks[i].next_ts
<1>1. Active(i)
  BY DEF Active
<1>2. \A j \in Slots : m_tasks[j].func = f => j = i
  BY <1>1 DEF OneSlotPerTask
<1>3. (CHOOSE j \in Slots : m_tasks[j].func = f) = i
  BY <1>2
<1>4. (\E j \in Slots : m_tasks[j].func = f /\ Pending(j)) <=> ~m_tasks[i].removed
  BY <1>1, <1>2 DEF Pending
<1>5. QED
  BY <1>3, <1>4 DEF Scheduled

LEMMA NotScheduled ==
    ASSUME NEW f \in Func, \A i \in Slots : m_tasks[i].func # f \/ m_tasks[i].removed
    PROVE  Scheduled[f] = NULL
  BY DEF Scheduled, Pending

(* A callback whose slot keeps its callback, time and removal mark keeps   *)
(* its scheduled time.                                                     *)
LEMMA SameSlotSameTime ==
    ASSUME TypeOK, TypeOK', OneSlotPerTask, OneSlotPerTask', NEW f \in Func,
           \A i \in Slots :
              /\ m_tasks[i].func = f /\ ~m_tasks[i].removed
                    => m_tasks'[i].func = f /\ ~m_tasks'[i].removed
              /\ m_tasks'[i].func = f /\ ~m_tasks'[i].removed
                    => /\ m_tasks[i].func = f /\ ~m_tasks[i].removed
                       /\ m_tasks'[i].next_ts = m_tasks[i].next_ts
    PROVE  Scheduled'[f] = Scheduled[f]
<1>1. CASE \E i \in Slots : m_tasks[i].func = f /\ ~m_tasks[i].removed
  <2>1. PICK i \in Slots : m_tasks[i].func = f /\ ~m_tasks[i].removed
    BY <1>1
  <2>2. Scheduled[f] = m_tasks[i].next_ts
    BY <2>1, ScheduledAt
  <2>3. Scheduled'[f] = m_tasks'[i].next_ts
    <3>1. m_tasks'[i].func = f /\ ~m_tasks'[i].removed
      BY <2>1
    <3>2. Active(i)'
      BY <3>1 DEF Active
    <3>3. \A j \in Slots : m_tasks'[j].func = f => j = i
      BY <3>1, <3>2 DEF OneSlotPerTask
    <3>4. (CHOOSE j \in Slots : m_tasks'[j].func = f) = i
      BY <3>1, <3>3
    <3> QED BY <3>1, <3>2, <3>4 DEF Scheduled, Pending
  <2> QED BY <2>1, <2>2, <2>3
<1>2. CASE ~\E i \in Slots : m_tasks[i].func = f /\ ~m_tasks[i].removed
  <2>1. Scheduled[f] = NULL
    BY <1>2, NotScheduled
  <2>2. Scheduled'[f] = NULL
    BY <1>2 DEF Scheduled, Pending
  <2> QED BY <2>1, <2>2
<1>3. QED
  BY <1>1, <1>2

LEMMA ScheduledNext ==
    ASSUME OneSlotPerTask', NEW f \in Func, NEW i \in Slots, m_tasks'[i].func = f
    PROVE  Scheduled'[f] = IF m_tasks'[i].removed THEN NULL ELSE m_tasks'[i].next_ts
<1>1. \A j \in Slots : m_tasks'[j].func = f => j = i
  BY DEF OneSlotPerTask, Active
<1>2. (CHOOSE j \in Slots : m_tasks'[j].func = f) = i
  BY <1>1
<1>3. (\E j \in Slots : m_tasks'[j].func = f /\ Pending(j)') <=> ~m_tasks'[i].removed
  BY <1>1 DEF Pending, Active
<1>4. QED
  BY <1>2, <1>3 DEF Scheduled

(* The times scheduled are a function on the callbacks.                    *)
LEMMA ScheduledFcn ==
    ASSUME NEW g \in Func, \A f \in Func \ {g} : Scheduled'[f] = Scheduled[f]
    PROVE  Scheduled' = [Scheduled EXCEPT ![g] = Scheduled'[g]]
<1>1. /\ Scheduled = [f \in Func |-> Scheduled[f]]
      /\ Scheduled' = [f \in Func |-> Scheduled'[f]]
  BY DEF Scheduled
<1>2. QED
  BY <1>1

LEMMA ScheduledSame ==
    ASSUME \A f \in Func : Scheduled'[f] = Scheduled[f]
    PROVE  Scheduled' = Scheduled
<1>1. /\ Scheduled = [f \in Func |-> Scheduled[f]]
      /\ Scheduled' = [f \in Func |-> Scheduled'[f]]
  BY DEF Scheduled
<1>2. QED
  BY <1>1

(* A step that leaves the table, and what is executed, alone is a stutter. *)
LEMMA StutterStep ==
    ASSUME m_tasks' = m_tasks, m_next_task_p' = m_next_task_p,
           \/ pc' = pc
           \/ pc \notin {"perform", "running"} /\ pc' \notin {"perform", "running"}
           \/ pc = "perform" /\ pc' = "running"
    PROVE  UNCHANGED Service!svars
<1>1. Scheduled' = Scheduled
  BY DEF Scheduled, Pending, Active
<1>2. Current' = Current /\ Touched' = Touched
  BY DEF Current, Touched, Untouched
<1>3. QED
  BY <1>1, <1>2 DEF Service!svars

(* An addition is the addition of the service.                             *)
LEMMA AddImplements ==
    ASSUME IndInv, IndInv', NEW cb \in Func, NEW d \in Delays, NEW e \in ExecTimes,
           App_Scheduler_addTask_execTime(cb, d, e)
    PROVE  Service!AddTask(cb)
<1> DEFINE new == [func |-> cb, next_ts |-> get_timestamp(d), exec_time_us |-> e,
                   updated |-> FALSE, removed |-> FALSE]
<1>1. /\ SlotsOf(cb) \cup SlotsOf(NULL) # {}
      /\ add_task_to_table_locked(new)
      /\ m_next_task_p' = m_next_task_p /\ pc' = pc
  BY DEF App_Scheduler_addTask_execTime
<1>2. /\ TypeOK /\ OneSlotPerTask /\ PointerLive
      /\ TypeOK' /\ OneSlotPerTask'
  BY DEF IndInv
<1>3. new \in Tasks /\ new.func = cb /\ ~new.removed /\ new.next_ts \in Timestamps
  BY <1>2, TimestampType DEF TypeOK, Tasks
<1> HIDE DEF new
<1>4. PICK s \in Slots :
         /\ \A i \in Slots \ {s} : m_tasks'[i] = m_tasks[i]
         /\ m_tasks'[s].func = cb
         /\ m_tasks'[s].next_ts = new.next_ts
         /\ ~m_tasks'[s].removed
         /\ \/ m_tasks[s].func = cb /\ m_tasks'[s].updated
            \/ m_tasks[s].func = NULL /\ \A i \in Slots : m_tasks[i].func # cb
  BY <1>1, <1>2, <1>3, AddEffect
<1>5. Scheduled'[cb] \in Timestamps
  BY <1>2, <1>3, <1>4, ScheduledNext
<1>6. ASSUME NEW f \in Func \ {cb} PROVE Scheduled'[f] = Scheduled[f]
  <2>1. \A i \in Slots : \/ m_tasks'[i] = m_tasks[i]
                         \/ m_tasks'[i].func # f /\ m_tasks[i].func # f
    BY <1>4
  <2> QED BY <1>2, <2>1, SameSlotSameTime
<1>7. Scheduled' = [Scheduled EXCEPT ![cb] = Scheduled'[cb]]
  BY <1>6, ScheduledFcn
<1>8. CASE pc \in {"perform", "running"}
  <2>1. m_next_task_p \in Slots /\ Active(m_next_task_p)
    BY <1>2, <1>8 DEF PointerLive, TypeOK
  <2>2. m_tasks'[m_next_task_p].func = m_tasks[m_next_task_p].func
    BY <1>4, <2>1 DEF Active
  <2>3. Current' = Current /\ Current = m_tasks[m_next_task_p].func
    BY <1>1, <1>8, <2>2 DEF Current
  <2>4. CASE m_next_task_p = s
    <3>1. Touched' /\ cb = Current
      BY <1>1, <1>4, <1>8, <2>1, <2>3, <2>4 DEF Touched, Untouched, Active
    <3> QED BY <1>5, <1>7, <2>3, <3>1
            DEF Service!AddTask, Service!Reschedule, Touched
  <2>5. CASE m_next_task_p # s
    <3>1. Touched' = Touched
      BY <1>1, <1>4, <1>8, <2>1, <2>5 DEF Touched, Untouched
    <3>2. cb # Current
      BY <1>2, <1>4, <2>1, <2>3, <2>5 DEF OneSlotPerTask, Active
    <3> QED BY <1>5, <1>7, <2>3, <3>1, <3>2
            DEF Service!AddTask, Service!Reschedule, Touched
  <2> QED BY <2>4, <2>5
<1>9. CASE pc \notin {"perform", "running"}
  <2>1. Current = NULL /\ Current' = NULL /\ Touched = FALSE /\ Touched' = FALSE
    BY <1>1, <1>9 DEF Current, Touched
  <2> QED BY <1>5, <1>7, <2>1 DEF Service!AddTask, Service!Reschedule
<1>10. QED
  BY <1>8, <1>9

(* A cancellation is the cancellation of the service.                      *)
LEMMA CancelImplements ==
    ASSUME IndInv, IndInv', NEW cb \in Func, App_Scheduler_cancelTask(cb)
    PROVE  Service!CancelTask(cb)
<1>1. /\ SlotsOf(cb) # {} /\ remove_task_from_table_locked(cb)
      /\ m_next_task_p' = m_next_task_p /\ pc' = pc
  BY DEF App_Scheduler_cancelTask
<1>2. /\ TypeOK /\ OneSlotPerTask /\ PointerLive
      /\ TypeOK' /\ OneSlotPerTask'
  BY DEF IndInv
<1>3. PICK s \in Slots :
         /\ \A i \in Slots \ {s} : m_tasks'[i] = m_tasks[i]
         /\ m_tasks[s].func = cb
         /\ m_tasks'[s] = [m_tasks[s] EXCEPT !.updated = TRUE, !.removed = TRUE]
  BY <1>1, <1>2, CancelEffect
<1>4. m_tasks[s] \in Tasks
  BY <1>2 DEF TypeOK
<1>5. m_tasks'[s].func = cb /\ m_tasks'[s].removed
  BY <1>3, <1>4 DEF Tasks
<1>6. Scheduled'[cb] = NULL
  BY <1>2, <1>5, ScheduledNext
<1>7. ASSUME NEW f \in Func \ {cb} PROVE Scheduled'[f] = Scheduled[f]
  BY <1>2, <1>3, <1>5, SameSlotSameTime
<1>8. Scheduled' = [Scheduled EXCEPT ![cb] = NULL]
  BY <1>6, <1>7, ScheduledFcn
<1>9. CASE pc \in {"perform", "running"}
  <2>1. m_next_task_p \in Slots /\ Active(m_next_task_p)
    BY <1>2, <1>9 DEF PointerLive, TypeOK
  <2>2. m_tasks'[m_next_task_p].func = m_tasks[m_next_task_p].func
    BY <1>3, <1>5, <2>1
  <2>3. Current' = Current /\ Current = m_tasks[m_next_task_p].func
    BY <1>1, <1>9, <2>2 DEF Current
  <2>4. CASE m_next_task_p = s
    <3>1. Touched' /\ cb = Current
      BY <1>1, <1>3, <1>5, <1>9, <2>3, <2>4 DEF Touched, Untouched
    <3> QED BY <1>8, <2>3, <3>1 DEF Service!CancelTask, Touched
  <2>5. CASE m_next_task_p # s
    <3>1. Touched' = Touched
      BY <1>1, <1>3, <1>9, <2>1, <2>5 DEF Touched, Untouched
    <3>2. cb # Current
      BY <1>2, <1>3, <2>1, <2>3, <2>5 DEF OneSlotPerTask, Active
    <3> QED BY <1>8, <2>3, <3>1, <3>2 DEF Service!CancelTask, Touched
  <2> QED BY <2>4, <2>5
<1>10. CASE pc \notin {"perform", "running"}
  <2>1. Current = NULL /\ Current' = NULL /\ Touched = FALSE /\ Touched' = FALSE
    BY <1>1, <1>10 DEF Current, Touched
  <2> QED BY <1>8, <2>1 DEF Service!CancelTask
<1>11. QED
  BY <1>9, <1>10

(* The return of a task is the completion of the service.                  *)
LEMMA FinishImplements ==
    ASSUME IndInv, IndInv', NEW task \in Tasks, FinishTask(task),
           \/ task.func = NULL
           \/ task.func = m_tasks[m_next_task_p].func /\ ~task.removed
    PROVE  Service!Complete
<1> DEFINE s == m_next_task_p
           g == m_tasks[m_next_task_p].func
<1>1. /\ TypeOK /\ OneSlotPerTask /\ PointerLive
      /\ TypeOK' /\ OneSlotPerTask'
  BY DEF IndInv
<1>2. pc = "running" /\ pc' = "select"
  BY DEF FinishTask
<1>3. s \in Slots /\ Active(s) /\ g \in Func
  BY <1>1, <1>2 DEF TypeOK, PointerLive, Active, Tasks
<1>4. Current = g /\ g # NULL /\ Current' = NULL /\ Touched' = FALSE
  BY <1>2, <1>3 DEF Current, Touched
<1>5. Touched <=> ~Untouched(m_tasks[s])
  BY <1>2 DEF Touched
<1>6. CASE Touched
  <2>1. m_tasks' = m_tasks
    BY <1>5, <1>6 DEF FinishTask
  <2>2. Scheduled' = Scheduled
    BY <2>1 DEF Scheduled, Pending, Active
  <2> QED BY <1>4, <1>6, <2>2 DEF Service!Complete
<1>7. CASE ~Touched
  <2>1. m_tasks' = [m_tasks EXCEPT ![s] = task]
    BY <1>5, <1>7 DEF FinishTask
  <2>2. m_tasks'[s] = task /\ \A i \in Slots \ {s} : m_tasks'[i] = m_tasks[i]
    BY <1>1, <1>3, <2>1 DEF TypeOK
  <2>3. \A i \in Slots : m_tasks[i].func = g => i = s
    BY <1>1, <1>3 DEF OneSlotPerTask, Active
  <2>4. Scheduled'[g] \in Timestamps \cup {NULL}
    <3>1. CASE task.func = NULL
      <4>1. \A i \in Slots : m_tasks'[i].func # g
        BY <1>4, <2>2, <2>3, <3>1
      <4> QED BY <1>3, <4>1 DEF Scheduled
    <3>2. CASE task.func = g /\ ~task.removed
      <4>1. Scheduled'[g] = task.next_ts
        BY <1>1, <1>3, <2>2, <3>2, ScheduledNext
      <4> QED BY <4>1 DEF Tasks
    <3> QED BY <3>1, <3>2
  <2>5. ASSUME NEW f \in Func \ {g} PROVE Scheduled'[f] = Scheduled[f]
    <3>1. \A i \in Slots : \/ m_tasks'[i] = m_tasks[i]
                           \/ m_tasks'[i].func # f /\ m_tasks[i].func # f
      BY <1>3, <2>2
    <3> QED BY <1>1, <3>1, SameSlotSameTime
  <2>6. Scheduled' = [Scheduled EXCEPT ![g] = Scheduled'[g]]
    BY <1>3, <2>5, ScheduledFcn
  <2> QED BY <1>4, <1>7, <2>4, <2>6 DEF Service!Complete, Service!Reschedule
<1>8. QED
  BY <1>6, <1>7

LEMMA PerformImplements ==
    ASSUME IndInv, IndInv',
           perform_task_stop \/ \E next \in Delays : perform_task_again(next)
    PROVE  Service!Complete
<1>1. m_next_task_p \in Slots /\ now \in Nat /\ m_tasks[m_next_task_p] \in Tasks
  BY DEF IndInv, TypeOK, PointerLive, perform_task_stop, perform_task_again, FinishTask
<1>2. CASE perform_task_stop
  <2>1. /\ [m_tasks[m_next_task_p] EXCEPT !.func = NULL] \in Tasks
        /\ [m_tasks[m_next_task_p] EXCEPT !.func = NULL].func = NULL
    BY <1>1 DEF Tasks
  <2> QED BY <1>2, <2>1, FinishImplements DEF perform_task_stop
<1>3. ASSUME NEW next \in Delays, perform_task_again(next)
      PROVE  Service!Complete
  <2> DEFINE task == [m_tasks[m_next_task_p] EXCEPT !.next_ts = get_timestamp(next)]
  <2>1. get_timestamp(next) \in Timestamps
    BY <1>1, TimestampType
  <2>2. /\ task \in Tasks
        /\ task.func = m_tasks[m_next_task_p].func
        /\ task.removed = m_tasks[m_next_task_p].removed
    BY <1>1, <2>1 DEF Tasks
  <2>3. FinishTask(task)
    BY <1>3 DEF perform_task_again
  <2> HIDE DEF task
  <2>4. CASE Untouched(m_tasks[m_next_task_p])
    BY <2>2, <2>3, <2>4, FinishImplements DEF Untouched
  <2>5. CASE ~Untouched(m_tasks[m_next_task_p])
    <3>1. FinishTask([m_tasks[m_next_task_p] EXCEPT !.func = NULL])
      BY <2>3, <2>5 DEF FinishTask
    <3>2. /\ [m_tasks[m_next_task_p] EXCEPT !.func = NULL] \in Tasks
          /\ [m_tasks[m_next_task_p] EXCEPT !.func = NULL].func = NULL
      BY <1>1 DEF Tasks
    <3> QED BY <3>1, <3>2, FinishImplements
  <2> QED BY <2>4, <2>5
<1>4. QED
  BY <1>2, <1>3

(* A task that passes the tests of periodic_work() is taken up.            *)
LEMMA TestImplements ==
    ASSUME IndInv, TestReady
    PROVE  \/ \E f \in Func : Service!TakeUp(f)
           \/ UNCHANGED Service!svars
<1>1. TypeOK /\ OneSlotPerTask /\ PointerLive
  BY DEF IndInv
<1>2. m_next_task_p \in Slots /\ Active(m_next_task_p) /\ pc = "test"
  BY <1>1 DEF TestReady, TypeOK, PointerLive
<1>3. m_tasks' = m_tasks /\ m_next_task_p' = m_next_task_p
  BY DEF TestReady, table
<1>4. CASE pc' = "select"
  BY <1>2, <1>3, <1>4, StutterStep
<1>5. CASE pc' = "perform" /\ ~m_tasks[m_next_task_p].removed
  <2> DEFINE f == m_tasks[m_next_task_p].func
  <2>1. f \in Func /\ m_tasks[m_next_task_p].next_ts \in Timestamps
    BY <1>1, <1>2 DEF TypeOK, Tasks, Active
  <2>2. Scheduled[f] # NULL
    BY <1>1, <1>2, <1>5, <2>1, ScheduledAt DEF Timestamps
  <2>3. Scheduled' = Scheduled
    BY <1>3 DEF Scheduled, Pending, Active
  <2>4. Current = NULL /\ Current' = f /\ Touched' \in BOOLEAN
    BY <1>2, <1>3, <1>5 DEF Current, Touched
  <2> QED BY <2>1, <2>2, <2>3, <2>4 DEF Service!TakeUp
<1>6. QED
  BY <1>4, <1>5 DEF TestReady

(* Cleaning the table changes no scheduled time.                           *)
LEMMA SelectImplements ==
    ASSUME IndInv, IndInv', SelectNext
    PROVE  UNCHANGED Service!svars
<1>1. TypeOK /\ OneSlotPerTask /\ TypeOK' /\ OneSlotPerTask'
  BY DEF IndInv
<1>2. PICK next \in Slots \cup {NULL} :
         \/ next = NULL /\ m_tasks' = cleaned
         \/ next # NULL /\ m_tasks' = [cleaned EXCEPT ![next].updated = FALSE]
  BY DEF SelectNext, Reselect
<1>3. \A i \in Slots : cleaned[i] = IF Pending(i) THEN m_tasks[i] ELSE FreeSlot
  BY DEF cleaned
<1>4. \A i \in Slots : cleaned[i] \in Tasks
  <2>1. FreeSlot \in Tasks
    BY DEF FreeSlot, Tasks, Timestamps
  <2> QED BY <1>1, <1>3, <2>1 DEF TypeOK
<1>5. \A i \in Slots : /\ m_tasks'[i].func = cleaned[i].func
                       /\ m_tasks'[i].removed = cleaned[i].removed
                       /\ m_tasks'[i].next_ts = cleaned[i].next_ts
  <2>1. CASE next = NULL
    BY <1>2, <2>1
  <2>2. CASE next # NULL
    <3>1. m_tasks' = [cleaned EXCEPT ![next] = [cleaned[next] EXCEPT !.updated = FALSE]]
      BY <1>2, <2>2
    <3>2. next \in Slots /\ cleaned[next] \in Tasks
      BY <1>4, <2>2
    <3>3. /\ m_tasks'[next] = [cleaned[next] EXCEPT !.updated = FALSE]
          /\ \A i \in Slots \ {next} : m_tasks'[i] = cleaned[i]
      BY <3>1, <3>2 DEF cleaned
    <3>4. /\ m_tasks'[next].func = cleaned[next].func
          /\ m_tasks'[next].removed = cleaned[next].removed
          /\ m_tasks'[next].next_ts = cleaned[next].next_ts
      BY <3>2, <3>3 DEF Tasks
    <3> QED BY <3>3, <3>4
  <2> QED BY <2>1, <2>2
<1>6. ASSUME NEW f \in Func PROVE Scheduled'[f] = Scheduled[f]
  <2>1. \A i \in Slots :
           /\ m_tasks[i].func = f /\ ~m_tasks[i].removed
                => m_tasks'[i].func = f /\ ~m_tasks'[i].removed
           /\ m_tasks'[i].func = f /\ ~m_tasks'[i].removed
                => /\ m_tasks[i].func = f /\ ~m_tasks[i].removed
                   /\ m_tasks'[i].next_ts = m_tasks[i].next_ts
    BY <1>3, <1>5 DEF Pending, Active, FreeSlot
  <2> QED BY <1>1, <2>1, SameSlotSameTime
<1>7. Scheduled' = Scheduled
  BY <1>6, ScheduledSame
<1>8. pc = "select" /\ pc' = "exit"
  BY DEF SelectNext, Reselect
<1>9. QED
  BY <1>7, <1>8 DEF Service!svars, Current, Touched

(* Before the scheduler is initialised its table is empty.                 *)
LEMMA InitImplements ==
    ASSUME IndInv, App_Scheduler_init
    PROVE  UNCHANGED Service!svars
<1>1. pc = "idle" /\ pc' = "idle" /\ \A i \in Slots : ~Active(i)
  BY DEF IndInv, PointerLive, NoLostWakeup, App_Scheduler_init
<1>2. \A i \in Slots : ~Active(i)'
  BY DEF IndInv, TypeOK, Tasks, Active, App_Scheduler_init
<1>3. Scheduled' = Scheduled
  BY <1>1, <1>2 DEF Scheduled, Pending
<1>4. QED
  BY <1>1, <1>3 DEF Service!svars, Current, Touched

(* Every step of the scheduler is a step of the service or a stutter.      *)
LEMMA NextImplements ==
    ASSUME IndInv, IndInv', [Next]_vars
    PROVE  [Service!ServiceNext]_(Service!svars)
<1>1. CASE App_Scheduler_init
  BY <1>1, InitImplements
<1>2. CASE Request
  BY <1>2, AddImplements, CancelImplements DEF Request, Service!ServiceNext
<1>3. CASE Fire \/ CheckForce \/ ReadKind \/ Return \/ Tick
  <2>1. m_tasks' = m_tasks /\ m_next_task_p' = m_next_task_p
    BY <1>3 DEF Fire, CheckForce, ReadKind, Return, Tick, table
  <2>2. \/ pc' = pc
        \/ pc \notin {"perform", "running"} /\ pc' \notin {"perform", "running"}
    BY <1>3 DEF Fire, CheckForce, ReadKind, Return, Tick
  <2> QED BY <2>1, <2>2, StutterStep
<1>4. CASE TestReady
  BY <1>4, TestImplements DEF Service!ServiceNext
<1>5. CASE StartTask
  <2>1. pc = "perform" /\ m_next_task_p # NULL
    BY <1>5 DEF StartTask, IndInv, PointerLive
  <2>2. Active(m_next_task_p)
    BY <2>1 DEF IndInv, PointerLive
  <2>3. m_tasks' = m_tasks /\ m_next_task_p' = m_next_task_p /\ pc' = "running"
    BY <1>5, <2>2 DEF StartTask, table
  <2> QED BY <2>1, <2>3, StutterStep
<1>6. CASE perform_task_stop \/ \E next \in Delays : perform_task_again(next)
  BY <1>6, PerformImplements DEF Service!ServiceNext
<1>7. CASE SelectNext
  BY <1>7, SelectImplements
<1>8. CASE UNCHANGED vars
  BY <1>8, StutterStep DEF vars
<1>9. QED
  BY <1>1, <1>2, <1>3, <1>4, <1>5, <1>6, <1>7, <1>8 DEF Next, periodic_work

(* The scheduler implements the service of app_scheduler.h.                *)
THEOREM SchedulerImplementsService == Spec => ImplementsService
<1>1. Init => Service!ServiceInit
  <2> SUFFICES ASSUME Init PROVE Service!ServiceInit
    OBVIOUS
  <2>1. \A i \in Slots : m_tasks[i].func = NULL
    BY DEF Init, FreeSlot
  <2>2. Scheduled = [f \in Func |-> NULL]
    BY <2>1 DEF Scheduled
  <2>3. Current = NULL /\ Touched = FALSE
    BY DEF Init, Current, Touched
  <2> QED BY <2>2, <2>3 DEF Service!ServiceInit
<1>2. IndInv /\ IndInv' /\ [Next]_vars => [Service!ServiceNext]_(Service!svars)
  BY NextImplements
<1>3. QED
  BY <1>1, <1>2, SchedulerInvariant, PTL DEF Spec, ImplementsService, Service!ServiceSpec

-----------------------------------------------------------------------------
(* Time.                                                                   *)
(*                                                                         *)
(* A timestamp is read as a distance from the clock it is kept in, between *)
(* minus half and half of its modulus.                                     *)
Signed(d, w) == LET r == d % w IN IF 2 * r < w THEN r ELSE r - w

Wrap(hp) == IF hp THEN HpWrap ELSE CoarseWrap
HpAt(n) == n % HpWrap
CoarseAt(n) == (n \div CoarseTick) % CoarseWrap
ClockAt(n, hp) == IF hp THEN HpAt(n) ELSE CoarseAt(n)
Distance(n, ts) == Signed(ts.t - ClockAt(n, ts.is_hp), Wrap(ts.is_hp))

\* The time left until a timestamp, at time n
Due(n, ts) ==
    IF ts.is_hp THEN Distance(n, ts)
    ELSE CoarseTick * Distance(n, ts) - (n % CoarseTick)
Left(n, ts) == IF Due(n, ts) > 0 THEN Due(n, ts) ELSE 0

Ticks(ms) == (ms + CoarseTick - 1) \div CoarseTick
Ageing(hp) == IF hp THEN MaxAge ELSE Ticks(MaxAge)

(***************************************************************************)
(* The conditions of the theorems on time.  The delays that are asked for, *)
(* and the range of the callback, stay with the age of a timestamp that is *)
(* not yet served below half a turn of the clock, so that the circular     *)
(* comparisons are comparisons of times.                                   *)
(***************************************************************************)
DelaysCompare ==
    \A d \in Delays :
        IF d < MaxTime THEN 2 * (d + MaxAge) < HpWrap
        ELSE 2 * (Ticks(d) + Ticks(MaxAge)) < CoarseWrap

RangeCompares == 2 * (Ticks(MaxTime) + Ticks(MaxAge)) < CoarseWrap

\* Every delay is below the range of the callback.
DelaysPrecise == (\A d \in Delays : d < MaxTime) /\ 2 * Ticks(MaxTime) < CoarseWrap

(***************************************************************************)
(* The invariants.  Every pending task compares with the clock.            *)
(***************************************************************************)
Near(n, ts) ==
    /\ -Ageing(ts.is_hp) <= Distance(n, ts)
    /\ 2 * (Distance(n, ts) + Ageing(ts.is_hp)) < Wrap(ts.is_hp)
    /\ 2 * Ageing(ts.is_hp) < Wrap(ts.is_hp)

AllNear ==
    /\ now < ClockWrap
    /\ \A i \in Slots : Pending(i) => Near(now, m_tasks[i].next_ts)

\* A task about to run was tested with the timestamp it still has, and has
\* come due.
TestedDue ==
    /\ pc = "test" /\ Untouched(m_tasks[m_next_task_p])
          => is_hp = m_tasks[m_next_task_p].next_ts.is_hp
    /\ pc = "perform" /\ Untouched(m_tasks[m_next_task_p])
          => Distance(now, m_tasks[m_next_task_p].next_ts) <= 0

\* The callback comes in time for every task, and not a unit late for a
\* selected task with a precise timestamp.
ArmedInTime ==
    pc \in {"idle", "exit"} =>
        /\ \A i \in Slots : Pending(i) =>
              armed # NULL /\ armed.left < Left(now, m_tasks[i].next_ts) + CoarseTick
        /\ (/\ ~m_force_reschedule /\ m_next_task_p # NULL
            /\ Pending(m_next_task_p) /\ m_tasks[m_next_task_p].next_ts.is_hp)
              => armed.left <= Left(now, m_tasks[m_next_task_p].next_ts)

\* With precise delays, every task is within the range of the callback, and
\* the execution time of the selected one was asked from the stack.
InRange(n, ts) == ts.is_hp /\ Distance(n, ts) < MaxTime /\ 0 < MaxTime
AllInRange == \A i \in Slots : Pending(i) => InRange(now, m_tasks[i].next_ts)

Enough(exec) == exec >= m_tasks[m_next_task_p].exec_time_us + SchedExec
TimeReserved ==
    m_next_task_p # NULL =>
        /\ pc \in {"idle", "exit"} /\ ~m_force_reschedule
              => armed # NULL /\ Enough(armed.exec)
        /\ pc = "check" /\ ~m_force_reschedule => Enough(granted)
        /\ pc \in {"read", "test", "perform", "running"} => Enough(granted)

-----------------------------------------------------------------------------
(* Arithmetic of the clocks.                                               *)

LEMMA SameMultiple ==
    ASSUME NEW w \in Nat \ {0}, NEW p \in Int, NEW q \in Int,
           -w < w * (q - p), w * (q - p) < w
    PROVE  p = q
<1>1. CASE q - p >= 1
  <2>1. w * (q - p) >= w
    BY <1>1
  <2>2. QED
    BY <2>1
<1>2. CASE p - q >= 1
  <2>1. w * (p - q) >= w /\ w * (q - p) = -(w * (p - q))
    BY <1>2
  <2>2. QED
    BY <2>1
<1>3. QED
  BY <1>1, <1>2

(* The remainder and the quotient of a division are the only ones.         *)
LEMMA DivisionUnique ==
    ASSUME NEW w \in Nat \ {0}, NEW a \in Int, NEW q \in Int, NEW r \in 0 .. w - 1,
           a = w * q + r
    PROVE  a % w = r /\ a \div w = q
<1> DEFINE p == a \div w
           t == a % w
<1>1. p \in Int /\ t \in 0 .. w - 1 /\ a = w * p + t
  OBVIOUS
<1> HIDE DEF p, t
<1>2. w * (q - p) = t - r
  BY <1>1
<1>3. -w < t - r /\ t - r < w
  BY <1>1
<1>4. p = q
  BY <1>1, <1>2, <1>3, SameMultiple
<1>5. t = r
  BY <1>1, <1>4
<1>6. QED
  BY <1>4, <1>5 DEF t, p

(* The signed distance differs from the distance by turns of the clock.    *)
LEMMA SignedIs ==
    ASSUME NEW w \in Nat \ {0}, NEW d \in Int
    PROVE  /\ Signed(d, w) \in Int
           /\ -w <= 2 * Signed(d, w) /\ 2 * Signed(d, w) < w
           /\ Signed(d, w) < 0 <=> 2 * (d % w) >= w
           /\ Signed(d, w) >= 0 => Signed(d, w) = d % w
           /\ \E k \in Int : d = w * k + Signed(d, w)
<1> DEFINE q == d \div w
           r == d % w
<1>1. q \in Int /\ r \in 0 .. w - 1 /\ d = w * q + r
  OBVIOUS
<1>2. Signed(d, w) = IF 2 * r < w THEN r ELSE r - w
  BY DEF Signed
<1> HIDE DEF q, r
<1>3. CASE 2 * r < w
  <2>1. Signed(d, w) = r
    BY <1>2, <1>3
  <2>2. QED
    BY <1>1, <1>3, <2>1 DEF r
<1>4. CASE ~(2 * r < w)
  <2>1. Signed(d, w) = r - w
    BY <1>2, <1>4
  <2>2. d = w * (q + 1) + (r - w) /\ q + 1 \in Int
    BY <1>1
  <2>3. \E k \in Int : d = w * k + Signed(d, w)
    BY <2>1, <2>2
  <2>4. -w <= 2 * (r - w) /\ 2 * (r - w) < w /\ r - w < 0 /\ r - w \in Int
    BY <1>1, <1>4
  <2>5. 2 * (d % w) >= w
    BY <1>1, <1>4 DEF r
  <2>6. /\ Signed(d, w) \in Int /\ -w <= 2 * Signed(d, w) /\ 2 * Signed(d, w) < w
        /\ Signed(d, w) < 0 /\ ~(Signed(d, w) >= 0)
    BY <2>1, <2>4
  <2>7. QED
    BY <2>3, <2>5, <2>6, Zenon
<1>5. QED
  BY <1>3, <1>4

(* and is the only one within half a turn.                                 *)
LEMMA SignedUnique ==
    ASSUME NEW w \in Nat \ {0}, NEW d \in Int, NEW k \in Int, NEW s \in Int,
           d = w * k + s, -w <= 2 * s, 2 * s < w
    PROVE  Signed(d, w) = s
<1> DEFINE g == Signed(d, w)
<1>1. g \in Int /\ -w <= 2 * g /\ 2 * g < w
  BY SignedIs
<1>2. PICK j \in Int : d = w * j + g
  BY SignedIs
<1> HIDE DEF g
<1>3. w * (k - j) = g - s
  BY <1>2, <1>1
<1>4. -w < g - s /\ g - s < w
  BY <1>1
<1>5. j = k
  BY <1>3, <1>4, SameMultiple
<1>6. g = s
  BY <1>1, <1>2, <1>5
<1>7. QED
  BY <1>6 DEF g

(* The other way round the clock: the time since, when it is passed.       *)
LEMMA SignedPast ==
    ASSUME NEW w \in Nat \ {0}, NEW a \in Int, NEW b \in Int, Signed(a - b, w) < 0
    PROVE  (b - a) % w = -Signed(a - b, w)
<1> DEFINE s == Signed(a - b, w)
<1>1. a - b \in Int
  OBVIOUS
<1>2. s \in Int /\ -w <= 2 * s /\ s < 0
  BY <1>1, SignedIs
<1>3. PICK k \in Int : a - b = w * k + s
  BY <1>1, SignedIs
<1> HIDE DEF s
<1>4. b - a = w * (-k) + (-s) /\ -k \in Int /\ -s \in 0 .. w - 1 /\ b - a \in Int
  BY <1>2, <1>3
<1>5. (b - a) % w = -s
  BY <1>4, DivisionUnique
<1>6. QED
  BY <1>5 DEF s

(* A clock that advances by one, modulo its turns, brings everything ahead *)
(* of it nearer by one.                                                    *)
LEMMA SignedAdvance ==
    ASSUME NEW w \in Nat \ {0}, NEW d \in Int, NEW e \in Int,
           \E k \in Int : e = (d - 1) + w * k,
           -w <= 2 * (Signed(d, w) - 1)
    PROVE  Signed(e, w) = Signed(d, w) - 1
<1> DEFINE s == Signed(d, w)
<1>1. PICK k \in Int : e = (d - 1) + w * k
  OBVIOUS
<1>2. s \in Int /\ 2 * s < w /\ -w <= 2 * (s - 1)
  BY SignedIs
<1>3. PICK j \in Int : d = w * j + s
  BY SignedIs
<1> HIDE DEF s
<1>4. e = w * (j + k) + (s - 1)
  BY <1>1, <1>2, <1>3
<1>5. j + k \in Int /\ s - 1 \in Int /\ 2 * (s - 1) < w
  BY <1>2
<1>6. Signed(e, w) = s - 1
  BY <1>2, <1>4, <1>5, SignedUnique, Zenon
<1>7. QED
  BY <1>6 DEF s

(* Two times that are near the same clock compare as their distances.      *)
LEMMA SignedDifference ==
    ASSUME NEW w \in Nat \ {0}, NEW d \in Int, NEW e \in Int,
           -w < 2 * (Signed(d, w) - Signed(e, w)),
           2 * (Signed(d, w) - Signed(e, w)) < w
    PROVE  Signed(d - e, w) = Signed(d, w) - Signed(e, w)
<1> DEFINE s == Signed(d, w)
           t == Signed(e, w)
<1>1. d - e \in Int
  OBVIOUS
<1>2. s \in Int /\ t \in Int /\ -w <= 2 * (s - t) /\ 2 * (s - t) < w
  <2>1. s \in Int /\ t \in Int
    BY SignedIs
  <2> QED BY <2>1
<1>3. PICK j \in Int : d = w * j + s
  BY SignedIs
<1>4. PICK k \in Int : e = w * k + t
  BY SignedIs
<1> HIDE DEF s, t
<1>5. d - e = w * (j - k) + (s - t)
  BY <1>2, <1>3, <1>4
<1>6. j - k \in Int /\ s - t \in Int
  BY <1>2
<1>7. Signed(d - e, w) = s - t
  BY <1>1, <1>2, <1>5, <1>6, SignedUnique, Zenon
<1>8. QED
  BY <1>7 DEF s, t

(* A time ahead of the clock by less than half a turn.                     *)
LEMMA SignedAhead ==
    ASSUME NEW w \in Nat \ {0}, NEW c \in Int, NEW d \in Nat, 2 * d < w
    PROVE  Signed(((c + d) % w) - c, w) = d
<1> DEFINE q == (c + d) \div w
           r == (c + d) % w
<1>1. q \in Int /\ r \in Int /\ c + d = w * q + r
  OBVIOUS
<1> HIDE DEF q, r
<1>2. r - c = w * (-q) + d /\ -q \in Int /\ r - c \in Int /\ d \in Int /\ -w <= 2 * d
  BY <1>1
<1>3. Signed(r - c, w) = d
  BY <1>2, SignedUnique, Zenon
<1>4. QED
  BY <1>3 DEF r

(* Rounding up to coarse ticks.                                            *)
LEMMA TicksBounds ==
    ASSUME NEW ms \in Nat
    PROVE  Ticks(ms) \in Nat /\ ms <= CoarseTick * Ticks(ms)
<1> DEFINE a == ms + CoarseTick - 1
           q == a \div CoarseTick
           r == a % CoarseTick
<1>1. a \in Nat /\ q \in Nat /\ r \in 0 .. CoarseTick - 1 /\ a = CoarseTick * q + r
  OBVIOUS
<1>2. Ticks(ms) = q
  BY DEF Ticks
<1> HIDE DEF q, r
<1>3. ms <= CoarseTick * q
  BY <1>1
<1>4. QED
  BY <1>1, <1>2, <1>3

-----------------------------------------------------------------------------
(* The clocks of the model.                                                *)

LEMMA ClocksType ==
    ASSUME NEW n \in Nat
    PROVE  HpAt(n) \in Nat /\ CoarseAt(n) \in Nat
<1>1. \A a \in Int : a % HpWrap \in Nat /\ a % CoarseWrap \in Nat
  OBVIOUS
<1>2. n \div CoarseTick \in Int
  OBVIOUS
<1>3. QED
  BY <1>1, <1>2 DEF HpAt, CoarseAt

LEMMA ClockType ==
    ASSUME NEW n \in Nat, NEW hp \in BOOLEAN
    PROVE  /\ Wrap(hp) \in Nat \ {0} /\ ClockAt(n, hp) \in Nat
           /\ Ageing(hp) \in Nat
           /\ ClockWrap \in Nat \ {0}
<1>1. ClockWrap \in Nat \ {0}
  BY DEF ClockWrap
<1>2. Ageing(hp) \in Nat
  BY TicksBounds DEF Ageing
<1>3. QED
  BY <1>1, <1>2, ClocksType DEF Wrap, ClockAt

LEMMA DistanceType ==
    ASSUME NEW n \in Nat, NEW ts \in Timestamps
    PROVE  /\ Distance(n, ts) \in Int
           /\ -Wrap(ts.is_hp) <= 2 * Distance(n, ts)
           /\ Due(n, ts) \in Int /\ Left(n, ts) \in Nat
           /\ ts.is_hp \in BOOLEAN /\ ts.t \in Nat
<1>1. ts.is_hp \in BOOLEAN /\ ts.t \in Nat
  BY DEF Timestamps
<1>2. Wrap(ts.is_hp) \in Nat \ {0} /\ ts.t - ClockAt(n, ts.is_hp) \in Int
  BY <1>1, ClockType
<1>3. Distance(n, ts) \in Int /\ -Wrap(ts.is_hp) <= 2 * Distance(n, ts)
  BY <1>2, SignedIs DEF Distance
<1>4. n % CoarseTick \in Int
  OBVIOUS
<1>5. Due(n, ts) \in Int
  BY <1>3, <1>4 DEF Due
<1>6. QED
  BY <1>1, <1>3, <1>5 DEF Left

(* get_delay_from_now_us() and Age() are the two halves of the distance.   *)
LEMMA DelayIs ==
    ASSUME now \in Nat, NEW ts \in Timestamps
    PROVE  get_delay_from_now_us(ts) =
              IF Distance(now, ts) < 0 THEN 0
              ELSE IF ts.is_hp THEN Distance(now, ts)
              ELSE CoarseTick * Distance(now, ts)
<1>1. ts.is_hp \in BOOLEAN /\ ts.t \in Nat
  BY DEF Timestamps
<1>2. CASE ts.is_hp
  <2> DEFINE d == ts.t - getTimestampHp
  <2>1. /\ ClockAt(now, ts.is_hp) = getTimestampHp /\ Wrap(ts.is_hp) = HpWrap
        /\ getTimestampHp = HpAt(now)
    BY <1>2 DEF ClockAt, HpAt, Wrap, getTimestampHp
  <2>2. Distance(now, ts) = Signed(d, HpWrap)
    BY <2>1 DEF Distance
  <2>3. d \in Int
    BY <1>1, <2>1, ClocksType
  <2>4. get_delay_from_now_us(ts) = IF 2 * (d % HpWrap) >= HpWrap THEN 0 ELSE d % HpWrap
    BY <1>2 DEF get_delay_from_now_us, isHpTimestampBefore, getTimeDiffUs
  <2> HIDE DEF d
  <2>5. /\ Signed(d, HpWrap) \in Int
        /\ Signed(d, HpWrap) < 0 <=> 2 * (d % HpWrap) >= HpWrap
        /\ Signed(d, HpWrap) >= 0 => Signed(d, HpWrap) = d % HpWrap
    BY <2>3, SignedIs
  <2> QED BY <1>2, <2>2, <2>4, <2>5
<1>3. CASE ~ts.is_hp
  <2> DEFINE d == ts.t - getTimestampCoarse
  <2>1. /\ ClockAt(now, ts.is_hp) = getTimestampCoarse /\ Wrap(ts.is_hp) = CoarseWrap
        /\ getTimestampCoarse = CoarseAt(now)
    BY <1>3 DEF ClockAt, CoarseAt, Wrap, getTimestampCoarse
  <2>2. Distance(now, ts) = Signed(d, CoarseWrap)
    BY <2>1 DEF Distance
  <2>3. d \in Int
    BY <1>1, <2>1, ClocksType
  <2>4. get_delay_from_now_us(ts) =
            IF 2 * (d % CoarseWrap) >= CoarseWrap THEN 0 ELSE CoarseTick * (d % CoarseWrap)
    BY <1>3 DEF get_delay_from_now_us, Util_isLtUint32
  <2> HIDE DEF d
  <2>5. /\ Signed(d, CoarseWrap) \in Int
        /\ Signed(d, CoarseWrap) < 0 <=> 2 * (d % CoarseWrap) >= CoarseWrap
        /\ Signed(d, CoarseWrap) >= 0 => Signed(d, CoarseWrap) = d % CoarseWrap
    BY <2>3, SignedIs
  <2> QED BY <1>3, <2>2, <2>4, <2>5
<1>4. QED
  BY <1>1, <1>2, <1>3

LEMMA AgeIs ==
    ASSUME now \in Nat, NEW ts \in Timestamps
    PROVE  Age(ts) = IF Distance(now, ts) >= 0 THEN 0
                     ELSE IF ts.is_hp THEN -Distance(now, ts)
                     ELSE CoarseTick * (-Distance(now, ts))
<1>1. ts.is_hp \in BOOLEAN /\ ts.t \in Nat /\ Distance(now, ts) \in Int
  BY DistanceType
<1>2. CASE ts.is_hp
  <2>1. /\ ClockAt(now, ts.is_hp) = getTimestampHp /\ Wrap(ts.is_hp) = HpWrap
        /\ getTimestampHp = HpAt(now)
    BY <1>2 DEF ClockAt, HpAt, Wrap, getTimestampHp
  <2>2. Distance(now, ts) = Signed(ts.t - getTimestampHp, HpWrap)
    BY <2>1 DEF Distance
  <2>3. getTimestampHp \in Int /\ ts.t \in Int /\ ts.t - getTimestampHp \in Int
    BY <1>1, <2>1, ClocksType
  <2>4. Distance(now, ts) < 0 <=> isHpTimestampBefore(ts.t, getTimestampHp)
    BY <2>2, <2>3, SignedIs DEF isHpTimestampBefore
  <2>5. CASE Distance(now, ts) < 0
    <3>1. getTimeDiffUs(ts.t, getTimestampHp) = -Distance(now, ts)
      BY <2>2, <2>3, <2>5, SignedPast DEF getTimeDiffUs
    <3>2. Age(ts) = getTimeDiffUs(ts.t, getTimestampHp)
      BY <1>2, <2>4, <2>5 DEF Age
    <3> QED BY <1>1, <1>2, <2>5, <3>1, <3>2
  <2>6. CASE ~(Distance(now, ts) < 0)
    <3>1. Age(ts) = 0
      BY <1>2, <2>4, <2>6 DEF Age
    <3> QED BY <1>1, <2>6, <3>1
  <2> QED BY <2>5, <2>6
<1>3. CASE ~ts.is_hp
  <2>1. /\ ClockAt(now, ts.is_hp) = getTimestampCoarse /\ Wrap(ts.is_hp) = CoarseWrap
        /\ getTimestampCoarse = CoarseAt(now)
    BY <1>3 DEF ClockAt, CoarseAt, Wrap, getTimestampCoarse
  <2>2. Distance(now, ts) = Signed(ts.t - getTimestampCoarse, CoarseWrap)
    BY <2>1 DEF Distance
  <2>3. getTimestampCoarse \in Int /\ ts.t \in Int /\ ts.t - getTimestampCoarse \in Int
    BY <1>1, <2>1, ClocksType
  <2>4. Distance(now, ts) < 0 <=> Util_isLtUint32(ts.t, getTimestampCoarse)
    BY <2>2, <2>3, SignedIs DEF Util_isLtUint32
  <2>5. CASE Distance(now, ts) < 0
    <3>1. (getTimestampCoarse - ts.t) % CoarseWrap = -Distance(now, ts)
      BY <2>2, <2>3, <2>5, SignedPast
    <3>2. Age(ts) = CoarseTick * ((getTimestampCoarse - ts.t) % CoarseWrap)
      BY <1>3, <2>4, <2>5 DEF Age
    <3> QED BY <1>1, <1>3, <2>5, <3>1, <3>2
  <2>6. CASE ~(Distance(now, ts) < 0)
    <3>1. Age(ts) = 0
      BY <1>3, <2>4, <2>6 DEF Age
    <3> QED BY <1>1, <2>6, <3>1
  <2> QED BY <2>5, <2>6
<1>4. QED
  BY <1>1, <1>2, <1>3

(* One unit of time later, the precise clock has advanced by one.          *)
LEMMA HpAdvances ==
    ASSUME NEW n \in Nat, NEW m, m = (n + 1) % ClockWrap
    PROVE  \E k \in Int : HpAt(m) = (HpAt(n) + 1) + HpWrap * k
<1> DEFINE p == (n + 1) \div ClockWrap
           a == m \div HpWrap
           b == n \div HpWrap
           c == ClockWrap \div HpWrap
           x == HpAt(m)
           y == HpAt(n)
<1>1. ClockWrap \in Nat \ {0} /\ ClockWrap % HpWrap = 0
  BY DEF ClockWrap
<1>2. p \in Int /\ m \in Int /\ n + 1 = ClockWrap * p + m
  BY <1>1
<1>3. a \in Int /\ x \in Int /\ m = HpWrap * a + x
  BY <1>2 DEF HpAt
<1>4. b \in Int /\ y \in Int /\ n = HpWrap * b + y
  BY DEF HpAt
<1>5. c \in Int /\ ClockWrap = HpWrap * c
  BY <1>1
<1> HIDE DEF p, a, b, c, x, y
<1> DEFINE e == c * p
<1>6. e \in Int /\ ClockWrap * p = HpWrap * e
  BY <1>2, <1>5
<1> HIDE DEF e
<1>7. x = (y + 1) + HpWrap * b - HpWrap * e - HpWrap * a
  BY <1>2, <1>3, <1>4, <1>6
<1>8. HpWrap * b - HpWrap * e - HpWrap * a = HpWrap * (b - e - a)
  BY <1>3, <1>4, <1>6
<1>9. x = (y + 1) + HpWrap * (b - e - a) /\ b - e - a \in Int
  BY <1>3, <1>4, <1>6, <1>7, <1>8
<1>10. QED
  BY <1>9 DEF x, y

LEMMA SmallRemainder ==
    ASSUME NEW w \in Nat \ {0}, NEW a \in Nat, a < w
    PROVE  a % w = a
<1>1. a = w * 0 + a /\ a \in 0 .. w - 1 /\ a \in Int /\ 0 \in Int
  OBVIOUS
<1>2. QED
  BY <1>1, DivisionUnique, Zenon

LEMMA WholeMultiple ==
    ASSUME NEW w \in Nat \ {0}, NEW q \in Int
    PROVE  (w * q) % w = 0 /\ (w * q) \div w = q
<1>1. w * q = w * q + 0 /\ w * q \in Int /\ 0 \in 0 .. w - 1
  OBVIOUS
<1>2. QED
  BY <1>1, DivisionUnique, Zenon

(* and the coarse clock too, if that unit ends a coarse tick.              *)
LEMMA CoarseAdvances ==
    ASSUME NEW n \in Nat, n < ClockWrap, NEW m, m = (n + 1) % ClockWrap
    PROVE  /\ m \in Nat /\ m < ClockWrap
           /\ \/ CoarseAt(m) = CoarseAt(n) /\ m % CoarseTick = (n % CoarseTick) + 1
              \/ /\ \E k \in Int : CoarseAt(m) = (CoarseAt(n) + 1) + CoarseWrap * k
                 /\ m % CoarseTick = 0 /\ n % CoarseTick = CoarseTick - 1
<1> DEFINE q == n \div CoarseTick
           r == n % CoarseTick
<1>1. q \in Nat /\ r \in 0 .. CoarseTick - 1 /\ n = CoarseTick * q + r
  OBVIOUS
<1>2. ClockWrap \in Nat \ {0} /\ ClockWrap = CoarseTick * CoarseWrap
  BY DEF ClockWrap
<1>3. m \in Nat /\ m < ClockWrap
  BY <1>2
<1>4. CoarseAt(n) = q % CoarseWrap /\ n % CoarseTick = r
  BY DEF CoarseAt
<1> HIDE DEF q, r
<1>5. q < CoarseWrap
  <2> SUFFICES ASSUME q >= CoarseWrap PROVE FALSE
    BY <1>1
  <2>1. CoarseTick * q >= CoarseTick * CoarseWrap
    BY <1>1
  <2> QED BY <1>1, <1>2, <2>1
<1>6. CoarseAt(n) = q
  BY <1>1, <1>4, <1>5, SmallRemainder
<1>7. CASE r + 1 < CoarseTick
  <2>1. n + 1 = CoarseTick * q + (r + 1) /\ r + 1 \in 0 .. CoarseTick - 1
    BY <1>1, <1>7
  <2>2. CoarseTick * q + CoarseTick <= CoarseTick * CoarseWrap
    <3>1. CoarseTick * (q + 1) <= CoarseTick * CoarseWrap
      BY <1>1, <1>5
    <3>2. CoarseTick * (q + 1) = CoarseTick * q + CoarseTick
      BY <1>1
    <3> QED BY <3>1, <3>2
  <2>3. n + 1 \in Nat /\ n + 1 < ClockWrap
    BY <1>1, <1>2, <1>7, <2>1, <2>2
  <2>4. m = n + 1
    BY <1>2, <2>3, SmallRemainder
  <2>5. m = CoarseTick * q + (r + 1) /\ m \in Int /\ q \in Int
    BY <1>1, <1>3, <2>1, <2>4
  <2>6. m % CoarseTick = r + 1 /\ m \div CoarseTick = q
    BY <2>1, <2>5, DivisionUnique, ClockAssumption, Zenon
  <2>7. CoarseAt(m) = q
    BY <1>4, <1>6, <2>6 DEF CoarseAt
  <2> QED BY <1>3, <1>4, <1>6, <2>6, <2>7
<1>8. CASE r + 1 = CoarseTick
  <2>1. n + 1 = CoarseTick * (q + 1)
    BY <1>1, <1>8
  <2>2. \E k \in Int : CoarseAt(m) = (q + 1) + CoarseWrap * k
    <3>1. CASE q + 1 < CoarseWrap
      <4>1. CoarseTick * (q + 1) < CoarseTick * CoarseWrap
        BY <1>1, <3>1
      <4>2. n + 1 \in Nat /\ n + 1 < ClockWrap
        BY <1>2, <2>1, <4>1
      <4>3. m = n + 1
        BY <1>2, <4>2, SmallRemainder
      <4>4. q + 1 \in Int
        BY <1>1
      <4>5. m \div CoarseTick = q + 1
        BY <2>1, <4>3, <4>4, WholeMultiple, ClockAssumption, Zenon
      <4>6. CoarseAt(m) = q + 1
        BY <1>1, <3>1, <4>5, SmallRemainder DEF CoarseAt
      <4>7. CoarseAt(m) = (q + 1) + CoarseWrap * 0 /\ 0 \in Int
        BY <1>1, <4>6
      <4> QED BY <4>7, Zenon
    <3>2. CASE q + 1 = CoarseWrap
      <4>1. n + 1 = ClockWrap * 1
        BY <1>2, <2>1, <3>2
      <4>2. m = 0
        BY <1>2, <4>1, WholeMultiple
      <4>3. 0 = CoarseTick * 0 + 0 /\ 0 \in 0 .. CoarseTick - 1 /\ 0 \in Int
        OBVIOUS
      <4>4. m \div CoarseTick = 0
        BY <4>2, <4>3, DivisionUnique, ClockAssumption, Zenon
      <4>5. CoarseAt(m) = 0
        BY <4>4, SmallRemainder DEF CoarseAt
      <4>6. 0 = (q + 1) + CoarseWrap * (-1) /\ -1 \in Int
        BY <3>2
      <4> QED BY <4>5, <4>6
    <3> QED BY <1>1, <1>5, <3>1, <3>2
  <2>3. m % CoarseTick = 0
    <3>1. CASE n + 1 < ClockWrap
      <4>1. m = n + 1
        BY <1>2, <3>1, SmallRemainder
      <4>2. m = CoarseTick * (q + 1) + 0 /\ q + 1 \in Int /\ 0 \in 0 .. CoarseTick - 1 /\ m \in Int
        BY <1>1, <1>3, <2>1, <4>1
      <4> QED BY <4>2, DivisionUnique, ClockAssumption, Zenon
    <3>2. CASE n + 1 = ClockWrap
      <4>1. n + 1 = ClockWrap * 1
        BY <1>2, <3>2
      <4>2. m = 0
        BY <1>2, <4>1, WholeMultiple
      <4> QED BY <4>2, SmallRemainder
    <3> QED BY <1>2, <3>1, <3>2
  <2>4. n % CoarseTick = CoarseTick - 1
    BY <1>1, <1>4, <1>8
  <2> QED BY <1>3, <1>6, <2>2, <2>3, <2>4
<1>9. QED
  BY <1>1, <1>7, <1>8

(* As long as tasks are served before they are too old, a unit of time     *)
(* brings every timestamp nearer by one unit and no comparison wraps.      *)
LEMMA NearTick ==
    ASSUME now \in Nat, now < ClockWrap, NEW ts \in Timestamps,
           Near(now, ts), Age(ts) < MaxAge,
           NEW m, m = (now + 1) % ClockWrap
    PROVE  /\ Near(m, ts)
           /\ Due(m, ts) = Due(now, ts) - 1
           /\ Distance(m, ts) <= Distance(now, ts)
<1> DEFINE D == Distance(now, ts)
           E == Distance(m, ts)
<1>1. /\ m \in Nat /\ D \in Int /\ E \in Int
      /\ ts.is_hp \in BOOLEAN /\ ts.t \in Int
  <2>1. m \in Nat
    BY CoarseAdvances
  <2> QED BY <2>1, DistanceType
<1>2. HpAt(now) \in Int /\ HpAt(m) \in Int /\ CoarseAt(now) \in Int /\ CoarseAt(m) \in Int
  BY <1>1, ClocksType
<1>3. CASE ts.is_hp
  <2>1. -MaxAge <= D /\ 2 * (D + MaxAge) < HpWrap /\ 2 * MaxAge < HpWrap
    BY <1>3 DEF Near, Ageing, Wrap
  <2>2. -MaxAge <= D - 1
    <3>1. CASE D >= 0
      BY <1>1, <3>1, AgeIs
    <3>2. CASE ~(D >= 0)
      BY <1>1, <1>3, <3>2, AgeIs
    <3> QED BY <3>1, <3>2
  <2>3. \E k \in Int : HpAt(m) = (HpAt(now) + 1) + HpWrap * k
    BY HpAdvances
  <2>4. /\ D = Signed(ts.t - HpAt(now), HpWrap)
        /\ E = Signed(ts.t - HpAt(m), HpWrap)
    BY <1>3 DEF Distance, ClockAt, Wrap
  <2> HIDE DEF D, E
  <2>5. -HpWrap <= 2 * (D - 1)
    BY <1>1, <2>1, <2>2
  <2>6. E = D - 1
    <3>1. -HpWrap <= 2 * (Signed(ts.t - HpAt(now), HpWrap) - 1)
      BY <2>4, <2>5
    <3>2. Signed(ts.t - HpAt(m), HpWrap) = Signed(ts.t - HpAt(now), HpWrap) - 1
      <4> DEFINE d == ts.t - HpAt(now)
                 e == ts.t - HpAt(m)
      <4>1. PICK k \in Int : HpAt(m) = (HpAt(now) + 1) + HpWrap * k
        BY <2>3
      <4>2. d \in Int /\ e \in Int /\ e = (d - 1) + HpWrap * (-k) /\ -k \in Int
        BY <1>1, <1>2, <4>1
      <4> HIDE DEF d, e
      <4>3. \E j \in Int : e = (d - 1) + HpWrap * j
        BY <4>2, Zenon
      <4>4. -HpWrap <= 2 * (Signed(d, HpWrap) - 1)
        BY <3>1 DEF d
      <4>5. Signed(e, HpWrap) = Signed(d, HpWrap) - 1
        BY <4>2, <4>3, <4>4, SignedAdvance
      <4> QED BY <4>5 DEF d, e
    <3> QED BY <2>4, <3>2
  <2>7. -MaxAge <= E /\ 2 * (E + MaxAge) < HpWrap /\ 2 * MaxAge < HpWrap
    BY <1>1, <2>1, <2>2, <2>6
  <2>8. Near(m, ts)
    BY <1>3, <2>7 DEF Near, Ageing, Wrap, E
  <2>9. Due(m, ts) = E /\ Due(now, ts) = D
    BY <1>3 DEF Due, D, E
  <2> QED BY <1>1, <2>6, <2>8, <2>9 DEF D, E
<1>4. CASE ~ts.is_hp
  <2> DEFINE A == Ticks(MaxAge)
  <2>1. -A <= D /\ 2 * (D + A) < CoarseWrap /\ 2 * A < CoarseWrap
    BY <1>4 DEF Near, Ageing, Wrap
  <2>2. A \in Nat /\ MaxAge <= CoarseTick * A
    BY TicksBounds
  <2>3. Age(ts) = IF D >= 0 THEN 0 ELSE CoarseTick * (-D)
    BY <1>4, AgeIs
  <2> HIDE DEF A
  <2>4. -A <= D - 1
    <3>1. CASE D >= 0
      <4>1. MaxAge > 0
        BY <2>3, <3>1
      <4>2. A # 0
        BY <2>2, <4>1
      <4> QED BY <1>1, <2>2, <3>1, <4>2
    <3>2. CASE ~(D >= 0)
      <4>1. CoarseTick * (-D) < CoarseTick * A
        BY <1>1, <2>2, <2>3, <3>2
      <4> SUFFICES ASSUME -D >= A PROVE FALSE
        BY <1>1, <2>2
      <4>2. CoarseTick * (-D) >= CoarseTick * A
        BY <1>1, <2>2
      <4> QED BY <1>1, <2>2, <4>1, <4>2
    <3> QED BY <3>1, <3>2
  <2>5. /\ D = Signed(ts.t - CoarseAt(now), CoarseWrap)
        /\ E = Signed(ts.t - CoarseAt(m), CoarseWrap)
    BY <1>4 DEF Distance, Wrap, ClockAt
  <2>6. /\ Due(m, ts) = CoarseTick * E - (m % CoarseTick)
        /\ Due(now, ts) = CoarseTick * D - (now % CoarseTick)
    BY <1>4 DEF Due
  <2>7. Near(m, ts) <=> -A <= E /\ 2 * (E + A) < CoarseWrap /\ 2 * A < CoarseWrap
    BY <1>4 DEF Near, Ageing, Wrap, A
  <2>8. now % CoarseTick \in Int /\ m % CoarseTick \in Int
    BY <1>1
  <2> DEFINE x == now % CoarseTick
             y == m % CoarseTick
  <2>9. \/ CoarseAt(m) = CoarseAt(now) /\ y = x + 1
        \/ /\ \E k \in Int : CoarseAt(m) = (CoarseAt(now) + 1) + CoarseWrap * k
           /\ y = 0 /\ x = CoarseTick - 1
    BY CoarseAdvances
  <2>10. x \in Int /\ y \in Int /\ Due(m, ts) = CoarseTick * E - y /\ Due(now, ts) = CoarseTick * D - x
    BY <2>6, <2>8
  <2> HIDE DEF D, E, x, y
  <2>11. CASE CoarseAt(m) = CoarseAt(now) /\ y = x + 1
    <3>1. E = D
      BY <2>5, <2>11
    <3> QED BY <1>1, <2>1, <2>7, <2>10, <2>11, <3>1 DEF D, E
  <2>12. ASSUME \E k \in Int : CoarseAt(m) = (CoarseAt(now) + 1) + CoarseWrap * k,
                y = 0, x = CoarseTick - 1
         PROVE  /\ Near(m, ts)
                /\ Due(m, ts) = Due(now, ts) - 1
                /\ Distance(m, ts) <= Distance(now, ts)
    <3>1. -CoarseWrap <= 2 * (D - 1)
      BY <1>1, <2>1, <2>2, <2>4
    <3>2. E = D - 1
      <4>1. -CoarseWrap <= 2 * (Signed(ts.t - CoarseAt(now), CoarseWrap) - 1)
        BY <2>5, <3>1
      <4>2. Signed(ts.t - CoarseAt(m), CoarseWrap) = Signed(ts.t - CoarseAt(now), CoarseWrap) - 1
        <5> DEFINE d == ts.t - CoarseAt(now)
                   e == ts.t - CoarseAt(m)
        <5>1. PICK k \in Int : CoarseAt(m) = (CoarseAt(now) + 1) + CoarseWrap * k
          BY <2>12
        <5>2. d \in Int /\ e \in Int /\ e = (d - 1) + CoarseWrap * (-k) /\ -k \in Int
          BY <1>1, <1>2, <5>1
        <5> HIDE DEF d, e
        <5>3. \E j \in Int : e = (d - 1) + CoarseWrap * j
          BY <5>2, Zenon
        <5>4. -CoarseWrap <= 2 * (Signed(d, CoarseWrap) - 1)
          BY <4>1 DEF d
        <5>5. Signed(e, CoarseWrap) = Signed(d, CoarseWrap) - 1
          BY <5>2, <5>3, <5>4, SignedAdvance
        <5> QED BY <5>5 DEF d, e
      <4> QED BY <2>5, <4>2
    <3>3. CoarseTick * E = CoarseTick * D - CoarseTick
      BY <1>1, <3>2
    <3>4. Due(m, ts) = Due(now, ts) - 1
      BY <1>1, <2>10, <2>12, <3>3
    <3>5. Near(m, ts)
      BY <1>1, <2>1, <2>2, <2>4, <2>7, <3>2
    <3> QED BY <1>1, <3>2, <3>4, <3>5 DEF D, E
  <2> QED BY <2>9, <2>11, <2>12
<1>5. QED
  BY <1>1, <1>3, <1>4

(* A timestamp made from a delay that compares is that far from now.       *)
LEMMA TimestampAhead ==
    ASSUME now \in Nat, NEW ms \in Nat,
           IF ms < MaxTime THEN 2 * ms < HpWrap ELSE 2 * Ticks(ms) < CoarseWrap
    PROVE  /\ get_timestamp(ms).is_hp = IF ms < MaxTime THEN TRUE ELSE FALSE
           /\ Distance(now, get_timestamp(ms)) = IF ms < MaxTime THEN ms ELSE Ticks(ms)
<1> DEFINE ts == get_timestamp(ms)
<1>1. CASE ms < MaxTime
  <2>1. ts = [is_hp |-> TRUE, t |-> (HpAt(now) + ms) % HpWrap]
    BY <1>1 DEF get_timestamp, addUsToHpTimestamp, getTimestampHp, HpAt
  <2>2. ts.is_hp = TRUE /\ ts.t = (HpAt(now) + ms) % HpWrap
    BY <2>1
  <2>3. HpAt(now) \in Int
    BY ClocksType
  <2>4. Signed(((HpAt(now) + ms) % HpWrap) - HpAt(now), HpWrap) = ms
    BY <1>1, <2>3, SignedAhead
  <2>5. Distance(now, ts) = ms
    BY <2>2, <2>4 DEF Distance, ClockAt, Wrap
  <2> QED BY <1>1, <2>2, <2>5
<1>2. CASE ~(ms < MaxTime)
  <2>1. ts = [is_hp |-> FALSE, t |-> (CoarseAt(now) + Ticks(ms)) % CoarseWrap]
    BY <1>2 DEF get_timestamp, getTimestampCoarse, CoarseAt, Ticks
  <2>2. ts.is_hp = FALSE /\ ts.t = (CoarseAt(now) + Ticks(ms)) % CoarseWrap
    BY <2>1
  <2>3. CoarseAt(now) \in Int /\ Ticks(ms) \in Nat
    BY ClocksType, TicksBounds
  <2>4. Signed(((CoarseAt(now) + Ticks(ms)) % CoarseWrap) - CoarseAt(now), CoarseWrap) = Ticks(ms)
    BY <1>2, <2>3, SignedAhead
  <2>5. Distance(now, ts) = Ticks(ms)
    BY <2>2, <2>4 DEF Distance, ClockAt, Wrap
  <2> QED BY <1>2, <2>2, <2>5
<1>3. QED
  BY <1>1, <1>2

LEMMA TimestampNear ==
    ASSUME now \in Nat, DelaysCompare, NEW d \in Delays
    PROVE  Near(now, get_timestamp(d))
<1> DEFINE ts == get_timestamp(d)
<1>1. d \in Nat /\ Ticks(d) \in Nat /\ Ticks(MaxAge) \in Nat
  BY TicksBounds
<1>2. CASE d < MaxTime
  <2>1. 2 * (d + MaxAge) < HpWrap
    BY <1>2 DEF DelaysCompare
  <2>2. 2 * d < HpWrap
    BY <1>1, <2>1
  <2>3. ts.is_hp = TRUE /\ Distance(now, ts) = d
    BY <1>1, <1>2, <2>2, TimestampAhead
  <2>4. Ageing(ts.is_hp) = MaxAge /\ Wrap(ts.is_hp) = HpWrap
    BY <2>3 DEF Ageing, Wrap
  <2> HIDE DEF ts
  <2>5. Near(now, ts)
    BY <1>1, <2>1, <2>3, <2>4 DEF Near
  <2> QED BY <2>5 DEF ts
<1>3. CASE ~(d < MaxTime)
  <2>1. 2 * (Ticks(d) + Ticks(MaxAge)) < CoarseWrap
    BY <1>3 DEF DelaysCompare
  <2>2. 2 * Ticks(d) < CoarseWrap
    BY <1>1, <2>1
  <2>3. ts.is_hp = FALSE /\ Distance(now, ts) = Ticks(d)
    BY <1>1, <1>3, <2>2, TimestampAhead
  <2>4. Ageing(ts.is_hp) = Ticks(MaxAge) /\ Wrap(ts.is_hp) = CoarseWrap
    BY <2>3 DEF Ageing, Wrap
  <2> HIDE DEF ts
  <2>5. Near(now, ts)
    BY <1>1, <2>1, <2>3, <2>4 DEF Near
  <2> QED BY <2>5 DEF ts
<1>4. QED
  BY <1>2, <1>3

(* is_timestamp_before() orders near timestamps by their distance, if they *)
(* are of one kind, and by their delay in any case.                        *)
LEMMA SameKindCompare ==
    ASSUME now \in Nat, NEW a \in Timestamps, NEW b \in Timestamps,
           Near(now, a), Near(now, b), a.is_hp = b.is_hp
    PROVE  is_timestamp_before(a, b) <=> Distance(now, a) < Distance(now, b)
<1> DEFINE w == Wrap(a.is_hp)
           d == a.t - ClockAt(now, a.is_hp)
           e == b.t - ClockAt(now, a.is_hp)
<1>1. w \in Nat \ {0} /\ d \in Int /\ e \in Int /\ d - e = a.t - b.t
  BY DistanceType, ClockType
<1>2. Distance(now, a) = Signed(d, w) /\ Distance(now, b) = Signed(e, w)
  BY DEF Distance
<1>3. Ageing(a.is_hp) \in Nat /\ Distance(now, a) \in Int /\ Distance(now, b) \in Int
  BY DistanceType, ClockType
<1>4. is_timestamp_before(a, b) <=> 2 * ((a.t - b.t) % w) >= w
  <2>1. CASE a.is_hp
    BY <2>1 DEF is_timestamp_before, isHpTimestampBefore, Wrap
  <2>2. CASE ~a.is_hp
    BY <2>2 DEF is_timestamp_before, Util_isLtUint32, Wrap
  <2> QED BY <2>1, <2>2
<1>5. /\ -Ageing(a.is_hp) <= Distance(now, a) /\ 2 * (Distance(now, a) + Ageing(a.is_hp)) < w
      /\ -Ageing(a.is_hp) <= Distance(now, b) /\ 2 * (Distance(now, b) + Ageing(a.is_hp)) < w
  BY DEF Near
<1> HIDE DEF w, d, e
<1>6. -w < 2 * (Signed(d, w) - Signed(e, w)) /\ 2 * (Signed(d, w) - Signed(e, w)) < w
  BY <1>1, <1>2, <1>3, <1>5
<1>7. Signed(d - e, w) = Signed(d, w) - Signed(e, w)
  BY <1>1, <1>6, SignedDifference
<1> DEFINE f == d - e
<1>8. f \in Int /\ f = a.t - b.t
  BY <1>1
<1>9. Signed(f, w) < 0 <=> 2 * (f % w) >= w
  BY <1>1, <1>8, SignedIs
<1>10. Signed(f, w) < 0 <=> Distance(now, a) < Distance(now, b)
  BY <1>2, <1>3, <1>7
<1>11. is_timestamp_before(a, b) <=> 2 * (f % w) >= w
  BY <1>4, <1>8
<1>12. QED
  BY <1>9, <1>10, <1>11

LEMMA DelayGrows ==
    ASSUME now \in Nat, NEW a \in Timestamps, NEW b \in Timestamps,
           a.is_hp = b.is_hp, Distance(now, a) <= Distance(now, b)
    PROVE  get_delay_from_now_us(a) <= get_delay_from_now_us(b)
<1> DEFINE x == Distance(now, a)
           y == Distance(now, b)
<1>1. x \in Int /\ y \in Int /\ x <= y
  BY DistanceType
<1>2. /\ get_delay_from_now_us(a) = IF x < 0 THEN 0 ELSE IF a.is_hp THEN x ELSE CoarseTick * x
      /\ get_delay_from_now_us(b) = IF y < 0 THEN 0 ELSE IF a.is_hp THEN y ELSE CoarseTick * y
  BY DelayIs
<1> HIDE DEF x, y
<1>3. CoarseTick * x <= CoarseTick * y
  BY <1>1
<1>4. y >= 0 => 0 <= CoarseTick * y
  BY <1>1
<1>5. QED
  BY <1>1, <1>2, <1>3, <1>4

LEMMA BeforeCompares ==
    ASSUME now \in Nat, NEW a \in Timestamps, NEW b \in Timestamps,
           Near(now, a), Near(now, b)
    PROVE  /\ is_timestamp_before(a, b) => get_delay_from_now_us(a) <= get_delay_from_now_us(b)
           /\ ~is_timestamp_before(a, b) => get_delay_from_now_us(b) <= get_delay_from_now_us(a)
<1>1. /\ get_delay_from_now_us(a) \in Nat /\ get_delay_from_now_us(b) \in Nat
      /\ Distance(now, a) \in Int /\ Distance(now, b) \in Int
      /\ a.is_hp \in BOOLEAN /\ b.is_hp \in BOOLEAN
  BY DelayType, DistanceType
<1>2. CASE a.is_hp = b.is_hp
  <2>1. is_timestamp_before(a, b) <=> Distance(now, a) < Distance(now, b)
    BY <1>2, SameKindCompare
  <2>2. CASE Distance(now, a) < Distance(now, b)
    <3>1. Distance(now, a) <= Distance(now, b)
      BY <1>1, <2>2
    <3> QED BY <1>2, <2>1, <2>2, <3>1, DelayGrows
  <2>3. CASE ~(Distance(now, a) < Distance(now, b))
    <3>1. Distance(now, b) <= Distance(now, a)
      BY <1>1, <2>3
    <3> QED BY <1>2, <2>1, <2>3, <3>1, DelayGrows
  <2> QED BY <2>2, <2>3
<1>3. CASE a.is_hp # b.is_hp
  <2>1. is_timestamp_before(a, b) <=> get_delay_from_now_us(a) < get_delay_from_now_us(b)
    BY <1>1, <1>3 DEF is_timestamp_before
  <2> QED BY <1>1, <2>1
<1>4. QED
  BY <1>2, <1>3

(* A delay overestimates the time left by less than a coarse tick, and a   *)
(* precise one not at all.                                                 *)
LEMMA DelayAndLeft ==
    ASSUME now \in Nat, NEW ts \in Timestamps
    PROVE  /\ Left(now, ts) <= get_delay_from_now_us(ts)
           /\ get_delay_from_now_us(ts) < Left(now, ts) + CoarseTick
           /\ ts.is_hp => get_delay_from_now_us(ts) = Left(now, ts)
<1> DEFINE x == Distance(now, ts)
           r == now % CoarseTick
           z == CoarseTick * x
<1>1. x \in Int /\ r \in 0 .. CoarseTick - 1 /\ z \in Int /\ ts.is_hp \in BOOLEAN
  BY DistanceType
<1>2. get_delay_from_now_us(ts) = IF x < 0 THEN 0 ELSE IF ts.is_hp THEN x ELSE z
  BY DelayIs
<1>3. Due(now, ts) = IF ts.is_hp THEN x ELSE z - r
  BY DEF Due
<1>4. (x < 0 => z < 0) /\ (x >= 0 => z >= 0)
  BY <1>1
<1> HIDE DEF x, r, z
<1>5. CASE ts.is_hp
  BY <1>1, <1>2, <1>3, <1>5 DEF Left
<1>6. CASE ~ts.is_hp
  <2>1. Due(now, ts) = z - r
    BY <1>3, <1>6
  <2>2. CASE x < 0
    BY <1>1, <1>2, <1>4, <1>6, <2>1, <2>2 DEF Left
  <2>3. CASE ~(x < 0)
    BY <1>1, <1>2, <1>4, <1>6, <2>1, <2>3 DEF Left
  <2> QED BY <2>2, <2>3
<1>7. QED
  BY <1>1, <1>5, <1>6

-----------------------------------------------------------------------------
(* The invariants on time.                                                 *)

(* What an addition, a cancellation and a reselection leave in the table.  *)
AddedAt(s, cb, d) ==
    /\ \A i \in Slots \ {s} : m_tasks'[i] = m_tasks[i]
    /\ m_tasks'[s].func = cb
    /\ m_tasks'[s].next_ts = get_timestamp(d)
    /\ ~m_tasks'[s].removed
    /\ \/ /\ m_tasks[s].func = cb /\ m_tasks'[s].updated
          /\ m_tasks'[s].exec_time_us = m_tasks[s].exec_time_us
       \/ m_tasks[s].func = NULL
    /\ \/ m_force_reschedule' = TRUE /\ armed' # NULL /\ armed'.left = 0
       \/ /\ m_force_reschedule' = m_force_reschedule /\ armed' = armed
          /\ m_next_task_p # NULL /\ m_next_task_p # s
          /\ ~is_timestamp_before(get_timestamp(d), m_tasks[m_next_task_p].next_ts)

LEMMA AddFacts ==
    ASSUME IndInv, NEW cb \in Func, NEW d \in Delays, NEW e \in ExecTimes,
           App_Scheduler_addTask_execTime(cb, d, e)
    PROVE  \E s \in Slots : AddedAt(s, cb, d)
<1> DEFINE new == [func |-> cb, next_ts |-> get_timestamp(d), exec_time_us |-> e,
                   updated |-> FALSE, removed |-> FALSE]
<1>1. /\ SlotsOf(cb) \cup SlotsOf(NULL) # {}
      /\ add_task_to_table_locked(new)
      /\ IF RescheduleNeeded(new) THEN RequestReschedule
                                  ELSE UNCHANGED <<m_force_reschedule, armed>>
  BY DEF App_Scheduler_addTask_execTime
<1>2. TypeOK
  BY DEF IndInv
<1>3. new \in Tasks /\ new.func = cb /\ ~new.removed /\ new.next_ts = get_timestamp(d)
  BY <1>2, TimestampType DEF TypeOK, Tasks
<1> HIDE DEF new
<1>4. PICK s \in Slots :
         /\ \A i \in Slots \ {s} : m_tasks'[i] = m_tasks[i]
         /\ m_tasks'[s].func = cb
         /\ m_tasks'[s].next_ts = get_timestamp(d)
         /\ ~m_tasks'[s].removed
         /\ \/ /\ m_tasks[s].func = cb /\ m_tasks'[s].updated
               /\ m_tasks'[s].exec_time_us = m_tasks[s].exec_time_us
            \/ m_tasks[s].func = NULL
  BY <1>1, <1>2, <1>3, AddEffect
<1>5. CASE RescheduleNeeded(new)
  BY <1>1, <1>4, <1>5, RequestEffect DEF AddedAt
<1>6. CASE ~RescheduleNeeded(new)
  <2>1. m_next_task_p # NULL /\ m_next_task_p # s
    BY <1>3, <1>4, <1>6 DEF RescheduleNeeded
  <2>2. m_tasks'[m_next_task_p] = m_tasks[m_next_task_p]
    BY <1>2, <1>4, <2>1 DEF TypeOK
  <2>3. ~is_timestamp_before(get_timestamp(d), m_tasks[m_next_task_p].next_ts)
    BY <1>3, <1>6, <2>2 DEF RescheduleNeeded
  <2> QED BY <1>1, <1>4, <1>6, <2>1, <2>3 DEF AddedAt
<1>7. QED
  BY <1>5, <1>6

LEMMA CancelFacts ==
    ASSUME IndInv, NEW cb \in Func, App_Scheduler_cancelTask(cb)
    PROVE  \E s \in Slots :
              /\ \A i \in Slots \ {s} : m_tasks'[i] = m_tasks[i]
              /\ m_tasks'[s].removed
              /\ m_tasks'[s].exec_time_us = m_tasks[s].exec_time_us
              /\ m_force_reschedule' = TRUE /\ armed' # NULL /\ armed'.left = 0
<1>1. SlotsOf(cb) # {} /\ remove_task_from_table_locked(cb) /\ RequestReschedule
  BY DEF App_Scheduler_cancelTask
<1>2. TypeOK
  BY DEF IndInv
<1>3. PICK s \in Slots :
         /\ \A i \in Slots \ {s} : m_tasks'[i] = m_tasks[i]
         /\ m_tasks'[s] = [m_tasks[s] EXCEPT !.updated = TRUE, !.removed = TRUE]
  BY <1>1, <1>2, CancelEffect
<1>4. m_tasks[s] \in Tasks
  BY <1>2 DEF TypeOK
<1>5. m_tasks'[s].removed /\ m_tasks'[s].exec_time_us = m_tasks[s].exec_time_us
  BY <1>3, <1>4 DEF Tasks
<1>6. QED
  BY <1>1, <1>3, <1>5, RequestEffect

LEMMA SelectFacts ==
    ASSUME IndInv, SelectNext
    PROVE  \A i \in Slots :
              /\ Pending(i)' <=> Pending(i)
              /\ Pending(i) => /\ m_tasks'[i].next_ts = m_tasks[i].next_ts
                               /\ m_tasks'[i].exec_time_us = m_tasks[i].exec_time_us
<1>1. TypeOK
  BY DEF IndInv
<1>2. PICK next \in Slots \cup {NULL} :
         \/ next = NULL /\ m_tasks' = cleaned
         \/ next # NULL /\ m_tasks' = [cleaned EXCEPT ![next].updated = FALSE]
  BY DEF SelectNext, Reselect
<1>3. \A i \in Slots : cleaned[i] = IF Pending(i) THEN m_tasks[i] ELSE FreeSlot
  BY DEF cleaned
<1>4. cleaned \in [Slots -> Tasks]
  <2>1. FreeSlot \in Tasks
    BY DEF FreeSlot, Tasks, Timestamps
  <2> QED BY <1>1, <2>1 DEF cleaned, TypeOK
<1> HIDE DEF cleaned
<1>5. ASSUME NEW i \in Slots
      PROVE  /\ m_tasks'[i].func = cleaned[i].func
             /\ m_tasks'[i].removed = cleaned[i].removed
             /\ m_tasks'[i].next_ts = cleaned[i].next_ts
             /\ m_tasks'[i].exec_time_us = cleaned[i].exec_time_us
  <2>1. CASE m_tasks'[i] = cleaned[i]
    BY <2>1
  <2>2. CASE m_tasks'[i] # cleaned[i]
    <3>1. next = i /\ m_tasks' = [cleaned EXCEPT ![i] = [cleaned[i] EXCEPT !.updated = FALSE]]
      BY <1>2, <1>4, <2>2
    <3>2. m_tasks'[i] = [cleaned[i] EXCEPT !.updated = FALSE] /\ cleaned[i] \in Tasks
      BY <1>4, <3>1
    <3> QED BY <3>2 DEF Tasks
  <2> QED BY <2>1, <2>2
<1>6. QED
  BY <1>3, <1>5 DEF Active, Pending, FreeSlot

(* A step other than a unit of time leaves a task its timestamp or gives   *)
(* it one made from a delay.                                               *)
Dated ==
    \A i \in Slots : Pending(i)' =>
        \/ Pending(i) /\ m_tasks'[i].next_ts = m_tasks[i].next_ts
        \/ \E d \in Delays : m_tasks'[i].next_ts = get_timestamp(d)

LEMMA DatedStep ==
    ASSUME IndInv, [Next]_vars, ~Tick
    PROVE  now' = now /\ Dated
<1> USE DEF Dated
<1>1. TypeOK
  BY DEF IndInv
<1>2. CASE App_Scheduler_init
  <2>1. \A i \in Slots : ~Active(i)'
    BY <1>1, <1>2 DEF TypeOK, Tasks, Active, App_Scheduler_init
  <2> QED BY <1>2, <2>1 DEF App_Scheduler_init, Pending
<1>3. ASSUME NEW cb \in Func, NEW d \in Delays, NEW e \in ExecTimes,
             App_Scheduler_addTask_execTime(cb, d, e)
      PROVE  now' = now /\ Dated
  <2>1. now' = now
    BY <1>3 DEF App_Scheduler_addTask_execTime
  <2>2. PICK s \in Slots : AddedAt(s, cb, d)
    BY <1>3, AddFacts
  <2> QED BY <2>1, <2>2 DEF AddedAt, Pending, Active
<1>4. ASSUME NEW cb \in Func, App_Scheduler_cancelTask(cb)
      PROVE  now' = now /\ Dated
  <2>1. now' = now
    BY <1>4 DEF App_Scheduler_cancelTask
  <2>2. PICK s \in Slots :
           (\A i \in Slots \ {s} : m_tasks'[i] = m_tasks[i]) /\ m_tasks'[s].removed
    BY <1>4, CancelFacts
  <2> QED BY <2>1, <2>2 DEF Pending, Active
<1>5. CASE Fire \/ CheckForce \/ ReadKind \/ TestReady \/ StartTask \/ Return \/ UNCHANGED vars
  <2>1. m_tasks' = m_tasks /\ now' = now
    BY <1>5 DEF Fire, CheckForce, ReadKind, TestReady, StartTask, Return, vars, table
  <2> QED BY <2>1 DEF Pending, Active
<1>6. ASSUME NEW task, FinishTask(task),
             \/ task.func = NULL
             \/ \E d \in Delays : task.next_ts = get_timestamp(d)
      PROVE  now' = now /\ Dated
  <2>1. now' = now /\ (m_tasks' = m_tasks \/ m_tasks' = [m_tasks EXCEPT ![m_next_task_p] = task])
    BY <1>6 DEF FinishTask
  <2>2. \A i \in Slots : m_tasks'[i] = m_tasks[i] \/ m_tasks'[i] = task
    BY <1>1, <2>1 DEF TypeOK
  <2> QED BY <1>6, <2>1, <2>2 DEF Pending, Active
<1>7. CASE perform_task_stop \/ \E next \in Delays : perform_task_again(next)
  <2>1. m_next_task_p \in Slots /\ m_tasks[m_next_task_p] \in Tasks
    BY <1>7 DEF IndInv, TypeOK, PointerLive, perform_task_stop, perform_task_again, FinishTask
  <2>2. [m_tasks[m_next_task_p] EXCEPT !.func = NULL].func = NULL
    BY <2>1 DEF Tasks
  <2>3. \A d \in Delays :
           [m_tasks[m_next_task_p] EXCEPT !.next_ts = get_timestamp(d)].next_ts = get_timestamp(d)
    BY <2>1 DEF Tasks
  <2> QED BY <1>6, <1>7, <2>2, <2>3 DEF perform_task_stop, perform_task_again
<1>8. CASE SelectNext
  <2>1. now' = now
    BY <1>8 DEF SelectNext
  <2> QED BY <1>8, <2>1, SelectFacts
<1>9. QED
  BY <1>2, <1>3, <1>4, <1>5, <1>7, <1>8 DEF Next, Request, periodic_work

(* A unit of time leaves the table alone.                                  *)
LEMMA TickFacts ==
    ASSUME IndInv, AllNear, Tick
    PROVE  /\ m_tasks' = m_tasks /\ m_next_task_p' = m_next_task_p /\ pc' = pc
           /\ is_hp' = is_hp /\ m_force_reschedule' = m_force_reschedule
           /\ granted' = granted
           /\ now' \in Nat /\ now' < ClockWrap
           /\ armed = NULL => armed' = NULL
           /\ armed # NULL => /\ armed' # NULL /\ armed'.left = armed.left - 1
                              /\ armed'.exec = armed.exec
           /\ \A i \in Slots : Pending(i) =>
                 LET ts == m_tasks[i].next_ts
                 IN  /\ ts \in Timestamps
                     /\ Near(now', ts)
                     /\ Due(now', ts) = Due(now, ts) - 1
                     /\ Distance(now', ts) <= Distance(now, ts)
<1>1. TypeOK /\ now < ClockWrap
  BY DEF IndInv, AllNear
<1>2. /\ m_tasks' = m_tasks /\ m_next_task_p' = m_next_task_p /\ pc' = pc
      /\ is_hp' = is_hp /\ m_force_reschedule' = m_force_reschedule
      /\ granted' = granted
      /\ now' = (now + 1) % ClockWrap
      /\ armed' = IF armed = NULL THEN NULL ELSE [armed EXCEPT !.left = @ - 1]
  BY DEF Tick, table
<1>3. now \in Nat /\ now' \in Nat /\ now' < ClockWrap
  BY <1>1, <1>2, CoarseAdvances DEF TypeOK
<1>4. armed # NULL => /\ armed' # NULL /\ armed'.left = armed.left - 1
                      /\ armed'.exec = armed.exec
  <2> SUFFICES ASSUME armed # NULL
               PROVE  armed' # NULL /\ armed'.left = armed.left - 1 /\ armed'.exec = armed.exec
    OBVIOUS
  <2>1. armed \in [left : Int, exec : Nat]
    BY <1>1 DEF TypeOK
  <2>2. armed' = [armed EXCEPT !.left = armed.left - 1]
    BY <1>2
  <2>3. armed' \in [left : Int, exec : Nat]
    BY <2>1, <2>2
  <2> QED BY <2>1, <2>2, <2>3
<1>5. ASSUME NEW i \in Slots, Pending(i)
      PROVE  LET ts == m_tasks[i].next_ts
             IN  /\ ts \in Timestamps
                 /\ Near(now', ts)
                 /\ Due(now', ts) = Due(now, ts) - 1
                 /\ Distance(now', ts) <= Distance(now, ts)
  <2> DEFINE ts == m_tasks[i].next_ts
  <2>1. ts \in Timestamps
    BY <1>1 DEF TypeOK, Tasks
  <2>2. Near(now, ts) /\ Age(ts) < MaxAge
    BY <1>5 DEF AllNear, Tick, Timely
  <2> HIDE DEF ts
  <2>3. /\ Near(now', ts)
        /\ Due(now', ts) = Due(now, ts) - 1
        /\ Distance(now', ts) <= Distance(now, ts)
    BY <1>1, <1>2, <1>3, <2>1, <2>2, NearTick
  <2> QED BY <2>1, <2>3 DEF ts
<1>6. QED
  BY <1>2, <1>3, <1>4, <1>5

LEMMA NearStep ==
    ASSUME DelaysCompare, IndInv, AllNear, [Next]_vars
    PROVE  AllNear'
<1>1. CASE Tick
  <2>1. m_tasks' = m_tasks /\ now' < ClockWrap
    BY <1>1, TickFacts
  <2>2. \A i \in Slots : Pending(i) => Near(now', m_tasks[i].next_ts)
    BY <1>1, TickFacts
  <2> QED BY <2>1, <2>2 DEF AllNear, Pending, Active
<1>2. CASE ~Tick
  <2>1. now \in Nat
    BY DEF IndInv, TypeOK
  <2>2. now' = now /\ Dated
    BY <1>2, DatedStep
  <2>3. ASSUME NEW i \in Slots, Pending(i)' PROVE Near(now', m_tasks'[i].next_ts)
    <3>1. CASE Pending(i) /\ m_tasks'[i].next_ts = m_tasks[i].next_ts
      BY <2>2, <3>1 DEF AllNear
    <3>2. ASSUME NEW d \in Delays, m_tasks'[i].next_ts = get_timestamp(d)
          PROVE  Near(now', m_tasks'[i].next_ts)
      <4>1. Near(now, get_timestamp(d))
        BY <2>1, TimestampNear
      <4> QED BY <2>2, <3>2, <4>1
    <3> QED BY <2>2, <2>3, <3>1, <3>2 DEF Dated
  <2> QED BY <2>2, <2>3 DEF AllNear, ClockWrap
<1>3. QED
  BY <1>1, <1>2

(* A request leaves the selected task as it is or marks it as touched.     *)
LEMMA SelectedKept ==
    ASSUME IndInv, Request, m_next_task_p # NULL, pc # "select"
    PROVE  /\ m_next_task_p' = m_next_task_p /\ pc' = pc /\ is_hp' = is_hp
           /\ now' = now /\ granted' = granted
           /\ m_next_task_p \in Slots
           /\ Untouched(m_tasks'[m_next_task_p])
                 => m_tasks'[m_next_task_p] = m_tasks[m_next_task_p]
           /\ m_tasks'[m_next_task_p].exec_time_us = m_tasks[m_next_task_p].exec_time_us
<1>1. m_next_task_p \in Slots /\ m_tasks[m_next_task_p].func # NULL
  BY DEF IndInv, TypeOK, PointerLive, Active
<1>2. ASSUME NEW cb \in Func, NEW d \in Delays, NEW e \in ExecTimes,
             App_Scheduler_addTask_execTime(cb, d, e)
      PROVE  /\ m_next_task_p' = m_next_task_p /\ pc' = pc /\ is_hp' = is_hp
             /\ now' = now /\ granted' = granted
             /\ Untouched(m_tasks'[m_next_task_p])
                   => m_tasks'[m_next_task_p] = m_tasks[m_next_task_p]
             /\ m_tasks'[m_next_task_p].exec_time_us = m_tasks[m_next_task_p].exec_time_us
  <2>1. PICK s \in Slots : AddedAt(s, cb, d)
    BY <1>2, AddFacts
  <2>2. /\ m_next_task_p' = m_next_task_p /\ pc' = pc /\ is_hp' = is_hp
        /\ now' = now /\ granted' = granted
    BY <1>2 DEF App_Scheduler_addTask_execTime
  <2>3. CASE m_next_task_p = s
    BY <1>1, <2>1, <2>2, <2>3 DEF AddedAt, Untouched
  <2>4. CASE m_next_task_p # s
    BY <1>1, <2>1, <2>2, <2>4 DEF AddedAt
  <2> QED BY <2>3, <2>4
<1>3. ASSUME NEW cb \in Func, App_Scheduler_cancelTask(cb)
      PROVE  /\ m_next_task_p' = m_next_task_p /\ pc' = pc /\ is_hp' = is_hp
             /\ now' = now /\ granted' = granted
             /\ Untouched(m_tasks'[m_next_task_p])
                   => m_tasks'[m_next_task_p] = m_tasks[m_next_task_p]
             /\ m_tasks'[m_next_task_p].exec_time_us = m_tasks[m_next_task_p].exec_time_us
  <2>1. PICK s \in Slots :
           /\ \A i \in Slots \ {s} : m_tasks'[i] = m_tasks[i]
           /\ m_tasks'[s].removed
           /\ m_tasks'[s].exec_time_us = m_tasks[s].exec_time_us
    BY <1>3, CancelFacts
  <2>2. /\ m_next_task_p' = m_next_task_p /\ pc' = pc /\ is_hp' = is_hp
        /\ now' = now /\ granted' = granted
    BY <1>3 DEF App_Scheduler_cancelTask
  <2>3. CASE m_next_task_p = s
    BY <2>1, <2>2, <2>3 DEF Untouched
  <2>4. CASE m_next_task_p # s
    BY <1>1, <2>1, <2>2, <2>4
  <2> QED BY <2>3, <2>4
<1>4. QED
  BY <1>1, <1>2, <1>3 DEF Request

LEMMA TestedStep ==
    ASSUME IndInv, AllNear, TestedDue, [Next]_vars
    PROVE  TestedDue'
<1>1. TypeOK /\ PointerLive
  BY DEF IndInv
<1>2. CASE pc' \notin {"test", "perform"}
  BY <1>2 DEF TestedDue
<1>3. CASE Request /\ pc \in {"test", "perform"}
  <2>1. m_next_task_p # NULL /\ pc # "select"
    BY <1>1, <1>3 DEF PointerLive
  <2>2. /\ m_next_task_p' = m_next_task_p /\ pc' = pc /\ is_hp' = is_hp /\ now' = now
        /\ Untouched(m_tasks'[m_next_task_p])
              => m_tasks'[m_next_task_p] = m_tasks[m_next_task_p]
    BY <1>3, <2>1, SelectedKept
  <2> QED BY <2>2 DEF TestedDue
<1>4. CASE Tick /\ pc \in {"test", "perform"}
  <2>1. /\ m_tasks' = m_tasks /\ m_next_task_p' = m_next_task_p /\ pc' = pc
        /\ is_hp' = is_hp /\ now' \in Nat
    BY <1>4, TickFacts
  <2>2. m_next_task_p \in Slots /\ Active(m_next_task_p)
    BY <1>1, <1>4 DEF PointerLive, TypeOK
  <2>3. ASSUME Untouched(m_tasks[m_next_task_p])
        PROVE  Distance(now', m_tasks[m_next_task_p].next_ts)
                  <= Distance(now, m_tasks[m_next_task_p].next_ts)
    <3>1. Pending(m_next_task_p)
      BY <2>2, <2>3 DEF Pending, Untouched
    <3> QED BY <1>4, <2>2, <3>1, TickFacts
  <2>4. m_tasks[m_next_task_p].next_ts \in Timestamps /\ now \in Nat
    BY <1>1, <2>2 DEF TypeOK, Tasks
  <2>5. /\ Distance(now, m_tasks[m_next_task_p].next_ts) \in Int
        /\ Distance(now', m_tasks[m_next_task_p].next_ts) \in Int
    BY <2>1, <2>4, DistanceType
  <2>6. TestedDue!1'
    BY <2>1 DEF TestedDue
  <2>7. ASSUME pc = "perform", Untouched(m_tasks[m_next_task_p])
        PROVE  Distance(now', m_tasks[m_next_task_p].next_ts) <= 0
    <3>1. Distance(now, m_tasks[m_next_task_p].next_ts) <= 0
      BY <2>7 DEF TestedDue
    <3> QED BY <2>3, <2>5, <2>7, <3>1
  <2> QED BY <2>1, <2>6, <2>7 DEF TestedDue
<1>5. CASE ReadKind
  BY <1>5 DEF ReadKind, table, TestedDue
<1>6. CASE TestReady /\ pc' = "perform"
  <2>1. /\ m_tasks' = m_tasks /\ m_next_task_p' = m_next_task_p /\ now' = now /\ pc = "test"
    BY <1>6 DEF TestReady, table
  <2>2. m_next_task_p \in Slots
    BY <1>1, <2>1 DEF PointerLive, TypeOK
  <2> DEFINE task == m_tasks[m_next_task_p]
             seen == [is_hp |-> is_hp, t |-> task.next_ts.t]
  <2>3. get_delay_from_now_us(seen) = 0
    BY <1>6 DEF TestReady
  <2>4. task.next_ts \in Timestamps /\ now \in Nat
    BY <1>1, <2>2 DEF TypeOK, Tasks
  <2>5. ASSUME Untouched(task) PROVE Distance(now, task.next_ts) <= 0
    <3>1. is_hp = task.next_ts.is_hp
      BY <2>1, <2>5 DEF TestedDue
    <3>2. seen = task.next_ts
      BY <2>4, <3>1 DEF Timestamps
    <3>3. get_delay_from_now_us(task.next_ts) = 0
      BY <2>3, <3>2
    <3> HIDE DEF task, seen
    <3>4. Distance(now, task.next_ts) \in Int
      BY <2>4, DistanceType
    <3>5. CoarseTick * Distance(now, task.next_ts) = 0 => Distance(now, task.next_ts) = 0
      BY <3>4
    <3> QED BY <2>4, <3>3, <3>4, <3>5, DelayIs
  <2> QED BY <1>6, <2>1, <2>5 DEF TestedDue
<1>7. CASE UNCHANGED vars
  BY <1>7 DEF vars, TestedDue
<1>8. QED
  <2>1. App_Scheduler_init => pc' \notin {"test", "perform"}
    BY <1>1 DEF App_Scheduler_init, PointerLive
  <2>2. Request \/ Tick => pc' = pc
    BY DEF Request, Tick, App_Scheduler_addTask_execTime, App_Scheduler_cancelTask
  <2>3. (\/ Fire \/ CheckForce \/ StartTask \/ perform_task_stop \/ SelectNext \/ Return
         \/ \E next \in Delays : perform_task_again(next)) => pc' \notin {"test", "perform"}
    BY DEF Fire, CheckForce, StartTask, perform_task_stop, perform_task_again,
           FinishTask, SelectNext, Return
  <2>4. TestReady => pc' # "test"
    BY DEF TestReady
  <2> QED BY <1>2, <1>3, <1>4, <1>5, <1>6, <1>7, <2>1, <2>2, <2>3, <2>4 DEF Next, periodic_work

(* The scan returns the pending task with the shortest delay.              *)
LEMMA ScanMinimal ==
    ASSUME TypeOK, AllNear, NEW next \in Slots, get_next_task_locked(next)
    PROVE  \A i \in Slots : Pending(i) =>
              get_delay_from_now_us(m_tasks[next].next_ts)
                 <= get_delay_from_now_us(m_tasks[i].next_ts)
<1> DEFINE delay(i) == get_delay_from_now_us(m_tasks[i].next_ts)
<1>1. PICK best \in [0 .. NTasks -> Slots \cup {NULL}] :
          IsScan(best) /\ next = best[NTasks]
  BY DEF get_next_task_locked
<1>2. /\ now \in Nat
      /\ \A i \in Slots : m_tasks[i].next_ts \in Timestamps
  BY DEF TypeOK, Tasks
<1>3. \A i \in Slots : delay(i) \in Nat
  BY <1>2, DelayType
<1>4. \A i, j \in Slots : Pending(i) /\ Pending(j) =>
         /\ is_timestamp_before(m_tasks[i].next_ts, m_tasks[j].next_ts) => delay(i) <= delay(j)
         /\ ~is_timestamp_before(m_tasks[i].next_ts, m_tasks[j].next_ts) => delay(j) <= delay(i)
  BY <1>2, BeforeCompares DEF AllNear
<1> HIDE DEF delay
<1> DEFINE P == {k \in 0 .. NTasks :
                   /\ best[k] # NULL => /\ best[k] \in Slots /\ Pending(best[k])
                                        /\ \A i \in 1 .. k : Pending(i) => delay(best[k]) <= delay(i)
                   /\ best[k] = NULL => \A i \in 1 .. k : ~Pending(i)}
<1>5. 0 \in P
  BY <1>1 DEF IsScan
<1>6. ASSUME NEW k \in 0 .. NTasks - 1, k \in P
      PROVE  k + 1 \in P
  <2>1. k + 1 \in Slots /\ k + 1 \in 0 .. NTasks /\ (k + 1) - 1 = k /\ k + 1 # NULL
    BY DEF Slots
  <2>2. \A i \in 1 .. k + 1 : i \in 1 .. k \/ i = k + 1
    OBVIOUS
  <2>3. \A i \in 1 .. k : i \in Slots
    BY DEF Slots
  <2>4. best[k + 1] = IF /\ Pending(k + 1)
                         /\ \/ best[k] = NULL
                            \/ is_timestamp_before(m_tasks[k + 1].next_ts, m_tasks[best[k]].next_ts)
                      THEN k + 1 ELSE best[k]
    BY <1>1, <2>1 DEF IsScan
  <2>5. CASE best[k] = NULL
    <3>1. CASE Pending(k + 1)
      <4>1. best[k + 1] = k + 1
        BY <2>4, <2>5, <3>1
      <4>2. \A i \in 1 .. k + 1 : Pending(i) => delay(k + 1) <= delay(i)
        BY <1>3, <1>6, <2>1, <2>2, <2>5
      <4> QED BY <2>1, <3>1, <4>1, <4>2
    <3>2. CASE ~Pending(k + 1)
      <4>1. best[k + 1] = NULL
        BY <2>4, <2>5, <3>2
      <4> QED BY <1>6, <2>1, <2>2, <2>5, <3>2, <4>1
    <3> QED BY <3>1, <3>2
  <2>6. CASE best[k] # NULL
    <3>1. /\ best[k] \in Slots /\ Pending(best[k])
          /\ \A i \in 1 .. k : Pending(i) => delay(best[k]) <= delay(i)
      BY <1>6, <2>6
    <3>2. CASE /\ Pending(k + 1)
               /\ is_timestamp_before(m_tasks[k + 1].next_ts, m_tasks[best[k]].next_ts)
      <4>1. best[k + 1] = k + 1
        BY <2>4, <3>2
      <4>2. delay(k + 1) <= delay(best[k])
        BY <1>4, <2>1, <3>1, <3>2
      <4>3. \A i \in 1 .. k + 1 : Pending(i) => delay(k + 1) <= delay(i)
        BY <1>3, <2>1, <2>2, <2>3, <3>1, <4>2
      <4> QED BY <2>1, <3>2, <4>1, <4>3
    <3>3. CASE ~/\ Pending(k + 1)
                /\ is_timestamp_before(m_tasks[k + 1].next_ts, m_tasks[best[k]].next_ts)
      <4>1. best[k + 1] = best[k]
        BY <2>4, <2>6, <3>3
      <4>2. Pending(k + 1) => delay(best[k]) <= delay(k + 1)
        BY <1>4, <2>1, <3>1, <3>3
      <4>3. \A i \in 1 .. k + 1 : Pending(i) => delay(best[k]) <= delay(i)
        BY <2>2, <3>1, <4>2
      <4> QED BY <2>1, <2>6, <3>1, <4>1, <4>3
    <3> QED BY <3>2, <3>3
  <2> QED BY <2>5, <2>6
<1> HIDE DEF P
<1>7. 0 .. NTasks \subseteq P
  BY <1>5, <1>6, UpToInduction
<1>8. NTasks \in P
  BY <1>7
<1>9. \A i \in Slots : Pending(i) => delay(next) <= delay(i)
  BY <1>1, <1>8 DEF P, Slots
<1>10. QED
  BY <1>9 DEF delay

(* The end of the range of the callback compares with the clock.           *)
LEMMA LimitNear ==
    ASSUME now \in Nat, RangeCompares
    PROVE  Near(now, get_timestamp(MaxTime))
<1> DEFINE ts == get_timestamp(MaxTime)
<1>1. Ticks(MaxTime) \in Nat /\ Ticks(MaxAge) \in Nat /\ MaxTime \in Nat /\ ~(MaxTime < MaxTime)
  BY TicksBounds
<1>2. 2 * (Ticks(MaxTime) + Ticks(MaxAge)) < CoarseWrap /\ 2 * Ticks(MaxTime) < CoarseWrap
  BY <1>1 DEF RangeCompares
<1>3. ts.is_hp = FALSE /\ Distance(now, ts) = Ticks(MaxTime)
  BY <1>1, <1>2, TimestampAhead
<1>4. Ageing(ts.is_hp) = Ticks(MaxAge) /\ Wrap(ts.is_hp) = CoarseWrap
  BY <1>3 DEF Ageing, Wrap
<1> HIDE DEF ts
<1>5. Near(now, ts)
  BY <1>1, <1>2, <1>3, <1>4 DEF Near
<1>6. QED
  BY <1>5 DEF ts

(* A reselection arms the callback no later than the selected task, and    *)
(* that task comes first.                                                  *)
LEMMA SelectArms ==
    ASSUME RangeCompares, IndInv, AllNear, SelectNext, m_next_task_p' # NULL
    PROVE  /\ m_next_task_p' \in Slots /\ Pending(m_next_task_p')
           /\ armed' # NULL /\ armed'.left \in Int
           /\ \A i \in Slots : Pending(i) =>
                 armed'.left <= get_delay_from_now_us(m_tasks[i].next_ts)
<1>1. TypeOK
  BY DEF IndInv
<1>2. PICK next \in Slots :
         /\ get_next_task_locked(next)
         /\ m_next_task_p' = next
         /\ schedule_task(m_tasks[next])
  BY DEF SelectNext, Reselect
<1>3. Pending(next)
  <2>1. next # NULL
    BY DEF Slots
  <2> QED BY <1>2, <2>1, ScanResult
<1> DEFINE ts == m_tasks[next].next_ts
           limit == get_timestamp(MaxTime)
<1>4. now \in Nat /\ ts \in Timestamps /\ m_tasks[next].exec_time_us + SchedExec \in Nat
  BY <1>1 DEF TypeOK, Tasks
<1>5. Near(now, ts)
  BY <1>3 DEF AllNear
<1>6. limit \in Timestamps /\ Near(now, limit)
  BY <1>4, TimestampType, LimitNear
<1>7. \/ /\ is_timestamp_before(ts, limit)
         /\ setPeriodicCb(get_delay_from_now_us(ts), m_tasks[next].exec_time_us + SchedExec)
      \/ /\ ~is_timestamp_before(ts, limit)
         /\ setPeriodicCb(get_delay_from_now_us(limit), SchedExec)
  BY <1>2 DEF schedule_task
<1>8. /\ \A i \in Slots : Pending(i) =>
            get_delay_from_now_us(ts) <= get_delay_from_now_us(m_tasks[i].next_ts)
  BY <1>1, <1>2, ScanMinimal
<1> HIDE DEF ts, limit
<1>9. get_delay_from_now_us(ts) \in Nat /\ get_delay_from_now_us(limit) \in Nat
  BY <1>4, <1>6, DelayType
<1>10. armed' # NULL /\ armed'.left \in Int /\ armed'.left <= get_delay_from_now_us(ts)
  <2>1. CASE is_timestamp_before(ts, limit)
    <3>1. setPeriodicCb(get_delay_from_now_us(ts), m_tasks[next].exec_time_us + SchedExec)
      BY <1>7, <2>1
    <3>2. armed' # NULL /\ armed'.left = get_delay_from_now_us(ts)
      BY <1>4, <1>9, <3>1, ArmEffect
    <3> QED BY <1>9, <3>2
  <2>2. CASE ~is_timestamp_before(ts, limit)
    <3>1. setPeriodicCb(get_delay_from_now_us(limit), SchedExec)
      BY <1>7, <2>2
    <3>2. armed' # NULL /\ armed'.left = get_delay_from_now_us(limit)
      BY <1>9, <3>1, ArmEffect
    <3>3. get_delay_from_now_us(limit) <= get_delay_from_now_us(ts)
      BY <1>4, <1>5, <1>6, <2>2, BeforeCompares
    <3> QED BY <1>9, <3>2, <3>3
  <2> QED BY <2>1, <2>2
<1>11. \A i \in Slots : get_delay_from_now_us(m_tasks[i].next_ts) \in Nat
  BY <1>1, <1>4, DelayType DEF TypeOK, Tasks
<1>12. QED
  BY <1>2, <1>3, <1>8, <1>9, <1>10, <1>11

LEMMA SelectInTime ==
    ASSUME RangeCompares, IndInv, AllNear, SelectNext
    PROVE  ArmedInTime'
<1>1. TypeOK
  BY DEF IndInv
<1>2. now' = now /\ now \in Nat
  BY <1>1 DEF SelectNext, TypeOK
<1>3. \A i \in Slots :
         /\ Pending(i)' <=> Pending(i)
         /\ Pending(i) => m_tasks'[i].next_ts = m_tasks[i].next_ts
  BY SelectFacts
<1>4. CASE m_next_task_p' = NULL
  <2>1. \A i \in Slots : ~Pending(i)
    BY <1>4, ScanResult DEF SelectNext, Reselect
  <2> QED BY <1>3, <1>4, <2>1 DEF ArmedInTime
<1>5. CASE m_next_task_p' # NULL
  <2>1. /\ m_next_task_p' \in Slots /\ Pending(m_next_task_p')
        /\ armed' # NULL /\ armed'.left \in Int
        /\ \A i \in Slots : Pending(i) =>
              armed'.left <= get_delay_from_now_us(m_tasks[i].next_ts)
    BY <1>5, SelectArms
  <2>2. ASSUME NEW i \in Slots, Pending(i)
        PROVE  /\ armed'.left < Left(now', m_tasks'[i].next_ts) + CoarseTick
               /\ m_tasks'[i].next_ts.is_hp => armed'.left <= Left(now', m_tasks'[i].next_ts)
    <3> DEFINE ts == m_tasks[i].next_ts
    <3>1. ts \in Timestamps /\ m_tasks'[i].next_ts = ts
      BY <1>1, <1>3, <2>2 DEF TypeOK, Tasks
    <3>2. armed'.left <= get_delay_from_now_us(ts)
      BY <2>1, <2>2
    <3> HIDE DEF ts
    <3>3. /\ get_delay_from_now_us(ts) < Left(now, ts) + CoarseTick
          /\ ts.is_hp => get_delay_from_now_us(ts) = Left(now, ts)
          /\ get_delay_from_now_us(ts) \in Nat /\ Left(now, ts) \in Nat
      BY <1>2, <3>1, DelayAndLeft, DelayType, DistanceType
    <3> QED BY <1>2, <2>1, <3>1, <3>2, <3>3
  <2> QED BY <1>3, <2>1, <2>2 DEF ArmedInTime
<1>6. QED
  BY <1>4, <1>5

(* A task added behind the selected one does not need the callback sooner. *)
LEMMA AddInTime ==
    ASSUME DelaysCompare, IndInv, AllNear, ArmedInTime,
           NEW cb \in Func, NEW d \in Delays, NEW e \in ExecTimes,
           App_Scheduler_addTask_execTime(cb, d, e)
    PROVE  ArmedInTime'
<1>1. TypeOK /\ NoLostWakeup
  BY DEF IndInv
<1>2. pc' = pc /\ now' = now /\ m_next_task_p' = m_next_task_p /\ now \in Nat
  BY <1>1 DEF App_Scheduler_addTask_execTime, TypeOK
<1> SUFFICES ASSUME pc \in {"idle", "exit"} PROVE ArmedInTime'
  BY <1>2 DEF ArmedInTime
<1>3. PICK s \in Slots : AddedAt(s, cb, d)
  BY AddFacts
<1>4. TypeOK'
  BY AddStep DEF IndInv
<1>5. \A i \in Slots : m_tasks'[i].next_ts \in Timestamps /\ Left(now, m_tasks'[i].next_ts) \in Nat
  BY <1>2, <1>4, DistanceType DEF TypeOK, Tasks
<1>6. CASE m_force_reschedule' = TRUE /\ armed' # NULL /\ armed'.left <= 0
  <2>1. armed'.left \in Int
    BY <1>4, <1>6 DEF TypeOK
  <2>2. \A i \in Slots : armed'.left < Left(now, m_tasks'[i].next_ts) + CoarseTick
    BY <1>5, <1>6, <2>1
  <2> QED BY <1>2, <1>6, <2>2 DEF ArmedInTime
<1>7. CASE /\ m_force_reschedule' = m_force_reschedule /\ armed' = armed
           /\ m_next_task_p # NULL /\ m_next_task_p # s
           /\ ~is_timestamp_before(get_timestamp(d), m_tasks[m_next_task_p].next_ts)
           /\ ~m_force_reschedule
  <2> DEFINE new == get_timestamp(d)
             sel == m_tasks[m_next_task_p].next_ts
  <2>1. m_next_task_p \in Slots /\ m_tasks'[m_next_task_p] = m_tasks[m_next_task_p]
    BY <1>1, <1>3, <1>7 DEF TypeOK, AddedAt
  <2>2. Pending(m_next_task_p) /\ armed # NULL
    <3>1. Active(m_next_task_p)
      BY <1>7 DEF IndInv, PointerLive
    <3> QED BY <1>1, <1>7, <2>1, <3>1 DEF NoLostWakeup
  <2>3. sel \in Timestamps /\ armed.left \in Int
    BY <1>1, <2>1, <2>2 DEF TypeOK, Tasks
  <2>4. new \in Timestamps /\ Near(now, new) /\ Near(now, sel)
    BY <1>2, <2>1, <2>2, TimestampType, TimestampNear DEF AllNear
  <2>5. /\ armed.left < Left(now, sel) + CoarseTick
        /\ sel.is_hp => armed.left <= Left(now, sel)
    BY <1>7, <2>1, <2>2 DEF ArmedInTime
  <2>6. ~is_timestamp_before(new, sel)
    BY <1>7
  <2> HIDE DEF new, sel
  <2>7. /\ Left(now, sel) \in Nat /\ Left(now, new) \in Nat
        /\ new.is_hp \in BOOLEAN /\ sel.is_hp \in BOOLEAN
        /\ get_delay_from_now_us(new) \in Nat /\ get_delay_from_now_us(sel) \in Nat
        /\ Distance(now, new) \in Int /\ Distance(now, sel) \in Int
    BY <1>2, <2>3, <2>4, DistanceType, DelayType
  <2>8. get_delay_from_now_us(sel) <= get_delay_from_now_us(new)
    BY <1>2, <2>3, <2>4, <2>6, BeforeCompares
  <2>9. /\ Left(now, sel) <= get_delay_from_now_us(sel)
        /\ get_delay_from_now_us(new) < Left(now, new) + CoarseTick
        /\ new.is_hp => get_delay_from_now_us(new) = Left(now, new)
    BY <1>2, <2>3, <2>4, DelayAndLeft
  <2>10. armed.left < Left(now, new) + CoarseTick
    <3>1. CASE new.is_hp
      BY <2>3, <2>5, <2>7, <2>8, <2>9, <3>1
    <3>2. CASE ~new.is_hp /\ sel.is_hp
      BY <2>3, <2>5, <2>7, <2>8, <2>9, <3>2
    <3>3. CASE ~new.is_hp /\ ~sel.is_hp
      <4>1. Distance(now, sel) <= Distance(now, new)
        BY <1>2, <2>3, <2>4, <2>6, <2>7, <3>3, SameKindCompare
      <4> DEFINE x == Distance(now, sel)
                 y == Distance(now, new)
                 r == now % CoarseTick
      <4>2. r \in Int /\ x \in Int /\ y \in Int /\ x <= y
        BY <1>2, <2>7, <4>1
      <4>3. Due(now, sel) = CoarseTick * x - r /\ Due(now, new) = CoarseTick * y - r
        BY <3>3 DEF Due
      <4> HIDE DEF x, y, r
      <4>4. CoarseTick * x <= CoarseTick * y
        BY <4>2
      <4>5. Due(now, sel) <= Due(now, new) /\ Due(now, sel) \in Int /\ Due(now, new) \in Int
        BY <4>2, <4>3, <4>4
      <4>6. Left(now, sel) <= Left(now, new)
        BY <4>5 DEF Left
      <4> QED BY <2>3, <2>5, <2>7, <4>6
    <3> QED BY <2>7, <3>1, <3>2, <3>3
  <2>11. ASSUME NEW i \in Slots, Pending(i)'
         PROVE  armed'.left < Left(now', m_tasks'[i].next_ts) + CoarseTick
    <3>1. CASE i = s
      BY <1>2, <1>3, <1>7, <2>10, <3>1 DEF AddedAt, new
    <3>2. CASE i # s
      <4>1. m_tasks'[i] = m_tasks[i] /\ Pending(i)
        BY <1>3, <2>11, <3>2 DEF AddedAt, Pending, Active
      <4> QED BY <1>2, <1>7, <4>1 DEF ArmedInTime
    <3> QED BY <3>1, <3>2
  <2> QED BY <1>2, <1>7, <2>1, <2>2, <2>5, <2>11 DEF ArmedInTime, sel
<1>8. QED
  <2>1. CASE m_force_reschedule' = TRUE /\ armed' # NULL /\ armed'.left = 0
    BY <1>6, <2>1
  <2>2. CASE /\ m_force_reschedule' = m_force_reschedule /\ armed' = armed
             /\ m_next_task_p # NULL /\ m_next_task_p # s
             /\ ~is_timestamp_before(get_timestamp(d), m_tasks[m_next_task_p].next_ts)
    <3>1. CASE m_force_reschedule
      <4>1. armed # NULL /\ armed.left <= 0 /\ m_force_reschedule = TRUE
        BY <1>1, <3>1 DEF NoLostWakeup, TypeOK
      <4> QED BY <1>6, <2>2, <4>1
    <3>2. CASE ~m_force_reschedule
      BY <1>7, <2>2, <3>2
    <3> QED BY <3>1, <3>2
  <2> QED BY <1>3, <2>1, <2>2 DEF AddedAt

LEMMA InTimeStep ==
    ASSUME DelaysCompare, RangeCompares, IndInv, AllNear, ArmedInTime, [Next]_vars
    PROVE  ArmedInTime'
<1>1. TypeOK /\ PointerLive
  BY DEF IndInv
<1>2. CASE App_Scheduler_init
  <2>1. \A i \in Slots : ~Active(i)'
    BY <1>1, <1>2 DEF TypeOK, Tasks, Active, App_Scheduler_init
  <2> QED BY <1>2, <2>1 DEF App_Scheduler_init, Pending, ArmedInTime
<1>3. ASSUME NEW cb \in Func, App_Scheduler_cancelTask(cb)
      PROVE  ArmedInTime'
  <2>1. m_force_reschedule' = TRUE /\ armed' # NULL /\ armed'.left = 0
    BY <1>3, CancelFacts
  <2>2. TypeOK'
    BY <1>3, CancelStep DEF IndInv
  <2>3. \A i \in Slots : Left(now', m_tasks'[i].next_ts) \in Nat
    BY <2>2, DistanceType DEF TypeOK, Tasks
  <2>4. \A i \in Slots : armed'.left < Left(now', m_tasks'[i].next_ts) + CoarseTick
    BY <2>1, <2>3
  <2> QED BY <2>1, <2>4 DEF ArmedInTime
<1>4. CASE Tick
  <2>1. /\ m_tasks' = m_tasks /\ m_next_task_p' = m_next_task_p /\ pc' = pc
        /\ m_force_reschedule' = m_force_reschedule /\ now' \in Nat
        /\ armed # NULL => armed' # NULL /\ armed'.left = armed.left - 1
        /\ \A i \in Slots : Pending(i) =>
              /\ m_tasks[i].next_ts \in Timestamps
              /\ Due(now', m_tasks[i].next_ts) = Due(now, m_tasks[i].next_ts) - 1
    BY <1>4, TickFacts
  <2> SUFFICES ASSUME pc \in {"idle", "exit"} PROVE ArmedInTime'
    BY <2>1 DEF ArmedInTime
  <2>2. now \in Nat
    BY <1>1 DEF TypeOK
  <2>3. ASSUME NEW i \in Slots, Pending(i)
        PROVE  \/ Left(now', m_tasks[i].next_ts) = Left(now, m_tasks[i].next_ts) - 1
               \/ Left(now', m_tasks[i].next_ts) = Left(now, m_tasks[i].next_ts)
    <3> DEFINE ts == m_tasks[i].next_ts
    <3>1. Due(now, ts) \in Int /\ Due(now', ts) = Due(now, ts) - 1
      BY <2>1, <2>2, <2>3, DistanceType
    <3> QED BY <3>1 DEF Left
  <2>4. ASSUME NEW i \in Slots, Pending(i)
        PROVE  /\ armed # NULL /\ armed' # NULL
               /\ armed'.left < Left(now', m_tasks[i].next_ts) + CoarseTick
               /\ armed.left <= Left(now, m_tasks[i].next_ts)
                     => armed'.left <= Left(now', m_tasks[i].next_ts)
    <3>1. armed # NULL /\ armed.left < Left(now, m_tasks[i].next_ts) + CoarseTick
      BY <2>4 DEF ArmedInTime
    <3>2. armed.left \in Int /\ armed'.left = armed.left - 1 /\ armed' # NULL
      BY <1>1, <2>1, <3>1 DEF TypeOK
    <3>3. Left(now, m_tasks[i].next_ts) \in Nat
      BY <2>1, <2>2, <2>4, DistanceType
    <3> QED BY <2>3, <2>4, <3>1, <3>2, <3>3
  <2>5. \A i \in Slots : Pending(i)' <=> Pending(i)
    BY <2>1 DEF Pending, Active
  <2>6. m_next_task_p # NULL => m_next_task_p \in Slots
    BY <1>1 DEF TypeOK
  <2> QED BY <2>1, <2>4, <2>5, <2>6 DEF ArmedInTime
<1>5. CASE Return \/ UNCHANGED vars
  <2>1. /\ m_tasks' = m_tasks /\ m_next_task_p' = m_next_task_p /\ armed' = armed
        /\ m_force_reschedule' = m_force_reschedule /\ now' = now
        /\ pc' \in {"idle", "exit"} => pc \in {"idle", "exit"}
    BY <1>5 DEF Return, vars, table
  <2> QED BY <2>1 DEF ArmedInTime, Pending, Active
<1>6. CASE SelectNext
  BY <1>6, SelectInTime
<1>7. CASE \/ Fire \/ CheckForce \/ ReadKind \/ TestReady \/ StartTask \/ perform_task_stop
           \/ \E next \in Delays : perform_task_again(next)
  <2>1. pc' \notin {"idle", "exit"}
    BY <1>7 DEF Fire, CheckForce, ReadKind, TestReady, StartTask, perform_task_stop,
                perform_task_again, FinishTask
  <2> QED BY <2>1 DEF ArmedInTime
<1>8. QED
  BY <1>2, <1>3, <1>4, <1>5, <1>6, <1>7, AddInTime DEF Next, Request, periodic_work

(* A precise delay is in the range of the callback, and stays there.       *)
LEMMA RangeStep ==
    ASSUME DelaysCompare, DelaysPrecise, IndInv, AllNear, AllInRange, [Next]_vars
    PROVE  AllInRange'
<1>1. TypeOK
  BY DEF IndInv
<1>2. CASE Tick
  <2>1. now' \in Nat /\ m_tasks' = m_tasks /\ now \in Nat
    BY <1>1, <1>2, TickFacts DEF TypeOK
  <2>2. ASSUME NEW i \in Slots, Pending(i) PROVE InRange(now', m_tasks[i].next_ts)
    <3> DEFINE ts == m_tasks[i].next_ts
    <3>1. ts \in Timestamps /\ Distance(now', ts) <= Distance(now, ts)
      BY <1>2, <2>2, TickFacts
    <3>2. InRange(now, ts)
      BY <2>2 DEF AllInRange
    <3> HIDE DEF ts
    <3>3. Distance(now', ts) \in Int /\ Distance(now, ts) \in Int
      BY <2>1, <3>1, DistanceType
    <3>4. InRange(now', ts)
      BY <3>1, <3>2, <3>3 DEF InRange
    <3> QED BY <3>4 DEF ts
  <2> QED BY <2>1, <2>2 DEF AllInRange, Pending, Active
<1>3. CASE ~Tick
  <2>1. now \in Nat
    BY <1>1 DEF TypeOK
  <2>2. now' = now /\ Dated
    BY <1>3, DatedStep
  <2>3. ASSUME NEW i \in Slots, Pending(i)' PROVE InRange(now', m_tasks'[i].next_ts)
    <3>1. CASE Pending(i) /\ m_tasks'[i].next_ts = m_tasks[i].next_ts
      BY <2>2, <3>1 DEF AllInRange
    <3>2. ASSUME NEW d \in Delays, m_tasks'[i].next_ts = get_timestamp(d)
          PROVE  InRange(now', m_tasks'[i].next_ts)
      <4>1. d \in Nat /\ d < MaxTime
        BY DEF DelaysPrecise
      <4>2. 2 * (d + MaxAge) < HpWrap
        BY <4>1 DEF DelaysCompare
      <4>3. 2 * d < HpWrap
        BY <4>1, <4>2
      <4>4. get_timestamp(d).is_hp = TRUE /\ Distance(now, get_timestamp(d)) = d
        BY <2>1, <4>1, <4>3, TimestampAhead
      <4>5. InRange(now, get_timestamp(d))
        BY <4>1, <4>4 DEF InRange
      <4> QED BY <2>2, <3>2, <4>5
    <3> QED BY <2>2, <2>3, <3>1, <3>2 DEF Dated
  <2> QED BY <2>3 DEF AllInRange
<1>4. QED
  BY <1>2, <1>3

(* so the callback is armed for the task and not for the end of the range. *)
LEMMA SelectReserves ==
    ASSUME DelaysPrecise, IndInv, AllInRange, SelectNext, m_next_task_p' # NULL
    PROVE  /\ armed' # NULL
           /\ armed'.exec = m_tasks'[m_next_task_p'].exec_time_us + SchedExec
<1>1. TypeOK
  BY DEF IndInv
<1>2. PICK next \in Slots :
         /\ get_next_task_locked(next)
         /\ m_next_task_p' = next
         /\ schedule_task(m_tasks[next])
  BY DEF SelectNext, Reselect
<1>3. Pending(next)
  <2>1. next # NULL
    BY DEF Slots
  <2> QED BY <1>2, <2>1, ScanResult
<1> DEFINE ts == m_tasks[next].next_ts
           limit == get_timestamp(MaxTime)
<1>4. now \in Nat /\ ts \in Timestamps /\ m_tasks[next].exec_time_us + SchedExec \in Nat
  BY <1>1 DEF TypeOK, Tasks
<1>5. ts.is_hp /\ Distance(now, ts) < MaxTime /\ 0 < MaxTime
  BY <1>3 DEF AllInRange, InRange
<1>6. /\ limit.is_hp = FALSE /\ Distance(now, limit) = Ticks(MaxTime)
      /\ limit \in Timestamps /\ Ticks(MaxTime) \in Nat /\ MaxTime <= CoarseTick * Ticks(MaxTime)
  <2>1. ~(MaxTime < MaxTime) /\ 2 * Ticks(MaxTime) < CoarseWrap
    BY DEF DelaysPrecise
  <2> QED BY <1>4, <2>1, TimestampAhead, TimestampType, TicksBounds
<1>7. setPeriodicCb(get_delay_from_now_us(ts), m_tasks[next].exec_time_us + SchedExec)
         \/ ~is_timestamp_before(ts, limit)
  BY <1>2 DEF schedule_task
<1> HIDE DEF ts, limit
<1>8. is_timestamp_before(ts, limit)
  <2>1. Distance(now, ts) \in Int
    BY <1>4, DistanceType
  <2>2. get_delay_from_now_us(ts) < MaxTime /\ get_delay_from_now_us(ts) \in Nat
    BY <1>4, <1>5, <2>1, DelayIs, DelayType
  <2>3. get_delay_from_now_us(limit) = CoarseTick * Ticks(MaxTime)
    BY <1>4, <1>6, DelayIs
  <2>4. CoarseTick * Ticks(MaxTime) \in Nat
    BY <1>6
  <2>5. get_delay_from_now_us(ts) < get_delay_from_now_us(limit)
    BY <1>6, <2>2, <2>3, <2>4
  <2> QED BY <1>5, <1>6, <2>5 DEF is_timestamp_before
<1>9. armed' = [left |-> get_delay_from_now_us(ts),
                exec |-> m_tasks[next].exec_time_us + SchedExec]
  BY <1>7, <1>8 DEF setPeriodicCb
<1>10. armed' # NULL /\ armed'.exec = m_tasks[next].exec_time_us + SchedExec
  <2>1. get_delay_from_now_us(ts) \in Int
    BY <1>4, DelayType
  <2>2. armed' \in [left : Int, exec : Nat]
    BY <1>4, <1>9, <2>1
  <2> QED BY <1>9, <2>2
<1>11. m_tasks'[next].exec_time_us = m_tasks[next].exec_time_us
  BY <1>3, SelectFacts
<1>12. QED
  BY <1>2, <1>10, <1>11

LEMMA ReservedStep ==
    ASSUME DelaysPrecise, IndInv, AllNear, AllInRange, TimeReserved, [Next]_vars
    PROVE  TimeReserved'
<1>1. TypeOK /\ PointerLive /\ NoLostWakeup
  BY DEF IndInv
<1>2. CASE App_Scheduler_init
  BY <1>2 DEF App_Scheduler_init, TimeReserved
<1>3. ASSUME Request, m_next_task_p # NULL, pc # "select" PROVE TimeReserved'
  <2>1. /\ m_next_task_p' = m_next_task_p /\ pc' = pc /\ granted' = granted
        /\ m_next_task_p \in Slots
        /\ m_tasks'[m_next_task_p].exec_time_us = m_tasks[m_next_task_p].exec_time_us
    BY <1>3, SelectedKept
  <2>2. \/ m_force_reschedule' = TRUE
        \/ m_force_reschedule' = m_force_reschedule /\ armed' = armed
    BY <1>3 DEF Request, App_Scheduler_addTask_execTime, App_Scheduler_cancelTask,
                RequestReschedule
  <2> QED BY <2>1, <2>2 DEF TimeReserved, Enough
<1>4. CASE Request /\ (m_next_task_p = NULL \/ pc = "select")
  <2>1. m_next_task_p' = m_next_task_p /\ pc' = pc
    BY <1>4 DEF Request, App_Scheduler_addTask_execTime, App_Scheduler_cancelTask
  <2> QED BY <1>4, <2>1 DEF TimeReserved
<1>5. CASE Tick
  <2>1. /\ m_tasks' = m_tasks /\ m_next_task_p' = m_next_task_p /\ pc' = pc
        /\ m_force_reschedule' = m_force_reschedule /\ granted' = granted
        /\ armed # NULL => armed' # NULL /\ armed'.exec = armed.exec
    BY <1>5, TickFacts
  <2> QED BY <2>1 DEF TimeReserved, Enough
<1>6. CASE Fire
  BY <1>6 DEF Fire, table, TimeReserved, Enough
<1>7. CASE CheckForce \/ ReadKind \/ TestReady \/ StartTask
  BY <1>7 DEF CheckForce, ReadKind, TestReady, StartTask, table, TimeReserved, Enough
<1>8. CASE perform_task_stop \/ \E next \in Delays : perform_task_again(next)
  <2>1. pc' = "select"
    BY <1>8 DEF perform_task_stop, perform_task_again, FinishTask
  <2> QED BY <2>1 DEF TimeReserved
<1>9. CASE SelectNext
  <2>1. pc' = "exit"
    BY <1>9 DEF SelectNext
  <2>2. CASE m_next_task_p' = NULL
    BY <2>2 DEF TimeReserved
  <2>3. CASE m_next_task_p' # NULL
    <3>1. /\ armed' # NULL
          /\ armed'.exec = m_tasks'[m_next_task_p'].exec_time_us + SchedExec
      BY <1>9, <2>3, SelectReserves
    <3>2. TypeOK'
      BY <1>9, SelectStep DEF IndInv
    <3>3. m_tasks'[m_next_task_p'].exec_time_us \in Nat
      BY <2>3, <3>2 DEF TypeOK, Tasks
    <3>4. Enough(armed.exec)'
      BY <3>1, <3>3 DEF Enough
    <3> QED BY <2>1, <3>1, <3>4 DEF TimeReserved
  <2> QED BY <2>2, <2>3
<1>10. CASE Return \/ UNCHANGED vars
  BY <1>10 DEF Return, vars, table, TimeReserved, Enough
<1>11. QED
  BY <1>2, <1>3, <1>4, <1>5, <1>6, <1>7, <1>8, <1>9, <1>10 DEF Next, periodic_work

-----------------------------------------------------------------------------
(* The theorems on time.                                                   *)

LEMMA TimeInit ==
    ASSUME Init
    PROVE  AllNear /\ TestedDue /\ ArmedInTime /\ AllInRange /\ TimeReserved
<1>1. \A i \in Slots : ~Pending(i)
  BY DEF Init, FreeSlot, Pending, Active
<1>2. now < ClockWrap
  BY DEF Init, ClockWrap
<1>3. m_next_task_p = NULL /\ pc = "idle"
  BY DEF Init
<1>4. QED
  BY <1>1, <1>2, <1>3 DEF AllNear, TestedDue, ArmedInTime, AllInRange, TimeReserved

(* With delays that compare with the clock, every pending timestamp does,  *)
(* for as long as tasks are served before they reach MaxAge: the circular  *)
(* comparisons of is_timestamp_before() and get_delay_from_now_us() never  *)
(* take a passed time for a coming one.                                    *)
THEOREM TimestampsCompare == DelaysCompare => (Spec => []AllNear)
<1> SUFFICES ASSUME DelaysCompare PROVE Spec => []AllNear
  OBVIOUS
<1>1. Init => AllNear
  BY TimeInit
<1>2. IndInv /\ AllNear /\ [Next]_vars => AllNear'
  BY NearStep
<1>3. QED
  BY <1>1, <1>2, SchedulerInvariant, PTL DEF Spec

(* No task is executed early: one that nobody updated or cancelled since   *)
(* it was selected is due when perform_task() takes it up.                 *)
THEOREM TasksNeverEarly == DelaysCompare => (Spec => []NeverEarly)
<1> SUFFICES ASSUME DelaysCompare PROVE Spec => []NeverEarly
  OBVIOUS
<1>1. Init => TestedDue
  BY TimeInit
<1>2. IndInv /\ AllNear /\ TestedDue /\ [Next]_vars => TestedDue'
  BY TestedStep
<1>3. IndInv /\ TestedDue => NeverEarly
  <2> SUFFICES ASSUME IndInv, TestedDue, pc = "perform", Untouched(m_tasks[m_next_task_p])
               PROVE  get_delay_from_now_us(m_tasks[m_next_task_p].next_ts) = 0
    BY DEF NeverEarly
  <2> DEFINE ts == m_tasks[m_next_task_p].next_ts
  <2>1. now \in Nat /\ ts \in Timestamps
    BY DEF IndInv, PointerLive, TypeOK, Tasks
  <2>2. Distance(now, ts) <= 0
    BY DEF TestedDue
  <2> HIDE DEF ts
  <2>3. Distance(now, ts) \in Int
    BY <2>1, DistanceType
  <2>4. get_delay_from_now_us(ts) = 0
    <3>1. CASE Distance(now, ts) < 0
      BY <2>1, <3>1, DelayIs
    <3>2. CASE Distance(now, ts) = 0
      <4>1. CoarseTick * 0 = 0
        OBVIOUS
      <4> QED BY <2>1, <3>2, <4>1, DelayIs
    <3> QED BY <2>2, <2>3, <3>1, <3>2
  <2> QED BY <2>4 DEF ts
<1>4. Spec => []AllNear
  BY TimestampsCompare
<1>5. QED
  BY <1>1, <1>2, <1>3, <1>4, SchedulerInvariant, PTL DEF Spec

(* The periodic callback is armed in time for every pending task, whatever *)
(* the kinds of the timestamps that were compared to select one.           *)
THEOREM WakeupsInTime == DelaysCompare /\ RangeCompares => (Spec => []WakeupInTime)
<1> SUFFICES ASSUME DelaysCompare, RangeCompares PROVE Spec => []WakeupInTime
  OBVIOUS
<1>1. Init => ArmedInTime
  BY TimeInit
<1>2. IndInv /\ AllNear /\ ArmedInTime /\ [Next]_vars => ArmedInTime'
  BY InTimeStep
<1>3. IndInv /\ ArmedInTime => WakeupInTime
  <2> SUFFICES ASSUME IndInv, ArmedInTime, pc \in {"idle", "exit"}, NEW i \in Slots, Pending(i)
               PROVE  /\ armed # NULL
                      /\ armed.left < get_delay_from_now_us(m_tasks[i].next_ts) + CoarseTick
    BY DEF WakeupInTime
  <2> DEFINE ts == m_tasks[i].next_ts
  <2>1. now \in Nat /\ ts \in Timestamps
    BY DEF IndInv, TypeOK, Tasks
  <2>2. armed # NULL /\ armed.left < Left(now, ts) + CoarseTick
    BY DEF ArmedInTime
  <2>3. armed.left \in Int
    BY <2>2 DEF IndInv, TypeOK
  <2> HIDE DEF ts
  <2>4. /\ Left(now, ts) <= get_delay_from_now_us(ts)
        /\ Left(now, ts) \in Nat /\ get_delay_from_now_us(ts) \in Nat
    BY <2>1, DelayAndLeft, DistanceType, DelayType
  <2>5. armed.left < get_delay_from_now_us(ts) + CoarseTick
    BY <2>2, <2>3, <2>4
  <2> QED BY <2>2, <2>5 DEF ts
<1>4. Spec => []AllNear
  BY TimestampsCompare
<1>5. QED
  BY <1>1, <1>2, <1>3, <1>4, SchedulerInvariant, PTL DEF Spec

(* When every delay is below the range of the callback, a task runs in a   *)
(* slot of the stack long enough for it: the execution time granted is the *)
(* one asked for when it was selected, whatever is requested meanwhile.    *)
THEOREM TimeIsReserved == DelaysCompare /\ DelaysPrecise => (Spec => []ReservedTime)
<1> SUFFICES ASSUME DelaysCompare, DelaysPrecise PROVE Spec => []ReservedTime
  OBVIOUS
<1>1. Init => AllInRange /\ TimeReserved
  BY TimeInit
<1>2. IndInv /\ AllNear /\ AllInRange /\ [Next]_vars => AllInRange'
  BY RangeStep
<1>3. IndInv /\ AllNear /\ AllInRange /\ TimeReserved /\ [Next]_vars => TimeReserved'
  BY ReservedStep
<1>4. IndInv /\ TimeReserved => ReservedTime
  BY DEF IndInv, PointerLive, TimeReserved, Enough, ReservedTime
<1>5. Spec => []AllNear
  BY TimestampsCompare
<1>6. QED
  BY <1>1, <1>2, <1>3, <1>4, <1>5, SchedulerInvariant, PTL DEF Spec
=============================================================================
